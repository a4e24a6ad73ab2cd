SPECIFICATION Spec
CONSTANTS
    alice = alice
    bob = bob
    tool = tool
    d1 = d1
    d2 = d2
    p1337 = p1337
    p1338 = p1338
    h0 = h0
    h1337 = h1337
    h1338 = h1338
    Process = {alice, bob, tool}
    Dir = {d1, d2}
    DirOf <- MCDirOf
    Tool = {tool}
    Port <- MCPort
    NoPort = NoPort
    Digest <- MCDigest
    NoId = NoId
    Torn = Torn
    Zero = Zero
INVARIANTS
    TypeOK
    OneIdentity
    IdIsPort
PROPERTIES
    SavedIdSurvives
