SPECIFICATION Spec
CONSTANTS
    kNodeIdSize = 4
    kBucketLimit = 2
    a1 = a1
    a2 = a2
    Address = {a1, a2}
    owner_id <- MCOwner
    Peer <- MCPeer
    AddressOf <- MCAddressOf
INVARIANTS
    TypeOK
    BucketsWithinLimit
    OverflowOnlyFromFull
    NoDuplicateInBucket
    HeardIsFound
    NearestInAnswer
    ShortAnswerIsComplete
PROPERTIES
    FullBucketFreezesAnswers
