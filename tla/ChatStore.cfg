SPECIFICATION Spec
CONSTANTS
    Node = {n1, n2}
    hello = hello
    hi = hi
    delayed = delayed
    garbled = garbled
    Text <- MCText
    Typed <- MCTyped
    Parseable <- MCParseable
    fromStdString <- MCfromStdString
    Limit = 2
    MaxSends = 2
    MaxStored = 3
CHECK_DEADLOCK FALSE
SYMMETRY Peers
INVARIANTS
    TypeOK
    AckedIsKept
    BothEndsAgree
    AnnouncedIsFetched
