SPECIFICATION Spec
CONSTANTS
    kNodeIdSize = 3
    kBucketLimit = 3
    kParallelismLimit = 2
    Address = {a1}
    MaxHeard = 4
    owner_id <- MCOwner
    target_id <- MCTarget
    Peer <- MCPeer
    Holder <- MCHolder
    StartList <- MCStartList
CHECK_DEADLOCK FALSE
INVARIANTS
    TypeOK
    ActiveCountsPending
    ResultIsNearestLearned
    ResultWasAsked
    DataIsReported
PROPERTIES
    ImplementsLookup
