SPECIFICATION Spec
CONSTANTS
    kNodeIdSize = 3
    kBucketLimit = 2
    kParallelismLimit = 2
    Node <- MCNodes
    Address <- MCNodes
    Boot <- MCBoot
    Key <- MCKey
    Holder <- MCHolder
    Scenario <- MCScenario
INVARIANTS
    TypeOK
    TasksMatchMap
    OnlyPeerAnswers
    BootstrapIsMutual
    LookupsDiscover
    ValueFailureIsHonest
PROPERTIES
    TasksOnlyProgress
    RequestsSettle
