SPECIFICATION Spec
CONSTANTS
    kNodeIdSize = 8
    Peer <- MCPeer
    Name <- MCName
    PeerOf <- MCPeerOf
    NoPeer <- MCNoPeer
    MaxClicks = 2
    MaxWrites = 1
    MaxReceives = 1
CHECK_DEADLOCK FALSE
INVARIANTS
    TypeOK
    ViewIsOneChat
    SettledViewIsFresh
    ReaderSeesActiveChat
    SenderIsListed
PROPERTIES
    EventsSettle
