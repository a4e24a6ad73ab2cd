SPECIFICATION Spec
CONSTANTS
    kNodeIdSize = 8
    Peer <- MCPeer
    Name <- MCIds
    PeerOf <- MCIdOf
    NoPeer <- MCNoPeer
    MaxClicks = 2
    MaxWrites = 1
    MaxReceives = 0
CHECK_DEADLOCK FALSE
INVARIANTS
    ActiveChatIsShown
