SPECIFICATION Spec
CONSTANTS
    ann = ann
    bill = bill
    t1 = t1
    t2 = t2
    t3 = t3
    t4 = t4
    Text = {t1, t2, t3, t4}
    PeerOf <- MCPeerOf
    Status = {0, 1}
    Key = {k1}
    utf8 = utf8
    bytes = bytes
    garbled = garbled
    Value = {utf8, bytes}
    fromStdString <- MCfromStdString
    MaxId = 3
SYMMETRY Texts
INVARIANTS
    TypeOK
    HeldIdsAreRight
PROPERTIES
    ImplementsChatBook
