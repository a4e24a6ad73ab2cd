------------------------------ MODULE MCChat ------------------------------
(***************************************************************************)
(* Two peers with ids of two digits; the second may also be entered in     *)
(* lower case, and the field may be left empty.                            *)
(***************************************************************************)
EXTENDS Chat, HexCodec, TLC

MCPeer == {<<"A", "B">>, <<"C", "D">>}
MCNoPeer == << >>
MCName == MCPeer \cup {<<"c", "d">>, MCNoPeer}
MCPeerOf == [name \in MCName \ {MCNoPeer} |-> bitsetToHex(hexToBitset(name))]

\* No other spelling: two chats are two peers.
MCIds == MCPeer \cup {MCNoPeer}
MCIdOf == [p \in MCPeer |-> p]

\* The codec on every id and on every string of at most three characters of
\* each kind, one more than fits.
ASSUME CodecAssumption ==
    \A b \in Id, hex_str \in BoundedSeq({"0", "9", "A", "F", "a", "f", "x"}, 3) :
        RoundTrip(b, hex_str)
============================================================================
