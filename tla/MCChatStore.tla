---------------------------- MODULE MCChatStore ----------------------------
(***************************************************************************)
(* Two peers and the three kinds of value: a typed text that does not      *)
(* parse as a DelayedChatMessage, one that does ("hi"), and the bytes of a *)
(* DelayedChatMessage, which are not UTF-8.                                *)
(***************************************************************************)
EXTENDS ChatStore, TLC

CONSTANTS hello, hi, delayed, garbled

MCText == {hello, hi, delayed}
MCTyped == {hello, hi}
MCParseable == {hi, delayed}
MCfromStdString == [text \in MCText |-> IF text = delayed THEN garbled ELSE text]

\* The peers are interchangeable.
Peers == Permutations(Node)
============================================================================
