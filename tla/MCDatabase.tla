---------------------------- MODULE MCDatabase ----------------------------
(***************************************************************************)
(* Three texts for one peer and one for another: callers that add one      *)
(* contact at the same time, or late, when its chat holds two texts; and   *)
(* ids of one peer that could come to mean the other.  Of two values one   *)
(* is not UTF-8.                                                           *)
(***************************************************************************)
EXTENDS Database, TLC

CONSTANTS ann, bill, t1, t2, t3, t4, utf8, bytes, garbled

MCfromStdString == [value \in {utf8, bytes} |-> IF value = bytes THEN garbled ELSE value]

MCPeerOf == [t \in {t1, t2, t3, t4} |-> IF t = t4 THEN bill ELSE ann]

\* The texts for ann are interchangeable.
Texts == Permutations({t1, t2, t3})
============================================================================
