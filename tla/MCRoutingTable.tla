-------------------------- MODULE MCRoutingTable --------------------------
(***************************************************************************)
(* RoutingTable with two places per bucket.  The owner is 0: the code only *)
(* uses distances to it.                                                   *)
(***************************************************************************)
EXTENDS RoutingTable

CONSTANTS a1, a2

MCOwner == {}

\* 4-bit ids: three homed in bucket 3, two in bucket 2, one in each other.
MCPeer == {{}, {3}, {0, 3}, {1, 2, 3}, {2}, {0, 2}, {1}, {0}}

\* One of the first three moves between two addresses.
MCAddressOf == [id \in MCPeer |-> IF id = {0, 3} THEN {a1, a2} ELSE {a1}]
============================================================================
