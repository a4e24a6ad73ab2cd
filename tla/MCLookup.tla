----------------------------- MODULE MCLookup -----------------------------
(***************************************************************************)
(* Lookup with 3-bit ids and K = 3.  The task starts from what findKNodes  *)
(* answers after any sequence of up to MaxHeard stores: empty, unsorted (a *)
(* full home bucket) and duplicated lists are among them.  Two peers hold  *)
(* the value, one the nearest to the target, one the farthest.             *)
(***************************************************************************)
EXTENDS Lookup

CONSTANT MaxHeard

MCOwner == {}
MCTarget == {1}
MCPeer == {{}, {1}, {0, 1}, {1, 2}, {0, 1, 2}, {0, 2}, {0}}
MCHolder == {{1}, {0, 2}}

MCStartList ==
    LET entries == [node_id : MCPeer, address : Address]
        Table(s) == StoreNodes(EmptyBuckets, MCOwner, s)
    IN  {FindKNodes(Table(s), MCOwner, MCTarget) : s \in BoundedSeq(entries, MaxHeard)}
============================================================================
