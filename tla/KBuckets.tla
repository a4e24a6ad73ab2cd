----------------------------- MODULE KBuckets -----------------------------
(***************************************************************************)
(* The operations of RoutingTable (src/Kademlia/src/routing_table.cpp) as  *)
(* operators on the value of its k_buckets_ array.  `owner' is owner_id_.  *)
(* Module RoutingTable makes a state machine of them, module Node gives    *)
(* one such array to every node.                                           *)
(***************************************************************************)
EXTENDS NodeId, Integers, Sequences, SequencesExt

CONSTANTS
    kBucketLimit,      \* K: capacity of a bucket and size of an answer
    Address            \* values of the ip_address_ and port_ of a NodeEntry

ASSUME KBucketsAssumption == kBucketLimit \in Nat \ {0}

NodeEntry == [node_id : Id, address : Address]

KBuckets == [Bits -> Seq(NodeEntry)]

(***************************************************************************)
(* Names ending in _ and a fault, here and in the other modules, are       *)
(* variants of the definition that follows them with a bug seeded in it;   *)
(* README.md says which property tells each from the code.                 *)
(***************************************************************************)
EmptyBuckets_ExtraBucket == [i \in 0 .. kNodeIdSize |-> << >>]

EmptyBuckets == [i \in Bits |-> << >>]

Positions(bucket, id) == {p \in DOMAIN bucket : bucket[p].node_id = id}

Ids(bucket) == {bucket[p].node_id : p \in DOMAIN bucket}

IsFull_OffByOne(bucket) == Len(bucket) > kBucketLimit

IsFull(bucket) == Len(bucket) >= kBucketLimit

Refresh_NoErase(bucket, n) == Append(bucket, n)

(***************************************************************************)
(* eraseDuplicate and the push_back after it: an entry with the same id    *)
(* moves to the end with the new address, except that one already at the   *)
(* end keeps the address it has.                                           *)
(***************************************************************************)
Refresh(bucket, n) ==
    LET same == Positions(bucket, n.node_id)
    IN  IF same = {}                     THEN Append(bucket, n)
        ELSE IF Min(same) = Len(bucket)  THEN bucket
        ELSE Append(RemoveAt(bucket, Min(same)), n)

(***************************************************************************)
(* storeNode: the highest set bit of the distance whose bucket has room    *)
(* takes the node, whether or not a higher, full bucket holds it already.  *)
(* Without room in any of them the node is dropped.                        *)
(***************************************************************************)
OpenBuckets(t, owner, id) == {i \in Xor(id, owner) : ~ IsFull(t[i])}

StoreNode_LowestFirst(t, owner, n) ==
    LET open == OpenBuckets(t, owner, n.node_id)
    IN  IF open = {} THEN t ELSE [t EXCEPT ![Min(open)] = Refresh(@, n)]

StoreNode_EvictsOldest(t, owner, n) ==
    IF n.node_id = owner THEN t
    ELSE [t EXCEPT ![HighestBit(Xor(n.node_id, owner))] =
             IF IsFull(@) THEN Append(Tail(@), n) ELSE Refresh(@, n)]

StoreNode(t, owner, n) ==
    LET open == OpenBuckets(t, owner, n.node_id)
    IN  IF open = {} THEN t ELSE [t EXCEPT ![Max(open)] = Refresh(@, n)]

\* Several entries of one message, in the order they are stored.
StoreNodes(t, owner, ns) ==
    FoldLeft(LAMBDA u, n : StoreNode(u, owner, n), t, ns)

\* findNode: the first entry of that id in its home bucket, as a set of at
\* most one element (the optional).
FindNode(t, owner, id) ==
    IF id = owner THEN {}
    ELSE LET home == t[HighestBit(Xor(id, owner))]
             same == Positions(home, id)
         IN  IF same = {} THEN {} ELSE {home[Min(same)]}

(***************************************************************************)
(* findKNodes.  Widened(t, home)[r] is found_nodes after r rounds of the   *)
(* widening loop; left_edge = home - 1 - r and right_edge = home + 1 + r   *)
(* are its edges then.  The loop gives up on left_edge = 0 as soon as      *)
(* right_edge is past the end.                                             *)
(***************************************************************************)
Home(owner, id) == IF id = owner THEN -1 ELSE HighestBit(Xor(id, owner))

Widened(t, home) ==
    LET At(i) == IF i \in Bits THEN t[i] ELSE << >>
        w[r \in 0 .. kNodeIdSize] ==
            IF r = 0 THEN At(home) ELSE w[r - 1] \o At(home - r) \o At(home + r)
    IN  w

WideningEnds_FirstEdge(found, home, r) ==
    \/ Len(found) >= kBucketLimit
    \/ home - 1 - r <= 0
    \/ home + 1 + r >= kNodeIdSize

WideningEnds(found, home, r) ==
    \/ Len(found) >= kBucketLimit
    \/ home - 1 - r <= 0 /\ home + 1 + r >= kNodeIdSize

NearestFirst_Reversed(found, id) ==
    SortSeq(found, LAMBDA a, b : CloserTo(id, b.node_id, a.node_id))

\* std::sort with CloserTo: the place of an entry is after all that precede it.
\* Entries of one id, whose order std::sort leaves open, keep theirs.
NearestFirst(found, id) ==
    LET Before(p, q) ==
            \/ CloserTo(id, found[p].node_id, found[q].node_id)
            \/ found[p].node_id = found[q].node_id /\ p < q
        Place(p) == Cardinality({q \in DOMAIN found : Before(q, p)}) + 1
        places == {<<Place(p), p>> : p \in DOMAIN found}
    IN  [i \in DOMAIN found |-> found[(CHOOSE o \in places : o[1] = i)[2]]]

FindKNodes(t, owner, id) ==
    LET home   == Home(owner, id)
        w      == Widened(t, home)
        rounds == Min({r \in 0 .. kNodeIdSize : WideningEnds(w[r], home, r)})
        sorted == NearestFirst(w[rounds], id)
    IN  IF Len(w[0]) = kBucketLimit THEN w[0]
        ELSE SubSeq(sorted, 1, Min({kBucketLimit, Len(sorted)}))
============================================================================
