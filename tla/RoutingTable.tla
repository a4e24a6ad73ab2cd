--------------------------- MODULE RoutingTable ---------------------------
(***************************************************************************)
(* One RoutingTable object over its whole life.  Node calls storeNode for  *)
(* the sender of every datagram and for every node nested in a FIND_NODE   *)
(* or FIND_VALUE answer, in any order; findNode and findKNodes only read.  *)
(***************************************************************************)
EXTENDS KBuckets

CONSTANTS
    owner_id,          \* owner_id_
    Peer,              \* the ids that datagrams carry
    AddressOf          \* the addresses each of them is heard at

ASSUME RoutingTableAssumption ==
    /\ owner_id \in Id /\ Peer \subseteq Id
    /\ AddressOf \in [Peer -> SUBSET Address]

VARIABLES
    k_buckets,         \* k_buckets_
    heard              \* history: the ids storeNode was ever called with

vars == <<k_buckets, heard>>

Init ==
    /\ k_buckets = EmptyBuckets
    /\ heard = {}

storeNode(id, a) ==
    /\ k_buckets' = StoreNode(k_buckets, owner_id, [node_id |-> id, address |-> a])
    /\ heard' = heard \cup {id}

Next == \E id \in Peer : \E a \in AddressOf[id] : storeNode(id, a)

Spec == Init /\ [][Next]_vars

----------------------------------------------------------------------------
findNode(id) == FindNode(k_buckets, owner_id, id)

findKNodes(id) == FindKNodes(k_buckets, owner_id, id)

HomeBucket(id) == k_buckets[Home(owner_id, id)]

\* The state is well typed.
TypeOK ==
    /\ k_buckets \in KBuckets
    /\ heard \subseteq Peer

(***************************************************************************)
(* storeNode never makes a bucket larger than kBucketLimit.  findKNodes    *)
(* relies on it: its early return compares with ==, not with >=.           *)
(***************************************************************************)
BucketsWithinLimit == \A i \in Bits : Len(k_buckets[i]) <= kBucketLimit

(***************************************************************************)
(* A node sits below its home bucket only as overflow: every bucket that   *)
(* comes before it in storeNode's scan is full, and stays full.            *)
(***************************************************************************)
OverflowOnlyFromFull ==
    \A i \in Bits : \A p \in DOMAIN k_buckets[i] :
        LET d == Xor(k_buckets[i][p].node_id, owner_id)
        IN  i \in d /\ \A j \in d : j > i => IsFull(k_buckets[j])

(***************************************************************************)
(* eraseDuplicate keeps the ids of one bucket distinct over any sequence   *)
(* of repeated stores.                                                     *)
(***************************************************************************)
NoDuplicateInBucket ==
    \A i \in Bits : \A p, q \in DOMAIN k_buckets[i] :
        k_buckets[i][p].node_id = k_buckets[i][q].node_id => p = q

(***************************************************************************)
(* A node that was ever heard of is found by findNode (so it can be        *)
(* answered) unless its home bucket is full: nothing that happens to other *)
(* nodes evicts it.                                                        *)
(***************************************************************************)
HeardIsFound ==
    \A id \in heard \ {owner_id} :
        findNode(id) # {} \/ IsFull(HomeBucket(id))

(***************************************************************************)
(* A node once found stays found, and once its home bucket is full its     *)
(* answer, address included, never changes again: a peer that moves to     *)
(* another address is answered at the old one for ever.                    *)
(***************************************************************************)
AnswersFreeze ==
    \A id \in Peer \ {owner_id} :
        /\ findNode(id) # {} => findNode(id)' # {}
        /\ IsFull(HomeBucket(id)) => findNode(id)' = findNode(id)

\* No step of the table breaks AnswersFreeze.
FullBucketFreezesAnswers == [][AnswersFreeze]_vars

(***************************************************************************)
(* When the home bucket of a target holds a node homed in it, the answer   *)
(* has a node as near to the target as any that findNode knows, whatever   *)
(* the early return, the widening and the truncation do to the others.  So *)
(* a lookup for a known peer ends with that peer.                          *)
(***************************************************************************)
NearestInAnswer ==
    \A t \in Peer \ {owner_id} :
        (\E p \in DOMAIN HomeBucket(t) :
            Home(owner_id, HomeBucket(t)[p].node_id) = Home(owner_id, t)) =>
        LET known == {y \in Peer : findNode(y) # {}}
        IN  \E x \in Ids(findKNodes(t)) :
                \A y \in known \ {x} : CloserTo(t, x, y)

(***************************************************************************)
(* An answer shorter than kBucketLimit leaves nobody out except nodes of   *)
(* bucket 0, which the widening loop can miss.                             *)
(***************************************************************************)
ShortAnswerIsComplete ==
    \A t \in Peer : Len(findKNodes(t)) < kBucketLimit =>
        \A i \in Bits \ {0} : Ids(k_buckets[i]) \subseteq Ids(findKNodes(t))

============================================================================
