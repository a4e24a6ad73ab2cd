------------------------ MODULE RoutingTableProofs ------------------------
(***************************************************************************)
(* The invariants of RoutingTable for every width of the ids, every        *)
(* kBucketLimit and every set of peers and addresses.                      *)
(***************************************************************************)
EXTENDS RoutingTable, LookupTaskProofs

Inv ==
    /\ TypeOK
    /\ BucketsWithinLimit
    /\ OverflowOnlyFromFull
    /\ NoDuplicateInBucket
    /\ HeardIsFound

\* findNode finds an id exactly when its home bucket has it, and its answer
\* depends on nothing but that bucket.
LEMMA FindNodeHome ==
    ASSUME NEW t, NEW id \in Id \ {owner_id}
    PROVE  /\ FindNode(t, owner_id, id) # {} <=>
                id \in Ids(t[HighestBit(Xor(id, owner_id))])
           /\ Home(owner_id, id) = HighestBit(Xor(id, owner_id))
           /\ HighestBit(Xor(id, owner_id)) \in Bits
  <1> DEFINE b == t[HighestBit(Xor(id, owner_id))]
  <1>1. id # owner_id /\ id \in Id /\ owner_id \in Id
    BY RoutingTableAssumption
  <1>2. Positions(b, id) # {} <=> id \in Ids(b)
    BY DEF Positions, Ids
  <1>3. FindNode(t, owner_id, id) # {} <=> Positions(b, id) # {}
    BY <1>1 DEF FindNode
  <1>4. HighestBit(Xor(id, owner_id)) \in Bits
    BY <1>1, XorType, HighestBitExists DEF Id
  <1> QED
    BY <1>1, <1>2, <1>3, <1>4 DEF Home

(***************************************************************************)
(* Of two nodes the one with the home bucket of the target is nearer to    *)
(* it: it agrees with the target from that bit up, and the other does not. *)
(***************************************************************************)
LEMMA SameHomeIsNearer ==
    ASSUME NEW t \in Id \ {owner_id}, NEW z \in Id \ {owner_id}, NEW y \in Id \ {owner_id},
           Home(owner_id, z) = Home(owner_id, t), Home(owner_id, y) # Home(owner_id, t)
    PROVE  CloserTo(t, z, y)
  <1> DEFINE dz == Xor(z, t)
             dy == Xor(y, t)
             h == HighestBit(Xor(t, owner_id))
             g == HighestBit(Xor(y, owner_id))
             top == HighestBit(dy)
  <1>1. owner_id \in Id /\ t \in Id /\ z \in Id /\ y \in Id
    BY RoutingTableAssumption
  <1>2. HighestBit(Xor(z, owner_id)) = h /\ g # h
    BY DEF Home
  <1>3. \A a \in Id \ {owner_id} :
           /\ Xor(a, owner_id) \in SUBSET Bits
           /\ HighestBit(Xor(a, owner_id)) \in Xor(a, owner_id)
           /\ \A i \in Xor(a, owner_id) : HighestBit(Xor(a, owner_id)) >= i
    BY <1>1, XorType, HighestBitExists DEF Id
  <1>4. /\ h \in Xor(t, owner_id) /\ \A i \in Xor(t, owner_id) : h >= i
        /\ h \in Xor(z, owner_id) /\ \A i \in Xor(z, owner_id) : h >= i
        /\ g \in Xor(y, owner_id) /\ \A i \in Xor(y, owner_id) : g >= i
        /\ h \in Bits /\ g \in Bits
    <2> HIDE DEF h, g
    <2> QED
      BY <1>2, <1>3 DEF h, g
  <1>5. Bits \subseteq Nat
    BY NodeIdAssumption DEF Bits
  <1>6. \A i : /\ i \in dz <=> (i \in z <=> i \notin t)
               /\ i \in dy <=> (i \in y <=> i \notin t)
               /\ i \in Xor(t, owner_id) <=> (i \in t <=> i \notin owner_id)
               /\ i \in Xor(z, owner_id) <=> (i \in z <=> i \notin owner_id)
               /\ i \in Xor(y, owner_id) <=> (i \in y <=> i \notin owner_id)
    BY <1>1, XorType
  <1>7. dz \in SUBSET Bits /\ dy \in SUBSET Bits /\ dz \in Id /\ dy \in Id
    BY <1>1, XorType DEF Id
  <1> HIDE DEF dz, dy, h, g
  <1>8. \A i \in dz : i < h
    <2> SUFFICES ASSUME NEW i \in dz
                 PROVE  i < h
      OBVIOUS
    <2>1. i \in Nat /\ h \in Nat
      BY <1>4, <1>5, <1>7
    <2>2. i \in Xor(z, owner_id) \/ i \in Xor(t, owner_id)
      BY <1>6
    <2>3. i # h
      BY <1>4, <1>6
    <2> QED
      BY <1>4, <2>1, <2>2, <2>3
  <1>9. \E m \in dy : m >= h
    <2>1. g \in Nat /\ h \in Nat /\ g # h
      BY <1>2, <1>4, <1>5 DEF g, h
    <2>2. CASE g > h
      <3>1. g \notin Xor(t, owner_id)
        BY <1>4, <2>1, <2>2
      <3> QED
        BY <1>4, <1>6, <2>1, <2>2, <3>1
    <2>3. CASE g < h
      <3>1. h \notin Xor(y, owner_id)
        BY <1>4, <2>1, <2>3
      <3>2. h \in dy
        BY <1>4, <1>6, <3>1
      <3> QED
        BY <2>1, <3>2
    <2> QED
      BY <2>1, <2>2, <2>3
  <1>10. top \in dy /\ \A j \in dy : top >= j
    BY <1>7, <1>9, HighestBitExists
  <1> HIDE DEF top
  <1>11. top \in Nat /\ h \in Nat /\ top >= h
    <2>1. \A j \in dy : j \in Nat
      BY <1>5, <1>7
    <2> QED
      BY <1>4, <1>5, <1>9, <1>10, <2>1
  <1>12. top \in Xor(dz, dy) /\ \A j \in Xor(dz, dy) : top >= j
    <2>1. \A j : j \in Xor(dz, dy) <=> (j \in dz <=> j \notin dy)
      BY <1>7, XorType
    <2>2. top \notin dz
      BY <1>8, <1>11
    <2>3. \A j \in dz : top >= j
      <3>1. \A j \in dz : j \in Nat
        BY <1>5, <1>7
      <3> QED
        BY <1>8, <1>11, <3>1
    <2> QED
      BY <1>10, <2>1, <2>2, <2>3
  <1>13. Xor(dz, dy) \in SUBSET Bits
    BY <1>7, XorType DEF Id
  <1>14. HighestBit(Xor(dz, dy)) = top
    BY <1>12, <1>13, HighestBitUnique
  <1>15. dz # dy
    BY <1>7, <1>12, XorType
  <1>16. Less(dz, dy)
    BY <1>10, <1>14, <1>15 DEF Less
  <1> QED
    BY <1>16 DEF CloserTo, dz, dy

\* Under the invariant the lemmas of LookupTaskProofs apply.
LEMMA InvWellFormed ==
    ASSUME Inv
    PROVE  WellFormed(k_buckets)
  BY DEF Inv, TypeOK, BucketsWithinLimit, NoDuplicateInBucket, WellFormed, Distinct

\* The constructor's empty table satisfies the invariant.
LEMMA InitInv == Init => Inv
  <1> SUFFICES ASSUME Init
               PROVE  Inv
    OBVIOUS
  <1>1. k_buckets = [i \in Bits |-> << >>] /\ heard = {}
    BY DEF Init, EmptyBuckets
  <1>2. TypeOK
    BY <1>1 DEF TypeOK, KBuckets
  <1>3. \A i \in Bits : Len(k_buckets[i]) = 0 /\ DOMAIN k_buckets[i] = {}
    BY <1>1
  <1> QED
    BY <1>1, <1>2, <1>3, KBucketsAssumption
    DEF Inv, BucketsWithinLimit, OverflowOnlyFromFull, NoDuplicateInBucket, HeardIsFound

\* storeNode keeps the invariant.
LEMMA StoreInv ==
    ASSUME Inv, NEW id \in Peer, NEW a \in Address, storeNode(id, a)
    PROVE  Inv'
  <1> DEFINE n == [node_id |-> id, address |-> a]
             u == StoreNode(k_buckets, owner_id, n)
             d == Xor(n.node_id, owner_id)
  <1>0. /\ owner_id \in Id /\ id \in Id /\ n \in NodeEntry /\ n.node_id = id
        /\ WellFormed(k_buckets)
    BY RoutingTableAssumption, InvWellFormed DEF NodeEntry
  <1>1. k_buckets' = u /\ heard' = heard \cup {id}
    BY DEF storeNode
  <1> HIDE DEF n
  <1>2. /\ WellFormed(u)
        /\ \A i \in Bits :
              /\ Len(k_buckets[i]) <= Len(u[i])
              /\ Ids(k_buckets[i]) \subseteq Ids(u[i])
              /\ IsFull(k_buckets[i]) => u[i] = k_buckets[i]
              /\ \A x \in Ids(u[i]) \ Ids(k_buckets[i]) :
                    /\ x = n.node_id
                    /\ i \in d
                    /\ \A j \in d : j > i => IsFull(k_buckets[j])
        /\ n.node_id # owner_id =>
              \/ IsFull(k_buckets[HighestBit(d)])
              \/ n.node_id \in Ids(u[HighestBit(d)])
    BY <1>0, StoreNodeEffect
  <1> HIDE DEF u
  <1>3. /\ TypeOK'
        /\ BucketsWithinLimit'
        /\ NoDuplicateInBucket'
    BY <1>1, <1>2 DEF Inv, TypeOK, BucketsWithinLimit, NoDuplicateInBucket, WellFormed, Distinct
  <1>4. \A j \in Bits : IsFull(k_buckets[j]) => IsFull(u[j])
    BY <1>2 DEF IsFull
  <1>5. OverflowOnlyFromFull'
    <2> SUFFICES ASSUME NEW i \in Bits, NEW p \in DOMAIN u[i]
                 PROVE  LET e == Xor(u[i][p].node_id, owner_id)
                        IN  i \in e /\ \A j \in e : j > i => IsFull(u[j])
      BY <1>1 DEF OverflowOnlyFromFull
    <2> DEFINE x == u[i][p].node_id
               e == Xor(x, owner_id)
    <2>1. x \in Ids(u[i])
      BY DEF Ids
    <2>2. x \in Id
      <3>1. u[i] \in Seq(NodeEntry)
        BY <1>2 DEF WellFormed, KBuckets
      <3> QED
        <4>1. u[i][p] \in NodeEntry
          BY <3>1
        <4> QED
          BY <4>1 DEF NodeEntry
    <2>3. e \subseteq Bits
      BY <1>0, <2>2, XorType DEF Id
    <2>4. i \in e /\ \A j \in e : j > i => IsFull(k_buckets[j])
      <3>1. CASE x \in Ids(k_buckets[i])
        <4>1. PICK q \in DOMAIN k_buckets[i] : x = k_buckets[i][q].node_id
          BY <3>1 DEF Ids
        <4> QED
          BY <4>1 DEF Inv, OverflowOnlyFromFull
      <3>2. CASE x \notin Ids(k_buckets[i])
        BY <1>0, <1>2, <2>1, <3>2
      <3> QED
        BY <3>1, <3>2
    <2> QED
      BY <1>4, <2>3, <2>4
  <1>6. HeardIsFound'
    <2> SUFFICES ASSUME NEW y \in (heard \cup {id}) \ {owner_id}
                 PROVE  \/ FindNode(u, owner_id, y) # {}
                        \/ IsFull(u[Home(owner_id, y)])
      BY <1>1 DEF HeardIsFound, findNode, HomeBucket
    <2>1. y \in Id \ {owner_id}
      BY <1>0, RoutingTableAssumption DEF Inv, TypeOK
    <2> DEFINE h == HighestBit(Xor(y, owner_id))
    <2>2. /\ h \in Bits /\ Home(owner_id, y) = h
          /\ FindNode(u, owner_id, y) # {} <=> y \in Ids(u[h])
          /\ FindNode(k_buckets, owner_id, y) # {} <=> y \in Ids(k_buckets[h])
      BY <2>1, FindNodeHome
    <2>3. CASE y = id
      BY <1>0, <1>2, <1>4, <2>1, <2>2, <2>3
    <2>4. CASE y \in heard
      <3>1. y \in Ids(k_buckets[h]) \/ IsFull(k_buckets[h])
        BY <2>1, <2>2, <2>4 DEF Inv, HeardIsFound, findNode, HomeBucket
      <3> QED
        BY <1>2, <1>4, <2>2, <3>1
    <2> QED
      BY <2>3, <2>4
  <1> QED
    BY <1>3, <1>5, <1>6 DEF Inv

(***************************************************************************)
(* No sequence of stores makes a bucket outgrow kBucketLimit, puts a node  *)
(* below a bucket that had room, or duplicates an id within a bucket; and  *)
(* whoever was heard is found unless its home bucket is full.              *)
(***************************************************************************)
THEOREM Invariance == Spec => []Inv
  <1>1. Init => Inv
    BY InitInv
  <1>2. Inv /\ [Next]_vars => Inv'
    <2> SUFFICES ASSUME Inv, [Next]_vars
                 PROVE  Inv'
      OBVIOUS
    <2>1. CASE Next
      <3>1. PICK id \in Peer : \E a \in AddressOf[id] : storeNode(id, a)
        BY <2>1 DEF Next
      <3>2. PICK a \in AddressOf[id] : storeNode(id, a)
        BY <3>1
      <3> QED
        BY <3>2, StoreInv, RoutingTableAssumption
    <2>2. CASE UNCHANGED vars
      BY <2>2 DEF vars, Inv, TypeOK, BucketsWithinLimit, OverflowOnlyFromFull,
                  NoDuplicateInBucket, HeardIsFound, findNode, HomeBucket
    <2> QED
      BY <2>1, <2>2
  <1> QED
    BY <1>1, <1>2, PTL DEF Spec

\* The table stays well typed: a bucket of entries for every bit.
THEOREM TypeCorrect == Spec => []TypeOK
  BY Invariance, PTL DEF Inv

\* No bucket outgrows kBucketLimit, so the early return of findKNodes, which
\* compares with ==, is taken for every full home bucket.
THEOREM LimitCorrect == Spec => []BucketsWithinLimit
  BY Invariance, PTL DEF Inv

\* storeNode puts a node below its home bucket only past full buckets.
THEOREM OverflowCorrect == Spec => []OverflowOnlyFromFull
  BY Invariance, PTL DEF Inv

\* eraseDuplicate keeps the ids of a bucket distinct.
THEOREM NoDuplicateCorrect == Spec => []NoDuplicateInBucket
  BY Invariance, PTL DEF Inv

\* Whoever storeNode was called for is found, unless its home bucket is full.
THEOREM HeardCorrect == Spec => []HeardIsFound
  BY Invariance, PTL DEF Inv

(***************************************************************************)
(* No step of the table makes findNode forget a node, and from a full home *)
(* bucket on no step changes the address it answers.                       *)
(***************************************************************************)
THEOREM FreezesAnswers == Spec => FullBucketFreezesAnswers
  <1>1. Inv /\ Next => AnswersFreeze
    <2> SUFFICES ASSUME Inv, NEW id \in Peer, NEW a \in Address, storeNode(id, a),
                        NEW x \in Peer \ {owner_id}
                 PROVE  /\ findNode(x) # {} => findNode(x)' # {}
                        /\ IsFull(HomeBucket(x)) => findNode(x)' = findNode(x)
      BY RoutingTableAssumption DEF Next, AnswersFreeze
    <2> DEFINE n == [node_id |-> id, address |-> a]
               u == StoreNode(k_buckets, owner_id, n)
               h == HighestBit(Xor(x, owner_id))
    <2>1. x \in Id \ {owner_id} /\ owner_id \in Id /\ n \in NodeEntry
          /\ WellFormed(k_buckets)
      BY RoutingTableAssumption, InvWellFormed DEF NodeEntry
    <2> HIDE DEF n
    <2>2. \A i \in Bits : /\ Ids(k_buckets[i]) \subseteq Ids(u[i])
                          /\ IsFull(k_buckets[i]) => u[i] = k_buckets[i]
      BY <2>1, StoreNodeKeeps
    <2>3. /\ h \in Bits /\ Home(owner_id, x) = h
          /\ FindNode(u, owner_id, x) # {} <=> x \in Ids(u[h])
          /\ FindNode(k_buckets, owner_id, x) # {} <=> x \in Ids(k_buckets[h])
      BY <2>1, FindNodeHome
    <2>4. k_buckets' = u
      BY DEF storeNode, n
    <2>5. findNode(x)' = FindNode(u, owner_id, x)
      BY <2>4 DEF findNode
    <2>6. findNode(x) # {} => findNode(x)' # {}
      BY <2>2, <2>3, <2>5 DEF findNode
    <2>7. ASSUME IsFull(HomeBucket(x))
          PROVE  findNode(x)' = findNode(x)
      <3>1. u[h] = k_buckets[h]
        BY <2>2, <2>3, <2>7 DEF HomeBucket
      <3> QED
        BY <2>5, <3>1 DEF findNode, FindNode
    <2> QED
      BY <2>6, <2>7
  <1>2. Inv /\ [Next]_vars => [AnswersFreeze]_vars
    BY <1>1
  <1> QED
    BY <1>2, Invariance, PTL DEF Spec, FullBucketFreezesAnswers

(***************************************************************************)
(* The answer of findKNodes has a node as near to the target as any that   *)
(* findNode knows, when the home bucket of the target holds one homed      *)
(* there: the early return, the widening and the truncation lose others.   *)
(***************************************************************************)
THEOREM NearestCorrect == Spec => []NearestInAnswer
  <1>1. ASSUME Inv, NEW t \in Peer \ {owner_id}, NEW p \in DOMAIN HomeBucket(t),
               Home(owner_id, HomeBucket(t)[p].node_id) = Home(owner_id, t)
        PROVE  \E x \in Ids(findKNodes(t)) :
                  \A y \in Peer : findNode(y) # {} /\ y # x => CloserTo(t, x, y)
    <2> DEFINE a == FindKNodes(k_buckets, owner_id, t)
               home == Home(owner_id, t)
               z == HomeBucket(t)[p].node_id
    <2>1. owner_id \in Id /\ t \in Id \ {owner_id} /\ Peer \subseteq Id
      BY RoutingTableAssumption
    <2>2. WellFormed(k_buckets)
      BY <1>1, InvWellFormed
    <2>3. home \in Bits
      BY <2>1, FindNodeHome
    <2>4. HomeBucket(t) = k_buckets[home] /\ k_buckets[home] \in Seq(NodeEntry)
      BY <2>2, <2>3 DEF HomeBucket, WellFormed, KBuckets
    <2>5. z \in Ids(k_buckets[home]) /\ z \in Id /\ k_buckets[home] # << >>
      <3>1. HomeBucket(t)[p] \in NodeEntry
        BY <1>1, <2>4, ElementOfSeq, LenProperties
      <3>2. z \in Ids(k_buckets[home])
        BY <1>1, <2>4 DEF Ids
      <3> QED
        BY <2>4, <3>1, <3>2, EmptyList DEF NodeEntry
    <2>6. z # owner_id /\ Home(owner_id, z) = home
      <3>1. Home(owner_id, owner_id) \notin Bits
        BY NodeIdAssumption DEF Home, Bits
      <3> QED
        BY <1>1, <2>3, <3>1
    <2>7. /\ a \in Seq(Entries(k_buckets)) /\ Len(a) <= kBucketLimit
          /\ Len(a) < kBucketLimit =>
               \A i \in Bits \ {0} : Ids(k_buckets[i]) \subseteq Ids(a)
          /\ home \in Bits /\ k_buckets[home] # << >> =>
               \E x \in Ids(a) : \A y \in Ids(k_buckets[home]) \ {x} : CloserTo(t, x, y)
      BY <2>1, <2>2, FindKNodesEffect
    <2> HIDE DEF a, home, z
    <2>8. PICK x \in Ids(a) : \A y \in Ids(k_buckets[home]) \ {x} : CloserTo(t, x, y)
      BY <2>3, <2>5, <2>7
    <2>9. x \in Id
      <3>1. \A q \in DOMAIN a : a[q] \in Entries(k_buckets)
        BY <2>7, ElementOfSeq, LenProperties
      <3> QED
        BY <2>8, <3>1 DEF Ids, Entries, NodeEntry
    <2>10. ASSUME NEW y \in Peer, findNode(y) # {}, y # x
           PROVE  CloserTo(t, x, y)
      <3>1. y \in Id \ {owner_id}
        BY <2>1, <2>10 DEF findNode, FindNode
      <3>2. y \in Ids(k_buckets[Home(owner_id, y)])
        BY <2>10, <3>1, FindNodeHome DEF findNode
      <3>3. CASE Home(owner_id, y) = home
        BY <2>8, <2>10, <3>2, <3>3
      <3>4. CASE Home(owner_id, y) # home
        <4>1. CloserTo(t, z, y)
          BY <2>1, <2>5, <2>6, <3>1, <3>4, SameHomeIsNearer DEF home
        <4>2. x = z \/ CloserTo(t, x, z)
          BY <2>5, <2>8
        <4> QED
          BY <2>1, <2>5, <2>9, <3>1, <4>1, <4>2, CloserToStrictOrder
      <3> QED
        BY <3>3, <3>4
    <2> QED
      BY <2>8, <2>10 DEF findKNodes, a
  <1>2. Inv => NearestInAnswer
    <2> SUFFICES ASSUME Inv, NEW t \in Peer \ {owner_id}, NEW p \in DOMAIN HomeBucket(t),
                        Home(owner_id, HomeBucket(t)[p].node_id) = Home(owner_id, t)
                 PROVE  \E x \in Ids(findKNodes(t)) :
                           \A y \in {y \in Peer : findNode(y) # {}} \ {x} : CloserTo(t, x, y)
      BY DEF NearestInAnswer
    <2>1. PICK x \in Ids(findKNodes(t)) :
             \A y \in Peer : findNode(y) # {} /\ y # x => CloserTo(t, x, y)
      BY <1>1
    <2> QED
      BY <2>1
  <1> QED
    BY Invariance, <1>2, PTL

(***************************************************************************)
(* An answer of fewer than kBucketLimit nodes has every node of the table, *)
(* those of bucket 0 excepted, which the widening loop can miss.           *)
(***************************************************************************)
THEOREM ShortAnswerCorrect == Spec => []ShortAnswerIsComplete
  <1>1. Inv => ShortAnswerIsComplete
    <2> SUFFICES ASSUME Inv, NEW t \in Peer, Len(findKNodes(t)) < kBucketLimit
                 PROVE  \A i \in Bits \ {0} : Ids(k_buckets[i]) \subseteq Ids(findKNodes(t))
      BY DEF ShortAnswerIsComplete
    <2> DEFINE a == FindKNodes(k_buckets, owner_id, t)
               home == Home(owner_id, t)
    <2>1. WellFormed(k_buckets) /\ owner_id \in Id /\ t \in Id
      BY InvWellFormed, RoutingTableAssumption
    <2>2. /\ a \in Seq(Entries(k_buckets)) /\ Len(a) <= kBucketLimit
          /\ Len(a) < kBucketLimit =>
               \A i \in Bits \ {0} : Ids(k_buckets[i]) \subseteq Ids(a)
          /\ home \in Bits /\ k_buckets[home] # << >> =>
               \E x \in Ids(a) : \A y \in Ids(k_buckets[home]) \ {x} : CloserTo(t, x, y)
      BY <2>1, FindKNodesEffect
    <2> QED
      BY <2>2 DEF findKNodes
  <1> QED
    BY Invariance, <1>1, PTL
============================================================================
