------------------------- MODULE LookupTaskProofs -------------------------
(***************************************************************************)
(* What the operators of NodeId, KBuckets and LookupTask compute, for      *)
(* every width of the ids, every kBucketLimit and kParallelismLimit: the   *)
(* order of distances, the table of k-buckets and its answers, and the     *)
(* parts of a lookup task.  The proofs about RoutingTable, Lookup and Node *)
(* rest on these lemmas.                                                   *)
(***************************************************************************)
EXTENDS LookupTask, SequenceTheorems, FiniteSetTheorems, WellFoundedInduction, TLAPS

(***************************************************************************)
(* What std::sort demands of the comparators it is given: a strict order.  *)
(* The code passes CloserTo to std::sort in findKNodes and in both lookup  *)
(* tasks; a comparator that is not a strict weak order is undefined        *)
(* behaviour there.                                                        *)
(***************************************************************************)

\* A nonempty set of naturals has a least element.
LEMMA LeastNatural ==
    ASSUME NEW T \in SUBSET Nat, T # {}
    PROVE  \E x \in T : \A y \in T : ~ (y < x)
  <1> DEFINE R == OpToRel(<, Nat)
  <1>1. PICK x \in T : \A y \in T : ~ (<<y, x>> \in R)
    BY NatLessThanWellFounded, WFMin
  <1> QED
    BY <1>1 DEF OpToRel

(***************************************************************************)
(* Every nonempty set of bit positions has a greatest element: the loop    *)
(* from the top bit down finds a set bit when there is one.                *)
(***************************************************************************)
LEMMA HighestBitExists ==
    ASSUME NEW d \in SUBSET Bits, d # {}
    PROVE  /\ HighestBit(d) \in d
           /\ \A j \in d : HighestBit(d) >= j
  <1> DEFINE T == {n \in Nat : \E j \in d : n = kNodeIdSize - j}
  <1>0. kNodeIdSize \in Nat /\ d \subseteq 0 .. kNodeIdSize - 1
    BY NodeIdAssumption DEF Bits
  <1>1. T \subseteq Nat /\ T # {}
    <2>1. PICK j \in d : TRUE
      OBVIOUS
    <2>2. kNodeIdSize - j \in Nat
      BY <1>0, <2>1
    <2> QED
      BY <2>1, <2>2
  <1>2. PICK x \in T : \A y \in T : ~ (y < x)
    BY <1>1, LeastNatural
  <1>3. PICK h \in d : x = kNodeIdSize - h
    OBVIOUS
  <1>4. \A j \in d : h >= j
    <2> SUFFICES ASSUME NEW j \in d
                 PROVE  h >= j
      OBVIOUS
    <2>1. j \in 0 .. kNodeIdSize - 1 /\ h \in 0 .. kNodeIdSize - 1
      BY <1>0
    <2>2. kNodeIdSize - j \in T
      BY <1>0, <2>1
    <2>3. ~ (kNodeIdSize - j < x)
      BY <1>2, <2>2
    <2> HIDE DEF T
    <2> QED
      BY <1>0, <1>3, <2>1, <2>3
  <1> QED
    BY <1>4 DEF HighestBit, Max

\* Highest differing bits determine each other: h is it as soon as h differs and
\* nothing above h does.
LEMMA HighestBitUnique ==
    ASSUME NEW d \in SUBSET Bits, NEW h \in d, \A j \in d : h >= j
    PROVE  HighestBit(d) = h
  <1>1. HighestBit(d) \in d /\ \A j \in d : HighestBit(d) >= j
    BY HighestBitExists
  <1>2. h \in Bits /\ HighestBit(d) \in Bits
    BY <1>1
  <1>3. h >= HighestBit(d) /\ HighestBit(d) >= h
    BY <1>1
  <1> HIDE DEF HighestBit
  <1> QED
    BY <1>2, <1>3, NodeIdAssumption DEF Bits

\* The distance of two identifiers is an identifier, and is 0 only for equal ones.
LEMMA XorType ==
    ASSUME NEW a \in Id, NEW b \in Id
    PROVE  /\ Xor(a, b) \in Id
           /\ Xor(a, b) = Xor(b, a)
           /\ a # b <=> Xor(a, b) # {}
           /\ \A i : i \in Xor(a, b) <=> (i \in a <=> i \notin b)
  BY DEF Xor, SymDiff, Id

\* Two identifiers at the same distance of a third are the same identifier.
LEMMA XorInjective ==
    ASSUME NEW a \in Id, NEW b \in Id, NEW t \in Id, Xor(a, t) = Xor(b, t)
    PROVE  a = b
  BY DEF Xor, SymDiff, Id

(***************************************************************************)
(* operator< never puts two identifiers before each other: it is           *)
(* irreflexive and asymmetric.                                             *)
(***************************************************************************)
LEMMA LessAsymmetric ==
    ASSUME NEW a \in Id, NEW b \in Id, Less(a, b)
    PROVE  ~ Less(b, a)
  <1>1. HighestBit(Xor(a, b)) \in Xor(a, b)
    BY XorType, HighestBitExists DEF Less, Id
  <1> QED
    BY <1>1, XorType DEF Less

(***************************************************************************)
(* operator< orders any two different identifiers.                         *)
(***************************************************************************)
LEMMA LessTotal ==
    ASSUME NEW a \in Id, NEW b \in Id, a # b
    PROVE  Less(a, b) \/ Less(b, a)
  <1>1. HighestBit(Xor(a, b)) \in Xor(a, b)
    BY XorType, HighestBitExists DEF Id
  <1> QED
    BY <1>1, XorType DEF Less

(***************************************************************************)
(* operator< is transitive.                                                *)
(***************************************************************************)
LEMMA LessTransitive ==
    ASSUME NEW a \in Id, NEW b \in Id, NEW c \in Id, Less(a, b), Less(b, c)
    PROVE  Less(a, c)
  <1> DEFINE p == HighestBit(Xor(a, b))
             q == HighestBit(Xor(b, c))
  <1>1. /\ p \in Xor(a, b) /\ \A j \in Xor(a, b) : p >= j
        /\ q \in Xor(b, c) /\ \A j \in Xor(b, c) : q >= j
    BY XorType, HighestBitExists DEF Less, Id
  <1>2. p \in b /\ p \notin a /\ q \in c /\ q \notin b
    BY <1>1, XorType DEF Less
  <1>3. p \in Nat /\ q \in Nat /\ Xor(a, c) \in SUBSET Bits
    BY <1>1, XorType, NodeIdAssumption DEF Id, Bits
  <1>4. \A j \in Xor(a, c) : j \in Nat /\ (j \in Xor(a, b) \/ j \in Xor(b, c))
    BY <1>3, NodeIdAssumption DEF Xor, SymDiff, Bits
  <1> HIDE DEF p, q
  <1>5. CASE p > q
    <2>1. p \in c
      BY <1>1, <1>2, <1>3, <1>5, XorType
    <2>2. p \in Xor(a, c) /\ \A j \in Xor(a, c) : p >= j
      <3>1. p \in Xor(a, c)
        BY <1>2, <2>1, XorType
      <3>2. \A j \in Xor(a, c) : p >= j
        BY <1>1, <1>3, <1>4, <1>5
      <3> QED
        BY <3>1, <3>2
    <2>3. HighestBit(Xor(a, c)) = p
      BY <1>3, <2>2, HighestBitUnique
    <2> QED
      BY <1>2, <2>1, <2>3 DEF Less
  <1>6. CASE p <= q
    <2>1. p # q
      BY <1>2
    <2>2. q \notin a
      BY <1>1, <1>2, <1>3, <1>6, <2>1, XorType
    <2>3. q \in Xor(a, c) /\ \A j \in Xor(a, c) : q >= j
      <3>1. q \in Xor(a, c)
        BY <1>2, <2>2, XorType
      <3>2. \A j \in Xor(a, c) : q >= j
        BY <1>1, <1>3, <1>4, <1>6
      <3> QED
        BY <3>1, <3>2
    <2>4. HighestBit(Xor(a, c)) = q
      BY <1>3, <2>3, HighestBitUnique
    <2> QED
      BY <1>2, <2>2, <2>4 DEF Less
  <1> QED
    BY <1>3, <1>5, <1>6

(***************************************************************************)
(* The comparator handed to std::sort is a strict total order on the       *)
(* identifiers, whatever the target: no two different peers tie, so the    *)
(* sorted vectors of findKNodes and of the lookups are determined by their *)
(* elements.                                                               *)
(***************************************************************************)
THEOREM CloserToStrictOrder ==
    ASSUME NEW t \in Id, NEW a \in Id, NEW b \in Id, NEW c \in Id
    PROVE  /\ CloserTo(t, a, b) => ~ CloserTo(t, b, a)
           /\ a # b => CloserTo(t, a, b) \/ CloserTo(t, b, a)
           /\ CloserTo(t, a, b) /\ CloserTo(t, b, c) => CloserTo(t, a, c)
  <1>1. Xor(a, t) \in Id /\ Xor(b, t) \in Id /\ Xor(c, t) \in Id
    BY XorType
  <1>2. a # b => Xor(a, t) # Xor(b, t)
    BY XorInjective
  <1>3. CloserTo(t, a, b) => ~ CloserTo(t, b, a)
    BY <1>1, LessAsymmetric DEF CloserTo
  <1>4. a # b => CloserTo(t, a, b) \/ CloserTo(t, b, a)
    BY <1>1, <1>2, LessTotal DEF CloserTo
  <1>5. CloserTo(t, a, b) /\ CloserTo(t, b, c) => CloserTo(t, a, c)
    BY <1>1, LessTransitive DEF CloserTo
  <1> QED
    BY <1>3, <1>4, <1>5
-----------------------------------------------------------------------------
\* The least element of a nonempty set of naturals is what Min chooses.
LEMMA MinExists ==
    ASSUME NEW S \in SUBSET Nat, S # {}
    PROVE  Min(S) \in S /\ \A y \in S : Min(S) <= y
  <1>1. PICK x \in S : \A y \in S : ~ (y < x)
    BY LeastNatural
  <1>2. \A y \in S : x =< y
    BY <1>1
  <1> QED
    BY <1>2 DEF Min

Distinct(bucket) ==
    \A p, q \in DOMAIN bucket : bucket[p].node_id = bucket[q].node_id => p = q

(***************************************************************************)
(* eraseDuplicate followed by push_back: the bucket stays well typed and   *)
(* free of duplicates, gains at most one place, loses no id and holds the  *)
(* new one.                                                                *)
(***************************************************************************)
LEMMA RefreshBucket ==
    ASSUME NEW bucket \in Seq(NodeEntry), NEW n \in NodeEntry, Distinct(bucket)
    PROVE  /\ Refresh(bucket, n) \in Seq(NodeEntry)
           /\ Len(bucket) <= Len(Refresh(bucket, n))
           /\ Len(Refresh(bucket, n)) <= Len(bucket) + 1
           /\ Ids(Refresh(bucket, n)) = Ids(bucket) \cup {n.node_id}
           /\ Distinct(Refresh(bucket, n))
  <1> DEFINE same == Positions(bucket, n.node_id)
             m == Min(same)
             cut == RemoveAt(bucket, m)
  <1>0. same \subseteq DOMAIN bucket /\ DOMAIN bucket = 1 .. Len(bucket) /\ Len(bucket) \in Nat
    BY DEF Positions
  <1>1. CASE same = {}
    <2>1. Refresh(bucket, n) = Append(bucket, n)
      BY <1>1 DEF Refresh
    <2>2. \A p \in DOMAIN bucket : bucket[p].node_id # n.node_id
      BY <1>1 DEF Positions
    <2> QED
      BY <1>0, <2>1, <2>2 DEF Ids, Distinct
  <1>2. CASE same # {} /\ m = Len(bucket)
    <2>1. Refresh(bucket, n) = bucket
      BY <1>2 DEF Refresh
    <2>2. n.node_id \in Ids(bucket)
      BY <1>2 DEF Ids, Positions
    <2> QED
      BY <1>0, <2>1, <2>2
  <1>3. CASE same # {} /\ m # Len(bucket)
    <2>1. Refresh(bucket, n) = Append(cut, n)
      BY <1>3 DEF Refresh
    <2>2. m \in same
      BY <1>0, <1>3, MinExists
    <2>3. m \in 1 .. Len(bucket) - 1 /\ bucket[m].node_id = n.node_id
      BY <1>0, <1>3, <2>2 DEF Positions
    <2> HIDE DEF m, same
    <2>4. /\ cut \in Seq(NodeEntry)
          /\ Len(cut) = Len(bucket) - 1
          /\ \A p \in 1 .. Len(bucket) - 1 :
                cut[p] = IF p < m THEN bucket[p] ELSE bucket[p + 1]
      BY <1>0, <2>3 DEF RemoveAt
    <2> HIDE DEF cut
    <2>5. \A p \in 1 .. Len(cut) : cut[p].node_id # n.node_id
      <3> SUFFICES ASSUME NEW p \in 1 .. Len(cut)
                   PROVE  cut[p].node_id # n.node_id
        OBVIOUS
      <3>1. \A q \in DOMAIN bucket : q # m => bucket[q].node_id # bucket[m].node_id
        BY <1>0, <2>3 DEF Distinct
      <3>2. CASE p < m
        <4>1. p \in DOMAIN bucket /\ p # m /\ cut[p] = bucket[p]
          BY <1>0, <2>3, <2>4, <3>2
        <4> QED
          BY <2>3, <3>1, <4>1
      <3>3. CASE ~ p < m
        <4>1. p + 1 \in DOMAIN bucket /\ p + 1 # m /\ cut[p] = bucket[p + 1]
          BY <1>0, <2>3, <2>4, <3>3
        <4> QED
          BY <2>3, <3>1, <4>1
      <3> QED
        BY <3>2, <3>3
    <2>6. \A p, q \in 1 .. Len(cut) : cut[p].node_id = cut[q].node_id => p = q
      <3> DEFINE at(p) == IF p < m THEN p ELSE p + 1
      <3>1. \A p \in 1 .. Len(cut) : at(p) \in DOMAIN bucket /\ cut[p] = bucket[at(p)]
        BY <1>0, <2>3, <2>4
      <3>2. \A p, q \in 1 .. Len(cut) : at(p) = at(q) => p = q
        BY <1>0, <2>3, <2>4
      <3> HIDE DEF at
      <3>3. \A p, q \in DOMAIN bucket : bucket[p].node_id = bucket[q].node_id => p = q
        BY DEF Distinct
      <3>4. ASSUME NEW p \in 1 .. Len(cut), NEW q \in 1 .. Len(cut),
                   cut[p].node_id = cut[q].node_id
            PROVE  at(p) = at(q)
        BY <3>1, <3>3, <3>4
      <3> QED
        BY <3>2, <3>4
    <2>7. Ids(bucket) = Ids(cut) \cup {n.node_id}
      <3>1. ASSUME NEW p \in DOMAIN bucket
            PROVE  bucket[p].node_id \in Ids(cut) \cup {n.node_id}
        <4>1. CASE p < m
          BY <1>0, <2>3, <2>4, <4>1 DEF Ids
        <4>2. CASE p = m
          BY <2>3, <4>2
        <4>3. CASE p > m
          <5>1. p - 1 \in 1 .. Len(cut) /\ cut[p - 1] = bucket[p]
            BY <1>0, <2>3, <2>4, <4>3
          <5> QED
            BY <2>4, <5>1 DEF Ids
        <4> QED
          BY <1>0, <2>3, <4>1, <4>2, <4>3
      <3>2. \A p \in 1 .. Len(cut) : cut[p].node_id \in Ids(bucket)
        BY <1>0, <2>3, <2>4 DEF Ids
      <3>3. n.node_id \in Ids(bucket)
        BY <1>0, <2>3 DEF Ids
      <3> QED
        BY <2>4, <3>1, <3>2, <3>3 DEF Ids
    <2>8. /\ Append(cut, n) \in Seq(NodeEntry)
          /\ Len(Append(cut, n)) = Len(bucket)
          /\ DOMAIN Append(cut, n) = 1 .. Len(cut) + 1
          /\ \A p \in 1 .. Len(cut) : Append(cut, n)[p] = cut[p]
          /\ Append(cut, n)[Len(cut) + 1] = n
      <3>1. cut \in Seq(NodeEntry) /\ n \in NodeEntry
        BY <2>4
      <3>2. Append(cut, n) \in Seq(NodeEntry) /\ Len(Append(cut, n)) = Len(cut) + 1
        BY <3>1, AppendProperties
      <3>3. DOMAIN Append(cut, n) = 1 .. Len(cut) + 1
        BY <3>2
      <3>4. \A p \in 1 .. Len(cut) + 1 :
                Append(cut, n)[p] = IF p <= Len(cut) THEN cut[p] ELSE n
        BY <3>1, AppendProperties
      <3>5. Len(cut) \in Nat /\ Len(cut) + 1 = Len(bucket)
        BY <1>0, <2>4
      <3> QED
        BY <3>2, <3>3, <3>4, <3>5
    <2>9. Ids(Append(cut, n)) = Ids(cut) \cup {n.node_id}
      BY <2>4, <2>8 DEF Ids
    <2>10. Distinct(Append(cut, n))
      BY <2>4, <2>5, <2>6, <2>8 DEF Distinct
    <2> QED
      BY <1>0, <2>1, <2>7, <2>8, <2>9, <2>10
  <1> QED
    BY <1>1, <1>2, <1>3

WellFormed(t) ==
    /\ t \in KBuckets
    /\ \A i \in Bits : Len(t[i]) <= kBucketLimit /\ Distinct(t[i])

(***************************************************************************)
(* storeNode on a well-formed table: it stays well formed, buckets only    *)
(* gain ids, full ones do not change at all, and the only id that appears  *)
(* is the stored one, in a bucket of its distance below which full ones    *)
(* were passed over; with room in its home bucket it is there.             *)
(***************************************************************************)
LEMMA StoreNodeEffect ==
    ASSUME NEW t, WellFormed(t), NEW owner \in Id, NEW n \in NodeEntry
    PROVE  LET u == StoreNode(t, owner, n)
               d == Xor(n.node_id, owner)
           IN  /\ WellFormed(u)
               /\ \A i \in Bits :
                    /\ Len(t[i]) <= Len(u[i])
                    /\ Ids(t[i]) \subseteq Ids(u[i])
                    /\ IsFull(t[i]) => u[i] = t[i]
                    /\ \A x \in Ids(u[i]) \ Ids(t[i]) :
                        /\ x = n.node_id
                        /\ i \in d
                        /\ \A j \in d : j > i => IsFull(t[j])
               /\ n.node_id # owner =>
                    \/ IsFull(t[HighestBit(d)])
                    \/ n.node_id \in Ids(u[HighestBit(d)])
  <1> DEFINE u == StoreNode(t, owner, n)
             d == Xor(n.node_id, owner)
             open == OpenBuckets(t, owner, n.node_id)
             h == HighestBit(open)
  <1>0. n.node_id \in Id /\ d \in SUBSET Bits /\ open \subseteq d
    BY XorType DEF NodeEntry, OpenBuckets, Id
  <1>1. n.node_id # owner => HighestBit(d) \in d /\ \A j \in d : HighestBit(d) >= j
    BY <1>0, XorType, HighestBitExists
  <1>2. t \in [Bits -> Seq(NodeEntry)] /\ \A i \in Bits : Len(t[i]) \in Nat
    BY DEF WellFormed, KBuckets
  <1>3. CASE open = {}
    <2>1. u = t
      BY <1>3 DEF StoreNode
    <2>2. \A i \in d : IsFull(t[i])
      BY <1>3 DEF OpenBuckets
    <2> QED
      BY <1>1, <1>2, <2>1, <2>2
  <1>4. CASE open # {}
    <2>1. h \in open /\ \A j \in open : h >= j
      BY <1>0, <1>4, HighestBitExists
    <2>2. u = [t EXCEPT ![h] = Refresh(t[h], n)]
      BY <1>4 DEF StoreNode, HighestBit
    <2>3. h \in Bits /\ h \in d /\ ~ IsFull(t[h])
      BY <1>0, <2>1 DEF OpenBuckets
    <2>4. \A j \in d : j > h => IsFull(t[j])
      <3>1. \A j \in d : j \in Int /\ h \in Int
        BY <1>0, <2>3, NodeIdAssumption DEF Bits
      <3>2. \A j \in d : ~ IsFull(t[j]) => j \in open
        BY DEF OpenBuckets
      <3> QED
        BY <2>1, <3>1, <3>2
    <2>5. t[h] \in Seq(NodeEntry) /\ Distinct(t[h])
      BY <1>2, <2>3 DEF WellFormed
    <2> HIDE DEF h, d, open, u
    <2>6. /\ Refresh(t[h], n) \in Seq(NodeEntry)
          /\ Len(t[h]) <= Len(Refresh(t[h], n))
          /\ Len(Refresh(t[h], n)) <= Len(t[h]) + 1
          /\ Ids(Refresh(t[h], n)) = Ids(t[h]) \cup {n.node_id}
          /\ Distinct(Refresh(t[h], n))
      BY <2>5, RefreshBucket
    <2>7. u[h] = Refresh(t[h], n) /\ \A i \in Bits \ {h} : u[i] = t[i]
      BY <1>2, <2>2, <2>3
    <2>8. Len(Refresh(t[h], n)) <= kBucketLimit
      <3>1. Len(t[h]) < kBucketLimit
        BY <1>2, <2>3, KBucketsAssumption DEF IsFull
      <3>2. Len(Refresh(t[h], n)) \in Nat
        BY <2>6
      <3> QED
        BY <1>2, <2>3, <2>6, <3>1, <3>2, KBucketsAssumption
    <2>9. WellFormed(u)
      <3>1. u \in KBuckets
        BY <1>2, <2>2, <2>6 DEF KBuckets
      <3>2. \A i \in Bits : Len(u[i]) <= kBucketLimit /\ Distinct(u[i])
        BY <2>6, <2>7, <2>8 DEF WellFormed
      <3> QED
        BY <3>1, <3>2 DEF WellFormed
    <2>10. ASSUME NEW i \in Bits
           PROVE  /\ Len(t[i]) <= Len(u[i])
                  /\ Ids(t[i]) \subseteq Ids(u[i])
                  /\ IsFull(t[i]) => u[i] = t[i]
                  /\ \A x \in Ids(u[i]) \ Ids(t[i]) :
                        /\ x = n.node_id
                        /\ i \in d
                        /\ \A j \in d : j > i => IsFull(t[j])
      <3>1. CASE i = h
        BY <2>3, <2>4, <2>6, <2>7, <3>1
      <3>2. CASE i # h
        BY <1>2, <2>7, <3>2
      <3> QED
        BY <3>1, <3>2
    <2>11. ASSUME n.node_id # owner, ~ IsFull(t[HighestBit(d)])
           PROVE  n.node_id \in Ids(u[HighestBit(d)])
      <3> DEFINE top == HighestBit(d)
      <3>1. top \in d /\ \A j \in d : top >= j
        BY <1>1, <2>11 DEF d
      <3>2. top \in open
        BY <2>11, <3>1 DEF open, OpenBuckets, d
      <3>3. top \in Bits /\ top >= h /\ h >= top
        BY <1>0, <2>1, <2>3, <3>1, <3>2
      <3> HIDE DEF top
      <3>4. top = h
        BY <2>3, <3>3, NodeIdAssumption DEF Bits
      <3> QED
        BY <2>6, <2>7, <3>4 DEF top
    <2> QED
      BY <2>9, <2>10, <2>11 DEF u, d
  <1> QED
    BY <1>3, <1>4

\* The part of it that concerns the ids a table already holds.
LEMMA StoreNodeKeeps ==
    ASSUME NEW t, WellFormed(t), NEW owner \in Id, NEW n \in NodeEntry, NEW i \in Bits
    PROVE  /\ Ids(t[i]) \subseteq Ids(StoreNode(t, owner, n)[i])
           /\ IsFull(t[i]) => StoreNode(t, owner, n)[i] = t[i]
  <1> DEFINE u == StoreNode(t, owner, n)
             d == Xor(n.node_id, owner)
  <1>1. /\ WellFormed(u)
        /\ \A k \in Bits :
              /\ Len(t[k]) <= Len(u[k])
              /\ Ids(t[k]) \subseteq Ids(u[k])
              /\ IsFull(t[k]) => u[k] = t[k]
              /\ \A x \in Ids(u[k]) \ Ids(t[k]) :
                    /\ x = n.node_id
                    /\ k \in d
                    /\ \A j \in d : j > k => IsFull(t[j])
        /\ n.node_id # owner =>
              \/ IsFull(t[HighestBit(d)])
              \/ n.node_id \in Ids(u[HighestBit(d)])
    BY StoreNodeEffect
  <1> QED
    BY <1>1

(***************************************************************************)
(* std::sort with CloserTo: the result has the entries it was given, as    *)
(* often, and none is nearer to the target than one before it.             *)
(***************************************************************************)
LEMMA NearestFirstSorts ==
    ASSUME NEW found \in Seq(NodeEntry), NEW id \in Id
    PROVE  LET sorted == NearestFirst(found, id)
           IN  /\ sorted \in Seq(NodeEntry) /\ Len(sorted) = Len(found)
               /\ \A i \in DOMAIN sorted : \E p \in DOMAIN found : sorted[i] = found[p]
               /\ Ids(sorted) = Ids(found)
               /\ \A i, j \in DOMAIN sorted :
                    i < j => ~ CloserTo(id, sorted[j].node_id, sorted[i].node_id)
  <1> DEFINE n == Len(found)
             D == DOMAIN found
             node(p) == found[p].node_id
             Before(p, q) == CloserTo(id, node(p), node(q)) \/ (node(p) = node(q) /\ p < q)
             Low(p) == {q \in D : Before(q, p)}
             Place(p) == Cardinality(Low(p)) + 1
             places == {<<Place(p), p>> : p \in D}
             at(i) == (CHOOSE o \in places : o[1] = i)[2]
             sorted == NearestFirst(found, id)
  <1>1. n \in Nat /\ D = 1 .. n
    BY LenProperties
  <1>2. sorted = [i \in D |-> found[at(i)]]
    BY DEF NearestFirst
  <1> HIDE DEF D
  <1>3. \A p \in D : found[p] \in NodeEntry /\ node(p) \in Id
    <2>1. \A p \in D : found[p] \in NodeEntry
      BY <1>1, ElementOfSeq
    <2> QED
      BY <2>1 DEF NodeEntry
  <1>4. /\ \A p \in D : ~ Before(p, p)
        /\ \A p, q \in D : p # q => Before(p, q) \/ Before(q, p)
        /\ \A p, q, r \in D : Before(p, q) /\ Before(q, r) => Before(p, r)
    <2>0. \A a, b, c \in Id :
             /\ ~ CloserTo(id, a, a)
             /\ a # b => CloserTo(id, a, b) \/ CloserTo(id, b, a)
             /\ CloserTo(id, a, b) /\ CloserTo(id, b, c) => CloserTo(id, a, c)
      BY CloserToStrictOrder
    <2> HIDE DEF node
    <2>1. \A p \in D : p \in Int
      BY <1>1
    <2>2. \A p \in D : ~ Before(p, p)
      BY <1>3, <2>0, <2>1
    <2>3. ASSUME NEW p \in D, NEW q \in D, p # q
          PROVE  Before(p, q) \/ Before(q, p)
      <3>1. p < q \/ q < p
        BY <2>1, <2>3
      <3>2. CASE node(p) = node(q)
        BY <3>1, <3>2
      <3>3. CASE node(p) # node(q)
        BY <1>3, <2>0, <3>3
      <3> QED
        BY <3>2, <3>3
    <2>4. ASSUME NEW p \in D, NEW q \in D, NEW r \in D, Before(p, q), Before(q, r)
          PROVE  Before(p, r)
      <3>1. p < q /\ q < r => p < r
        BY <2>1
      <3> QED
        BY <1>3, <2>0, <2>4, <3>1
    <2> QED
      BY <2>2, <2>3, <2>4
  <1> HIDE DEF Before, node
  <1>5. /\ IsFiniteSet(D) /\ Cardinality(D) = n
        /\ \A p \in D : /\ IsFiniteSet(Low(p)) /\ Cardinality(Low(p)) \in Nat
                        /\ Cardinality(Low(p)) < n
    <2>1. IsFiniteSet(D) /\ Cardinality(D) = n
      BY <1>1, FS_Interval
    <2>2. ASSUME NEW p \in D
          PROVE  /\ IsFiniteSet(Low(p)) /\ Cardinality(Low(p)) \in Nat
                 /\ Cardinality(Low(p)) < n
      <3>1. Low(p) \in SUBSET (D \ {p})
        BY <1>4, <2>2
      <3>2. IsFiniteSet(D \ {p}) /\ Cardinality(D \ {p}) = n - 1
        BY <2>1, <2>2, FS_RemoveElement
      <3>3. IsFiniteSet(Low(p)) /\ Cardinality(Low(p)) <= n - 1
        BY <3>1, <3>2, FS_Subset
      <3>4. Cardinality(Low(p)) \in Nat
        BY <3>3, FS_CardinalityType
      <3> QED
        BY <1>1, <3>3, <3>4
    <2> QED
      BY <2>1, <2>2
  <1>6. \A p \in D : Place(p) \in D
    <2> HIDE DEF Low
    <2> QED
      BY <1>1, <1>5
  <1>7. ASSUME NEW p \in D, NEW q \in D, Before(p, q)
        PROVE  Place(p) < Place(q)
    <2>1. Low(p) \in SUBSET Low(q)
      BY <1>4, <1>7
    <2>2. p \in Low(q) /\ p \notin Low(p)
      BY <1>4, <1>7
    <2> HIDE DEF Low
    <2>3. Cardinality(Low(p)) <= Cardinality(Low(q)) /\ Cardinality(Low(p)) # Cardinality(Low(q))
      BY <1>5, <2>1, <2>2, FS_Subset
    <2> QED
      BY <1>5, <2>3
  <1> HIDE DEF Place
  <1>8. \A p, q \in D : Place(p) = Place(q) => p = q
    <2> SUFFICES ASSUME NEW p \in D, NEW q \in D, Place(p) = Place(q), p # q
                 PROVE  FALSE
      OBVIOUS
    <2>1. Place(p) < Place(q) \/ Place(q) < Place(p)
      BY <1>4, <1>7
    <2>2. Place(p) \in Int /\ Place(q) \in Int
      BY <1>1, <1>6
    <2> QED
      BY <2>1, <2>2
  <1>9. \A i \in D : \E p \in D : Place(p) = i
    <2> DEFINE f == [p \in D |-> Place(p)]
    <2>1. f \in Injection(D, D)
      BY <1>6, <1>8 DEF Injection, IsInjective
    <2>2. f \in Surjection(D, D)
      BY <1>5, <2>1, FS_Injection
    <2> QED
      BY <2>2 DEF Surjection
  <1>10. \A i \in D : at(i) \in D /\ Place(at(i)) = i
    <2> SUFFICES ASSUME NEW i \in D
                 PROVE  at(i) \in D /\ Place(at(i)) = i
      OBVIOUS
    <2> DEFINE o == CHOOSE o \in places : o[1] = i
    <2>1. \E x \in places : x[1] = i
      <3>1. PICK p \in D : Place(p) = i
        BY <1>9
      <3>2. <<Place(p), p>> \in places /\ <<Place(p), p>>[1] = i
        BY <3>1
      <3> QED
        BY <3>2
    <2>2. o \in places /\ o[1] = i
      BY <2>1
    <2>3. at(i) = o[2]
      OBVIOUS
    <2> HIDE DEF o, at
    <2> QED
      BY <2>2, <2>3
  <1>11. \A p \in D : at(Place(p)) = p
    BY <1>6, <1>8, <1>10
  <1> HIDE DEF at
  <1> HIDE DEF sorted
  <1>12. sorted \in Seq(NodeEntry) /\ Len(sorted) = n /\ DOMAIN sorted = D
    <2>1. sorted \in [D -> NodeEntry]
      BY <1>2, <1>3, <1>10
    <2>2. sorted \in Seq(NodeEntry)
      BY <1>1, <2>1
    <2>3. DOMAIN sorted = D
      BY <2>1
    <2>4. Len(sorted) = n
      BY <1>1, <2>2, <2>3, LenProperties
    <2> QED
      BY <2>2, <2>3, <2>4
  <1>13. \A i \in DOMAIN sorted : \E p \in DOMAIN found : sorted[i] = found[p]
    BY <1>2, <1>10, <1>12 DEF D
  <1>14. Ids(sorted) = Ids(found)
    <2>1. ASSUME NEW p \in D
          PROVE  \E i \in D : sorted[i] = found[p]
      BY <1>2, <1>6, <1>11
    <2>2. \A x \in Ids(sorted) : x \in Ids(found)
      BY <1>13 DEF Ids
    <2>3. \A x \in Ids(found) : x \in Ids(sorted)
      BY <1>12, <2>1 DEF Ids, D
    <2> QED
      BY <2>2, <2>3
  <1>15. ASSUME NEW i \in D, NEW j \in D, i < j,
                CloserTo(id, sorted[j].node_id, sorted[i].node_id)
         PROVE  FALSE
    <2>1. sorted[i] = found[at(i)] /\ sorted[j] = found[at(j)]
      BY <1>2
    <2>2. Before(at(j), at(i))
      BY <1>15, <2>1 DEF Before, node
    <2>3. Place(at(j)) < Place(at(i))
      BY <1>7, <1>10, <2>2
    <2> QED
      BY <1>1, <1>10, <1>15, <2>3
  <1> QED
    BY <1>12, <1>13, <1>14, <1>15 DEF sorted
-----------------------------------------------------------------------------
(***************************************************************************)
(* The operators of a lookup task.                                         *)
(***************************************************************************)
USE NodeIdAssumption, KBucketsAssumption, LookupTaskAssumption
    DEF NodeIdAssumption, KBucketsAssumption, LookupTaskAssumption

Sorted(s, target) ==
    \A i, j \in DOMAIN s : i < j => ~ CloserTo(target, s[j].node_id, s[i].node_id)

\* Ids are finitely many.
LEMMA IdsAreFinite == \A S \in SUBSET Id : IsFiniteSet(S) /\ Cardinality(S) \in Nat
  <1>1. IsFiniteSet(Bits)
    BY FS_Interval DEF Bits
  <1>2. IsFiniteSet(Id)
    BY <1>1, FS_SUBSET DEF Id
  <1> QED
    BY <1>2, FS_Subset, FS_CardinalityType

\* The elements of a finite set, each in one place.
LEMMA SetToSeqLists ==
    ASSUME NEW S, IsFiniteSet(S)
    PROVE  /\ SetToSeq(S) \in Seq(S)
           /\ \A x \in S : \E i \in DOMAIN SetToSeq(S) : SetToSeq(S)[i] = x
  <1> DEFINE n == Cardinality(S)
             f == SetToSeq(S)
  <1>1. n \in Nat /\ ExistsBijection(1 .. n, S)
    BY FS_CardinalityType
  <1>2. f \in [1 .. n -> S] /\ IsInjective(f)
    <2>1. \E g \in [1 .. n -> S] : IsInjective(g)
      BY <1>1 DEF ExistsBijection, Bijection, Injection
    <2> QED
      BY <2>1 DEF SetToSeq
  <1>3. f \in Injection(1 .. n, S)
    BY <1>2 DEF Injection
  <1>4. IsFiniteSet(1 .. n) /\ Cardinality(1 .. n) = n
    BY <1>1, FS_Interval
  <1>5. f \in Surjection(1 .. n, S)
    BY <1>3, <1>4, FS_Injection
  <1> HIDE DEF f, n
  <1> QED
    BY <1>1, <1>2, <1>5 DEF f, Surjection

\* The first K of a list.
LEMMA FirstKEffect ==
    ASSUME NEW S, NEW s \in Seq(S)
    PROVE  /\ FirstK(s) \in Seq(S)
           /\ \E k \in Nat :
                /\ k <= kBucketLimit
                /\ k < kBucketLimit \/ Len(s) <= kBucketLimit => k = Len(s)
                /\ DOMAIN FirstK(s) = 1 .. k /\ Len(FirstK(s)) = k
           /\ \A i \in DOMAIN FirstK(s) : i \in DOMAIN s /\ FirstK(s)[i] = s[i]
  <1> DEFINE k == Min({kBucketLimit, Len(s)})
  <1>1. Len(s) \in Nat /\ DOMAIN s = 1 .. Len(s) /\ \A i \in DOMAIN s : s[i] \in S
    BY LenProperties, ElementOfSeq
  <1>2. k \in {kBucketLimit, Len(s)} /\ k <= kBucketLimit /\ k <= Len(s)
    BY <1>1, MinExists
  <1>5. FirstK(s) = SubSeq(s, 1, k)
    BY DEF FirstK
  <1> HIDE DEF k
  <1>3. k \in Nat /\ k <= Len(s)
    BY <1>1, <1>2
  <1>4. k < kBucketLimit \/ Len(s) <= kBucketLimit => k = Len(s)
    <2>1. \A a, b \in Nat : \A c \in {a, b} : c <= b /\ (c < a \/ b <= a) => c = b
      OBVIOUS
    <2> QED
      BY <1>1, <1>2, <2>1
  <1>6. FirstK(s) = [i \in 1 .. k |-> s[i]]
    BY <1>3, <1>1, <1>5
  <1>7. \A i \in 1 .. k : i \in DOMAIN s
    BY <1>3, <1>1
  <1>8. k \in Nat /\ FirstK(s) \in [1 .. k -> S]
    BY <1>3, <1>1, <1>6, <1>7
  <1>9. FirstK(s) \in Seq(S) /\ DOMAIN FirstK(s) = 1 .. k
    BY <1>8
  <1>10. Len(FirstK(s)) = k
    BY <1>8, <1>9, LenProperties
  <1> QED
    BY <1>2, <1>3, <1>4, <1>6, <1>7, <1>9, <1>10

\* The nodes of two lists put one after the other.
LEMMA ConcatIds ==
    ASSUME NEW S, NEW a \in Seq(S), NEW b \in Seq(S)
    PROVE  a \o b \in Seq(S) /\ Ids(a \o b) = Ids(a) \cup Ids(b)
  <1> DEFINE all == a \o b
  <1>1. /\ all \in Seq(S) /\ Len(all) = Len(a) + Len(b)
        /\ \A i \in 1 .. Len(a) + Len(b) :
             all[i] = IF i <= Len(a) THEN a[i] ELSE b[i - Len(a)]
    BY ConcatProperties
  <1>2. /\ DOMAIN a = 1 .. Len(a) /\ Len(a) \in Nat
        /\ DOMAIN b = 1 .. Len(b) /\ Len(b) \in Nat
        /\ DOMAIN all = 1 .. Len(a) + Len(b)
    BY <1>1, LenProperties
  <1> HIDE DEF all
  <1>3. ASSUME NEW i \in DOMAIN all
        PROVE  all[i].node_id \in Ids(a) \cup Ids(b)
    <2>1. CASE i <= Len(a)
      BY <1>1, <1>2, <2>1 DEF Ids
    <2>2. CASE ~ (i <= Len(a))
      <3>1. i - Len(a) \in DOMAIN b /\ all[i] = b[i - Len(a)]
        BY <1>1, <1>2, <2>2
      <3> QED
        BY <3>1 DEF Ids
    <2> QED
      BY <2>1, <2>2
  <1>4. ASSUME NEW i \in DOMAIN a
        PROVE  a[i].node_id \in Ids(all)
    <2>1. i \in DOMAIN all /\ all[i] = a[i]
      BY <1>1, <1>2
    <2> QED
      BY <2>1 DEF Ids
  <1>5. ASSUME NEW i \in DOMAIN b
        PROVE  b[i].node_id \in Ids(all)
    <2>1. PICK k : k = i + Len(a)
      OBVIOUS
    <2>2. k \in DOMAIN all /\ ~ (k <= Len(a)) /\ k - Len(a) = i
      BY <1>2, <2>1
    <2>3. all[k] = b[i]
      BY <1>1, <1>2, <2>2
    <2> QED
      BY <2>2, <2>3 DEF Ids
  <1>6. Ids(all) = Ids(a) \cup Ids(b)
    BY <1>3, <1>4, <1>5 DEF Ids
  <1> QED
    BY <1>1, <1>6 DEF all

\* Some position of a list that has an id is the first one with it.
LEMMA FirstPosition ==
    ASSUME NEW S, NEW s \in Seq(S), NEW p \in DOMAIN s
    PROVE  \E q \in DOMAIN s : /\ s[q].node_id = s[p].node_id
                               /\ \A r \in 1 .. q - 1 : s[r].node_id # s[p].node_id
  <1> DEFINE same == {q \in DOMAIN s : s[q].node_id = s[p].node_id}
  <1>1. DOMAIN s = 1 .. Len(s) /\ Len(s) \in Nat
    BY LenProperties
  <1>2. same \in SUBSET Nat /\ same # {}
    BY <1>1
  <1>3. PICK q \in same : \A r \in same : ~ (r < q)
    BY <1>2, LeastNatural
  <1>4. \A r \in 1 .. q - 1 : r \in DOMAIN s /\ r < q
    BY <1>1, <1>3
  <1> QED
    BY <1>3, <1>4

\* The first `room' of some positions are at most `room', and not none.
LEMMA FirstPositions ==
    ASSUME NEW n \in Nat, NEW open \in SUBSET (1 .. n), NEW room \in Nat
    PROVE  LET chosen == {q \in open : Cardinality({o \in open : o < q}) < room}
           IN  /\ IsFiniteSet(chosen) /\ Cardinality(chosen) \in Nat
               /\ Cardinality(chosen) <= room
               /\ room > 0 /\ open # {} => chosen # {}
  <1> DEFINE Below(q) == {o \in open : o < q}
             chosen == {q \in open : Cardinality(Below(q)) < room}
             rank == [q \in chosen |-> Cardinality(Below(q))]
  <1>1. IsFiniteSet(open)
    <2>1. IsFiniteSet(1 .. n)
      BY FS_Interval
    <2> QED
      BY <2>1, FS_Subset
  <1>2. \A q \in open : IsFiniteSet(Below(q)) /\ Cardinality(Below(q)) \in Nat
    BY <1>1, FS_Subset, FS_CardinalityType
  <1>3. ASSUME NEW p \in open, NEW q \in open, p < q
        PROVE  Cardinality(Below(p)) # Cardinality(Below(q))
    <2>1. Below(p) \in SUBSET Below(q)
      <3>1. \A o \in open : o < p => o < q
        BY <1>3
      <3> QED
        BY <3>1
    <2>2. p \in Below(q) /\ p \notin Below(p)
      BY <1>3
    <2> QED
      BY <1>2, <2>1, <2>2, FS_Subset
  <1>4. \A p, q \in open : p # q => Cardinality(Below(p)) # Cardinality(Below(q))
    <2>1. \A p, q \in open : p # q => p < q \/ q < p
      OBVIOUS
    <2> QED
      BY <1>3, <2>1
  <1>5. rank \in Injection(chosen, 0 .. room - 1)
    <2> HIDE DEF Below
    <2>1. \A q \in chosen : Cardinality(Below(q)) \in 0 .. room - 1
      BY <1>2
    <2>2. rank \in [chosen -> 0 .. room - 1]
      BY <2>1
    <2>3. \A p, q \in chosen : rank[p] = rank[q] => p = q
      BY <1>4
    <2> QED
      BY <2>2, <2>3 DEF Injection, IsInjective
  <1>6. IsFiniteSet(0 .. room - 1) /\ Cardinality(0 .. room - 1) = room
    BY FS_Interval
  <1>7. IsFiniteSet(chosen) /\ Cardinality(chosen) <= room
    BY <1>5, <1>6, FS_Injection
  <1>8. Cardinality(chosen) \in Nat
    BY <1>7, FS_CardinalityType
  <1>9. ASSUME room > 0, open # {}
        PROVE  chosen # {}
    <2>1. PICK m \in open : \A o \in open : ~ (o < m)
      BY <1>9, LeastNatural
    <2>2. Below(m) = {}
      BY <2>1
    <2>3. Cardinality(Below(m)) = 0
      BY <2>2, FS_EmptySet
    <2>4. m \in chosen
      BY <1>9, <2>3
    <2> QED
      BY <2>4
  <1> QED
    BY <1>7, <1>8, <1>9

(***************************************************************************)
(* sendNextRequests: as many more as there is room for, none of them asked *)
(* before and never the owner; nobody only when all saved nodes were asked.*)
(***************************************************************************)
LEMMA BatchEffect ==
    ASSUME NEW t \in LookupTask, NEW owner, t.active < kParallelismLimit
    PROVE  LET B == BatchIds(t, owner)
           IN  /\ B \subseteq Ids(t.saved) \ (t.queried \cup {owner})
               /\ Cardinality(B) \in Nat /\ t.active + Cardinality(B) <= kParallelismLimit
               /\ B = {} => Ids(t.saved) \subseteq t.queried \cup {owner}
  <1> DEFINE open == Unqueried(t, owner)
             room == kParallelismLimit - t.active
             chosen == {q \in open : Cardinality({o \in open : o < q}) < room}
             B == BatchIds(t, owner)
  <1>1. t.active \in Nat /\ room \in Nat /\ room > 0 /\ ~ (room < 0)
    BY DEF LookupTask
  <1>2. /\ DOMAIN t.saved = 1 .. Len(t.saved) /\ Len(t.saved) \in Nat
        /\ t.saved \in Seq(NodeEntry)
    BY LenProperties DEF LookupTask
  <1>3. open \in SUBSET (1 .. Len(t.saved))
    BY <1>2 DEF Unqueried
  <1>4. /\ IsFiniteSet(chosen) /\ Cardinality(chosen) \in Nat /\ Cardinality(chosen) <= room
        /\ open # {} => chosen # {}
    BY <1>1, <1>2, <1>3, FirstPositions
  <1>5. B = {t.saved[p].node_id : p \in chosen}
    <2>1. NextBatch(t, owner) = {t.saved[p] : p \in chosen}
      BY <1>1 DEF NextBatch
    <2> HIDE DEF chosen
    <2> QED
      BY <2>1 DEF BatchIds
  <1>6. chosen \subseteq open
    OBVIOUS
  <1> HIDE DEF chosen, B, room
  <1>7. B \subseteq Ids(t.saved) \ (t.queried \cup {owner})
    BY <1>2, <1>3, <1>5, <1>6 DEF Unqueried, Ids
  <1>8. Cardinality(B) <= room /\ Cardinality(B) \in Nat
    <2> DEFINE g == [p \in chosen |-> t.saved[p].node_id]
    <2>1. g \in Surjection(chosen, B)
      BY <1>5 DEF Surjection
    <2>2. IsFiniteSet(B) /\ Cardinality(B) <= Cardinality(chosen)
      BY <1>4, <2>1, FS_Surjection
    <2>3. Cardinality(B) \in Nat
      BY <2>2, FS_CardinalityType
    <2> QED
      BY <1>1, <1>4, <2>2, <2>3
  <1>9. ASSUME B = {}
        PROVE  Ids(t.saved) \subseteq t.queried \cup {owner}
    <2>1. open = {}
      BY <1>4, <1>5, <1>9
    <2> SUFFICES ASSUME NEW p \in DOMAIN t.saved,
                        t.saved[p].node_id \notin t.queried \cup {owner}
                 PROVE  FALSE
      BY DEF Ids
    <2>2. PICK q \in DOMAIN t.saved : /\ t.saved[q].node_id = t.saved[p].node_id
                                      /\ \A r \in 1 .. q - 1 :
                                           t.saved[r].node_id # t.saved[p].node_id
      BY <1>2, FirstPosition
    <2>3. q \in open
      BY <2>2 DEF Unqueried
    <2> QED
      BY <2>1, <2>3
  <1>10. t.active + Cardinality(B) <= kParallelismLimit
    BY <1>1, <1>8 DEF room
  <1> QED
    BY <1>7, <1>8, <1>9, <1>10 DEF B

(***************************************************************************)
(* Merge: the saved nodes are then those from before and those of the      *)
(* answer, nearest first.                                                  *)
(***************************************************************************)
LEMMA MergeEffect ==
    ASSUME NEW E \in SUBSET NodeEntry, NEW target \in Id,
           NEW t \in LookupTask, t.saved \in Seq(E), NEW nodes \in Seq(E)
    PROVE  \E s \in Seq(E) :
              /\ Merge(t, nodes, target) = [t EXCEPT !.saved = s]
              /\ Ids(s) = Ids(t.saved) \cup Ids(nodes)
              /\ Sorted(s, target)
  <1> DEFINE new == {p \in DOMAIN nodes :
                        /\ nodes[p].node_id \notin Ids(t.saved)
                        /\ \A q \in 1 .. p - 1 : nodes[q].node_id # nodes[p].node_id}
             chosen == {nodes[p] : p \in new}
             added == SetToSeq(chosen)
             all == t.saved \o added
             s == NearestFirst(all, target)
  <1>1. Merge(t, nodes, target) = [t EXCEPT !.saved = s]
    BY DEF Merge
  <1>2. /\ DOMAIN nodes = 1 .. Len(nodes) /\ Len(nodes) \in Nat
        /\ \A p \in DOMAIN nodes : nodes[p] \in E
    BY LenProperties, ElementOfSeq
  <1>3. IsFiniteSet(chosen) /\ chosen \subseteq E
    <2> DEFINE f == [p \in new |-> nodes[p]]
    <2>1. new \in SUBSET (1 .. Len(nodes)) /\ IsFiniteSet(1 .. Len(nodes))
      BY <1>2, FS_Interval
    <2>2. IsFiniteSet(new)
      BY <2>1, FS_Subset
    <2>3. f \in Surjection(new, chosen)
      BY DEF Surjection
    <2>4. IsFiniteSet(chosen)
      BY <2>2, <2>3, FS_Surjection
    <2> QED
      BY <1>2, <2>4
  <1>4. added \in Seq(chosen) /\ \A x \in chosen : \E i \in DOMAIN added : added[i] = x
    BY <1>3, SetToSeqLists
  <1>5. \A p \in DOMAIN nodes : nodes[p].node_id \in Ids(t.saved)
                              \/ \E x \in chosen : x.node_id = nodes[p].node_id
    <2> SUFFICES ASSUME NEW p \in DOMAIN nodes, nodes[p].node_id \notin Ids(t.saved)
                 PROVE  \E x \in chosen : x.node_id = nodes[p].node_id
      OBVIOUS
    <2>1. PICK q \in DOMAIN nodes : /\ nodes[q].node_id = nodes[p].node_id
                                    /\ \A r \in 1 .. q - 1 : nodes[r].node_id # nodes[p].node_id
      BY FirstPosition
    <2>2. q \in new
      BY <2>1
    <2> QED
      BY <2>1, <2>2
  <1>6. \A x \in chosen : x.node_id \in Ids(nodes)
    BY DEF Ids
  <1> HIDE DEF chosen, added
  <1>7. /\ DOMAIN added = 1 .. Len(added) /\ Len(added) \in Nat
        /\ \A i \in DOMAIN added : added[i] \in chosen
    BY <1>4, LenProperties, ElementOfSeq
  <1>8. added \in Seq(E)
    <2>1. Seq(chosen) \subseteq Seq(E)
      BY <1>3
    <2> QED
      BY <1>4, <2>1
  <1>9. /\ all \in Seq(E) /\ Len(all) = Len(t.saved) + Len(added)
        /\ \A i \in 1 .. Len(t.saved) + Len(added) :
             all[i] = IF i <= Len(t.saved) THEN t.saved[i] ELSE added[i - Len(t.saved)]
    BY <1>8, ConcatProperties
  <1>10. /\ DOMAIN t.saved = 1 .. Len(t.saved) /\ Len(t.saved) \in Nat
         /\ DOMAIN all = 1 .. Len(t.saved) + Len(added)
    BY <1>7, <1>9, LenProperties
  <1> HIDE DEF all
  <1>11. Ids(all) = Ids(t.saved) \cup Ids(added)
    BY <1>8, ConcatIds DEF all
  <1>12. /\ \A x \in Ids(added) : x \in Ids(nodes)
         /\ \A x \in Ids(nodes) : x \in Ids(t.saved) \/ x \in Ids(added)
    <2>1. \A x \in Ids(added) : x \in Ids(nodes)
      BY <1>6, <1>7 DEF Ids
    <2>2. \A x \in chosen : x.node_id \in Ids(added)
      BY <1>4 DEF Ids
    <2>3. \A x \in Ids(nodes) : x \in Ids(t.saved) \/ x \in Ids(added)
      BY <1>5, <2>2 DEF Ids
    <2> QED
      BY <2>1, <2>3
  <1>13. all \in Seq(NodeEntry)
    <2>1. Seq(E) \subseteq Seq(NodeEntry)
      OBVIOUS
    <2> QED
      BY <1>9, <2>1
  <1>14. /\ s \in Seq(NodeEntry) /\ Len(s) = Len(all)
         /\ \A i \in DOMAIN s : \E p \in DOMAIN all : s[i] = all[p]
         /\ Ids(s) = Ids(all)
         /\ \A i, j \in DOMAIN s : i < j => ~ CloserTo(target, s[j].node_id, s[i].node_id)
    BY <1>13, NearestFirstSorts
  <1> HIDE DEF s
  <1>15. s \in Seq(E)
    <2>1. \A p \in DOMAIN all : all[p] \in E
      BY <1>9, ElementOfSeq, LenProperties
    <2>2. \A i \in DOMAIN s : s[i] \in E
      BY <1>14, <2>1
    <2>3. Len(s) \in Nat /\ DOMAIN s = 1 .. Len(s)
      BY <1>14, LenProperties
    <2> QED
      BY <1>14, <2>2, <2>3
  <1>16. Ids(s) = Ids(t.saved) \cup Ids(nodes) /\ Sorted(s, target)
    BY <1>11, <1>12, <1>14 DEF Sorted
  <1> QED
    BY <1>1, <1>15, <1>16
-----------------------------------------------------------------------------
(***************************************************************************)
(* The answers of findKNodes.                                              *)
(***************************************************************************)

\* The nodes a table holds.
Entries(t) == {e \in NodeEntry : \E i \in Bits : \E p \in DOMAIN t[i] : e = t[i][p]}

BucketAt(t, i) == IF i \in Bits THEN t[i] ELSE << >>

\* The widening loop, round by round.
LEMMA WidenedRounds ==
    ASSUME NEW t, NEW home
    PROVE  LET w == Widened(t, home)
           IN  /\ w[0] = BucketAt(t, home)
               /\ \A r \in 1 .. kNodeIdSize :
                    w[r] = w[r - 1] \o BucketAt(t, home - r) \o BucketAt(t, home + r)
  <1> DEFINE Round(w, r) == IF r = 0 THEN BucketAt(t, home)
                            ELSE w[r - 1] \o BucketAt(t, home - r) \o BucketAt(t, home + r)
             Rounds(w, n) == w = [r \in 0 .. n |-> Round(w, r)]
             bad == {n \in Nat : ~ \E w : Rounds(w, n)}
  <1>1. bad = {}
    <2> SUFFICES ASSUME bad # {}
                 PROVE  FALSE
      OBVIOUS
    <2>1. PICK n \in bad : \A m \in bad : ~ (m < n)
      BY LeastNatural
    <2>2. CASE n = 0
      <3> DEFINE w == [r \in 0 .. 0 |-> BucketAt(t, home)]
      <3>1. Rounds(w, 0)
        OBVIOUS
      <3> QED
        BY <2>1, <2>2, <3>1
    <2>3. CASE n # 0
      <3>1. n - 1 \in Nat /\ n - 1 < n /\ n \in Nat
        BY <2>1, <2>3
      <3>2. PICK v : Rounds(v, n - 1)
        BY <2>1, <3>1
      <3> DEFINE w == [r \in 0 .. n |-> IF r = n THEN Round(v, n) ELSE v[r]]
      <3>3. \A r \in 0 .. n - 1 : w[r] = v[r] /\ v[r] = Round(v, r)
        <4> HIDE DEF Round
        <4>1. \A r \in 0 .. n - 1 : v[r] = Round(v, r)
          BY <3>2
        <4> QED
          BY <3>1, <4>1
      <3>4. \A r \in 0 .. n : Round(w, r) = Round(v, r)
        <4> SUFFICES ASSUME NEW r \in 0 .. n, r # 0
                     PROVE  w[r - 1] = v[r - 1]
          OBVIOUS
        <4>1. r - 1 \in 0 .. n - 1
          BY <3>1
        <4> QED
          BY <3>3, <4>1
      <3>5. \A r \in 0 .. n : w[r] = Round(w, r)
        <4>1. \A r \in 0 .. n : r = n \/ r \in 0 .. n - 1
          BY <3>1
        <4>2. w[n] = Round(v, n)
          BY <3>1
        <4> HIDE DEF w, Round
        <4> QED
          BY <3>3, <3>4, <4>1, <4>2
      <3>6. Rounds(w, n)
        BY <3>5
      <3> QED
        BY <2>1, <3>6
    <2> QED
      BY <2>2, <2>3
  <1>2. \E w : Rounds(w, kNodeIdSize)
    BY <1>1
  <1>3. Widened(t, home) = CHOOSE w : Rounds(w, kNodeIdSize)
    BY DEF Widened, BucketAt
  <1>4. Rounds(Widened(t, home), kNodeIdSize)
    <2> HIDE DEF Rounds
    <2> QED
      BY <1>2, <1>3
  <1> QED
    BY <1>4

\* After r rounds the nodes of all buckets between the edges were taken, and no
\* others.
LEMMA WidenedHolds ==
    ASSUME NEW t \in KBuckets, NEW home \in Int, NEW r \in 0 .. kNodeIdSize
    PROVE  LET f == Widened(t, home)[r]
           IN  /\ f \in Seq(Entries(t))
               /\ \A i \in Bits : home - r <= i /\ i <= home + r => Ids(t[i]) \subseteq Ids(f)
  <1>1. PICK w : w = Widened(t, home)
    OBVIOUS
  <1>2. /\ w[0] = BucketAt(t, home)
        /\ \A n \in 1 .. kNodeIdSize :
             w[n] = w[n - 1] \o BucketAt(t, home - n) \o BucketAt(t, home + n)
    BY <1>1, WidenedRounds
  <1>3. \A i : BucketAt(t, i) \in Seq(Entries(t))
    <2>1. ASSUME NEW i \in Bits
          PROVE  t[i] \in Seq(Entries(t))
      <3>1. /\ t[i] \in Seq(NodeEntry) /\ Len(t[i]) \in Nat
            /\ DOMAIN t[i] = 1 .. Len(t[i])
        BY LenProperties DEF KBuckets
      <3>2. \A p \in DOMAIN t[i] : t[i][p] \in Entries(t)
        BY <3>1, ElementOfSeq DEF Entries
      <3> QED
        BY <3>1, <3>2
    <2> QED
      BY <2>1 DEF BucketAt
  <1>4. \A i \in Bits : Bits \subseteq Int /\ BucketAt(t, i) = t[i]
    BY DEF BucketAt, Bits
  <1> DEFINE Taken(n) == /\ w[n] \in Seq(Entries(t))
                         /\ \A i \in Bits : home - n <= i /\ i <= home + n
                                           => Ids(t[i]) \subseteq Ids(w[n])
             bad == {n \in 0 .. kNodeIdSize : ~ Taken(n)}
  <1>5. Taken(0)
    <2>1. \A i \in Bits : home - 0 <= i /\ i <= home + 0 => i = home
      BY <1>4
    <2> QED
      BY <1>2, <1>3, <1>4, <2>1
  <1>6. ASSUME NEW n \in 1 .. kNodeIdSize, Taken(n - 1)
        PROVE  Taken(n)
    <2>1. PICK a, b, c : a = w[n - 1] /\ b = BucketAt(t, home - n) /\ c = BucketAt(t, home + n)
      OBVIOUS
    <2>2. w[n] = a \o b \o c
      BY <1>2, <2>1
    <2>3. a \in Seq(Entries(t)) /\ b \in Seq(Entries(t)) /\ c \in Seq(Entries(t))
      BY <1>3, <1>6, <2>1
    <2>4. a \o b \in Seq(Entries(t)) /\ Ids(a \o b) = Ids(a) \cup Ids(b)
      BY <2>3, ConcatIds
    <2>5. w[n] \in Seq(Entries(t)) /\ Ids(w[n]) = Ids(a) \cup Ids(b) \cup Ids(c)
      <3>1. PICK ab \in Seq(Entries(t)) : ab = a \o b
        BY <2>4
      <3>2. ab \o c \in Seq(Entries(t)) /\ Ids(ab \o c) = Ids(ab) \cup Ids(c)
        BY <2>3, ConcatIds
      <3> QED
        BY <2>2, <2>4, <3>1, <3>2
    <2>6. ASSUME NEW i \in Bits, home - n <= i, i <= home + n
          PROVE  Ids(t[i]) \subseteq Ids(w[n])
      <3>1. i = home - n \/ i = home + n \/ (home - (n - 1) <= i /\ i <= home + (n - 1))
        BY <1>4, <2>6
      <3>2. t[i] = b \/ t[i] = c \/ Ids(t[i]) \subseteq Ids(a)
        BY <1>4, <1>6, <2>1, <3>1
      <3> QED
        BY <2>5, <3>2
    <2> QED
      BY <2>5, <2>6
  <1>7. bad = {}
    <2> SUFFICES ASSUME bad # {}
                 PROVE  FALSE
      OBVIOUS
    <2>1. bad \in SUBSET Nat
      OBVIOUS
    <2>2. PICK n \in bad : \A m \in bad : ~ (m < n)
      BY <2>1, LeastNatural
    <2>3. n # 0
      BY <1>5
    <2>4. n \in 1 .. kNodeIdSize /\ n - 1 \in 0 .. kNodeIdSize /\ n - 1 < n
      BY <2>3
    <2> HIDE DEF Taken
    <2> QED
      BY <1>6, <2>2, <2>4
  <1> HIDE DEF Taken
  <1>8. Taken(r)
    BY <1>7
  <1> QED
    BY <1>1, <1>8 DEF Taken

\* A list is empty when it has no first place, when its length is 0 and when it
\* has no ids.
LEMMA EmptyList ==
    ASSUME NEW S, NEW s \in Seq(S)
    PROVE  /\ s # << >> <=> 1 \in DOMAIN s
           /\ s # << >> <=> Ids(s) # {}
           /\ s # << >> <=> Len(s) # 0
  <1>1. DOMAIN s = 1 .. Len(s) /\ Len(s) \in Nat
    BY LenProperties
  <1>2. s # << >> <=> Len(s) # 0
    BY <1>1, EmptySeq
  <1>3. Len(s) # 0 <=> 1 \in DOMAIN s
    BY <1>1
  <1>4. \A p \in DOMAIN s : 1 \in DOMAIN s
    BY <1>1
  <1>5. Ids(s) # {} <=> 1 \in DOMAIN s
    BY <1>4 DEF Ids
  <1> QED
    BY <1>2, <1>3, <1>5

\* A list in order starts with the nearest of its nodes.
LEMMA NearestIsFirst ==
    ASSUME NEW target \in Id, NEW s \in Seq(NodeEntry), s # << >>, Sorted(s, target),
           NEW y \in Ids(s) \ {s[1].node_id}
    PROVE  CloserTo(target, s[1].node_id, y)
  <1>1. /\ DOMAIN s = 1 .. Len(s) /\ Len(s) \in Nat /\ Len(s) # 0
        /\ \A i \in DOMAIN s : s[i].node_id \in Id
    <2>1. \A i \in DOMAIN s : s[i] \in NodeEntry
      BY ElementOfSeq, LenProperties
    <2> QED
      BY <2>1, LenProperties, EmptySeq DEF NodeEntry
  <1>2. PICK j \in DOMAIN s : y = s[j].node_id
    BY DEF Ids
  <1>3. 1 \in DOMAIN s /\ 1 < j
    BY <1>1, <1>2
  <1>4. ~ CloserTo(target, y, s[1].node_id)
    BY <1>2, <1>3 DEF Sorted
  <1> QED
    BY <1>1, <1>2, <1>3, <1>4, CloserToStrictOrder

(***************************************************************************)
(* findKNodes: at most K nodes of the table; all but those of bucket 0     *)
(* when they are fewer than K; and, when the home bucket of the target is  *)
(* not empty, one as near to the target as any in that bucket.             *)
(***************************************************************************)
LEMMA FindKNodesEffect ==
    ASSUME NEW t, WellFormed(t), NEW owner \in Id, NEW id \in Id
    PROVE  LET a == FindKNodes(t, owner, id)
               home == Home(owner, id)
           IN  /\ a \in Seq(Entries(t)) /\ Len(a) <= kBucketLimit
               /\ Len(a) < kBucketLimit =>
                    \A i \in Bits \ {0} : Ids(t[i]) \subseteq Ids(a)
               /\ home \in Bits /\ t[home] # << >> =>
                    \E x \in Ids(a) : \A y \in Ids(t[home]) \ {x} : CloserTo(id, x, y)
  <1> DEFINE home == Home(owner, id)
             w == Widened(t, home)
             ends == {r \in 0 .. kNodeIdSize : WideningEnds(w[r], home, r)}
             n == Min(ends)
             sorted == NearestFirst(w[n], id)
             a == FindKNodes(t, owner, id)
  <1>1. home \in Int /\ home <= kNodeIdSize - 1 /\ home >= -1
    <2>1. id # owner => Xor(id, owner) \in SUBSET Bits /\ Xor(id, owner) # {}
      BY XorType DEF Id
    <2>2. id # owner => HighestBit(Xor(id, owner)) \in Bits
      BY <2>1, HighestBitExists
    <2> QED
      BY <2>2 DEF Home, Bits
  <1>2. t \in KBuckets /\ \A i \in Bits : Len(t[i]) <= kBucketLimit
    BY DEF WellFormed
  <1> HIDE DEF home
  <1>3. \A r \in 0 .. kNodeIdSize :
           /\ w[r] \in Seq(Entries(t))
           /\ \A i \in Bits : home - r <= i /\ i <= home + r => Ids(t[i]) \subseteq Ids(w[r])
    BY <1>1, <1>2, WidenedHolds
  <1>4. n \in 0 .. kNodeIdSize /\ WideningEnds(w[n], home, n)
    <2>1. kNodeIdSize \in ends
      BY <1>1 DEF WideningEnds
    <2>2. ends \in SUBSET Nat /\ ends # {}
      BY <2>1
    <2>3. n \in ends
      BY <2>2, MinExists
    <2> QED
      BY <2>3
  <1>5. w[0] = BucketAt(t, home)
    BY WidenedRounds
  <1>6. a = IF Len(w[0]) = kBucketLimit THEN w[0] ELSE FirstK(sorted)
    BY DEF FindKNodes, FirstK, home
  <1> HIDE DEF w, n, a
  <1>7. /\ w[0] \in Seq(Entries(t)) /\ w[n] \in Seq(Entries(t))
        /\ Entries(t) \subseteq NodeEntry
        /\ w[0] \in Seq(NodeEntry) /\ w[n] \in Seq(NodeEntry)
    <2>1. Entries(t) \subseteq NodeEntry
      BY DEF Entries
    <2>2. Seq(Entries(t)) \subseteq Seq(NodeEntry)
      BY <2>1
    <2>3. 0 \in 0 .. kNodeIdSize
      OBVIOUS
    <2> QED
      BY <1>3, <1>4, <2>1, <2>2, <2>3
  <1>8. /\ sorted \in Seq(Entries(t)) /\ sorted \in Seq(NodeEntry)
        /\ Len(sorted) = Len(w[n]) /\ Ids(sorted) = Ids(w[n]) /\ Sorted(sorted, id)
    <2>1. /\ sorted \in Seq(NodeEntry) /\ Len(sorted) = Len(w[n])
          /\ \A i \in DOMAIN sorted : \E p \in DOMAIN w[n] : sorted[i] = w[n][p]
          /\ Ids(sorted) = Ids(w[n])
          /\ \A i, j \in DOMAIN sorted :
               i < j => ~ CloserTo(id, sorted[j].node_id, sorted[i].node_id)
      BY <1>7, NearestFirstSorts
    <2> HIDE DEF sorted
    <2>2. \A p \in DOMAIN w[n] : w[n][p] \in Entries(t)
      BY <1>7, ElementOfSeq, LenProperties
    <2>3. \A i \in DOMAIN sorted : sorted[i] \in Entries(t)
      BY <2>1, <2>2
    <2>4. Len(sorted) \in Nat /\ DOMAIN sorted = 1 .. Len(sorted)
      BY <2>1, LenProperties
    <2>5. sorted \in Seq(Entries(t))
      BY <2>1, <2>3, <2>4
    <2> QED
      BY <2>1, <2>5 DEF Sorted
  <1> HIDE DEF sorted
  <1>9. /\ FirstK(sorted) \in Seq(Entries(t))
        /\ \A i \in DOMAIN FirstK(sorted) : i \in DOMAIN sorted /\ FirstK(sorted)[i] = sorted[i]
    BY <1>8, FirstKEffect
  <1>10. PICK k \in Nat :
           /\ k <= kBucketLimit
           /\ k < kBucketLimit \/ Len(sorted) <= kBucketLimit => k = Len(sorted)
           /\ DOMAIN FirstK(sorted) = 1 .. k /\ Len(FirstK(sorted)) = k
    BY <1>8, FirstKEffect
  <1>11. a \in Seq(Entries(t)) /\ Len(a) <= kBucketLimit
    <2>1. kBucketLimit <= kBucketLimit
      OBVIOUS
    <2> QED
      BY <1>6, <1>7, <1>9, <1>10, <2>1
  <1>12. ASSUME Len(a) < kBucketLimit, NEW i \in Bits \ {0}
         PROVE  Ids(t[i]) \subseteq Ids(a)
    <2>1. a = FirstK(sorted) /\ Len(w[n]) < kBucketLimit
      <3>1. a = FirstK(sorted)
        BY <1>6, <1>12
      <3>2. Len(sorted) < kBucketLimit
        BY <1>10, <1>12, <3>1
      <3> QED
        BY <1>8, <3>1, <3>2
    <2>2. home - 1 - n <= 0 /\ home + 1 + n >= kNodeIdSize
      <3>1. Len(w[n]) \in Nat
        BY <1>7, LenProperties
      <3> QED
        BY <1>4, <2>1, <3>1 DEF WideningEnds
    <2>3. home - n <= i /\ i <= home + n
      BY <1>1, <1>4, <2>2 DEF Bits
    <2>4. Ids(t[i]) \subseteq Ids(sorted)
      BY <1>3, <1>4, <1>8, <2>3
    <2>5. Ids(sorted) = Ids(FirstK(sorted))
      <3>1. k = Len(sorted) /\ DOMAIN sorted = 1 .. k
        BY <1>8, <1>10, <1>12, <2>1, LenProperties
      <3> QED
        BY <1>9, <1>10, <3>1 DEF Ids
    <2> QED
      BY <2>1, <2>4, <2>5
  <1>13. ASSUME home \in Bits, t[home] # << >>
         PROVE  \E x \in Ids(a) : \A y \in Ids(t[home]) \ {x} : CloserTo(id, x, y)
    <2>0. w[0] = t[home] /\ w[0] # << >>
      BY <1>5, <1>13 DEF BucketAt
    <2>1. CASE a = w[0]
      <3> DEFINE s == NearestFirst(w[0], id)
      <3>1. s \in Seq(NodeEntry) /\ Len(s) = Len(w[0]) /\ Ids(s) = Ids(w[0]) /\ Sorted(s, id)
        BY <1>7, NearestFirstSorts DEF Sorted
      <3> HIDE DEF s
      <3>2. s # << >> /\ s[1].node_id \in Ids(s)
        BY <1>7, <2>0, <3>1, LenProperties, EmptySeq DEF Ids
      <3>3. \A y \in Ids(s) \ {s[1].node_id} : CloserTo(id, s[1].node_id, y)
        BY <3>1, <3>2, NearestIsFirst
      <3> QED
        BY <2>0, <2>1, <3>1, <3>2, <3>3
    <2>2. CASE a = FirstK(sorted)
      <3>1. Ids(t[home]) \subseteq Ids(sorted)
        <4>1. home - n <= home /\ home <= home + n
          BY <1>1, <1>4
        <4> QED
          BY <1>3, <1>4, <1>8, <1>13, <4>1
      <3>2. Ids(t[home]) # {}
        BY <1>7, <2>0, EmptyList
      <3>3. Ids(sorted) # {}
        BY <3>1, <3>2
      <3>4. sorted # << >> /\ Len(sorted) # 0
        BY <1>8, <3>3, EmptyList
      <3>5. FirstK(sorted) # << >>
        <4>1. k = 0 => k < kBucketLimit
          OBVIOUS
        <4>2. Len(FirstK(sorted)) # 0
          BY <1>10, <3>4, <4>1
        <4> QED
          BY <1>9, <4>2, EmptyList
      <3>6. 1 \in DOMAIN FirstK(sorted)
        BY <1>9, <3>5, EmptyList
      <3>7. FirstK(sorted)[1] = sorted[1] /\ sorted[1].node_id \in Ids(FirstK(sorted))
        BY <1>9, <3>6 DEF Ids
      <3>8. \A y \in Ids(sorted) \ {sorted[1].node_id} : CloserTo(id, sorted[1].node_id, y)
        BY <1>8, <3>4, NearestIsFirst
      <3> QED
        BY <2>2, <3>1, <3>7, <3>8
    <2> QED
      BY <1>6, <2>1, <2>2
  <1> QED
    BY <1>11, <1>12, <1>13 DEF a, home
-----------------------------------------------------------------------------
(***************************************************************************)
(* The life of a task, as a predicate Sound of its value t, the peers W it *)
(* waits for and the ids it was told; and that start, an answer and a      *)
(* timer preserve it.  E is the set of entries the task may meet.          *)
(***************************************************************************)
Others(E, owner) == {e.node_id : e \in E} \ {owner}

\* Requests: what active_requests_ counts, and when taskFinished was emitted.
Counting(t, W, owner, E) ==
    /\ t \in LookupTask /\ t.saved \in Seq(E)
    /\ t.queried \subseteq Others(E, owner) /\ W \subseteq t.queried
    /\ t.active = Cardinality(W) /\ t.active <= kParallelismLimit
    /\ t.finished = IF W = {} THEN 1 ELSE 0
    /\ t.complete => W = {}

\* Until then nothing is dropped, and a list longer than K is in order.
Collecting(s, told, target) == Ids(s) = told /\ (Sorted(s, target) \/ Len(s) <= kBucketLimit)

\* What is reported.
Nearest(s, told, target) ==
    /\ Ids(s) \subseteq told
    /\ Len(s) < kBucketLimit => Ids(s) = told
    /\ \A x \in Ids(s), y \in told \ Ids(s) : CloserTo(target, x, y)

Reporting(t, told, owner, target) ==
    Ids(t.saved) \subseteq t.queried \cup {owner} /\ Nearest(t.saved, told, target)

Sound(t, W, told, owner, target, E) ==
    /\ Counting(t, W, owner, E)
    /\ W # {} => Collecting(t.saved, told, target)
    /\ W = {} /\ t.found = {} => Reporting(t, told, owner, target)

\* What every lemma below is told of its parameters.
Setting(owner, target, E) == owner \in Id /\ target \in Id /\ E \subseteq NodeEntry

\* Entries name ids, and lists of them are lists of entries.
LEMMA EntriesOf ==
    ASSUME NEW owner, NEW target, NEW E, Setting(owner, target, E)
    PROVE  /\ Seq(E) \subseteq Seq(NodeEntry) /\ Others(E, owner) \subseteq Id
           /\ \A s \in Seq(E) : Ids(s) \subseteq Others(E, owner) \cup {owner}
           /\ \A S \in SUBSET Others(E, owner) : IsFiniteSet(S) /\ Cardinality(S) \in Nat
  <1>1. Seq(E) \subseteq Seq(NodeEntry)
    BY DEF Setting
  <1>2. Others(E, owner) \subseteq Id
    BY DEF Setting, Others, NodeEntry
  <1>3. ASSUME NEW s \in Seq(E)
        PROVE  Ids(s) \subseteq Others(E, owner) \cup {owner}
    <2>1. \A i \in DOMAIN s : s[i] \in E
      BY ElementOfSeq, LenProperties
    <2> QED
      BY <2>1 DEF Ids, Others
  <1>4. \A S \in SUBSET Others(E, owner) : IsFiniteSet(S) /\ Cardinality(S) \in Nat
    BY <1>2, IdsAreFinite
  <1> QED
    BY <1>1, <1>2, <1>3, <1>4

\* The first K of a list that lost nothing are the nearest of what was told.
LEMMA FirstKIsNearest ==
    ASSUME NEW owner, NEW target, NEW E, Setting(owner, target, E),
           NEW s \in Seq(E), NEW told, Collecting(s, told, target)
    PROVE  Nearest(FirstK(s), told, target)
  <1> DEFINE f == FirstK(s)
  <1>1. PICK k \in Nat : /\ k < kBucketLimit \/ Len(s) <= kBucketLimit => k = Len(s)
                         /\ DOMAIN f = 1 .. k /\ Len(f) = k
    BY FirstKEffect
  <1>2. \A i \in DOMAIN f : i \in DOMAIN s /\ f[i] = s[i]
    BY FirstKEffect
  <1>3. /\ DOMAIN s = 1 .. Len(s) /\ Len(s) \in Nat
        /\ \A i \in DOMAIN s : s[i].node_id \in Id
    <2>1. \A i \in DOMAIN s : s[i] \in E
      BY ElementOfSeq, LenProperties
    <2> QED
      BY <2>1, LenProperties DEF Setting, NodeEntry
  <1> HIDE DEF f
  <1>4. Ids(f) \subseteq Ids(s)
    BY <1>2 DEF Ids
  <1>5. Len(s) <= kBucketLimit => Ids(f) = Ids(s)
    <2> SUFFICES ASSUME Len(s) <= kBucketLimit
                 PROVE  \A i \in DOMAIN s : s[i].node_id \in Ids(f)
      BY <1>4 DEF Ids
    <2>1. k = Len(s)
      BY <1>1, <1>3
    <2> QED
      BY <1>1, <1>2, <1>3, <2>1 DEF Ids
  <1>6. Len(f) < kBucketLimit => Ids(f) = Ids(s)
    <2>1. k < kBucketLimit => Len(s) <= kBucketLimit
      BY <1>1
    <2> QED
      BY <1>1, <1>5, <2>1
  <1>7. ASSUME Sorted(s, target), NEW x \in Ids(f), NEW y \in Ids(s) \ Ids(f)
        PROVE  CloserTo(target, x, y)
    <2>1. PICK i \in DOMAIN f : x = f[i].node_id
      BY <1>7 DEF Ids
    <2>2. PICK j \in DOMAIN s : y = s[j].node_id
      BY <1>7 DEF Ids
    <2>3. j \notin DOMAIN f
      BY <1>2, <1>7, <2>2 DEF Ids
    <2>4. i \in DOMAIN s /\ x = s[i].node_id
      BY <1>2, <2>1
    <2>5. i < j
      <3>1. i \in 1 .. k /\ j \notin 1 .. k
        BY <1>1, <2>1, <2>3
      <3>2. j \in 1 .. Len(s)
        BY <1>3, <2>2
      <3>3. \A m, n \in Nat : \A a \in 1 .. m, b \in 1 .. n : b \notin 1 .. m => a < b
        OBVIOUS
      <3> QED
        BY <1>1, <1>3, <3>1, <3>2, <3>3
    <2>6. ~ CloserTo(target, y, x)
      BY <1>7, <2>2, <2>4, <2>5 DEF Sorted
    <2>7. x # y /\ x \in Id /\ y \in Id
      BY <1>3, <1>7, <2>2, <2>4
    <2> QED
      BY <2>6, <2>7, CloserToStrictOrder DEF Setting
  <1> QED
    BY <1>1, <1>4, <1>5, <1>6, <1>7 DEF Collecting, Nearest, f

\* What is reported is the first K, or the data.
LEMMA FinishEffect ==
    ASSUME NEW owner, NEW target, NEW E, Setting(owner, target, E),
           NEW v \in LookupTask, v.saved \in Seq(E), v.finished = 0,
           NEW u, u = Finish(v)
    PROVE  /\ u \in LookupTask /\ u.saved \in Seq(E)
           /\ u.saved = IF v.found = {} THEN FirstK(v.saved) ELSE v.saved
           /\ u.queried = v.queried /\ u.active = v.active /\ u.found = v.found
           /\ u.complete /\ u.finished = 1
  <1>1. PICK r : r = IF v.found = {} THEN FirstK(v.saved) ELSE v.saved
    OBVIOUS
  <1>2. r \in Seq(E)
    BY <1>1, FirstKEffect
  <1>3. r \in Seq(NodeEntry)
    BY <1>2, EntriesOf
  <1>4. EmitFinished(v) = [v EXCEPT !.finished = 1, !.saved = r]
    BY <1>1 DEF EmitFinished
  <1>5. u = [v EXCEPT !.finished = 1, !.saved = r, !.complete = TRUE]
    BY <1>4 DEF Finish, LookupTask
  <1>6. u \in LookupTask
    BY ONLY <1>3, <1>5, v \in LookupTask DEF LookupTask
  <1>7. /\ u.queried = v.queried /\ u.active = v.active /\ u.found = v.found
        /\ u.complete /\ u.finished = 1 /\ u.saved = r
    BY ONLY <1>5, v \in LookupTask DEF LookupTask
  <1> QED
    BY <1>1, <1>2, <1>6, <1>7

\* What sendNextRequests does before it looks whether the task is over.
Asks(t, B) == [t EXCEPT !.queried = @ \cup B, !.active = @ + Cardinality(B)]

Ready(t, rest, B, told, owner, target, E) ==
    /\ t \in LookupTask /\ t.saved \in Seq(E) /\ t.queried \subseteq Others(E, owner)
    /\ ~ t.complete /\ t.finished = 0
    /\ rest \subseteq t.queried /\ t.active = Cardinality(rest)
    /\ B \subseteq Ids(t.saved) \ (t.queried \cup {owner}) /\ t.active + Cardinality(B) <= kParallelismLimit
    /\ Collecting(t.saved, told, target)
    /\ B = {} /\ t.found = {} => Ids(FirstK(t.saved)) \subseteq t.queried \cup {owner}

Continued(t, rest, B, told, u, owner, target, E) ==
    /\ Sound(u, rest \cup B, told, owner, target, E)
    /\ u.queried = t.queried \cup B /\ u.found = t.found
    /\ B \subseteq Ids(u.saved)

(***************************************************************************)
(* After an answer is taken into t, the task asks B more and is finished   *)
(* when it then waits for nobody.                                          *)
(***************************************************************************)
LEMMA Continue ==
    ASSUME NEW owner, NEW target, NEW E, Setting(owner, target, E),
           NEW t, NEW rest, NEW B, NEW told, Ready(t, rest, B, told, owner, target, E),
           NEW u, u = FinishIfIdle(Asks(t, B))
    PROVE  Continued(t, rest, B, told, u, owner, target, E)
  <1> DEFINE waiting == rest \cup B
             v == Asks(t, B)
  <1>0. /\ t \in LookupTask /\ t.saved \in Seq(E) /\ t.queried \subseteq Others(E, owner)
        /\ ~ t.complete /\ t.finished = 0
        /\ rest \subseteq t.queried /\ t.active = Cardinality(rest)
        /\ B \subseteq Others(E, owner) \ t.queried /\ t.active + Cardinality(B) <= kParallelismLimit
        /\ Collecting(t.saved, told, target)
        /\ B = {} /\ t.found = {} => Ids(FirstK(t.saved)) \subseteq t.queried \cup {owner}
        /\ B \subseteq Ids(t.saved)
    BY EntriesOf DEF Ready
  <1>1. /\ t.queried \in SUBSET Id /\ t.active \in Nat /\ Others(E, owner) \subseteq Id
        /\ waiting \in SUBSET Others(E, owner) /\ rest \in SUBSET Others(E, owner) /\ B \in SUBSET Others(E, owner)
        /\ rest \cap B = {}
    BY <1>0, EntriesOf DEF LookupTask
  <1>2. /\ IsFiniteSet(waiting) /\ IsFiniteSet(rest) /\ IsFiniteSet(B)
        /\ Cardinality(waiting) \in Nat /\ Cardinality(rest) \in Nat /\ Cardinality(B) \in Nat
    BY <1>1, EntriesOf
  <1>3. Cardinality(waiting) = Cardinality(rest) + Cardinality(B)
    <2>1. Cardinality(waiting) = Cardinality(rest) + Cardinality(B) - Cardinality(rest \cap B)
      BY <1>2, FS_Union
    <2>2. Cardinality(rest \cap B) = 0
      BY <1>1, FS_EmptySet
    <2> QED
      BY <1>2, <2>1, <2>2
  <1>4. waiting = {} <=> t.active + Cardinality(B) = 0
    BY <1>0, <1>2, <1>3, FS_EmptySet
  <1>5. /\ v \in LookupTask /\ v.queried = t.queried \cup B
        /\ v.active = t.active + Cardinality(B) /\ v.saved = t.saved /\ v.found = t.found
        /\ ~ v.complete /\ v.finished = 0
    <2>1. v = [t EXCEPT !.queried = t.queried \cup B, !.active = t.active + Cardinality(B)]
      BY DEF Asks
    <2>2. t.queried \cup B \in SUBSET Id /\ t.active + Cardinality(B) \in Nat
      BY <1>1, <1>2
    <2> HIDE DEF v
    <2>3. /\ v.queried = t.queried \cup B /\ v.active = t.active + Cardinality(B)
          /\ v.saved = t.saved /\ v.found = t.found
          /\ v.complete = t.complete /\ v.finished = t.finished
      BY <1>0, <2>1 DEF LookupTask
    <2>4. v \in LookupTask
      BY <1>0, <2>1, <2>2 DEF LookupTask
    <2> QED
      BY <1>0, <2>3, <2>4
  <1>6. /\ v.queried \subseteq Others(E, owner) /\ waiting \subseteq v.queried
        /\ v.active = Cardinality(waiting) /\ v.active <= kParallelismLimit
    BY <1>0, <1>3, <1>5
  <1> HIDE DEF v
  <1>7. CASE waiting # {}
    <2>1. u = v
      BY <1>4, <1>5, <1>7 DEF FinishIfIdle, v
    <2>2. Counting(v, waiting, owner, E)
      BY <1>0, <1>5, <1>6, <1>7 DEF Counting
    <2> QED
      BY <1>0, <1>5, <1>7, <2>1, <2>2 DEF Sound, Continued
  <1>8. CASE waiting = {}
    <2>1. u = Finish(v)
      BY <1>4, <1>5, <1>8 DEF FinishIfIdle, v
    <2>2. /\ u \in LookupTask /\ u.saved \in Seq(E)
          /\ u.saved = IF v.found = {} THEN FirstK(v.saved) ELSE v.saved
          /\ u.queried = v.queried /\ u.active = v.active /\ u.found = v.found
          /\ u.complete /\ u.finished = 1
      BY <1>0, <1>5, <2>1, FinishEffect
    <2>3. Counting(u, waiting, owner, E)
      BY <1>0, <1>6, <1>8, <2>2 DEF Counting
    <2>4. ASSUME u.found = {}
          PROVE  Reporting(u, told, owner, target)
      <3>1. u.saved = FirstK(t.saved) /\ B = {}
        BY <1>0, <1>5, <1>8, <2>2, <2>4
      <3>2. Nearest(u.saved, told, target)
        BY <1>0, <3>1, FirstKIsNearest
      <3> QED
        BY <1>0, <1>5, <2>2, <2>4, <3>1, <3>2 DEF Reporting
    <2> QED
      BY <1>0, <1>5, <1>8, <2>2, <2>3, <2>4 DEF Sound, Continued
  <1> QED
    BY <1>7, <1>8

\* The task waits for x.
Awaits(t, W, x, told, owner, target, E) ==
    Setting(owner, target, E) /\ Sound(t, W, told, owner, target, E) /\ x \in W

\* A value of the task that takes part in the answer of x.
Taken(v, t, E) ==
    /\ v \in LookupTask /\ v.saved \in Seq(E) /\ v.queried = t.queried
    /\ v.active = t.active - 1 /\ ~ v.complete /\ v.finished = 0

\* What the answer of x, or its timer, makes of the task.
Settled(t, W, x, told, u, owner, target, E) ==
    /\ Sound(u, (W \ {x}) \cup (u.queried \ t.queried), told, owner, target, E)
    /\ t.queried \subseteq u.queried /\ u.queried \ t.queried \subseteq Ids(u.saved)

\* A task that waits is not over, and one answer less is counted.
LEMMA Waiting ==
    ASSUME NEW t, NEW W, NEW x, NEW told, NEW owner, NEW target, NEW E,
           Awaits(t, W, x, told, owner, target, E)
    PROVE  /\ t \in LookupTask /\ t.saved \in Seq(E)
           /\ W \subseteq t.queried /\ t.queried \subseteq Others(E, owner)
           /\ ~ t.complete /\ t.finished = 0
           /\ t.active \in Nat \ {0} /\ t.active <= kParallelismLimit
           /\ t.active - 1 = Cardinality(W \ {x})
           /\ Collecting(t.saved, told, target)
  <1>1. /\ Setting(owner, target, E) /\ x \in W
        /\ Counting(t, W, owner, E) /\ Collecting(t.saved, told, target)
    BY DEF Awaits, Sound
  <1>2. W \in SUBSET Others(E, owner)
    BY <1>1 DEF Counting
  <1>3. IsFiniteSet(W) /\ Cardinality(W) \in Nat
    BY <1>1, <1>2, EntriesOf
  <1>4. Cardinality(W) # 0
    BY <1>1, <1>3, FS_EmptySet
  <1>5. Cardinality(W \ {x}) = Cardinality(W) - 1
    BY <1>1, <1>3, FS_RemoveElement
  <1> QED
    BY <1>1, <1>3, <1>4, <1>5 DEF Counting

(***************************************************************************)
(* The answer, or the timer, leaves v; then sendNextRequests runs, or only *)
(* FinishIfIdle if the first K were asked already.                         *)
(***************************************************************************)
LEMMA Answered ==
    ASSUME NEW t, NEW W, NEW x, NEW told, NEW owner, NEW target, NEW E,
           Awaits(t, W, x, told, owner, target, E),
           NEW v, Taken(v, t, E), NEW now, Collecting(v.saved, now, target), NEW u,
           \/ u = sendNextRequests(v, owner)
           \/ u = FinishIfIdle(v) /\ (v.found = {} => ~ checkFirstK(v))
    PROVE  Settled(t, W, x, now, u, owner, target, E) /\ u.found = v.found
  <1>1. /\ W \subseteq t.queried /\ t.queried \subseteq Others(E, owner)
        /\ v.active \in Nat /\ v.active < kParallelismLimit
        /\ v.active = Cardinality(W \ {x})
    <2>1. /\ W \subseteq t.queried /\ t.queried \subseteq Others(E, owner)
          /\ t.active \in Nat \ {0} /\ t.active <= kParallelismLimit
          /\ t.active - 1 = Cardinality(W \ {x})
      BY Waiting
    <2>2. v.active = t.active - 1
      BY DEF Taken
    <2> QED
      BY <2>1, <2>2
  <1>2. /\ v \in LookupTask /\ v.saved \in Seq(E) /\ v.queried = t.queried
        /\ ~ v.complete /\ v.finished = 0
    BY DEF Taken
  <1>3. PICK B : /\ B \subseteq Ids(v.saved) \ (v.queried \cup {owner})
                 /\ v.active + Cardinality(B) <= kParallelismLimit
                 /\ B = {} /\ v.found = {} => Ids(FirstK(v.saved)) \subseteq v.queried \cup {owner}
                 /\ u = FinishIfIdle(Asks(v, B))
    <2>1. CASE u = sendNextRequests(v, owner)
      <3> DEFINE B == BatchIds(v, owner)
      <3>1. u = FinishIfIdle(Asks(v, B))
        BY <2>1 DEF sendNextRequests, Asks
      <3>2. /\ B \subseteq Ids(v.saved) \ (v.queried \cup {owner})
            /\ v.active + Cardinality(B) <= kParallelismLimit
            /\ B = {} => Ids(v.saved) \subseteq v.queried \cup {owner}
        BY <1>1, <1>2, BatchEffect
      <3>3. Ids(FirstK(v.saved)) \subseteq Ids(v.saved)
        BY <1>2, FirstKEffect DEF Ids
      <3> HIDE DEF B
      <3> QED
        BY <3>1, <3>2, <3>3
    <2>2. CASE u = FinishIfIdle(v) /\ (v.found = {} => ~ checkFirstK(v))
      <3>1. Cardinality({}) = 0
        BY FS_EmptySet
      <3>2. Asks(v, {}) = v
        <4>1. v.queried \cup {} = v.queried /\ v.active + Cardinality({}) = v.active
          BY <1>1, <3>1
        <4>2. Asks(v, {}) = [v EXCEPT !.queried = v.queried, !.active = v.active]
          BY <4>1 DEF Asks
        <4> QED
          BY <1>2, <4>2 DEF LookupTask
      <3>3. v.active + Cardinality({}) <= kParallelismLimit
        BY <1>1, <3>1
      <3>4. ~ checkFirstK(v) => Ids(FirstK(v.saved)) \subseteq v.queried
        BY <1>2, FirstKEffect DEF checkFirstK, Ids
      <3> QED
        BY <2>2, <3>2, <3>3, <3>4
    <2> QED
      BY <2>1, <2>2
  <1>4. PICK rest : rest = W \ {x}
    OBVIOUS
  <1>5. Ready(v, rest, B, now, owner, target, E)
    BY <1>1, <1>2, <1>3, <1>4 DEF Ready
  <1>6. Continued(v, rest, B, now, u, owner, target, E)
    BY <1>3, <1>5, Continue DEF Awaits
  <1>7. /\ Sound(u, rest \cup B, now, owner, target, E)
        /\ u.queried = t.queried \cup B /\ u.found = v.found /\ B \subseteq Ids(u.saved)
    BY <1>2, <1>6 DEF Continued
  <1>8. u.queried \ t.queried = B
    BY <1>2, <1>3, <1>7
  <1> QED
    BY <1>4, <1>7, <1>8 DEF Settled

\* One request less, and otherwise the same.
LEMMA OneLess ==
    ASSUME NEW t, NEW W, NEW x, NEW told, NEW owner, NEW target, NEW E,
           Awaits(t, W, x, told, owner, target, E),
           NEW v, v = [t EXCEPT !.active = @ - 1]
    PROVE  Taken(v, t, E) /\ v.saved = t.saved /\ v.found = t.found
  <1>1. /\ t \in LookupTask /\ t.saved \in Seq(E) /\ ~ t.complete
        /\ t.finished = 0 /\ t.active \in Nat \ {0}
    BY Waiting
  <1>2. PICK a \in Nat : a = t.active - 1
    BY <1>1
  <1>3. v = [t EXCEPT !.active = a]
    BY <1>2
  <1>4. v \in LookupTask
    BY <1>1, <1>3 DEF LookupTask
  <1>5. /\ v.active = a /\ v.saved = t.saved /\ v.queried = t.queried
        /\ v.found = t.found /\ v.complete = t.complete /\ v.finished = t.finished
    BY ONLY <1>1, <1>2, <1>3 DEF LookupTask
  <1> QED
    BY <1>1, <1>2, <1>4, <1>5 DEF Taken

\* The task as Merge leaves it.
Merged(m, v, t, nodes, target, E) ==
    /\ Taken(m, t, E) /\ m.found = v.found
    /\ Collecting(m.saved, Ids(v.saved) \cup Ids(nodes), target)

\* So it is after Merge, with the nodes of the answer among the saved ones.
LEMMA MergeTaken ==
    ASSUME NEW t, NEW owner, NEW target, NEW E, Setting(owner, target, E),
           NEW v, Taken(v, t, E),
           NEW nodes \in Seq(E), NEW m, m = Merge(v, nodes, target)
    PROVE  Merged(m, v, t, nodes, target, E)
  <1>1. PICK s \in Seq(E) : /\ m = [v EXCEPT !.saved = s]
                            /\ Ids(s) = Ids(v.saved) \cup Ids(nodes)
                            /\ Sorted(s, target)
    BY MergeEffect DEF Taken, Setting
  <1>2. s \in Seq(NodeEntry) /\ v \in LookupTask
    BY EntriesOf DEF Taken
  <1>3. m \in LookupTask
    BY ONLY <1>1, <1>2 DEF LookupTask
  <1>4. /\ m.saved = s /\ m.active = v.active /\ m.queried = v.queried
        /\ m.found = v.found /\ m.complete = v.complete /\ m.finished = v.finished
    BY ONLY <1>1, <1>2 DEF LookupTask
  <1> QED
    BY <1>1, <1>3, <1>4 DEF Taken, Collecting, Merged

\* Both sendNextRequests and the code after it can emit taskFinished: only the
\* first does.
LEMMA FinishedOnce ==
    ASSUME NEW t, NEW W, NEW x, NEW told, NEW owner, NEW target, NEW E,
           Awaits(t, W, x, told, owner, target, E), NEW m, Taken(m, t, E)
    PROVE  FinishIfIdle(sendNextRequests(m, owner)) = sendNextRequests(m, owner)
  <1> DEFINE B == BatchIds(m, owner)
             v == Asks(m, B)
  <1>1. /\ m \in LookupTask /\ m.saved \in Seq(E) /\ m.active < kParallelismLimit
        /\ m.active \in Nat /\ Setting(owner, target, E) /\ m.finished = 0
    <2>1. t.active \in Nat \ {0} /\ t.active <= kParallelismLimit
      BY Waiting
    <2>2. m \in LookupTask /\ m.saved \in Seq(E) /\ m.active = t.active - 1 /\ m.finished = 0
      BY DEF Taken
    <2>3. Setting(owner, target, E)
      BY DEF Awaits
    <2> QED
      BY <2>1, <2>2, <2>3
  <1>2. B \subseteq Ids(m.saved) /\ Cardinality(B) \in Nat
    BY <1>1, BatchEffect
  <1>3. B \subseteq Id
    <2>1. \A p \in DOMAIN m.saved : m.saved[p] \in E
      BY <1>1, ElementOfSeq, LenProperties
    <2>2. Ids(m.saved) \subseteq Id
      BY <1>1, <2>1 DEF Ids, Setting, NodeEntry
    <2> QED
      BY <1>2, <2>2
  <1>4. v \in LookupTask /\ v.saved = m.saved /\ v.complete = m.complete /\ v.finished = m.finished
    <2>1. PICK q, a : q = m.queried \cup B /\ a = m.active + Cardinality(B)
      OBVIOUS
    <2>2. q \in SUBSET Id /\ a \in Nat
      BY <1>1, <1>2, <1>3, <2>1 DEF LookupTask
    <2>3. v = [m EXCEPT !.queried = q, !.active = a]
      BY <2>1 DEF Asks
    <2> HIDE DEF v
    <2> QED
      BY ONLY <1>1, <2>2, <2>3 DEF LookupTask
  <1>5. sendNextRequests(m, owner) = FinishIfIdle(v)
    BY DEF sendNextRequests, Asks
  <1> HIDE DEF v
  <1>6. Finish(v).complete
    BY <1>1, <1>4, FinishEffect
  <1> QED
    BY <1>5, <1>6 DEF FinishIfIdle

\* A timer that fires before the answer.
LEMMA TimedOutEffect ==
    ASSUME NEW t, NEW W, NEW x, NEW told, NEW owner, NEW target, NEW E,
           Awaits(t, W, x, told, owner, target, E),
           NEW u, u = requestTimedOut(t, owner)
    PROVE  Settled(t, W, x, told, u, owner, target, E) /\ u.found = t.found
  <1>1. PICK v : v = [t EXCEPT !.active = @ - 1]
    OBVIOUS
  <1>2. Taken(v, t, E) /\ v.saved = t.saved /\ v.found = t.found
    BY <1>1, OneLess
  <1>3. Collecting(v.saved, told, target)
    BY <1>2, Waiting
  <1>4. \/ u = sendNextRequests(v, owner)
        \/ u = FinishIfIdle(v) /\ (v.found = {} => ~ checkFirstK(v))
    <2>1. ~ v.complete
      BY <1>2 DEF Taken
    <2> QED
      BY <1>1, <2>1 DEF requestTimedOut
  <1> QED
    BY <1>2, <1>3, <1>4, Answered

\* An answer without data.
FindsNothing(t, u) == u.found = t.found

\* An answer with nodes, of either kind of lookup.
LEMMA NodesEffect ==
    ASSUME NEW t, NEW W, NEW x, NEW told, NEW owner, NEW target, NEW E,
           Awaits(t, W, x, told, owner, target, E), NEW nodes \in Seq(E), NEW u,
           \/ u = onNodesReceived(t, nodes, target, owner)
           \/ u = onNoDataReceived(t, nodes, target, owner)
    PROVE  Settled(t, W, x, told \cup Ids(nodes), u, owner, target, E) /\ FindsNothing(t, u)
  <1>1. PICK v : v = [t EXCEPT !.active = @ - 1]
    OBVIOUS
  <1>2. Taken(v, t, E) /\ v.saved = t.saved /\ v.found = t.found
    BY <1>1, OneLess
  <1>3. PICK m : m = Merge(v, nodes, target)
    OBVIOUS
  <1>4. Taken(m, t, E) /\ m.found = v.found /\ Collecting(m.saved, told \cup Ids(nodes), target)
    <2>1. Setting(owner, target, E)
      BY DEF Awaits
    <2>2. Collecting(t.saved, told, target)
      BY Waiting
    <2>3. Ids(v.saved) = told
      BY <1>2, <2>2 DEF Collecting
    <2> QED
      <3>1. Merged(m, v, t, nodes, target, E)
        BY <1>2, <1>3, <2>1, MergeTaken
      <3> QED
        BY <2>3, <3>1 DEF Merged
  <1>5. \/ u = sendNextRequests(m, owner)
        \/ u = FinishIfIdle(m) /\ (m.found = {} => ~ checkFirstK(m))
    <2>1. CASE u = onNodesReceived(t, nodes, target, owner)
      <3>1. u = IF checkFirstK(m) THEN sendNextRequests(m, owner) ELSE FinishIfIdle(m)
        BY <1>1, <1>3, <2>1 DEF onNodesReceived
      <3> QED
        BY <3>1
    <2>2. CASE u = onNoDataReceived(t, nodes, target, owner)
      <3>1. u = IF v.complete THEN v
                ELSE FinishIfIdle(IF checkFirstK(m) THEN sendNextRequests(m, owner) ELSE m)
        BY <1>1, <1>3, <2>2 DEF onNoDataReceived
      <3>2. ~ v.complete
        BY <1>2 DEF Taken
      <3>3. FinishIfIdle(sendNextRequests(m, owner)) = sendNextRequests(m, owner)
        BY <1>4, FinishedOnce
      <3> QED
        BY <3>1, <3>2, <3>3
    <2> QED
      BY <2>1, <2>2
  <1>6. PICK now : now = told \cup Ids(nodes)
    OBVIOUS
  <1>7. Settled(t, W, x, now, u, owner, target, E) /\ u.found = m.found
    <2>1. Collecting(m.saved, now, target)
      BY <1>4, <1>6
    <2> QED
      BY <1>4, <1>5, <2>1, Answered
  <1> QED
    BY <1>2, <1>4, <1>6, <1>7 DEF FindsNothing

\* An answer with data is kept, and asks nobody.
LEMMA DataEffect ==
    ASSUME NEW t, NEW W, NEW x, NEW told, NEW owner, NEW target, NEW E,
           Awaits(t, W, x, told, owner, target, E),
           NEW u, NEW from \in Id, u = onDataReceived(t, from)
    PROVE  Settled(t, W, x, told, u, owner, target, E) /\ u.found = t.found \cup {from}
  <1>1. PICK v : v = [t EXCEPT !.active = @ - 1]
    OBVIOUS
  <1>2. Taken(v, t, E) /\ v.saved = t.saved /\ v.found = t.found
    BY <1>1, OneLess
  <1>3. PICK d, found : d = [v EXCEPT !.found = @ \cup {from}] /\ found = v.found \cup {from}
    OBVIOUS
  <1>4. /\ d \in LookupTask /\ d.found = found
        /\ d.saved = v.saved /\ d.queried = v.queried /\ d.active = v.active
        /\ d.complete = v.complete /\ d.finished = v.finished
    <2>1. v \in LookupTask
      BY <1>2 DEF Taken
    <2>2. found \in SUBSET Id
      BY <1>3, <2>1 DEF LookupTask
    <2>3. d = [v EXCEPT !.found = found]
      BY <1>3
    <2> QED
      BY ONLY <2>1, <2>2, <2>3 DEF LookupTask
  <1>5. Taken(d, t, E) /\ Collecting(d.saved, told, target)
    BY <1>2, <1>4, Waiting DEF Taken
  <1>6. u = FinishIfIdle(d) /\ (d.found = {} => ~ checkFirstK(d))
    <2>1. ~ v.complete
      BY <1>2 DEF Taken
    <2>2. d.found # {}
      BY <1>3, <1>4
    <2> QED
      BY <1>1, <1>3, <2>1, <2>2 DEF onDataReceived
  <1>7. Settled(t, W, x, told, u, owner, target, E) /\ u.found = d.found
    BY <1>5, <1>6, Answered
  <1> QED
    BY <1>2, <1>3, <1>4, <1>7

\* A start that knows nobody is over; any other asks the first ones.
LEMMA StartEffect ==
    ASSUME NEW owner, NEW target, NEW E, Setting(owner, target, E),
           NEW s \in Seq(E), Len(s) <= kBucketLimit, NEW u, u = start(s, owner)
    PROVE  /\ Sound(u, u.queried, Ids(s), owner, target, E)
           /\ u.found = {} /\ u.queried \subseteq Ids(u.saved)
  <1>1. s \in Seq(NodeEntry)
    BY EntriesOf
  <1>2. PICK told : told = Ids(s)
    OBVIOUS
  <1>3. Collecting(s, told, target)
    BY <1>2 DEF Collecting
  <1>4. PICK t \in LookupTask : t = NewTask
    <2>1. NewTask \in LookupTask
      BY DEF NewTask, LookupTask
    <2> QED
      BY <2>1
  <1>5. /\ t.saved = << >> /\ t.queried = {} /\ t.active = 0 /\ t.found = {} /\ ~ t.complete
        /\ t.finished = 0
    BY <1>4 DEF NewTask
  <1>6. CASE s = << >>
    <2>1. FirstK(<< >>) = << >>
      <3>1. PICK k \in Nat :
               /\ k < kBucketLimit \/ Len(s) <= kBucketLimit => k = Len(s)
               /\ DOMAIN FirstK(s) = 1 .. k /\ Len(FirstK(s)) = k
        BY FirstKEffect
      <3>2. Len(FirstK(s)) = 0 /\ FirstK(s) \in Seq(E)
        BY <1>6, <3>1, FirstKEffect
      <3> QED
        BY <1>6, <3>2, EmptySeq
    <2>2. u = [t EXCEPT !.finished = 1, !.saved = s]
      <3>1. EmitFinished(t) = [t EXCEPT !.finished = t.finished + 1,
                                        !.saved = IF t.found = {} THEN FirstK(t.saved) ELSE t.saved]
        BY DEF EmitFinished
      <3>2. t.finished + 1 = 1
        BY <1>5
      <3> QED
        BY <1>4, <1>5, <1>6, <2>1, <3>1, <3>2 DEF start
    <2>3. /\ u.saved = s /\ u.queried = {} /\ u.active = 0 /\ u.found = {}
          /\ ~ u.complete /\ u.finished = 1 /\ u \in LookupTask
      BY ONLY <1>1, <1>5, <2>2, t \in LookupTask DEF LookupTask
    <2>4. told = {} /\ Cardinality({}) = 0 /\ Ids(u.saved) = {}
      <3>1. DOMAIN s = {}
        BY <1>6
      <3> QED
        BY <1>2, <1>6, <2>3, <3>1, FS_EmptySet DEF Ids
    <2>5. Counting(u, {}, owner, E)
      <3>1. u.active = Cardinality({}) /\ u.active <= kParallelismLimit
        BY <2>3, <2>4
      <3> QED
        BY <2>3, <3>1 DEF Counting
    <2>6. Reporting(u, told, owner, target)
      BY <2>3, <2>4 DEF Reporting, Nearest
    <2> QED
      BY <1>2, <2>3, <2>5, <2>6 DEF Sound
  <1>7. CASE s # << >>
    <2>1. PICK v : v = [NewTask EXCEPT !.saved = s]
      OBVIOUS
    <2>2. PICK B : B = BatchIds(v, owner)
      OBVIOUS
    <2>3. u = FinishIfIdle(Asks(v, B))
      BY <1>7, <2>1, <2>2 DEF start, sendNextRequests, Asks
    <2>4. /\ v \in LookupTask /\ v.saved = s /\ v.queried = {} /\ v.active = 0 /\ v.found = {}
          /\ ~ v.complete /\ v.finished = 0
      BY <1>1, <2>1 DEF NewTask, LookupTask
    <2>5. /\ B \subseteq Ids(v.saved) \ (v.queried \cup {owner})
          /\ Cardinality(B) \in Nat /\ v.active + Cardinality(B) <= kParallelismLimit
          /\ B = {} => Ids(v.saved) \subseteq v.queried \cup {owner}
      <3>1. v.active < kParallelismLimit
        BY <2>4
      <3> QED
        BY <2>2, <2>4, <3>1, BatchEffect
    <2>6. Ids(FirstK(s)) \subseteq Ids(s)
      BY FirstKEffect DEF Ids
    <2>7. PICK rest : rest = {} /\ v.active = Cardinality(rest)
      BY <2>4, FS_EmptySet
    <2>8. Ready(v, rest, B, told, owner, target, E)
      <3>1. B = {} /\ v.found = {} => Ids(FirstK(v.saved)) \subseteq v.queried \cup {owner}
        BY <2>4, <2>5, <2>6
      <3>2. v.saved \in Seq(E) /\ Collecting(v.saved, told, target)
        BY <1>3, <2>4
      <3>3. v.queried \subseteq Others(E, owner) /\ rest \subseteq v.queried
        BY <2>4, <2>7
      <3> QED
        BY <2>4, <2>5, <2>7, <3>1, <3>2, <3>3 DEF Ready
    <2>9. Continued(v, rest, B, told, u, owner, target, E)
      BY <2>3, <2>8, Continue
    <2>10. u.queried = B /\ rest \cup B = B
      BY <2>4, <2>7, <2>9 DEF Continued
    <2> QED
      BY <1>2, <2>4, <2>9, <2>10 DEF Continued
  <1> QED
    BY <1>6, <1>7
-----------------------------------------------------------------------------
(***************************************************************************)
(* Lists that have every id once.                                          *)
(***************************************************************************)

\* Such a list is as long as it has ids.
LEMMA DistinctIsCounted ==
    ASSUME NEW s \in Seq(NodeEntry)
    PROVE  /\ IsFiniteSet(Ids(s)) /\ Cardinality(Ids(s)) \in Nat /\ Len(s) \in Nat
           /\ Cardinality(Ids(s)) <= Len(s)
           /\ Distinct(s) <=> Cardinality(Ids(s)) = Len(s)
  <1> DEFINE n == Len(s)
             T == Ids(s)
             f == [p \in 1 .. n |-> s[p].node_id]
  <1>1. n \in Nat /\ DOMAIN s = 1 .. n
    BY LenProperties
  <1>2. IsFiniteSet(1 .. n) /\ Cardinality(1 .. n) = n
    BY <1>1, FS_Interval
  <1>3. f \in Surjection(1 .. n, T)
    BY <1>1 DEF Ids, Surjection
  <1>4. Distinct(s) <=> f \in Injection(1 .. n, T)
    BY <1>1, <1>3 DEF Distinct, Injection, Surjection, IsInjective
  <1> HIDE DEF f, T, n
  <1>5. /\ IsFiniteSet(T) /\ Cardinality(T) <= Cardinality(1 .. n)
        /\ Cardinality(T) = Cardinality(1 .. n) <=> f \in Injection(1 .. n, T)
    BY <1>2, <1>3, FS_Surjection
  <1>6. Cardinality(T) \in Nat
    BY <1>5, FS_CardinalityType
  <1> QED
    BY <1>1, <1>2, <1>4, <1>5, <1>6 DEF T, n

\* Two of them without a common id make one.
LEMMA ConcatDistinct ==
    ASSUME NEW a \in Seq(NodeEntry), NEW b \in Seq(NodeEntry),
           Distinct(a), Distinct(b), Ids(a) \cap Ids(b) = {}
    PROVE  Distinct(a \o b)
  <1>1. PICK s : s = a \o b
    OBVIOUS
  <1>2. s \in Seq(NodeEntry) /\ Ids(s) = Ids(a) \cup Ids(b)
    BY <1>1, ConcatIds
  <1>3. Len(s) = Len(a) + Len(b)
    BY <1>1, ConcatProperties
  <1>4. /\ IsFiniteSet(Ids(a)) /\ Cardinality(Ids(a)) = Len(a) /\ Len(a) \in Nat
        /\ IsFiniteSet(Ids(b)) /\ Cardinality(Ids(b)) = Len(b) /\ Len(b) \in Nat
    BY DistinctIsCounted
  <1>5. Cardinality(Ids(s)) = Len(a) + Len(b) - 0
    <2>1. PICK c : c = Ids(a) \cap Ids(b)
      OBVIOUS
    <2>2. Cardinality(c) = 0
      BY <2>1, FS_EmptySet
    <2> QED
      BY <1>2, <1>4, <2>1, <2>2, FS_Union
  <1>6. Cardinality(Ids(s)) = Len(s)
    BY <1>3, <1>4, <1>5
  <1> QED
    BY <1>1, <1>2, <1>6, DistinctIsCounted

\* Sorting one makes one.
LEMMA SortDistinct ==
    ASSUME NEW found \in Seq(NodeEntry), NEW id \in Id, Distinct(found)
    PROVE  Distinct(NearestFirst(found, id))
  <1>1. PICK s : s = NearestFirst(found, id)
    OBVIOUS
  <1>2. s \in Seq(NodeEntry) /\ Len(s) = Len(found) /\ Ids(s) = Ids(found)
    BY <1>1, NearestFirstSorts
  <1>3. Cardinality(Ids(s)) = Len(s)
    BY <1>2, DistinctIsCounted
  <1> QED
    BY <1>1, <1>2, <1>3, DistinctIsCounted

\* So does cutting it.
LEMMA FirstKDistinct ==
    ASSUME NEW s \in Seq(NodeEntry), Distinct(s)
    PROVE  Distinct(FirstK(s))
  BY FirstKEffect DEF Distinct

\* SetToSeq lists an element once.
LEMMA SetToSeqInjective ==
    ASSUME NEW S, IsFiniteSet(S), NEW i \in DOMAIN SetToSeq(S), NEW j \in DOMAIN SetToSeq(S),
           SetToSeq(S)[i] = SetToSeq(S)[j]
    PROVE  i = j
  <1> DEFINE n == Cardinality(S)
             f == SetToSeq(S)
  <1>1. n \in Nat /\ ExistsBijection(1 .. n, S)
    BY FS_CardinalityType
  <1>2. f \in [1 .. n -> S] /\ IsInjective(f)
    <2>1. \E g \in [1 .. n -> S] : IsInjective(g)
      BY <1>1 DEF ExistsBijection, Bijection, Injection
    <2> QED
      BY <2>1 DEF SetToSeq
  <1> QED
    BY <1>2 DEF IsInjective

\* Merging an answer into one makes one.
LEMMA MergeDistinct ==
    ASSUME NEW target \in Id, NEW t \in LookupTask, Distinct(t.saved),
           NEW nodes \in Seq(NodeEntry)
    PROVE  Distinct(Merge(t, nodes, target).saved)
  <1> DEFINE new == {p \in DOMAIN nodes :
                        /\ nodes[p].node_id \notin Ids(t.saved)
                        /\ \A q \in 1 .. p - 1 : nodes[q].node_id # nodes[p].node_id}
             chosen == {nodes[p] : p \in new}
             added == SetToSeq(chosen)
  <1>1. Merge(t, nodes, target).saved = NearestFirst(t.saved \o added, target)
    BY DEF Merge, LookupTask
  <1>2. /\ DOMAIN nodes = 1 .. Len(nodes) /\ Len(nodes) \in Nat
        /\ \A p \in DOMAIN nodes : nodes[p] \in NodeEntry
        /\ t.saved \in Seq(NodeEntry)
    BY LenProperties, ElementOfSeq DEF LookupTask
  <1>3. IsFiniteSet(chosen) /\ chosen \subseteq NodeEntry
    <2> DEFINE f == [p \in new |-> nodes[p]]
    <2>1. new \in SUBSET (1 .. Len(nodes)) /\ IsFiniteSet(1 .. Len(nodes))
      BY <1>2, FS_Interval
    <2>2. IsFiniteSet(new)
      BY <2>1, FS_Subset
    <2>3. f \in Surjection(new, chosen)
      BY DEF Surjection
    <2>4. IsFiniteSet(chosen)
      BY <2>2, <2>3, FS_Surjection
    <2> QED
      BY <1>2, <2>4
  <1>4. \A x, y \in chosen : x.node_id = y.node_id => x = y
    <2> SUFFICES ASSUME NEW p \in new, NEW q \in new, nodes[p].node_id = nodes[q].node_id
                 PROVE  p = q
      OBVIOUS
    <2>1. ~ (p < q) /\ ~ (q < p) /\ p \in Nat /\ q \in Nat
      BY <1>2
    <2> QED
      BY <2>1
  <1>5. \A x \in chosen : x.node_id \notin Ids(t.saved)
    OBVIOUS
  <1> HIDE DEF chosen, added
  <1>6. added \in Seq(chosen) /\ \A i \in DOMAIN added : added[i] \in chosen
    BY <1>3, SetToSeqLists, LenProperties, ElementOfSeq DEF added
  <1>7. Distinct(added)
    <2> SUFFICES ASSUME NEW i \in DOMAIN added, NEW j \in DOMAIN added,
                        added[i].node_id = added[j].node_id
                 PROVE  i = j
      BY DEF Distinct
    <2>1. added[i] = added[j]
      BY <1>4, <1>6
    <2> QED
      BY <1>3, <2>1, SetToSeqInjective DEF added
  <1>8. added \in Seq(NodeEntry) /\ Ids(t.saved) \cap Ids(added) = {}
    <2>1. Seq(chosen) \subseteq Seq(NodeEntry)
      BY <1>3
    <2> QED
      BY <1>5, <1>6, <2>1 DEF Ids
  <1>9. t.saved \o added \in Seq(NodeEntry) /\ Distinct(t.saved \o added)
    BY <1>2, <1>7, <1>8, ConcatDistinct, ConcatIds
  <1> QED
    BY <1>1, <1>9, SortDistinct

\* The home bucket of another id is one of the table.
LEMMA HomeIsBit ==
    ASSUME NEW owner \in Id, NEW id \in Id \ {owner}
    PROVE  Home(owner, id) \in Bits /\ Home(owner, id) = HighestBit(Xor(id, owner))
  <1>1. Xor(id, owner) \in SUBSET Bits /\ Xor(id, owner) # {}
    BY XorType DEF Id
  <1> QED
    BY <1>1, HighestBitExists DEF Home
-----------------------------------------------------------------------------
(***************************************************************************)
(* Answers of a table in which nobody has to give way to another node.     *)
(***************************************************************************)

\* Nodes are in buckets of set bits of their distance, and in a lower one only
\* because every higher one is full.
Placed(t, owner) ==
    \A i \in Bits : \A x \in Ids(t[i]) :
        x \in Id /\ i \in Xor(x, owner) /\ \A j \in Xor(x, owner) : j > i => IsFull(t[j])

NoneFull(t) == \A i \in Bits : ~ IsFull(t[i])

\* storeNode places so.
LEMMA StoreNodePlaces ==
    ASSUME NEW t, WellFormed(t), NEW owner \in Id, Placed(t, owner), NEW n \in NodeEntry
    PROVE  Placed(StoreNode(t, owner, n), owner)
  <1> DEFINE u == StoreNode(t, owner, n)
             d == Xor(n.node_id, owner)
  <1>3. \A i \in Bits : /\ IsFull(t[i]) => u[i] = t[i]
                        /\ \A x \in Ids(u[i]) \ Ids(t[i]) :
                             /\ x = n.node_id
                             /\ i \in d
                             /\ \A j \in d : j > i => IsFull(t[j])
    BY StoreNodeEffect
  <1>2. d = Xor(n.node_id, owner)
    OBVIOUS
  <1> HIDE DEF u, d
  <1>4. ASSUME NEW i \in Bits, NEW x \in Ids(u[i])
        PROVE  x \in Id /\ i \in Xor(x, owner) /\ \A j \in Xor(x, owner) : j > i => IsFull(u[j])
    <2>1. x \in Id /\ i \in Xor(x, owner) /\ \A j \in Xor(x, owner) : j > i => IsFull(t[j])
      <3>1. CASE x \in Ids(t[i])
        BY <3>1 DEF Placed
      <3>2. CASE x \notin Ids(t[i])
        <4>1. x = n.node_id /\ i \in d /\ \A j \in d : j > i => IsFull(t[j])
          BY <1>3, <1>4, <3>2
        <4> QED
          BY <1>2, <4>1 DEF NodeEntry
      <3> QED
        BY <3>1, <3>2
    <2>2. Xor(x, owner) \subseteq Bits
      BY <2>1, XorType DEF Id
    <2>3. \A j \in Bits : IsFull(t[j]) => IsFull(u[j])
      BY <1>3
    <2> QED
      BY <2>1, <2>2, <2>3
  <1> QED
    BY <1>4 DEF Placed, u

\* Below full buckets there is nobody who is not in the full one: without full
\* buckets everybody is in the home bucket.
LEMMA PlacedAtHome ==
    ASSUME NEW t, NEW owner \in Id, Placed(t, owner),
           NEW i \in Bits, \A j \in Bits : j > i => ~ IsFull(t[j]), NEW x \in Ids(t[i])
    PROVE  x \in Id \ {owner} /\ i = Home(owner, x)
  <1>1. x \in Id /\ i \in Xor(x, owner) /\ \A j \in Xor(x, owner) : j > i => IsFull(t[j])
    BY DEF Placed
  <1>2. Xor(x, owner) \subseteq Bits
    BY <1>1, XorType DEF Id
  <1>3. x # owner
    BY <1>1, XorType
  <1>4. \A j \in Xor(x, owner) : i >= j
    <2>1. \A j \in Bits : j > i \/ i >= j
      BY DEF Bits
    <2> QED
      BY <1>1, <1>2, <2>1
  <1>5. HighestBit(Xor(x, owner)) = i
    BY <1>1, <1>2, <1>4, HighestBitUnique
  <1> QED
    BY <1>1, <1>3, <1>5, HomeIsBit

\* The widening loop then collects every node once.
LEMMA WidenedDistinct ==
    ASSUME NEW t, WellFormed(t), NEW owner \in Id, Placed(t, owner), NoneFull(t),
           NEW home \in Int, NEW n \in 0 .. kNodeIdSize
    PROVE  Widened(t, home)[n] \in Seq(NodeEntry) /\ Distinct(Widened(t, home)[n])
  <1>1. PICK w : w = Widened(t, home)
    OBVIOUS
  <1>2. /\ w[0] = BucketAt(t, home)
        /\ \A r \in 1 .. kNodeIdSize :
             w[r] = w[r - 1] \o BucketAt(t, home - r) \o BucketAt(t, home + r)
    BY <1>1, WidenedRounds
  <1>3. ASSUME NEW i \in Int
        PROVE  /\ BucketAt(t, i) \in Seq(NodeEntry) /\ Distinct(BucketAt(t, i))
               /\ \A x \in Ids(BucketAt(t, i)) : Home(owner, x) = i
    <2>1. CASE i \in Bits
      <3>1. t[i] \in Seq(NodeEntry) /\ Distinct(t[i])
        BY <2>1 DEF WellFormed, KBuckets
      <3>2. \A x \in Ids(t[i]) : Home(owner, x) = i
        BY <2>1, PlacedAtHome DEF NoneFull
      <3> QED
        BY <2>1, <3>1, <3>2 DEF BucketAt
    <2>2. CASE i \notin Bits
      BY <2>2 DEF BucketAt, Distinct, Ids
    <2> QED
      BY <2>1, <2>2
  <1> DEFINE Good(r) == /\ w[r] \in Seq(NodeEntry) /\ Distinct(w[r])
                        /\ \A x \in Ids(w[r]) : \E i \in Int : /\ Home(owner, x) = i
                                                               /\ home - r <= i /\ i <= home + r
             bad == {r \in 0 .. kNodeIdSize : ~ Good(r)}
  <1>4. Good(0)
    <2>1. home \in Int /\ home - 0 <= home /\ home <= home + 0
      OBVIOUS
    <2>2. /\ w[0] \in Seq(NodeEntry) /\ Distinct(w[0])
          /\ \A x \in Ids(w[0]) : Home(owner, x) = home
      BY <1>2, <1>3
    <2> QED
      BY <2>1, <2>2
  <1>5. ASSUME NEW r \in 1 .. kNodeIdSize, Good(r - 1)
        PROVE  Good(r)
    <2>1. PICK v, a, b : /\ v = w[r - 1]
                         /\ a = BucketAt(t, home - r) /\ b = BucketAt(t, home + r)
      OBVIOUS
    <2>2. /\ v \in Seq(NodeEntry) /\ Distinct(v)
          /\ \A x \in Ids(v) : \E i \in Int : /\ Home(owner, x) = i
                                              /\ home - (r - 1) <= i /\ i <= home + (r - 1)
      BY <1>5, <2>1
    <2>3. /\ a \in Seq(NodeEntry) /\ Distinct(a) /\ \A x \in Ids(a) : Home(owner, x) = home - r
          /\ b \in Seq(NodeEntry) /\ Distinct(b) /\ \A x \in Ids(b) : Home(owner, x) = home + r
      BY <1>3, <2>1
    <2>4. Ids(v) \cap Ids(a) = {} /\ Ids(v) \cap Ids(b) = {} /\ Ids(a) \cap Ids(b) = {}
      BY <2>2, <2>3
    <2>5. PICK c : c = v \o a
      OBVIOUS
    <2>6. c \in Seq(NodeEntry) /\ Distinct(c) /\ Ids(c) = Ids(v) \cup Ids(a)
      BY <2>2, <2>3, <2>4, <2>5, ConcatDistinct, ConcatIds
    <2>7. c \o b \in Seq(NodeEntry) /\ Distinct(c \o b) /\ Ids(c \o b) = Ids(c) \cup Ids(b)
      BY <2>3, <2>4, <2>6, ConcatDistinct, ConcatIds
    <2>8. w[r] = c \o b
      BY <1>2, <2>1, <2>5
    <2>9. \A x \in Ids(w[r]) : x \in Ids(v) \/ x \in Ids(a) \/ x \in Ids(b)
      BY <2>6, <2>7, <2>8
    <2>10. ASSUME NEW x \in Ids(w[r])
           PROVE  \E i \in Int : Home(owner, x) = i /\ home - r <= i /\ i <= home + r
      <3>1. CASE x \in Ids(v)
        <4>1. PICK i \in Int : Home(owner, x) = i /\ home - (r - 1) <= i /\ i <= home + (r - 1)
          BY <2>2, <3>1
        <4>2. home - r <= i /\ i <= home + r
          BY <4>1
        <4> QED
          BY <4>1, <4>2
      <3>2. CASE x \in Ids(a)
        <4>1. home - r \in Int /\ home - r <= home - r /\ home - r <= home + r
          OBVIOUS
        <4> QED
          BY <2>3, <3>2, <4>1
      <3>3. CASE x \in Ids(b)
        <4>1. home + r \in Int /\ home - r <= home + r /\ home + r <= home + r
          OBVIOUS
        <4> QED
          BY <2>3, <3>3, <4>1
      <3> QED
        BY <2>9, <3>1, <3>2, <3>3
    <2> QED
      BY <2>7, <2>8, <2>10
  <1>6. bad = {}
    <2> SUFFICES ASSUME bad # {}
                 PROVE  FALSE
      OBVIOUS
    <2>1. bad \in SUBSET Nat
      OBVIOUS
    <2> HIDE DEF Good
    <2>2. PICK r \in bad : \A m \in bad : ~ (m < r)
      BY <2>1, LeastNatural
    <2>3. r # 0 /\ r \in 0 .. kNodeIdSize
      BY <1>4, <2>2
    <2>4. r \in 1 .. kNodeIdSize /\ r - 1 \in 0 .. kNodeIdSize /\ r - 1 < r
      BY <2>3
    <2> QED
      BY <1>5, <2>2, <2>4
  <1>7. Good(n)
    <2> HIDE DEF Good
    <2> QED
      BY <1>6
  <1> QED
    BY <1>1, <1>7

\* Then findKNodes answers with nobody twice, for a table without full buckets or an
\* id whose home bucket is full.
LEMMA AnswerDistinct ==
    ASSUME NEW t, WellFormed(t), NEW owner \in Id, Placed(t, owner), NEW id \in Id,
           \/ NoneFull(t)
           \/ id # owner /\ IsFull(t[Home(owner, id)])
    PROVE  Distinct(FindKNodes(t, owner, id))
  <1> DEFINE home == Home(owner, id)
             w == Widened(t, home)
             ends == {r \in 0 .. kNodeIdSize : WideningEnds(w[r], home, r)}
             n == Min(ends)
             sorted == NearestFirst(w[n], id)
             a == FindKNodes(t, owner, id)
  <1>1. home \in Int /\ home <= kNodeIdSize - 1 /\ home >= -1
        /\ (id # owner => home \in Bits)
    <2>1. id # owner => home \in Bits
      BY HomeIsBit
    <2>2. id = owner => home = -1
      BY DEF Home
    <2> HIDE DEF home
    <2> QED
      BY <2>1, <2>2 DEF Bits
  <1> HIDE DEF home
  <1>2. w[0] = BucketAt(t, home)
    BY WidenedRounds
  <1>3. a = IF Len(w[0]) = kBucketLimit THEN w[0] ELSE FirstK(sorted)
    BY DEF FindKNodes, FirstK, home
  <1>4. CASE home \in Bits /\ IsFull(t[home])
    <2>1. Len(t[home]) = kBucketLimit /\ Distinct(t[home])
      <3>1. /\ Len(t[home]) <= kBucketLimit /\ Distinct(t[home])
            /\ Len(t[home]) >= kBucketLimit /\ Len(t[home]) \in Nat
        BY <1>4, LenProperties DEF WellFormed, IsFull, KBuckets
      <3> QED
        BY <3>1
    <2>2. a = t[home]
      BY <1>2, <1>3, <1>4, <2>1 DEF BucketAt
    <2> QED
      BY <2>1, <2>2
  <1>5. CASE NoneFull(t)
    <2>1. n \in 0 .. kNodeIdSize
      <3>1. kNodeIdSize \in ends
        BY <1>1 DEF WideningEnds
      <3>2. ends \in SUBSET Nat /\ ends # {}
        BY <3>1
      <3>3. n \in ends
        BY <3>2, MinExists
      <3> QED
        BY <3>3
    <2> HIDE DEF n
    <2>2. /\ w[0] \in Seq(NodeEntry) /\ Distinct(w[0])
          /\ w[n] \in Seq(NodeEntry) /\ Distinct(w[n])
      <3>1. 0 \in 0 .. kNodeIdSize
        OBVIOUS
      <3> QED
        BY <1>1, <1>5, <2>1, <3>1, WidenedDistinct
    <2> HIDE DEF w
    <2>3. sorted \in Seq(NodeEntry) /\ Distinct(sorted)
      BY <2>2, NearestFirstSorts, SortDistinct
    <2> HIDE DEF sorted
    <2>4. Distinct(FirstK(sorted))
      BY <2>3, FirstKDistinct
    <2> QED
      BY <1>3, <2>2, <2>4
  <1>6. id # owner /\ IsFull(t[Home(owner, id)]) => home \in Bits /\ IsFull(t[home])
    BY <1>1 DEF home
  <1> HIDE DEF a
  <1> QED
    BY <1>4, <1>5, <1>6 DEF a

\* A bucket and an answer have room for all peers of the owner, and none of them
\* belongs into bucket 0.
Serves(t, owner, peers) ==
    /\ WellFormed(t) /\ Placed(t, owner) /\ \A i \in Bits : Ids(t[i]) \subseteq peers
    /\ peers \subseteq Id \ {owner} /\ Cardinality(peers) <= kBucketLimit
    /\ \A x \in peers : Xor(x, owner) # {0}

\* A list as long as that has all peers.
LEMMA LongHasAll ==
    ASSUME NEW peers \in SUBSET Id, Cardinality(peers) <= kBucketLimit,
           NEW s \in Seq(NodeEntry), Distinct(s), Ids(s) \subseteq peers, Len(s) >= kBucketLimit
    PROVE  Ids(s) = peers
  <1>1. /\ IsFiniteSet(peers) /\ Cardinality(peers) \in Nat
        /\ Cardinality(Ids(s)) = Len(s) /\ Len(s) \in Nat
    BY IdsAreFinite, DistinctIsCounted
  <1>2. Cardinality(Ids(s)) <= Cardinality(peers)
        /\ (Cardinality(peers) = Cardinality(Ids(s)) => peers = Ids(s))
    BY <1>1, FS_Subset
  <1> QED
    BY <1>1, <1>2

(***************************************************************************)
(* findKNodes then answers with every node that is in its home bucket, and *)
(* with none twice: asked for an id the table has, as the bootstrap node   *)
(* is by whoever looks for itself, or for the owner's own id while no      *)
(* bucket is full.                                                         *)
(***************************************************************************)
LEMMA AnswerIsComplete ==
    ASSUME NEW t, NEW owner \in Id, NEW peers, Serves(t, owner, peers), NEW id \in Id,
           \/ id = owner /\ NoneFull(t)
           \/ id # owner /\ id \in Ids(t[Home(owner, id)])
    PROVE  LET a == FindKNodes(t, owner, id)
           IN  /\ Distinct(a)
               /\ \A y \in peers : y \in Ids(t[Home(owner, y)]) => y \in Ids(a)
  <1>1. PICK a : a = FindKNodes(t, owner, id)
    OBVIOUS
  <1>2. PICK home : home = Home(owner, id)
    OBVIOUS
  <1>3. /\ WellFormed(t) /\ Placed(t, owner) /\ \A i \in Bits : Ids(t[i]) \subseteq peers
        /\ peers \subseteq Id \ {owner} /\ Cardinality(peers) <= kBucketLimit
        /\ \A i \in Bits : t[i] \in Seq(NodeEntry) /\ Distinct(t[i])
    BY DEF Serves, WellFormed, KBuckets
  <1>4. NoneFull(t) \/ (id # owner /\ IsFull(t[Home(owner, id)]))
    <2> SUFFICES ASSUME id # owner, id \in Ids(t[home]), ~ IsFull(t[home]),
                        NEW i \in Bits, IsFull(t[i])
                 PROVE  FALSE
      BY <1>2 DEF NoneFull
    <2>1. home \in Bits /\ home = HighestBit(Xor(id, owner))
      BY <1>2, HomeIsBit
    <2>2. id \in peers
      BY <1>3, <2>1
    <2>3. id \in Ids(t[i])
      BY <1>3, <2>2, LongHasAll DEF IsFull
    <2>4. i \in Xor(id, owner) /\ \A j \in Xor(id, owner) : j > i => IsFull(t[j])
      BY <1>3, <2>3 DEF Placed
    <2>5. Xor(id, owner) \in SUBSET Bits
      BY XorType DEF Id
    <2>6. home \in Xor(id, owner) /\ home >= i
      BY <2>1, <2>4, <2>5, HighestBitExists
    <2>7. home # i
      OBVIOUS
    <2>8. home > i
      BY <2>1, <2>6, <2>7 DEF Bits
    <2> QED
      BY <2>4, <2>6, <2>8
  <1>5. Distinct(a)
    BY <1>1, <1>3, <1>4, AnswerDistinct
  <1>6. /\ a \in Seq(Entries(t)) /\ Len(a) <= kBucketLimit
        /\ Len(a) < kBucketLimit => \A i \in Bits \ {0} : Ids(t[i]) \subseteq Ids(a)
    BY <1>1, <1>3, FindKNodesEffect
  <1>7. a \in Seq(NodeEntry) /\ Len(a) \in Nat /\ Ids(a) \subseteq peers
    <2>1. \A e \in Entries(t) : e \in NodeEntry /\ e.node_id \in peers
      BY <1>3 DEF Entries, Ids
    <2>2. Seq(Entries(t)) \subseteq Seq(NodeEntry)
      BY <2>1
    <2>3. DOMAIN a = 1 .. Len(a) /\ Len(a) \in Nat /\ \A p \in DOMAIN a : a[p] \in Entries(t)
      BY <1>6, LenProperties, ElementOfSeq
    <2> QED
      BY <1>6, <2>1, <2>2, <2>3 DEF Ids
  <1>8. ASSUME NEW y \in peers, y \in Ids(t[Home(owner, y)])
        PROVE  y \in Ids(a)
    <2>1. CASE Len(a) < kBucketLimit
      <3>1. y \in Id \ {owner} /\ Xor(y, owner) # {0}
        BY <1>3 DEF Serves
      <3>2. PICK h \in Bits : h = Home(owner, y) /\ h = HighestBit(Xor(y, owner))
        BY <3>1, HomeIsBit
      <3>3. h # 0
        <4>1. Xor(y, owner) \in SUBSET Bits /\ Xor(y, owner) # {}
          BY <3>1, XorType DEF Id
        <4>2. h \in Xor(y, owner) /\ \A j \in Xor(y, owner) : h >= j
          BY <3>2, <4>1, HighestBitExists
        <4>3. \A j \in Bits : 0 >= j => j = 0
          BY DEF Bits
        <4>4. h = 0 => Xor(y, owner) = {0}
          BY <4>1, <4>2, <4>3
        <4> QED
          BY <3>1, <4>4
      <3> QED
        BY <1>6, <1>8, <2>1, <3>2, <3>3
    <2>2. CASE ~ (Len(a) < kBucketLimit)
      <3>1. Len(a) >= kBucketLimit
        BY <1>7, <2>2
      <3>2. Ids(a) = peers
        BY <1>3, <1>5, <1>7, <3>1, LongHasAll
      <3> QED
        BY <3>2
    <2> QED
      BY <2>1, <2>2
  <1> QED
    BY <1>1, <1>5, <1>8

\* No bucket is full when fewer than K peers belong into each.
LEMMA SpreadIsNotFull ==
    ASSUME NEW t, WellFormed(t), NEW owner \in Id, Placed(t, owner), NEW peers \in SUBSET Id,
           \A i \in Bits : Ids(t[i]) \subseteq peers,
           \A i \in Bits : Cardinality({x \in peers : Home(owner, x) = i}) < kBucketLimit
    PROVE  NoneFull(t)
  <1> DEFINE full == {i \in Bits : IsFull(t[i])}
  <1>1. SUFFICES ASSUME full # {} PROVE FALSE
    BY DEF NoneFull
  <1>2. PICK h : h = HighestBit(full)
    OBVIOUS
  <1>3. h \in Bits /\ IsFull(t[h]) /\ \A j \in Bits : j > h => ~ IsFull(t[j])
    <2>1. h \in full /\ \A j \in full : h >= j
      BY <1>1, <1>2, HighestBitExists
    <2>2. \A j \in Bits : j > h => ~ (h >= j)
      BY <2>1 DEF Bits
    <2> QED
      BY <2>1, <2>2
  <1>4. PICK here : here = {x \in peers : Home(owner, x) = h}
    OBVIOUS
  <1>5. Ids(t[h]) \subseteq here
    BY <1>3, <1>4, PlacedAtHome
  <1>6. t[h] \in Seq(NodeEntry) /\ Distinct(t[h]) /\ Len(t[h]) >= kBucketLimit
    BY <1>3 DEF WellFormed, KBuckets, IsFull
  <1>7. /\ IsFiniteSet(here) /\ Cardinality(here) \in Nat /\ Cardinality(here) < kBucketLimit
        /\ Cardinality(Ids(t[h])) = Len(t[h]) /\ Len(t[h]) \in Nat
    BY <1>3, <1>4, <1>6, IdsAreFinite, DistinctIsCounted
  <1>8. Cardinality(Ids(t[h])) <= Cardinality(here)
    BY <1>5, <1>7, FS_Subset
  <1> QED
    BY <1>6, <1>7, <1>8
-----------------------------------------------------------------------------
(***************************************************************************)
(* A lookup for the owner's own id that keeps everybody it was told of.    *)
(***************************************************************************)

\* The end of a lookup that found no data, and of any step before its end.
LEMMA IdleEffect ==
    ASSUME NEW v \in LookupTask, v.found = {}, NEW u, u = FinishIfIdle(v)
    PROVE  /\ u.queried = v.queried /\ u.found = {}
           /\ u.saved = v.saved \/ u.saved = FirstK(v.saved)
           /\ v.active # 0 => u.saved = v.saved
  <1>1. CASE v.active = 0 /\ ~ v.complete
    <2>1. u = [[v EXCEPT !.finished = v.finished + 1,
                        !.saved = FirstK(v.saved)] EXCEPT !.complete = TRUE]
      BY <1>1 DEF FinishIfIdle, Finish, EmitFinished
    <2> QED
      BY <1>1, <2>1 DEF LookupTask
  <1>2. CASE ~ (v.active = 0 /\ ~ v.complete)
    BY <1>2 DEF FinishIfIdle
  <1> QED
    BY <1>1, <1>2

\* sendNextRequests drops only nodes it asked.
LEMMA SendKeeps ==
    ASSUME NEW v \in LookupTask, v.found = {}, v.active < kParallelismLimit,
           NEW owner, NEW u, u = sendNextRequests(v, owner), Distinct(v.saved)
    PROVE  /\ Distinct(u.saved) /\ u.found = {}
           /\ Ids(v.saved) \subseteq Ids(u.saved) \cup u.queried \cup {owner}
           /\ Ids(v.saved) \ (v.queried \cup {owner}) # {} => u.saved = v.saved
  <1>1. PICK B : B = BatchIds(v, owner)
    OBVIOUS
  <1>2. /\ B \subseteq Ids(v.saved) \ (v.queried \cup {owner})
        /\ Cardinality(B) \in Nat
        /\ B = {} => Ids(v.saved) \subseteq v.queried \cup {owner}
    BY <1>1, BatchEffect
  <1>3. PICK w : w = Asks(v, B)
    OBVIOUS
  <1>4. v.saved \in Seq(NodeEntry) /\ v.queried \in SUBSET Id /\ v.active \in Nat
    BY DEF LookupTask
  <1>5. B \in SUBSET Id
    <2>1. \A p \in DOMAIN v.saved : v.saved[p] \in NodeEntry
      BY <1>4, LenProperties, ElementOfSeq
    <2>2. Ids(v.saved) \subseteq Id
      BY <2>1 DEF Ids, NodeEntry
    <2> QED
      BY <1>2, <2>2
  <1>6. /\ w \in LookupTask /\ w.queried = v.queried \cup B /\ w.saved = v.saved /\ w.found = {}
        /\ w.active = v.active + Cardinality(B)
    <2>1. v.queried \cup B \in SUBSET Id /\ v.active + Cardinality(B) \in Nat
      BY <1>2, <1>4, <1>5
    <2> QED
      BY <1>3, <2>1 DEF Asks, LookupTask
  <1>7. u = FinishIfIdle(w)
    BY <1>1, <1>3 DEF sendNextRequests, Asks
  <1>8. /\ u.queried = w.queried /\ u.found = {}
        /\ u.saved = w.saved \/ u.saved = FirstK(w.saved)
        /\ w.active # 0 => u.saved = w.saved
    BY <1>6, <1>7, IdleEffect
  <1>9. Distinct(u.saved)
    BY <1>4, <1>6, <1>8, FirstKDistinct
  <1>10. B # {} => w.active # 0
    <2>1. IsFiniteSet(B) /\ (Cardinality(B) = 0 <=> B = {})
      BY <1>5, IdsAreFinite, FS_EmptySet
    <2> QED
      BY <1>2, <1>4, <1>6, <2>1
  <1> QED
    BY <1>2, <1>6, <1>8, <1>9, <1>10

\* The owner is the nearest to itself.
LEMMA OwnerIsNearest ==
    ASSUME NEW owner \in Id, NEW y \in Id
    PROVE  ~ CloserTo(owner, y, owner)
  <1>1. Xor(owner, owner) \in Id /\ Xor(y, owner) \in Id
    BY XorType
  <1>2. Xor(owner, owner) = {}
    BY XorType
  <1>3. SUFFICES ASSUME Less(Xor(y, owner), Xor(owner, owner)) PROVE FALSE
    BY DEF CloserTo
  <1>4. HighestBit(Xor(Xor(y, owner), {})) \in {}
    BY <1>2, <1>3 DEF Less
  <1> QED
    BY <1>4

\* A start has everybody it is given.
LEMMA SelfStart ==
    ASSUME NEW owner, NEW E, Setting(owner, owner, E),
           NEW s \in Seq(E), Distinct(s), NEW b \in Ids(s), b # owner,
           NEW u, u = start(s, owner)
    PROVE  u.saved = s /\ u.found = {} /\ Distinct(u.saved)
  <1>1. s \in Seq(NodeEntry)
    BY EntriesOf
  <1>2. s # << >>
    BY EmptyList
  <1>3. PICK v : v = [NewTask EXCEPT !.saved = s]
    OBVIOUS
  <1>4. /\ v \in LookupTask /\ v.saved = s /\ v.queried = {} /\ v.active = 0 /\ v.found = {}
    BY <1>1, <1>3 DEF NewTask, LookupTask
  <1>5. u = sendNextRequests(v, owner)
    BY <1>2, <1>3 DEF start
  <1>6. v.active < kParallelismLimit
    BY <1>4
  <1>7. Ids(v.saved) \ (v.queried \cup {owner}) # {}
    BY <1>4
  <1> QED
    BY <1>4, <1>5, <1>6, <1>7, SendKeeps

(***************************************************************************)
(* An answer is taken in full: whoever it names, and whoever was saved, is *)
(* saved or asked afterwards, or is the owner.  With room for all others   *)
(* among the first K, nobody is dropped who was not asked.                 *)
(***************************************************************************)
LEMMA SelfAnswer ==
    ASSUME NEW t, NEW W, NEW x, NEW told, NEW owner, NEW E,
           Awaits(t, W, x, told, owner, owner, E), Distinct(t.saved), t.found = {},
           Cardinality(Others(E, owner)) <= kBucketLimit,
           NEW nodes \in Seq(E), NEW u, u = onNodesReceived(t, nodes, owner, owner)
    PROVE  /\ Distinct(u.saved) /\ u.found = {}
           /\ Ids(t.saved) \cup Ids(nodes) \subseteq Ids(u.saved) \cup u.queried \cup {owner}
  <1>1. /\ Setting(owner, owner, E) /\ owner \in Id /\ E \in SUBSET NodeEntry
        /\ nodes \in Seq(NodeEntry)
    BY EntriesOf DEF Awaits, Setting
  <1>2. /\ t \in LookupTask /\ t.queried \subseteq Others(E, owner)
        /\ t.active \in Nat \ {0} /\ t.active <= kParallelismLimit
    BY Waiting
  <1>3. PICK v : v = [t EXCEPT !.active = @ - 1]
    OBVIOUS
  <1>4. Taken(v, t, E) /\ v.saved = t.saved /\ v.found = t.found
    BY <1>3, OneLess
  <1>5. PICK m : m = Merge(v, nodes, owner)
    OBVIOUS
  <1>6. Merged(m, v, t, nodes, owner, E)
    BY <1>1, <1>4, <1>5, MergeTaken
  <1>7. /\ m \in LookupTask /\ m.saved \in Seq(E) /\ m.queried = t.queried /\ m.found = {}
        /\ m.active = t.active - 1
        /\ Ids(m.saved) = Ids(t.saved) \cup Ids(nodes)
        /\ Sorted(m.saved, owner) \/ Len(m.saved) <= kBucketLimit
    BY <1>4, <1>6 DEF Merged, Taken, Collecting
  <1>8. Distinct(m.saved)
    <2>1. v \in LookupTask /\ Distinct(v.saved)
      BY <1>4 DEF Taken
    <2> QED
      BY <1>1, <1>5, <2>1, MergeDistinct
  <1>9. u = IF checkFirstK(m) THEN sendNextRequests(m, owner) ELSE FinishIfIdle(m)
    BY <1>3, <1>5 DEF onNodesReceived
  <1>10. CASE checkFirstK(m)
    <2>1. m.active < kParallelismLimit
      BY <1>2, <1>7
    <2> QED
      BY <1>7, <1>8, <1>9, <1>10, <2>1, SendKeeps
  <1>11. CASE ~ checkFirstK(m)
    <2>1. m.saved \in Seq(NodeEntry)
      BY <1>1, <1>7, EntriesOf
    <2>2. PICK k \in Nat :
             /\ k < kBucketLimit \/ Len(m.saved) <= kBucketLimit => k = Len(m.saved)
             /\ DOMAIN FirstK(m.saved) = 1 .. k
      BY <2>1, FirstKEffect
    <2>3. \A i \in 1 .. k : i \in DOMAIN m.saved /\ m.saved[i].node_id \in m.queried
      BY <1>11, <2>1, <2>2, FirstKEffect DEF checkFirstK
    <2>4. DOMAIN m.saved = 1 .. Len(m.saved) /\ Len(m.saved) \in Nat
      BY <2>1, LenProperties
    <2>5. Len(m.saved) <= kBucketLimit
      <3>1. SUFFICES ASSUME Len(m.saved) > kBucketLimit PROVE FALSE
        BY <2>4
      <3>2. Sorted(m.saved, owner) /\ 1 \in 1 .. k
        BY <1>7, <2>2, <2>4, <3>1
      <3>3. m.saved # << >> /\ m.saved[1].node_id \in Others(E, owner)
        BY <1>2, <1>7, <2>3, <2>4, <3>2
      <3>4. owner \notin Ids(m.saved)
        <4>1. SUFFICES ASSUME owner \in Ids(m.saved) PROVE FALSE
          OBVIOUS
        <4>2. owner # m.saved[1].node_id
          BY <3>3 DEF Others
        <4>3. CloserTo(owner, m.saved[1].node_id, owner)
          BY <1>1, <2>1, <3>2, <3>3, <4>1, <4>2, NearestIsFirst
        <4>4. m.saved[1].node_id \in Id
          BY <1>1, <3>3, EntriesOf
        <4> QED
          BY <1>1, <4>3, <4>4, OwnerIsNearest
      <3>5. Ids(m.saved) \subseteq Others(E, owner)
        BY <1>1, <1>7, <3>4, EntriesOf
      <3>6. /\ IsFiniteSet(Others(E, owner)) /\ Cardinality(Others(E, owner)) \in Nat
            /\ Cardinality(Ids(m.saved)) = Len(m.saved)
        BY <1>1, <1>8, <2>1, EntriesOf, DistinctIsCounted
      <3>7. Cardinality(Ids(m.saved)) <= Cardinality(Others(E, owner))
        BY <3>5, <3>6, FS_Subset
      <3> QED
        BY <2>4, <3>1, <3>6, <3>7
    <2>6. Ids(m.saved) \subseteq m.queried
      BY <2>2, <2>3, <2>4, <2>5 DEF Ids
    <2>7. /\ u.queried = m.queried /\ u.found = {}
          /\ u.saved = m.saved \/ u.saved = FirstK(m.saved)
      BY <1>7, <1>9, <1>11, IdleEffect
    <2> QED
      BY <1>7, <1>8, <2>1, <2>6, <2>7, FirstKDistinct
  <1> QED
    BY <1>10, <1>11
============================================================================
