---------------------------- MODULE NodeProofs ----------------------------
(***************************************************************************)
(* The invariants of Node for every width of the ids, every kBucketLimit   *)
(* and kParallelismLimit, every set of nodes and holders and every         *)
(* scenario.                                                               *)
(***************************************************************************)
EXTENDS Node, LookupTaskProofs

USE NodeIdAssumption, KBucketsAssumption, LookupTaskAssumption
    DEF NodeIdAssumption, KBucketsAssumption, LookupTaskAssumption

-----------------------------------------------------------------------------
(***************************************************************************)
(* What receiving a message makes of the routing table.                    *)
(***************************************************************************)

\* StoreNodes stores one entry after the other.
LEMMA StoresInOrder ==
    ASSUME NEW t, NEW owner, NEW ns, NEW len \in Nat, DOMAIN ns = 1 .. len
    PROVE  \E w : /\ w[0] = t /\ w[len] = StoreNodes(t, owner, ns)
                  /\ \A k \in 1 .. len : w[k] = StoreNode(w[k - 1], owner, ns[k])
  <1> DEFINE Step(f, s) == IF s = {} THEN t ELSE StoreNode(f[s \ {Max(s)}], owner, ns[Max(s)])
             Fold(f, n) == f = [s \in SUBSET (1 .. n) |-> Step(f, s)]
             bad == {n \in Nat : ~ \E f : Fold(f, n)}
  <1>1. ASSUME NEW n \in Nat, NEW s \in SUBSET (1 .. n), n \in s
        PROVE  Max(s) = n
    <2>1. \A y \in s : n >= y
      OBVIOUS
    <2>2. \A x \in s : (\A y \in s : x >= y) => x = n
      BY <1>1
    <2> QED
      BY <1>1, <2>1, <2>2 DEF Max
  <1>2. bad = {}
    <2> SUFFICES ASSUME bad # {}
                 PROVE  FALSE
      OBVIOUS
    <2>1. PICK n \in bad : \A m \in bad : ~ (m < n)
      BY LeastNatural
    <2>2. CASE n = 0
      <3> DEFINE f == [s \in SUBSET (1 .. 0) |-> t]
      <3>1. \A s \in SUBSET (1 .. 0) : s = {}
        OBVIOUS
      <3>2. Fold(f, 0)
        BY <3>1
      <3> QED
        BY <2>1, <2>2, <3>2
    <2>3. CASE n # 0
      <3>1. n - 1 \in Nat /\ n - 1 < n /\ n \in Nat
        BY <2>1, <2>3
      <3>2. PICK v : Fold(v, n - 1)
        BY <2>1, <3>1
      <3> DEFINE f == [s \in SUBSET (1 .. n) |->
                         IF n \in s THEN StoreNode(v[s \ {n}], owner, ns[n]) ELSE v[s]]
      <3>3. \A s \in SUBSET (1 .. n) : s \ {n} \in SUBSET (1 .. n - 1)
        BY <3>1
      <3>4. ASSUME NEW s \in SUBSET (1 .. n)
            PROVE  f[s] = Step(f, s)
        <4>1. CASE n \in s
          <5>1. Max(s) = n /\ s # {}
            BY <1>1, <3>1, <4>1
          <5>2. s \ {n} \in SUBSET (1 .. n) /\ n \notin s \ {n}
            OBVIOUS
          <5>3. f[s \ {n}] = v[s \ {n}]
            BY <5>2
          <5>4. f[s] = StoreNode(v[s \ {n}], owner, ns[n])
            BY <4>1
          <5> HIDE DEF f
          <5> QED
            BY <5>1, <5>3, <5>4
        <4>2. CASE n \notin s
          <5>1. s \in SUBSET (1 .. n - 1) /\ s \ {Max(s)} \in SUBSET (1 .. n) /\ n \notin s \ {Max(s)}
            BY <3>3, <4>2
          <5>2. f[s] = v[s] /\ f[s \ {Max(s)}] = v[s \ {Max(s)}]
            BY <4>2, <5>1
          <5>3. v[s] = Step(v, s)
            <6> HIDE DEF Step
            <6> QED
              BY <3>2, <5>1
          <5> HIDE DEF f
          <5> QED
            BY <5>2, <5>3
        <4> QED
          BY <4>1, <4>2
      <3>5. Fold(f, n)
        <4>1. f = [s \in SUBSET (1 .. n) |-> f[s]]
          OBVIOUS
        <4> HIDE DEF f, Step
        <4> QED
          BY <3>4, <4>1
      <3> QED
        BY <2>1, <3>5
    <2> QED
      BY <2>2, <2>3
  <1>3. StoreNodes(t, owner, ns) = (CHOOSE f : Fold(f, len))[1 .. len]
    BY DEF StoreNodes, FoldLeft, MapThenFoldSet
  <1>4. PICK f : Fold(f, len) /\ StoreNodes(t, owner, ns) = f[1 .. len]
    <2> HIDE DEF Fold
    <2> QED
      BY <1>2, <1>3
  <1>5. \A s \in SUBSET (1 .. len) : f[s] = Step(f, s)
    <2> HIDE DEF Step
    <2> QED
      BY <1>4
  <1> DEFINE w == [k \in 0 .. len |-> f[1 .. k]]
  <1>6. w[0] = t
    <2>1. 1 .. 0 = {}
      OBVIOUS
    <2>2. {} \in SUBSET (1 .. len)
      OBVIOUS
    <2>3. f[{}] = t
      BY <1>5, <2>2
    <2>4. w[0] = f[1 .. 0]
      OBVIOUS
    <2> HIDE DEF w
    <2> QED
      BY <2>1, <2>3, <2>4
  <1>7. ASSUME NEW k \in 1 .. len
        PROVE  w[k] = StoreNode(w[k - 1], owner, ns[k])
    <2>1. /\ (1 .. k) \in SUBSET (1 .. len) /\ k \in 1 .. k /\ k \in Nat
          /\ (1 .. k) \ {k} = 1 .. k - 1 /\ k \in 0 .. len /\ k - 1 \in 0 .. len
      OBVIOUS
    <2>2. Max(1 .. k) = k
      BY <1>1, <2>1
    <2>3. f[1 .. k] = StoreNode(f[(1 .. k) \ {k}], owner, ns[k])
      <3>1. 1 .. k # {}
        BY <2>1
      <3>2. f[1 .. k] = Step(f, 1 .. k)
        BY <1>5, <2>1
      <3> QED
        BY <2>2, <3>1, <3>2
    <2> QED
      BY <2>1, <2>3
  <1>8. w[len] = StoreNodes(t, owner, ns)
    <2>1. len \in 0 .. len
      OBVIOUS
    <2>2. w[len] = f[1 .. len]
      BY <2>1
    <2> HIDE DEF w, Fold
    <2> QED
      BY <1>4, <2>2
  <1> HIDE DEF w
  <1> QED
    BY <1>6, <1>7, <1>8

\* A well-formed table of entries of E.
Table(t, E) == WellFormed(t) /\ \A i \in Bits : t[i] \in Seq(E)

\* A bucket takes no entry but the stored one.
LEMMA RefreshIn ==
    ASSUME NEW S, NEW bucket \in Seq(S), NEW n \in S
    PROVE  Refresh(bucket, n) \in Seq(S)
  <1> DEFINE same == Positions(bucket, n.node_id)
             m == Min(same)
             cut == RemoveAt(bucket, m)
  <1>0. same \in SUBSET Nat /\ DOMAIN bucket = 1 .. Len(bucket) /\ Len(bucket) \in Nat
        /\ same \subseteq DOMAIN bucket
    BY LenProperties DEF Positions
  <1>1. CASE same = {}
    BY <1>1 DEF Refresh
  <1>2. CASE same # {} /\ m = Len(bucket)
    BY <1>2 DEF Refresh
  <1>3. CASE same # {} /\ m # Len(bucket)
    <2>1. Refresh(bucket, n) = Append(cut, n)
      BY <1>3 DEF Refresh
    <2>2. m \in 1 .. Len(bucket)
      BY <1>0, <1>3, MinExists
    <2> HIDE DEF m
    <2>3. cut \in Seq(S)
      BY <1>0, <2>2 DEF RemoveAt
    <2> HIDE DEF cut
    <2> QED
      BY <2>1, <2>3
  <1> QED
    BY <1>1, <1>2, <1>3

\* So does a table.
LEMMA StoreNodeIn ==
    ASSUME NEW E \in SUBSET NodeEntry, NEW t, Table(t, E), NEW owner \in Id, NEW n \in E
    PROVE  Table(StoreNode(t, owner, n), E)
  <1> DEFINE u == StoreNode(t, owner, n)
             open == OpenBuckets(t, owner, n.node_id)
  <1>1. n \in NodeEntry /\ WellFormed(t) /\ \A i \in Bits : t[i] \in Seq(E)
    BY DEF Table
  <1>2. WellFormed(u)
    BY <1>1, StoreNodeEffect
  <1>3. ASSUME NEW i \in Bits
        PROVE  u[i] \in Seq(E)
    <2>1. Refresh(t[i], n) \in Seq(E)
      BY <1>1, RefreshIn
    <2>2. u[i] = t[i] \/ u[i] = Refresh(t[i], n)
      <3>1. DOMAIN t = Bits
        BY <1>1 DEF WellFormed, KBuckets
      <3> QED
        BY <3>1 DEF StoreNode
    <2> QED
      BY <1>1, <2>1, <2>2
  <1> HIDE DEF u
  <1> QED
    BY <1>2, <1>3 DEF Table, u

\* Ids stay where they are, and full buckets do not change.
Grows(t, u) ==
    \A i \in Bits : Ids(t[i]) \subseteq Ids(u[i]) /\ (IsFull(t[i]) => u[i] = t[i])

\* Entry n can be found, unless its home bucket has no room.
Registers(u, owner, n) ==
    n.node_id # owner =>
        \/ n.node_id \in Ids(u[Home(owner, n.node_id)])
        \/ IsFull(u[Home(owner, n.node_id)])

\* Growing twice is growing.
LEMMA GrowsFurther ==
    ASSUME NEW t, NEW u, NEW v, Grows(t, u), Grows(u, v)
    PROVE  Grows(t, v)
  <1>1. ASSUME NEW i \in Bits
        PROVE  Ids(t[i]) \subseteq Ids(v[i]) /\ (IsFull(t[i]) => v[i] = t[i])
    <2>1. Ids(t[i]) \subseteq Ids(u[i]) /\ (IsFull(t[i]) => u[i] = t[i])
      BY DEF Grows
    <2>2. Ids(u[i]) \subseteq Ids(v[i]) /\ (IsFull(u[i]) => v[i] = u[i])
      BY DEF Grows
    <2> QED
      BY <2>1, <2>2
  <1> QED
    BY <1>1 DEF Grows

\* Storing one entry.
LEMMA StoreNodeGrows ==
    ASSUME NEW E \in SUBSET NodeEntry, NEW t, Table(t, E), NEW owner \in Id, NEW n \in E
    PROVE  LET u == StoreNode(t, owner, n)
           IN  Table(u, E) /\ Grows(t, u) /\ Registers(u, owner, n)
  <1> DEFINE u == StoreNode(t, owner, n)
  <1>1. n \in NodeEntry /\ WellFormed(t) /\ n.node_id \in Id
    BY DEF Table, NodeEntry
  <1>2. Table(u, E)
    BY StoreNodeIn
  <1>3. \A i \in Bits : Ids(t[i]) \subseteq Ids(u[i]) /\ (IsFull(t[i]) => u[i] = t[i])
    BY <1>1, StoreNodeKeeps
  <1>4. n.node_id # owner => \/ IsFull(t[HighestBit(Xor(n.node_id, owner))])
                             \/ n.node_id \in Ids(u[HighestBit(Xor(n.node_id, owner))])
    BY <1>1, StoreNodeEffect
  <1> HIDE DEF u
  <1>5. Registers(u, owner, n)
    <2> SUFFICES ASSUME n.node_id # owner
                 PROVE  \/ n.node_id \in Ids(u[Home(owner, n.node_id)])
                        \/ IsFull(u[Home(owner, n.node_id)])
      BY DEF Registers
    <2>1. PICK h : h = Home(owner, n.node_id)
      OBVIOUS
    <2>2. h \in Bits /\ h = HighestBit(Xor(n.node_id, owner))
      BY <1>1, <2>1, HomeIsBit
    <2>3. IsFull(t[h]) \/ n.node_id \in Ids(u[h])
      BY <1>4, <2>2
    <2>4. IsFull(t[h]) => IsFull(u[h])
      BY <1>3, <2>2
    <2> QED
      BY <2>1, <2>3, <2>4
  <1> QED
    BY <1>2, <1>3, <1>5 DEF Grows, u

\* What is registered stays so.
LEMMA StaysRegistered ==
    ASSUME NEW owner \in Id, NEW n \in NodeEntry, NEW t, NEW u, Grows(t, u), Registers(t, owner, n)
    PROVE  Registers(u, owner, n)
  <1> SUFFICES ASSUME n.node_id # owner
               PROVE  \/ n.node_id \in Ids(u[Home(owner, n.node_id)])
                      \/ IsFull(u[Home(owner, n.node_id)])
    BY DEF Registers
  <1>1. PICK h : h = Home(owner, n.node_id)
    OBVIOUS
  <1>2. h \in Bits
    BY <1>1, HomeIsBit DEF NodeEntry
  <1>3. n.node_id \in Ids(t[h]) \/ IsFull(t[h])
    BY <1>1 DEF Registers
  <1>4. Ids(t[h]) \subseteq Ids(u[h]) /\ (IsFull(t[h]) => u[h] = t[h])
    BY <1>2 DEF Grows
  <1> QED
    BY <1>1, <1>3, <1>4

(***************************************************************************)
(* Storing the entries of a message: the table takes no others, forgets    *)
(* nobody, and each entry can be found unless its home bucket is full.     *)
(***************************************************************************)
LEMMA StoresEffect ==
    ASSUME NEW E \in SUBSET NodeEntry, NEW t, Table(t, E), NEW owner \in Id, NEW ns \in Seq(E)
    PROVE  LET u == StoreNodes(t, owner, ns)
           IN  /\ Table(u, E) /\ Grows(t, u)
               /\ \A p \in DOMAIN ns : Registers(u, owner, ns[p])
  <1>1. PICK len \in Nat : len = Len(ns) /\ DOMAIN ns = 1 .. len
    BY LenProperties
  <1>2. \A p \in 1 .. len : ns[p] \in E
    BY <1>1, ElementOfSeq
  <1>3. PICK w : /\ w[0] = t /\ w[len] = StoreNodes(t, owner, ns)
                 /\ \A k \in 1 .. len : w[k] = StoreNode(w[k - 1], owner, ns[k])
    BY <1>1, StoresInOrder
  <1> DEFINE Good(k) == /\ Table(w[k], E) /\ Grows(t, w[k])
                        /\ \A p \in 1 .. k : Registers(w[k], owner, ns[p])
             bad == {k \in 0 .. len : ~ Good(k)}
  <1>4. Good(0)
    <2>1. Grows(t, t)
      BY DEF Grows
    <2> QED
      BY <1>3, <2>1
  <1>5. ASSUME NEW k \in 1 .. len, Good(k - 1)
        PROVE  Good(k)
    <2>1. PICK v, u, n : v = w[k - 1] /\ u = w[k] /\ n = ns[k]
      OBVIOUS
    <2>2. u = StoreNode(v, owner, n) /\ n \in E
      BY <1>2, <1>3, <2>1
    <2>3. Table(v, E) /\ Grows(t, v) /\ \A p \in 1 .. k - 1 : Registers(v, owner, ns[p])
      BY <1>5, <2>1
    <2>4. Table(u, E) /\ Grows(v, u) /\ Registers(u, owner, n)
      BY <2>2, <2>3, StoreNodeGrows
    <2>5. Grows(t, u)
      BY <2>3, <2>4, GrowsFurther
    <2>6. ASSUME NEW p \in 1 .. k - 1
          PROVE  Registers(u, owner, ns[p])
      <3>1. ns[p] \in NodeEntry
        BY <1>2
      <3>2. Registers(v, owner, ns[p])
        BY <2>3
      <3> QED
        BY <2>4, <3>1, <3>2, StaysRegistered
    <2>7. \A p \in 1 .. k : p = k \/ p \in 1 .. k - 1
      OBVIOUS
    <2> QED
      BY <2>1, <2>4, <2>5, <2>6, <2>7
  <1>6. bad = {}
    <2> SUFFICES ASSUME bad # {}
                 PROVE  FALSE
      OBVIOUS
    <2>1. PICK k \in bad : \A m \in bad : ~ (m < k)
      <3>1. bad \in SUBSET Nat
        OBVIOUS
      <3> QED
        BY <3>1, LeastNatural
    <2>2. k # 0
      BY <1>4
    <2>3. k \in 1 .. len /\ k - 1 \in 0 .. len /\ k - 1 < k
      BY <2>2
    <2> HIDE DEF Good
    <2> QED
      BY <1>5, <2>1, <2>3
  <1>7. Good(len)
    <2> HIDE DEF Good
    <2>1. len \in 0 .. len
      OBVIOUS
    <2> QED
      BY <1>6, <2>1
  <1> QED
    BY <1>1, <1>3, <1>7

\* findNode finds an id exactly when its home bucket has it.
LEMMA FindNodeIsHome ==
    ASSUME NEW E \in SUBSET NodeEntry, NEW t, Table(t, E), NEW owner \in Id, NEW id \in Id
    PROVE  /\ FindNode(t, owner, id) # {} <=> id # owner /\ id \in Ids(t[Home(owner, id)])
           /\ FindNode(t, owner, id) \subseteq {e \in E : e.node_id = id}
  <1>1. CASE id = owner
    BY <1>1 DEF FindNode
  <1>2. CASE id # owner
    <2> DEFINE same == Positions(t[Home(owner, id)], id)
    <2>1. PICK b : b = t[Home(owner, id)]
      OBVIOUS
    <2>2. b \in Seq(E)
      BY <1>2, <2>1, HomeIsBit DEF Table
    <2>3. FindNode(t, owner, id) = IF same = {} THEN {} ELSE {b[Min(same)]}
      BY <1>2, <2>1 DEF FindNode, Home
    <2>4. same # {} <=> id \in Ids(b)
      BY <2>1 DEF Positions, Ids
    <2>5. ASSUME same # {}
          PROVE  b[Min(same)] \in E /\ b[Min(same)].node_id = id
      <3>1. DOMAIN b = 1 .. Len(b) /\ Len(b) \in Nat
        BY <2>2, LenProperties
      <3>2. same \in SUBSET Nat
        BY <2>1, <3>1 DEF Positions
      <3>3. Min(same) \in same
        BY <2>5, <3>2, MinExists
      <3> QED
        BY <2>1, <2>2, <3>1, <3>3, ElementOfSeq DEF Positions
    <2> HIDE DEF same
    <2> QED
      BY <1>2, <2>1, <2>3, <2>4, <2>5
  <1> QED
    BY <1>1, <1>2
-----------------------------------------------------------------------------
(***************************************************************************)
(* The inductive invariant.                                                *)
(***************************************************************************)

\* The entries nodes exchange: a node at its own address.
Entry == {e \in NodeEntry : e.node_id \in Node /\ e.address = e.node_id}

\* The peers a lookup waits for.
Asked(n, j) == {rpc.peer : rpc \in PendingOf(n, j)}

\* Lives: what is not started holds nothing.
Lives ==
    /\ scenario \in Scenario /\ run \in [Node -> 0 .. 2]
    /\ started \subseteq Node /\ is_bootstrapped \subseteq started \ {Boot}
    /\ \A n \in Node : IF n \in started THEN run[n] # 0
                       ELSE /\ run[n] # 2 /\ requests_map[n] = {} /\ lookup_task_map[n] = {}
                            /\ DOMAIN tasks[n] = {}

\* Tables: they hold entries of nodes.
Tables == k_buckets \in [Node -> KBuckets] /\ \A n \in Node : Table(k_buckets[n], Entry)

\* Pings: a node awaits no PING but that of its own life to the bootstrap node.
Pings ==
    /\ requests_map \in [Node -> SUBSET Rpc]
    /\ \A n \in Node : \A rpc \in requests_map[n] :
          rpc = [owner |-> n, run |-> run[n], job |-> "ping", peer |-> Boot]

\* Lookups: every map entry is a request of a task of this life, and every task is
\* sound with the peers of its map entries as those it waits for.
SoundTask(n, j, told) == Sound(tasks[n][j], Asked(n, j), told, n, Target(n, j), Entry)

Lookups ==
    /\ lookup_task_map \in [Node -> SUBSET Rpc] /\ DOMAIN tasks = Node
    /\ \A n \in Node :
          /\ DOMAIN tasks[n] \subseteq Job
          /\ "self" \in DOMAIN tasks[n] => n \in is_bootstrapped
          /\ \A rpc \in lookup_task_map[n] :
                rpc.owner = n /\ rpc.run = run[n] /\ rpc.job \in DOMAIN tasks[n]
          /\ \A j \in DOMAIN tasks[n] : \E told \in SUBSET Node : SoundTask(n, j, told)

\* Datagrams: what an RPC's are, from whom and to whom.
Formed(m) ==
    /\ m.nodes \in Seq(Entry) /\ m.type = Type(m.rpc.job) /\ m.rpc.owner # m.rpc.peer
    /\ \/ m.from = m.rpc.owner /\ m.to = m.rpc.peer
       \/ m.is_reply /\ m.from = m.rpc.peer /\ m.to = m.rpc.owner

\* Its owner asked that peer, in this life or an earlier one.
Used(rpc) ==
    /\ rpc.run <= run[rpc.owner]
    /\ rpc.owner \in started /\ rpc.run = run[rpc.owner] /\ rpc.job \in Job
          => /\ rpc.job \in DOMAIN tasks[rpc.owner]
             /\ rpc.peer \in tasks[rpc.owner][rpc.job].queried

\* Whoever replied knows whom it replied to.
Replied(m) == m.is_reply => Knows(m.from, m.to) \/ Crashed(m.from)

\* The owner answers a reply only when it gave the RPC up, and only such an answer
\* makes a holder that can read its database reply without the value.
Idle(m) ==
    m.is_reply /\ (m.from = m.rpc.owner
                   \/ (m.rpc.job = "value" /\ m.from \in Holder /\ ~ m.data /\ m.rpc \notin unread))
        => m.rpc \notin lookup_task_map[m.rpc.owner]

Datagrams ==
    /\ net \subseteq Datagram /\ expired \subseteq Rpc /\ unread \subseteq Rpc
    /\ \A m \in net : Formed(m) /\ Used(m.rpc) /\ Replied(m) /\ Idle(m)

\* Values: without a timeout, a search that found nothing still waits for every
\* holder it asked, but for those that could not read their database.
Values ==
    \A n \in Node : "value" \in DOMAIN tasks[n] =>
        (tasks[n]["value"].found = {} /\ InTime(n, "value")
            => tasks[n]["value"].queried \cap Holder \subseteq Asked(n, "value") \cup UnreadBy(n))

Inv == Lives /\ Tables /\ Pings /\ Lookups /\ Datagrams /\ Values /\ BootstrapIsMutual

-----------------------------------------------------------------------------
(***************************************************************************)
(* What is assumed of the nodes.                                           *)
(***************************************************************************)
LEMMA Nodes ==
    /\ Boot \in Node /\ Node \subseteq Id /\ Key \in Id /\ Holder \subseteq Node
    /\ Entry \in SUBSET NodeEntry
    /\ \A n \in Node : [node_id |-> n, address |-> n] \in Entry
    /\ \A n \in Node : \A j : Target(n, j) \in Id /\ Setting(n, Target(n, j), Entry)
    /\ \A n : Others(Entry, n) \subseteq Node \ {n}
    /\ \A s \in Seq(Entry) : Ids(s) \subseteq Node
  <1>1. Boot \in Node /\ Node \subseteq Id /\ Key \in Id /\ Holder \subseteq Node /\ Address = Node
    BY NodeAssumption DEF NodeAssumption
  <1>2. Entry \in SUBSET NodeEntry
    BY DEF Entry
  <1>3. \A n \in Node : [node_id |-> n, address |-> n] \in Entry
    BY <1>1 DEF Entry, NodeEntry
  <1>4. \A n \in Node : \A j : Target(n, j) \in Id /\ Setting(n, Target(n, j), Entry)
    BY <1>1, <1>2 DEF Target, Setting
  <1>5. \A n : Others(Entry, n) \subseteq Node \ {n}
    BY DEF Others, Entry
  <1>6. ASSUME NEW s \in Seq(Entry)
        PROVE  Ids(s) \subseteq Node
    <2>1. \A p \in DOMAIN s : s[p] \in Entry
      BY ElementOfSeq, LenProperties
    <2> QED
      BY <2>1 DEF Ids, Entry
  <1> QED
    BY <1>1, <1>2, <1>3, <1>4, <1>5, <1>6

-----------------------------------------------------------------------------
(***************************************************************************)
(* Tables only learn.                                                      *)
(***************************************************************************)

\* onReceive stores the sender and the nodes of the message.
LEMMA RegisteredEffect ==
    ASSUME Inv, NEW m \in net
    PROVE  /\ m \in Datagram /\ Formed(m)
           /\ Table(Registered(m), Entry) /\ Grows(k_buckets[m.to], Registered(m))
           /\ Registers(Registered(m), m.to, [node_id |-> m.from, address |-> m.from])
  <1>1. m \in Datagram /\ Formed(m) /\ m.from \in Node /\ m.to \in Node /\ m.nodes \in Seq(Entry)
    BY DEF Inv, Datagrams, Formed, Datagram
  <1>2. PICK e : e = [node_id |-> m.from, address |-> m.from]
    OBVIOUS
  <1>3. PICK ns : ns = <<e>> \o m.nodes
    OBVIOUS
  <1>4. e \in Entry
    BY <1>1, <1>2, Nodes
  <1>5. ns \in Seq(Entry) /\ 1 \in DOMAIN ns /\ ns[1] = e
    <2>1. <<e>> \in Seq(Entry) /\ Len(<<e>>) = 1 /\ <<e>>[1] = e
      BY <1>4
    <2>2. PICK s \in Seq(Entry) : s = <<e>>
      BY <2>1
    <2>3. /\ s \o m.nodes \in Seq(Entry) /\ Len(s \o m.nodes) = Len(s) + Len(m.nodes)
          /\ \A i \in 1 .. Len(s) + Len(m.nodes) :
               (s \o m.nodes)[i] = IF i <= Len(s) THEN s[i] ELSE m.nodes[i - Len(s)]
      BY <1>1, <2>2, ConcatProperties
    <2>4. Len(m.nodes) \in Nat /\ Len(s) = 1 /\ s[1] = e
      BY <1>1, <2>1, <2>2, LenProperties
    <2>5. ns = s \o m.nodes
      BY <1>3, <2>2
    <2>6. ns \in Seq(Entry) /\ Len(ns) >= 1 /\ ns[1] = e
      BY <2>3, <2>4, <2>5
    <2> QED
      BY <2>6, LenProperties
  <1>6. PICK t, u : t = k_buckets[m.to] /\ u = StoreNodes(t, m.to, ns)
    OBVIOUS
  <1>7. Table(t, Entry) /\ m.to \in Id
    BY <1>1, <1>6, Nodes DEF Inv, Tables
  <1>8. Table(u, Entry) /\ Grows(t, u) /\ \A p \in DOMAIN ns : Registers(u, m.to, ns[p])
    <2>1. PICK o \in Id : o = m.to
      BY <1>7
    <2> QED
      BY <1>5, <1>6, <1>7, <2>1, StoresEffect, Nodes
  <1>9. Registers(u, m.to, e)
    BY <1>5, <1>8
  <1>10. Registered(m) = u
    BY <1>2, <1>3, <1>6 DEF Registered
  <1> QED
    BY <1>1, <1>2, <1>6, <1>8, <1>9, <1>10

\* The tables of the next state are those of this one, and more.
Learning == Tables' /\ \A x \in Node : Grows(k_buckets[x], k_buckets'[x])

\* Receiving is learning.
LEMMA ReceiveLearns ==
    ASSUME Inv, NEW m \in net, onReceive(m)
    PROVE  Learning /\ k_buckets'[m.to] = Registered(m)
  <1>1. PICK n, u : n = m.to /\ u = Registered(m)
    OBVIOUS
  <1>2. n \in Node /\ Table(u, Entry) /\ Grows(k_buckets[n], u)
    BY <1>1, RegisteredEffect DEF Datagram
  <1>3. k_buckets' = [k_buckets EXCEPT ![n] = u]
    BY <1>1 DEF onReceive
  <1>4. k_buckets \in [Node -> KBuckets] /\ \A x \in Node : Table(k_buckets[x], Entry)
    BY DEF Inv, Tables
  <1>5. u \in KBuckets
    BY <1>2 DEF Table, WellFormed
  <1>6. k_buckets' \in [Node -> KBuckets] /\ k_buckets'[n] = u
        /\ \A x \in Node : x # n => k_buckets'[x] = k_buckets[x]
    BY <1>2, <1>3, <1>4, <1>5
  <1>7. \A t : Grows(t, t)
    BY DEF Grows
  <1> QED
    BY <1>1, <1>2, <1>4, <1>6, <1>7 DEF Learning, Tables

\* A step that leaves the tables alone.
LEMMA UnchangedLearns ==
    ASSUME Inv, k_buckets' = k_buckets
    PROVE  Learning
  BY DEF Inv, Learning, Tables, Grows

\* A node knows whom its home bucket has.
LEMMA KnowsIsHome ==
    ASSUME NEW x \in Node, NEW y \in Node, NEW t, Table(t, Entry)
    PROVE  FindNode(t, x, y) # {} <=> x # y /\ y \in Ids(t[Home(x, y)])
  BY Nodes, FindNodeIsHome

\* Nobody is forgotten.
LEMMA KnowsMore ==
    ASSUME Inv, Learning, NEW x \in Node, NEW y \in Node
    PROVE  /\ Knows(x, y) => Knows(x, y)'
           /\ x # y /\ IsFull(k_buckets[x][Home(x, y)]) => IsFull(k_buckets'[x][Home(x, y)])
  <1>1. PICK t, u : t = k_buckets[x] /\ u = k_buckets'[x]
    OBVIOUS
  <1>2. Table(t, Entry) /\ Table(u, Entry) /\ Grows(t, u)
    BY <1>1 DEF Inv, Learning, Tables
  <1>3. CASE x = y
    BY <1>1, <1>2, <1>3, KnowsIsHome DEF Knows
  <1>4. CASE x # y
    <2>1. PICK h \in Bits : h = Home(x, y)
      BY <1>4, Nodes, HomeIsBit
    <2>2. Ids(t[h]) \subseteq Ids(u[h]) /\ (IsFull(t[h]) => u[h] = t[h])
      BY <1>2 DEF Grows
    <2>3. /\ FindNode(t, x, y) # {} <=> y \in Ids(t[h])
          /\ FindNode(u, x, y) # {} <=> y \in Ids(u[h])
      BY <1>2, <1>4, <2>1, KnowsIsHome
    <2>4. FindNode(t, x, y) # {} => FindNode(u, x, y) # {}
      BY <2>2, <2>3
    <2>5. Knows(x, y) <=> FindNode(t, x, y) # {}
      BY <1>1 DEF Knows
    <2>6. Knows(x, y)' <=> FindNode(u, x, y) # {}
      BY <1>1 DEF Knows
    <2> QED
      BY <1>1, <2>1, <2>2, <2>4, <2>5, <2>6
  <1> QED
    BY <1>3, <1>4
-----------------------------------------------------------------------------
(***************************************************************************)
(* What RunTask does.                                                      *)
(***************************************************************************)

\* The id of the request a task of n sends p.
NewRpc(n, job, p) == [owner |-> n, run |-> run[n], job |-> job, peer |-> p]

\* The peers of the map entries that are erased.
Peers(spent) == {rpc.peer : rpc \in spent}

\* A task is started, or takes an answer or a timeout, as LookupTaskProofs has it.
Moves(n, job, before, after, spent) ==
    /\ n \in started /\ job \in Job /\ spent \subseteq PendingOf(n, job)
    /\ before = IF job \in DOMAIN tasks[n] THEN tasks[n][job] ELSE NewTask
    /\ before.queried \subseteq after.queried
    /\ after.queried \ before.queried \subseteq Ids(after.saved)
    /\ \E told \in SUBSET Node :
          Sound(after, (Asked(n, job) \ Peers(spent)) \cup (after.queried \ before.queried),
                told, n, Target(n, job), Entry)

\* A request goes to the first of the saved entries of its peer.
LEMMA FirstEntry ==
    ASSUME NEW s \in Seq(Entry), NEW id \in Ids(s), NEW e, e = s[Min(Positions(s, id))]
    PROVE  e \in Entry /\ e.node_id = id
  <1>1. DOMAIN s = 1 .. Len(s) /\ Len(s) \in Nat /\ \A p \in DOMAIN s : s[p] \in Entry
    BY LenProperties, ElementOfSeq
  <1>2. Positions(s, id) \in SUBSET Nat /\ Positions(s, id) # {}
    BY <1>1 DEF Positions, Ids
  <1>3. Min(Positions(s, id)) \in Positions(s, id)
    BY <1>2, MinExists
  <1> QED
    BY <1>1, <1>3 DEF Positions

\* The state after RunTask, part by part.
LEMMA RunTaskEffect ==
    ASSUME Inv, NEW n, NEW job, NEW before, NEW after, NEW spent,
           Moves(n, job, before, after, spent), RunTask(n, job, before, after, spent)
    PROVE  /\ n \in Node /\ DOMAIN tasks' = Node
           /\ \A x \in Node \ {n} : tasks'[x] = tasks[x] /\ lookup_task_map'[x] = lookup_task_map[x]
           /\ DOMAIN tasks'[n] = DOMAIN tasks[n] \cup {job}
           /\ tasks'[n][job] = after
           /\ \A j \in DOMAIN tasks[n] \ {job} : tasks'[n][j] = tasks[n][j]
           /\ lookup_task_map'[n] = (lookup_task_map[n] \ spent)
                  \cup {NewRpc(n, job, p) : p \in after.queried \ before.queried}
           /\ lookup_task_map' = [lookup_task_map EXCEPT ![n] = lookup_task_map'[n]]
           /\ \A m \in net' : m \in net \/ \E e \in Entry :
                 e.node_id \in after.queried \ before.queried /\ m = Request(n, run[n], job, e)
           /\ net \subseteq net'
  <1>1. n \in Node /\ DOMAIN tasks = Node /\ lookup_task_map \in [Node -> SUBSET Rpc]
    BY DEF Moves, Inv, Lives, Lookups
  <1>2. after.saved \in Seq(Entry) /\ after.queried \ before.queried \subseteq Ids(after.saved)
    BY DEF Moves, Sound, Counting
  <1>3. PICK new : new = after.queried \ before.queried
    OBVIOUS
  <1> DEFINE First(id) == after.saved[Min(Positions(after.saved, id))]
             requests == {Request(n, run[n], job, e) : e \in NewlyAsked(before, after)}
  <1>4. \A id \in new : First(id) \in Entry /\ First(id).node_id = id
    BY <1>2, <1>3, FirstEntry
  <1>5. NewlyAsked(before, after) = {First(id) : id \in new}
    BY <1>3 DEF NewlyAsked
  <1> HIDE DEF First
  <1>6. \A e \in NewlyAsked(before, after) : e \in Entry /\ e.node_id \in new
    BY <1>4, <1>5
  <1>7. \A r \in requests : \E e \in Entry : e.node_id \in new /\ r = Request(n, run[n], job, e)
    BY <1>6
  <1>8. \A e : Request(n, run[n], job, e).rpc = NewRpc(n, job, e.node_id)
    BY DEF Request, NewRpc
  <1>9. {r.rpc : r \in requests} = {NewRpc(n, job, p) : p \in new}
    <2>1. \A id \in new : \E e \in NewlyAsked(before, after) : e.node_id = id
      BY <1>4, <1>5
    <2>2. {r.rpc : r \in requests} = {NewRpc(n, job, e.node_id) : e \in NewlyAsked(before, after)}
      BY <1>8
    <2> QED
      BY <1>6, <2>1, <2>2
  <1>10. /\ tasks' = [tasks EXCEPT ![n] = [j \in {job} \cup DOMAIN @ |->
                                              IF j = job THEN after ELSE @[j]]]
         /\ lookup_task_map' = [lookup_task_map EXCEPT ![n] = (@ \ spent) \cup {r.rpc : r \in requests}]
         /\ net' = net \cup requests
    BY DEF RunTask
  <1> HIDE DEF requests
  <1>11. PICK f, g : f = [j \in {job} \cup DOMAIN g |-> IF j = job THEN after ELSE g[j]] /\ g = tasks[n]
    OBVIOUS
  <1>12. /\ DOMAIN f = DOMAIN g \cup {job} /\ f[job] = after
         /\ \A j \in DOMAIN g \ {job} : f[j] = g[j]
    BY <1>11
  <1>13. tasks' = [tasks EXCEPT ![n] = f]
    BY <1>10, <1>11
  <1>14. DOMAIN tasks' = Node /\ tasks'[n] = f /\ \A x \in Node \ {n} : tasks'[x] = tasks[x]
    BY <1>1, <1>13
  <1>15. /\ lookup_task_map'[n] = (lookup_task_map[n] \ spent) \cup {NewRpc(n, job, p) : p \in new}
         /\ \A x \in Node \ {n} : lookup_task_map'[x] = lookup_task_map[x]
         /\ lookup_task_map' = [lookup_task_map EXCEPT ![n] = lookup_task_map'[n]]
    <2>1. PICK S : S = (lookup_task_map[n] \ spent) \cup {r.rpc : r \in requests}
      OBVIOUS
    <2>2. lookup_task_map' = [lookup_task_map EXCEPT ![n] = S]
      BY <1>10, <2>1
    <2>3. lookup_task_map'[n] = S /\ \A x \in Node \ {n} : lookup_task_map'[x] = lookup_task_map[x]
      BY <1>1, <2>2
    <2> QED
      BY <1>9, <2>1, <2>2, <2>3
  <1> QED
    BY <1>1, <1>3, <1>7, <1>10, <1>11, <1>12, <1>14, <1>15

\* A map entry is told from the others of its task by its peer.
LEMMA EntriesAreNew ==
    ASSUME Inv, NEW n \in Node, NEW rpc \in lookup_task_map[n]
    PROVE  /\ rpc = NewRpc(n, rpc.job, rpc.peer) /\ rpc \in Rpc /\ rpc \in PendingOf(n, rpc.job)
           /\ rpc.job \in DOMAIN tasks[n] /\ rpc.job \in Job /\ n \in started
  <1>1. rpc \in Rpc /\ rpc.owner = n /\ rpc.run = run[n] /\ rpc.job \in DOMAIN tasks[n]
        /\ rpc.job \in Job
    BY DEF Inv, Lookups
  <1>2. n \in started
    BY DEF Inv, Lives
  <1> QED
    BY <1>1, <1>2 DEF Rpc, NewRpc, PendingOf

\* The peers that the tasks wait for after RunTask.
LEMMA RunTaskAsked ==
    ASSUME Inv, NEW n, NEW job, NEW before, NEW after, NEW spent,
           Moves(n, job, before, after, spent), RunTask(n, job, before, after, spent)
    PROVE  /\ Asked(n, job)' = (Asked(n, job) \ Peers(spent)) \cup (after.queried \ before.queried)
           /\ \A x \in Node : \A j : <<x, j>> # <<n, job>> => Asked(x, j)' = Asked(x, j)
  <1>1. PICK new : new = after.queried \ before.queried
    OBVIOUS
  <1>2. /\ n \in Node
        /\ \A x \in Node \ {n} : lookup_task_map'[x] = lookup_task_map[x]
        /\ lookup_task_map'[n] = (lookup_task_map[n] \ spent) \cup {NewRpc(n, job, p) : p \in new}
    BY <1>1, RunTaskEffect
  <1>3. \A p : NewRpc(n, job, p).job = job /\ NewRpc(n, job, p).peer = p
    BY DEF NewRpc
  <1>4. \A rpc \in spent : rpc \in lookup_task_map[n] /\ rpc.job = job
    BY DEF Moves, PendingOf
  <1>5. \A r \in lookup_task_map[n] : \A s \in spent :
           r.job = job /\ r.peer = s.peer => r = s
    <2> SUFFICES ASSUME NEW r \in lookup_task_map[n], NEW s \in spent, r.job = job, r.peer = s.peer
                 PROVE  r = s
      OBVIOUS
    <2>1. s \in lookup_task_map[n] /\ s.job = job
      BY <1>4
    <2>2. r = NewRpc(n, r.job, r.peer) /\ s = NewRpc(n, s.job, s.peer)
      BY <1>2, <2>1, EntriesAreNew
    <2> QED
      BY <2>1, <2>2
  <1>6. Asked(n, job)' = {rpc.peer : rpc \in {r \in lookup_task_map'[n] : r.job = job}}
    BY DEF Asked, PendingOf
  <1>7. Asked(n, job) = {rpc.peer : rpc \in {r \in lookup_task_map[n] : r.job = job}}
    BY DEF Asked, PendingOf
  <1>8. Asked(n, job)' = (Asked(n, job) \ Peers(spent)) \cup new
    <2>1. ASSUME NEW p \in Asked(n, job)'
          PROVE  p \in (Asked(n, job) \ Peers(spent)) \cup new
      <3>1. PICK r \in lookup_task_map'[n] : r.job = job /\ r.peer = p
        BY <1>6, <2>1
      <3>2. CASE r \in lookup_task_map[n] \ spent
        <4>1. p \in Asked(n, job)
          BY <1>7, <3>1, <3>2
        <4>2. p \notin Peers(spent)
          BY <1>5, <3>1, <3>2 DEF Peers
        <4> QED
          BY <4>1, <4>2
      <3>3. CASE \E q \in new : r = NewRpc(n, job, q)
        BY <1>3, <3>1, <3>3
      <3> QED
        BY <1>2, <3>1, <3>2, <3>3
    <2>2. ASSUME NEW p \in Asked(n, job) \ Peers(spent)
          PROVE  p \in Asked(n, job)'
      <3>1. PICK r \in lookup_task_map[n] : r.job = job /\ r.peer = p
        BY <1>7, <2>2
      <3>2. r \notin spent
        BY <2>2, <3>1 DEF Peers
      <3> QED
        BY <1>2, <1>6, <3>1, <3>2
    <2>3. ASSUME NEW p \in new
          PROVE  p \in Asked(n, job)'
      <3>1. NewRpc(n, job, p) \in lookup_task_map'[n]
        BY <1>2, <2>3
      <3> QED
        BY <1>3, <1>6, <3>1
    <2> QED
      BY <2>1, <2>2, <2>3
  <1>9. ASSUME NEW x \in Node, NEW j, <<x, j>> # <<n, job>>
        PROVE  Asked(x, j)' = Asked(x, j)
    <2>1. \A r : r.job = j =>
             (r \in lookup_task_map'[x] <=> r \in lookup_task_map[x])
      <3>1. CASE x # n
        BY <1>2, <3>1
      <3>2. CASE x = n /\ j # job
        BY <1>2, <1>3, <1>4, <3>2
      <3> QED
        BY <1>9, <3>1, <3>2
    <2>2. {r \in lookup_task_map'[x] : r.job = j} = {r \in lookup_task_map[x] : r.job = j}
      BY <2>1
    <2> QED
      BY <2>2 DEF Asked, PendingOf
  <1> QED
    BY <1>1, <1>8, <1>9

\* Every task is sound after it.
LEMMA RunTaskLookups ==
    ASSUME Inv, NEW n, NEW job, NEW before, NEW after, NEW spent,
           Moves(n, job, before, after, spent), RunTask(n, job, before, after, spent),
           run' = run, is_bootstrapped \subseteq is_bootstrapped',
           job = "self" => n \in is_bootstrapped'
    PROVE  Lookups'
  <1>1. PICK new : new = after.queried \ before.queried
    OBVIOUS
  <1>2. /\ n \in Node /\ n \in started /\ job \in Job /\ DOMAIN tasks' = Node
        /\ \A x \in Node \ {n} : tasks'[x] = tasks[x] /\ lookup_task_map'[x] = lookup_task_map[x]
        /\ DOMAIN tasks'[n] = DOMAIN tasks[n] \cup {job}
        /\ tasks'[n][job] = after
        /\ \A j \in DOMAIN tasks[n] \ {job} : tasks'[n][j] = tasks[n][j]
        /\ lookup_task_map'[n] = (lookup_task_map[n] \ spent) \cup {NewRpc(n, job, p) : p \in new}
        /\ lookup_task_map' = [lookup_task_map EXCEPT ![n] = lookup_task_map'[n]]
    <2>1. n \in started /\ job \in Job
      BY DEF Moves
    <2> QED
      BY <1>1, <2>1, RunTaskEffect
  <1>3. /\ lookup_task_map \in [Node -> SUBSET Rpc]
        /\ \A x \in Node :
              /\ DOMAIN tasks[x] \subseteq Job
              /\ "self" \in DOMAIN tasks[x] => x \in is_bootstrapped
              /\ \A rpc \in lookup_task_map[x] :
                    rpc.owner = x /\ rpc.run = run[x] /\ rpc.job \in DOMAIN tasks[x]
              /\ \A j \in DOMAIN tasks[x] : \E told \in SUBSET Node : SoundTask(x, j, told)
    BY DEF Inv, Lookups
  <1>4. PICK told \in SUBSET Node :
           Sound(after, (Asked(n, job) \ Peers(spent)) \cup new, told, n, Target(n, job), Entry)
    BY <1>1 DEF Moves
  <1>5. new \subseteq Node
    BY <1>1, <1>4, Nodes DEF Sound, Counting
  <1>6. \A p \in new : /\ NewRpc(n, job, p) \in Rpc /\ NewRpc(n, job, p).owner = n
                       /\ NewRpc(n, job, p).run = run[n] /\ NewRpc(n, job, p).job = job
    <2>1. run[n] \in 1 .. 2
      BY <1>2 DEF Inv, Lives
    <2> QED
      BY <1>2, <1>5, <2>1 DEF NewRpc, Rpc
  <1>7. lookup_task_map' \in [Node -> SUBSET Rpc]
    <2>1. lookup_task_map'[n] \in SUBSET Rpc
      BY <1>2, <1>3, <1>6
    <2> QED
      BY <1>2, <1>3, <2>1
  <1>8. ASSUME NEW x \in Node
        PROVE  /\ DOMAIN tasks'[x] \subseteq Job
               /\ "self" \in DOMAIN tasks'[x] => x \in is_bootstrapped'
               /\ \A rpc \in lookup_task_map'[x] :
                     rpc.owner = x /\ rpc.run = run[x] /\ rpc.job \in DOMAIN tasks'[x]
    <2>1. CASE x = n
      <3>1. DOMAIN tasks'[n] \subseteq Job /\ ("self" \in DOMAIN tasks'[n] => n \in is_bootstrapped')
        BY <1>2, <1>3
      <3>2. \A rpc \in lookup_task_map'[n] :
               rpc.owner = n /\ rpc.run = run[n] /\ rpc.job \in DOMAIN tasks'[n]
        BY <1>2, <1>3, <1>6
      <3> QED
        BY <2>1, <3>1, <3>2
    <2>2. CASE x # n
      BY <1>2, <1>3, <2>2
    <2> QED
      BY <2>1, <2>2
  <1>9. ASSUME NEW x \in Node, NEW j \in DOMAIN tasks'[x]
        PROVE  \E t \in SUBSET Node : SoundTask(x, j, t)'
    <2>1. Asked(n, job)' = (Asked(n, job) \ Peers(spent)) \cup new
          /\ \A y \in Node : \A i : <<y, i>> # <<n, job>> => Asked(y, i)' = Asked(y, i)
      BY <1>1, RunTaskAsked
    <2>2. CASE <<x, j>> = <<n, job>>
      <3>1. Sound(tasks'[x][j], Asked(x, j)', told, x, Target(x, j), Entry)
        BY <1>2, <1>4, <2>1, <2>2
      <3> QED
        BY <3>1 DEF SoundTask
    <2>3. CASE <<x, j>> # <<n, job>>
      <3>1. j \in DOMAIN tasks[x] /\ tasks'[x][j] = tasks[x][j]
        BY <1>2, <1>9, <2>3
      <3>2. PICK t \in SUBSET Node : Sound(tasks[x][j], Asked(x, j), t, x, Target(x, j), Entry)
        BY <1>3, <3>1 DEF SoundTask
      <3>3. Asked(x, j)' = Asked(x, j)
        BY <2>1, <2>3
      <3>4. Sound(tasks'[x][j], Asked(x, j)', t, x, Target(x, j), Entry)
        BY <3>1, <3>2, <3>3
      <3> QED
        BY <3>4 DEF SoundTask
    <2> QED
      BY <2>2, <2>3
  <1> QED
    BY <1>2, <1>7, <1>8, <1>9 DEF Lookups
-----------------------------------------------------------------------------
(***************************************************************************)
(* Steps that end no life: tables learn, tasks go on, and a map entry that *)
(* is added is of a request never sent before.                             *)
(***************************************************************************)
Fresh(x, rpc) ==
    /\ rpc.owner = x /\ rpc.run = run[x] /\ x \in started /\ rpc.job \in Job
    /\ ~ (rpc.job \in DOMAIN tasks[x] /\ rpc.peer \in tasks[x][rpc.job].queried)

TasksGoOn ==
    \A x \in Node : \A j \in DOMAIN tasks[x] :
        j \in DOMAIN tasks'[x] /\ tasks[x][j].queried \subseteq tasks'[x][j].queried

Forward ==
    /\ run' = run /\ started' = started /\ unread \subseteq unread' /\ Learning /\ TasksGoOn
    /\ \A x \in Node : \A rpc \in lookup_task_map'[x] : rpc \in lookup_task_map[x] \/ Fresh(x, rpc)

\* What holds of a datagram goes on to hold.
LEMMA OldDatagrams ==
    ASSUME Inv, Forward, NEW m \in net
    PROVE  (Formed(m) /\ Used(m.rpc) /\ Replied(m) /\ Idle(m))'
  <1>1. /\ m \in Datagram /\ Formed(m) /\ Used(m.rpc) /\ Replied(m) /\ Idle(m)
        /\ m.from \in Node /\ m.to \in Node /\ m.rpc \in Rpc
    BY DEF Inv, Datagrams, Datagram
  <1>2. /\ run' = run /\ started' = started /\ unread \subseteq unread' /\ Learning /\ TasksGoOn
        /\ \A x \in Node : \A rpc \in lookup_task_map'[x] :
              rpc \in lookup_task_map[x] \/ Fresh(x, rpc)
    BY DEF Forward
  <1>3. Formed(m)'
    BY <1>1 DEF Formed
  <1>4. PICK rpc : rpc = m.rpc
    OBVIOUS
  <1>5. rpc.owner \in Node /\ rpc.job \in Job \cup {"ping"}
    BY <1>1, <1>4 DEF Rpc
  <1>6. Used(rpc)'
    <2>1. Used(rpc)
      BY <1>1, <1>4
    <2>2. \A j \in DOMAIN tasks[rpc.owner] :
             /\ j \in DOMAIN tasks'[rpc.owner]
             /\ tasks[rpc.owner][j].queried \subseteq tasks'[rpc.owner][j].queried
      BY <1>2, <1>5 DEF TasksGoOn
    <2> QED
      BY <1>2, <2>1, <2>2 DEF Used
  <1>7. Replied(m)'
    <2>1. Knows(m.from, m.to) => Knows(m.from, m.to)'
      BY <1>1, <1>2, KnowsMore
    <2>2. Crashed(m.from)' <=> Crashed(m.from)
      BY <1>2 DEF Crashed
    <2>3. m.is_reply => Knows(m.from, m.to) \/ Crashed(m.from)
      BY <1>1 DEF Replied
    <2> QED
      BY <2>1, <2>2, <2>3 DEF Replied
  <1>8. Idle(m)'
    <2>1. rpc \notin lookup_task_map[rpc.owner] => rpc \notin lookup_task_map'[rpc.owner]
      <3> SUFFICES ASSUME Fresh(rpc.owner, rpc)
                   PROVE  FALSE
        BY <1>2, <1>5
      <3>1. Used(rpc)
        BY <1>1, <1>4
      <3> QED
        BY <3>1 DEF Used, Fresh
    <2>2. Idle(m)
      BY <1>1
    <2> QED
      BY <1>2, <1>4, <2>1, <2>2 DEF Idle
  <1> QED
    BY <1>3, <1>4, <1>6, <1>7, <1>8

\* RunTask is such a step, and what it sends is a request of the task.
LEMMA RunTaskForward ==
    ASSUME Inv, NEW n, NEW job, NEW before, NEW after, NEW spent,
           Moves(n, job, before, after, spent), RunTask(n, job, before, after, spent),
           run' = run, started' = started, unread \subseteq unread', Learning
    PROVE  /\ Forward
           /\ \A m \in net' : m \in net \/ (m \in Datagram /\ Formed(m) /\ Used(m.rpc)' /\ ~ m.is_reply)
  <1>1. PICK new : new = after.queried \ before.queried
    OBVIOUS
  <1>2. /\ n \in Node /\ DOMAIN tasks' = Node
        /\ \A x \in Node \ {n} : tasks'[x] = tasks[x] /\ lookup_task_map'[x] = lookup_task_map[x]
        /\ DOMAIN tasks'[n] = DOMAIN tasks[n] \cup {job}
        /\ tasks'[n][job] = after
        /\ \A j \in DOMAIN tasks[n] \ {job} : tasks'[n][j] = tasks[n][j]
        /\ lookup_task_map'[n] = (lookup_task_map[n] \ spent) \cup {NewRpc(n, job, p) : p \in new}
        /\ \A m \in net' : m \in net \/ \E e \in Entry :
              e.node_id \in new /\ m = Request(n, run[n], job, e)
    BY <1>1, RunTaskEffect
  <1>3. /\ n \in started /\ job \in Job
        /\ before = IF job \in DOMAIN tasks[n] THEN tasks[n][job] ELSE NewTask
        /\ before.queried \subseteq after.queried
    BY DEF Moves
  <1>4. new \subseteq Node \ {n} /\ new \subseteq after.queried
    <2>1. after.queried \subseteq Others(Entry, n)
      BY DEF Moves, Sound, Counting
    <2> QED
      BY <1>1, <2>1, Nodes
  <1>5. \A p \in new : /\ NewRpc(n, job, p).owner = n /\ NewRpc(n, job, p).run = run[n]
                       /\ NewRpc(n, job, p).job = job /\ NewRpc(n, job, p).peer = p
                       /\ NewRpc(n, job, p) \in Rpc
    <2>1. run[n] \in 1 .. 2
      BY <1>3 DEF Inv, Lives
    <2> QED
      BY <1>2, <1>3, <1>4, <2>1 DEF NewRpc, Rpc
  <1>6. TasksGoOn
    <2> SUFFICES ASSUME NEW x \in Node, NEW j \in DOMAIN tasks[x]
                 PROVE  j \in DOMAIN tasks'[x] /\ tasks[x][j].queried \subseteq tasks'[x][j].queried
      BY DEF TasksGoOn
    <2>1. CASE x = n /\ j = job
      BY <1>2, <1>3, <2>1
    <2>2. CASE ~ (x = n /\ j = job)
      BY <1>2, <2>2
    <2> QED
      BY <2>1, <2>2
  <1>7. ASSUME NEW p \in new
        PROVE  Fresh(n, NewRpc(n, job, p))
    <2>1. job \in DOMAIN tasks[n] => p \notin tasks[n][job].queried
      BY <1>1, <1>3, <1>7
    <2> QED
      BY <1>3, <1>5, <2>1 DEF Fresh
  <1>8. Forward
    BY <1>2, <1>6, <1>7 DEF Forward
  <1>9. ASSUME NEW e \in Entry, e.node_id \in new, NEW m, m = Request(n, run[n], job, e)
        PROVE  m \in Datagram /\ Formed(m) /\ Used(m.rpc)' /\ ~ m.is_reply
    <2>1. e.address = e.node_id /\ e.node_id \in Node \ {n}
      BY <1>4, <1>9 DEF Entry
    <2>2. m.rpc = NewRpc(n, job, e.node_id)
      BY <1>9 DEF Request, NewRpc
    <2>3. /\ m.type = Type(job) /\ m.from = n /\ m.to = e.node_id /\ ~ m.is_reply
          /\ m.nodes = << >>
      BY <1>9, <2>1 DEF Request
    <2>4. Formed(m)
      BY <1>5, <1>9, <2>1, <2>2, <2>3 DEF Formed
    <2>5. Used(m.rpc)'
      <3>1. run[n] <= run[n]
        BY <1>2 DEF Inv, Lives
      <3> QED
        BY <1>2, <1>4, <1>5, <1>9, <2>2, <3>1 DEF Used
    <2>6. m \in Datagram
      <3>1. Type(job) \in {"PING", "FIND_NODE", "FIND_VALUE"}
        BY <1>3 DEF Type, Job
      <3>2. Target(n, job) \in Id /\ << >> \in Seq(NodeEntry)
        BY <1>2, Nodes
      <3>3. NewRpc(n, job, e.node_id) \in Rpc
        BY <1>5, <1>9
      <3> QED
        BY <1>2, <1>9, <2>1, <2>2, <3>1, <3>2, <3>3 DEF Datagram, Request
    <2> QED
      BY <2>3, <2>4, <2>5, <2>6
  <1> QED
    BY <1>2, <1>8, <1>9

\* So the datagrams after it are as they should be.
LEMMA RunTaskDatagrams ==
    ASSUME Inv, NEW n, NEW job, NEW before, NEW after, NEW spent,
           Moves(n, job, before, after, spent), RunTask(n, job, before, after, spent),
           run' = run, started' = started, Learning, unread \subseteq unread',
           expired' \subseteq Rpc, unread' \subseteq Rpc
    PROVE  Datagrams'
  <1>1. /\ Forward
        /\ \A m \in net' : m \in net \/ (m \in Datagram /\ Formed(m) /\ Used(m.rpc)' /\ ~ m.is_reply)
    BY RunTaskForward
  <1>2. ASSUME NEW m \in net'
        PROVE  m \in Datagram /\ (Formed(m) /\ Used(m.rpc) /\ Replied(m) /\ Idle(m))'
    <2>1. CASE m \in net
      BY <1>1, <2>1, OldDatagrams DEF Inv, Datagrams
    <2>2. CASE m \notin net
      <3>1. m \in Datagram /\ Formed(m) /\ Used(m.rpc)' /\ ~ m.is_reply
        BY <1>1, <1>2, <2>2
      <3>2. Formed(m)'
        BY <3>1 DEF Formed
      <3> QED
        BY <3>1, <3>2 DEF Replied, Idle
    <2> QED
      BY <2>1, <2>2
  <1> QED
    BY <1>2 DEF Datagrams

(***************************************************************************)
(* And Values, if the step that erases an entry of a holder is a timeout,  *)
(* brings the value or says that the holder could not read it.             *)
(***************************************************************************)
LEMMA RunTaskValues ==
    ASSUME Inv, NEW n, NEW job, NEW before, NEW after, NEW spent,
           Moves(n, job, before, after, spent), RunTask(n, job, before, after, spent),
           run' = run, expired \subseteq expired', unread \subseteq unread',
           job = "value" /\ after.found = {} /\ InTime(n, "value")'
               => before.found = {} /\ Peers(spent) \cap Holder \subseteq UnreadBy(n)'
    PROVE  Values'
  <1>1. PICK new : new = after.queried \ before.queried
    OBVIOUS
  <1>2. /\ n \in Node /\ DOMAIN tasks' = Node
        /\ \A x \in Node \ {n} : tasks'[x] = tasks[x]
        /\ DOMAIN tasks'[n] = DOMAIN tasks[n] \cup {job}
        /\ tasks'[n][job] = after
        /\ \A j \in DOMAIN tasks[n] \ {job} : tasks'[n][j] = tasks[n][j]
    BY RunTaskEffect
  <1>3. /\ Asked(n, job)' = (Asked(n, job) \ Peers(spent)) \cup new
        /\ \A x \in Node : \A j : <<x, j>> # <<n, job>> => Asked(x, j)' = Asked(x, j)
    BY <1>1, RunTaskAsked
  <1>4. \A x \in Node : (InTime(x, "value")' => InTime(x, "value"))
                           /\ UnreadBy(x) \subseteq UnreadBy(x)'
    BY DEF InTime, UnreadBy
  <1>5. ASSUME NEW x \in Node, "value" \in DOMAIN tasks'[x],
               tasks'[x]["value"].found = {}, InTime(x, "value")'
        PROVE  tasks'[x]["value"].queried \cap Holder \subseteq Asked(x, "value")' \cup UnreadBy(x)'
    <2>1. CASE <<x, "value">> = <<n, job>>
      <3>1. job = "value" /\ x = n /\ tasks'[x]["value"] = after
        BY <1>2, <2>1
      <3>2. before.found = {} /\ Peers(spent) \cap Holder \subseteq UnreadBy(n)'
        BY <1>5, <3>1
      <3>3. before.queried \cap Holder \subseteq Asked(n, job) \cup UnreadBy(n)
        <4>1. before = IF job \in DOMAIN tasks[n] THEN tasks[n][job] ELSE NewTask
          BY DEF Moves
        <4>2. CASE job \in DOMAIN tasks[n]
          <5>1. InTime(n, "value")
            BY <1>2, <1>4, <1>5, <3>1
          <5> QED
            BY <1>2, <3>1, <3>2, <4>1, <4>2, <5>1 DEF Inv, Values
        <4>3. CASE job \notin DOMAIN tasks[n]
          BY <4>1, <4>3 DEF NewTask
        <4> QED
          BY <4>2, <4>3
      <3> QED
        BY <1>1, <1>3, <1>4, <3>1, <3>2, <3>3
    <2>2. CASE <<x, "value">> # <<n, job>>
      <3>1. "value" \in DOMAIN tasks[x] /\ tasks'[x]["value"] = tasks[x]["value"]
        BY <1>2, <1>5, <2>2
      <3>2. tasks[x]["value"].queried \cap Holder \subseteq Asked(x, "value") \cup UnreadBy(x)
        BY <1>4, <1>5, <3>1 DEF Inv, Values
      <3> QED
        BY <1>3, <1>4, <2>2, <3>1, <3>2
    <2> QED
      BY <2>1, <2>2
  <1> QED
    BY <1>5 DEF Values

\* Who is bootstrapped stays known, and goes on to know the bootstrap node.
LEMMA MutualStays ==
    ASSUME Inv, Learning, run' = run, started' = started, NEW n \in is_bootstrapped
    PROVE  /\ (Knows(Boot, n) \/ Crashed(Boot))'
           /\ (Knows(n, Boot) \/ IsFull(k_buckets[n][Home(n, Boot)]))'
  <1>1. n \in Node /\ n # Boot /\ Boot \in Node
    BY Nodes DEF Inv, Lives
  <1>2. /\ Knows(Boot, n) \/ Crashed(Boot)
        /\ Knows(n, Boot) \/ IsFull(k_buckets[n][Home(n, Boot)])
    BY DEF Inv, BootstrapIsMutual
  <1>3. /\ Knows(Boot, n) => Knows(Boot, n)'
        /\ Knows(n, Boot) => Knows(n, Boot)'
        /\ IsFull(k_buckets[n][Home(n, Boot)]) => IsFull(k_buckets'[n][Home(n, Boot)])
    BY <1>1, KnowsMore
  <1>4. Crashed(Boot)' <=> Crashed(Boot)
    BY DEF Crashed
  <1> QED
    BY <1>2, <1>3, <1>4
-----------------------------------------------------------------------------
(***************************************************************************)
(* The moves of a task.                                                    *)
(***************************************************************************)

\* findKNodes answers with at most K nodes.
LEMMA AnswerIsShort ==
    ASSUME NEW t, Table(t, Entry), NEW owner \in Node, NEW id \in Id
    PROVE  FindKNodes(t, owner, id) \in Seq(Entry) /\ Len(FindKNodes(t, owner, id)) <= kBucketLimit
  <1>1. owner \in Id /\ WellFormed(t)
    BY Nodes DEF Table
  <1>2. PICK a : a = FindKNodes(t, owner, id)
    OBVIOUS
  <1>3. a \in Seq(Entries(t)) /\ Len(a) <= kBucketLimit
    BY <1>1, <1>2, FindKNodesEffect
  <1>4. Entries(t) \subseteq Entry
    <2>1. \A i \in Bits : \A p \in DOMAIN t[i] : t[i][p] \in Entry
      BY LenProperties, ElementOfSeq DEF Table
    <2> QED
      BY <2>1 DEF Entries
  <1>5. a \in Seq(Entry)
    <2>1. PICK S : S = Entries(t)
      OBVIOUS
    <2> QED
      BY <1>3, <1>4, <2>1
  <1> QED
    BY <1>2, <1>3, <1>5

\* start of a task the node does not have yet.
LEMMA StartMoves ==
    ASSUME Inv, NEW n \in started, NEW job \in Job, job \notin DOMAIN tasks[n],
           NEW t, Table(t, Entry), NEW after, after = start(FindKNodes(t, n, Target(n, job)), n)
    PROVE  Moves(n, job, NewTask, after, {}) /\ after.found = {}
  <1>1. n \in Node
    BY DEF Inv, Lives
  <1>2. Target(n, job) \in Id /\ Setting(n, Target(n, job), Entry)
    BY <1>1, Nodes
  <1>3. PICK s : s = FindKNodes(t, n, Target(n, job))
    OBVIOUS
  <1>4. s \in Seq(Entry) /\ Len(s) <= kBucketLimit
    BY <1>1, <1>2, <1>3, AnswerIsShort
  <1>5. PICK target : target = Target(n, job)
    OBVIOUS
  <1>6. /\ Sound(after, after.queried, Ids(s), n, target, Entry)
        /\ after.found = {} /\ after.queried \subseteq Ids(after.saved)
    BY <1>2, <1>3, <1>4, <1>5, StartEffect
  <1>7. Asked(n, job) = {}
    <2>1. \A rpc \in lookup_task_map[n] : rpc.job \in DOMAIN tasks[n]
      BY <1>1 DEF Inv, Lookups
    <2> QED
      BY <2>1 DEF Asked, PendingOf
  <1>8. NewTask.queried = {}
    BY DEF NewTask
  <1>9. Ids(s) \in SUBSET Node
    BY <1>4, Nodes
  <1>10. PICK W : W = (Asked(n, job) \ Peers({})) \cup (after.queried \ NewTask.queried)
    OBVIOUS
  <1>11. W = after.queried
    BY <1>7, <1>8, <1>10
  <1>12. \E told \in SUBSET Node : Sound(after, W, told, n, target, Entry)
    BY <1>6, <1>9, <1>11
  <1> QED
    BY <1>5, <1>6, <1>8, <1>10, <1>12 DEF Moves

\* The task of a map entry waits for the entry's peer.
LEMMA EntryAwaits ==
    ASSUME Inv, NEW n \in Node, NEW rpc \in lookup_task_map[n]
    PROVE  \E told \in SUBSET Node :
             Awaits(tasks[n][rpc.job], Asked(n, rpc.job), rpc.peer, told, n,
                    Target(n, rpc.job), Entry)
  <1>1. rpc.job \in DOMAIN tasks[n] /\ rpc \in PendingOf(n, rpc.job)
    BY EntriesAreNew
  <1>2. PICK job : job = rpc.job
    OBVIOUS
  <1>3. \E told \in SUBSET Node : SoundTask(n, job, told)
    BY <1>1, <1>2 DEF Inv, Lookups
  <1>4. PICK told \in SUBSET Node :
           Sound(tasks[n][job], Asked(n, job), told, n, Target(n, job), Entry)
    BY <1>3 DEF SoundTask
  <1>5. Setting(n, Target(n, job), Entry)
    BY Nodes
  <1>6. rpc.peer \in Asked(n, job)
    BY <1>1, <1>2 DEF Asked
  <1> QED
    BY <1>2, <1>4, <1>5, <1>6 DEF Awaits

\* An answer or a timeout moves it.
LEMMA SettledMoves ==
    ASSUME Inv, NEW n \in Node, NEW rpc \in lookup_task_map[n], NEW told \in SUBSET Node, NEW u,
           Settled(tasks[n][rpc.job], Asked(n, rpc.job), rpc.peer, told, u, n,
                   Target(n, rpc.job), Entry)
    PROVE  Moves(n, rpc.job, tasks[n][rpc.job], u, {rpc})
  <1>1. /\ rpc.job \in DOMAIN tasks[n] /\ rpc \in PendingOf(n, rpc.job)
        /\ rpc.job \in Job /\ n \in started
    BY EntriesAreNew
  <1>2. Peers({rpc}) = {rpc.peer}
    BY DEF Peers
  <1>3. PICK job, t, W : job = rpc.job /\ t = tasks[n][job] /\ W = Asked(n, job)
    OBVIOUS
  <1>4. /\ Sound(u, (W \ {rpc.peer}) \cup (u.queried \ t.queried), told, n, Target(n, job), Entry)
        /\ t.queried \subseteq u.queried /\ u.queried \ t.queried \subseteq Ids(u.saved)
    BY <1>3 DEF Settled
  <1>5. Sound(u, (W \ Peers({rpc})) \cup (u.queried \ t.queried), told, n, Target(n, job), Entry)
    BY <1>2, <1>4
  <1>6. \E o \in SUBSET Node :
           Sound(u, (W \ Peers({rpc})) \cup (u.queried \ t.queried), o, n, Target(n, job), Entry)
    BY <1>5
  <1> QED
    BY <1>1, <1>3, <1>4, <1>6 DEF Moves
-----------------------------------------------------------------------------
(***************************************************************************)
(* The parts of the invariant that a step leaves as they are.              *)
(***************************************************************************)

\* A step that touches nothing of the nodes that are not started.
LEMMA LivesStay ==
    ASSUME Inv, scenario' = scenario, run' = run, started' = started,
           is_bootstrapped' \subseteq started \ {Boot},
           \A x \in Node \ started : /\ requests_map'[x] = requests_map[x]
                                    /\ lookup_task_map'[x] = lookup_task_map[x]
                                    /\ tasks'[x] = tasks[x]
    PROVE  Lives'
  <1>1. Lives
    BY DEF Inv
  <1> QED
    BY <1>1 DEF Lives

\* A step that only takes PINGs out of a map.
LEMMA PingsStay ==
    ASSUME Inv, run' = run, NEW n \in Node, NEW S \in SUBSET requests_map[n],
           requests_map' = [requests_map EXCEPT ![n] = S]
    PROVE  Pings'
  <1>1. Pings
    BY DEF Inv
  <1>2. /\ requests_map' \in [Node -> SUBSET Rpc]
        /\ \A x \in Node : requests_map'[x] \subseteq requests_map[x]
    BY <1>1 DEF Pings
  <1> QED
    BY <1>1, <1>2 DEF Pings

\* A step that runs no task.
LEMMA TasksStay ==
    ASSUME Inv, run' = run, tasks' = tasks, lookup_task_map' = lookup_task_map,
           is_bootstrapped \subseteq is_bootstrapped', expired \subseteq expired',
           unread \subseteq unread'
    PROVE  Lookups' /\ Values'
  <1>1. \A x, j : Asked(x, j)' = Asked(x, j)
    BY DEF Asked, PendingOf
  <1>2. \A x : (InTime(x, "value")' => InTime(x, "value")) /\ UnreadBy(x) \subseteq UnreadBy(x)'
    BY DEF InTime, UnreadBy
  <1>3. Lookups /\ Values
    BY DEF Inv
  <1>4. \A x, j, told : SoundTask(x, j, told) => SoundTask(x, j, told)'
    BY <1>1 DEF SoundTask
  <1>5. Lookups'
    BY <1>3, <1>4 DEF Lookups
  <1>6. Values'
    BY <1>1, <1>2, <1>3 DEF Values
  <1> QED
    BY <1>5, <1>6

\* A step on which nobody else finishes its bootstrap.
LEMMA MutualHolds ==
    ASSUME Inv, Learning, run' = run, started' = started,
           \A n \in is_bootstrapped' \ is_bootstrapped :
              /\ (Knows(Boot, n) \/ Crashed(Boot))'
              /\ (Knows(n, Boot) \/ IsFull(k_buckets[n][Home(n, Boot)]))'
    PROVE  BootstrapIsMutual'
  <1>1. \A n \in is_bootstrapped :
           /\ (Knows(Boot, n) \/ Crashed(Boot))'
           /\ (Knows(n, Boot) \/ IsFull(k_buckets[n][Home(n, Boot)]))'
    BY MutualStays
  <1> QED
    BY <1>1 DEF BootstrapIsMutual

-----------------------------------------------------------------------------
(***************************************************************************)
(* A message that is answered.                                             *)
(***************************************************************************)

(***************************************************************************)
(* The reply goes back the way the message came.  That it is sent only to  *)
(* somebody the replier knows is what makes a bootstrap mutual.            *)
(***************************************************************************)
LEMMA ReplyEffect ==
    ASSUME Inv, NEW m \in net, onReceive(m),
           NEW nodes \in Seq(Entry), NEW data \in BOOLEAN, SendReply(m, nodes, data),
           unread \subseteq unread', unread' \subseteq Rpc,
           m.to = m.rpc.owner => m.rpc \notin lookup_task_map[m.rpc.owner],
           m.rpc.job = "value" /\ m.to \in Holder /\ ~ data => m.is_reply \/ m.rpc \in unread'
    PROVE  Inv'
  <1>1. /\ m \in Datagram /\ Formed(m) /\ Used(m.rpc) /\ Replied(m) /\ Idle(m)
        /\ m.from \in Node /\ m.to \in Node /\ m.rpc \in Rpc
    BY DEF Inv, Datagrams, Datagram
  <1>2. /\ scenario' = scenario /\ run' = run /\ started' = started /\ expired' = expired
        /\ is_bootstrapped' = is_bootstrapped /\ requests_map' = requests_map
        /\ lookup_task_map' = lookup_task_map /\ tasks' = tasks
    BY DEF onReceive, SendReply
  <1>3. Learning /\ k_buckets'[m.to] = Registered(m)
    BY ReceiveLearns
  <1>4. Forward
    <2>1. TasksGoOn
      BY <1>2 DEF TasksGoOn
    <2>2. \A x \in Node : \A rpc \in lookup_task_map'[x] : rpc \in lookup_task_map[x]
      BY <1>2
    <2> QED
      BY <1>2, <1>3, <2>1, <2>2 DEF Forward
  <1>5. ASSUME NEW e \in FindNode(Registered(m), m.to, m.from), NEW r, r = Reply(m, e, nodes, data)
        PROVE  r \in Datagram /\ (Formed(r) /\ Used(r.rpc) /\ Replied(r) /\ Idle(r))'
    <2>1. e \in Entry /\ e.node_id = m.from
      <3>1. Table(Registered(m), Entry)
        BY RegisteredEffect
      <3>2. m.to \in Id /\ m.from \in Id
        BY <1>1, Nodes
      <3>3. PICK E \in SUBSET NodeEntry : E = Entry
        BY Nodes
      <3>4. FindNode(Registered(m), m.to, m.from) \subseteq {d \in E : d.node_id = m.from}
        BY <3>1, <3>2, <3>3, FindNodeIsHome
      <3> QED
        BY <1>5, <3>3, <3>4
    <2>2. /\ r.type = m.type /\ r.from = m.to /\ r.to = m.from /\ r.rpc = m.rpc
          /\ r.is_reply /\ r.nodes = nodes /\ r.data = data
      BY <1>5, <2>1 DEF Reply, Entry
    <2>3. r \in Datagram
      <3>1. {} \in Id
        BY DEF Id
      <3>2. nodes \in Seq(NodeEntry)
        BY Nodes
      <3>3. m.type \in {"PING", "FIND_NODE", "FIND_VALUE"}
        BY <1>1 DEF Datagram
      <3>4. e.address = m.from
        BY <2>1 DEF Entry
      <3> QED
        BY <1>1, <1>5, <3>1, <3>2, <3>3, <3>4 DEF Reply, Datagram
    <2>4. Formed(r)'
      BY <1>1, <2>2 DEF Formed
    <2>5. Used(r.rpc)'
      BY <1>4, <2>2, OldDatagrams
    <2>6. Replied(r)'
      <3>1. FindNode(k_buckets'[m.to], m.to, m.from) # {}
        BY <1>3, <1>5
      <3> QED
        BY <2>2, <3>1 DEF Replied, Knows
    <2>7. Idle(r)'
      <3>1. m.to = m.rpc.peer => m.from = m.rpc.owner
        BY <1>1 DEF Formed
      <3>2. m.to = m.rpc.owner \/ m.to = m.rpc.peer
        BY <1>1 DEF Formed
      <3>3. (m.to = m.rpc.owner
             \/ (m.rpc.job = "value" /\ m.to \in Holder /\ ~ data /\ m.rpc \notin unread'))
               => m.rpc \notin lookup_task_map[m.rpc.owner]
        BY <1>1, <3>1, <3>2 DEF Idle
      <3> QED
        BY <1>2, <2>2, <3>3 DEF Idle
    <2> QED
      BY <2>3, <2>4, <2>5, <2>6, <2>7
  <1>6. Datagrams'
    <2>1. net' = net \cup {Reply(m, e, nodes, data) : e \in FindNode(Registered(m), m.to, m.from)}
      BY DEF SendReply
    <2>2. ASSUME NEW r \in net'
          PROVE  r \in Datagram /\ (Formed(r) /\ Used(r.rpc) /\ Replied(r) /\ Idle(r))'
      <3>1. CASE r \in net
        BY <1>4, <3>1, OldDatagrams DEF Inv, Datagrams
      <3>2. CASE r \notin net
        <4>1. PICK e \in FindNode(Registered(m), m.to, m.from) : r = Reply(m, e, nodes, data)
          BY <2>1, <2>2, <3>2
        <4> QED
          BY <1>5, <4>1
      <3> QED
        BY <3>1, <3>2
    <2>3. expired' \subseteq Rpc
      BY <1>2 DEF Inv, Datagrams
    <2> QED
      BY <2>2, <2>3 DEF Datagrams
  <1>7. Lives'
    <2>1. is_bootstrapped' \subseteq started \ {Boot}
      BY <1>2 DEF Inv, Lives
    <2> QED
      BY <1>2, <2>1, LivesStay
  <1>8. Pings'
    <2>1. Pings
      BY DEF Inv
    <2> QED
      BY <1>2, <2>1 DEF Pings
  <1>9. Lookups' /\ Values'
    BY <1>2, TasksStay
  <1>10. BootstrapIsMutual'
    BY <1>2, <1>3, MutualHolds
  <1>11. Tables'
    BY <1>3 DEF Learning
  <1> QED
    BY <1>6, <1>7, <1>8, <1>9, <1>10, <1>11 DEF Inv

\* Nothing is sent.
LEMMA DatagramsStay ==
    ASSUME Inv, Forward, net' = net, expired' \subseteq Rpc, unread' \subseteq Rpc
    PROVE  Datagrams'
  BY OldDatagrams DEF Inv, Datagrams

\* A request reaches the peer, not the owner.
LEMMA RequestReachesPeer ==
    ASSUME Inv, NEW m \in net, m.to = m.rpc.owner
    PROVE  m.is_reply /\ m.from = m.rpc.peer
  BY DEF Inv, Datagrams, Formed

\* A PING is answered by its peer.
LEMMA onPingKeeps ==
    ASSUME Inv, NEW m \in net, onPing(m)
    PROVE  Inv'
  <1>1. Formed(m) /\ m.type = "PING" /\ ~ m.is_reply
    BY DEF Inv, Datagrams, onPing
  <1>2. m.rpc.job # "value"
    BY <1>1 DEF Formed, Type
  <1>3. m.to # m.rpc.owner
    BY <1>1, RequestReachesPeer
  <1>4. onReceive(m) /\ SendReply(m, << >>, FALSE) /\ unread' = unread /\ unread \subseteq Rpc
    BY DEF onPing, Inv, Datagrams
  <1>5. << >> \in Seq(Entry) /\ FALSE \in BOOLEAN
    OBVIOUS
  <1> QED
    BY <1>2, <1>3, <1>4, <1>5, ReplyEffect

\* The answer of findKNodes on the table that the message leaves.
LEMMA AnswerNodes ==
    ASSUME Inv, NEW m \in net
    PROVE  FindKNodes(Registered(m), m.to, m.payload) \in Seq(Entry)
  <1>1. Table(Registered(m), Entry) /\ m.to \in Node /\ m.payload \in Id
    BY RegisteredEffect DEF Datagram
  <1>2. PICK t, owner, id : t = Registered(m) /\ owner = m.to /\ id = m.payload
    OBVIOUS
  <1> QED
    BY <1>1, <1>2, AnswerIsShort

\* So is a FIND_NODE, and a reply of that type that nobody waits for.
LEMMA onFindNodeKeeps ==
    ASSUME Inv, NEW m \in net, onFindNode(m)
    PROVE  Inv'
  <1>1. Formed(m) /\ m.type = "FIND_NODE" /\ ~ AwaitedReply(m)
    BY DEF Inv, Datagrams, onFindNode
  <1>2. m.rpc.job # "value"
    BY <1>1 DEF Formed, Type
  <1>3. m.to = m.rpc.owner => m.rpc \notin lookup_task_map[m.rpc.owner]
    BY <1>1, RequestReachesPeer DEF AwaitedReply
  <1>4. PICK nodes \in Seq(Entry) : nodes = FindKNodes(Registered(m), m.to, m.payload)
    BY AnswerNodes
  <1>5. onReceive(m) /\ SendReply(m, nodes, FALSE) /\ unread' = unread /\ unread \subseteq Rpc
    BY <1>4 DEF onFindNode, SendNodes, Inv, Datagrams
  <1>6. FALSE \in BOOLEAN
    OBVIOUS
  <1> QED
    BY <1>2, <1>3, <1>5, <1>6, ReplyEffect

\* And a FIND_VALUE: a holder denies the value only to a reply, or when it cannot
\* read its database.
LEMMA onFindValueKeeps ==
    ASSUME Inv, NEW m \in net, onFindValue(m)
    PROVE  Inv'
  <1>1. ~ AwaitedReply(m) /\ onReceive(m) /\ unread \subseteq Rpc /\ m.rpc \in Rpc
        /\ m.is_reply \in BOOLEAN
    BY DEF onFindValue, Inv, Datagrams, Datagram
  <1>2. m.to = m.rpc.owner => m.rpc \notin lookup_task_map[m.rpc.owner]
    BY <1>1, RequestReachesPeer DEF AwaitedReply
  <1>3. CASE SendReply(m, << >>, TRUE) /\ unread' = unread
    <2>1. << >> \in Seq(Entry) /\ TRUE \in BOOLEAN
      OBVIOUS
    <2> QED
      BY <1>1, <1>2, <1>3, <2>1, ReplyEffect
  <1>4. CASE /\ SendNodes(m)
             /\ \/ ~ HoldsValue(m) /\ unread' = unread
                \/ unread' = unread \cup {m.rpc}
    <2>1. PICK nodes \in Seq(Entry) : nodes = FindKNodes(Registered(m), m.to, m.payload)
      BY AnswerNodes
    <2>2. SendReply(m, nodes, FALSE)
      BY <1>4, <2>1 DEF SendNodes
    <2>3. FALSE \in BOOLEAN
      OBVIOUS
    <2>4. /\ unread \subseteq unread' /\ unread' \subseteq Rpc
          /\ m.to \in Holder => m.is_reply \/ m.rpc \in unread'
      BY <1>1, <1>4 DEF HoldsValue
    <2> QED
      BY <1>1, <1>2, <2>2, <2>3, <2>4, ReplyEffect
  <1> QED
    BY <1>3, <1>4 DEF onFindValue

\* A step that changes no more than the tables, the PING map and what has expired.
LEMMA QuietKeeps ==
    ASSUME Inv, Learning, Pings', expired \subseteq expired', expired' \subseteq Rpc,
           unread' = unread,
           \A x \in Node \ started : requests_map'[x] = requests_map[x],
           UNCHANGED <<scenario, run, started, lookup_task_map, tasks, net>>,
           is_bootstrapped \subseteq is_bootstrapped', is_bootstrapped' \subseteq started \ {Boot},
           \A n \in is_bootstrapped' \ is_bootstrapped :
              /\ (Knows(Boot, n) \/ Crashed(Boot))'
              /\ (Knows(n, Boot) \/ IsFull(k_buckets[n][Home(n, Boot)]))'
    PROVE  Inv'
  <1>1. Forward
    <2>1. TasksGoOn
      BY DEF TasksGoOn
    <2> QED
      BY <2>1 DEF Forward
  <1>2. Datagrams'
    BY <1>1, DatagramsStay DEF Inv, Datagrams
  <1>3. Lives'
    BY LivesStay
  <1>4. Lookups' /\ Values'
    BY TasksStay
  <1>5. BootstrapIsMutual'
    BY MutualHolds
  <1>6. Tables'
    BY DEF Learning
  <1> QED
    BY <1>2, <1>3, <1>4, <1>5, <1>6 DEF Inv

\* A PING reply that nobody waits for only fills the table.
LEMMA onLatePingReplyKeeps ==
    ASSUME Inv, NEW m \in net, onLatePingReply(m)
    PROVE  Inv'
  <1>1. /\ onReceive(m)
        /\ UNCHANGED <<is_bootstrapped, requests_map, lookup_task_map, tasks, net, unread>>
    BY DEF onLatePingReply
  <1>2. UNCHANGED <<scenario, run, started, expired>>
    BY <1>1 DEF onReceive
  <1>3. Learning
    BY <1>1, ReceiveLearns
  <1>4. Pings'
    BY <1>1, <1>2 DEF Inv, Pings
  <1>5. is_bootstrapped \subseteq started \ {Boot} /\ expired \subseteq Rpc
    BY DEF Inv, Lives, Datagrams
  <1> QED
    BY <1>1, <1>2, <1>3, <1>4, <1>5, QuietKeeps

\* The timer of a PING.
LEMMA pingTimedOutKeeps ==
    ASSUME Inv, NEW n \in Node, NEW rpc \in requests_map[n], pingTimedOut(n, rpc)
    PROVE  Inv'
  <1>1. /\ requests_map' = [requests_map EXCEPT ![n] = @ \ {rpc}]
        /\ expired' = expired \cup {rpc}
        /\ UNCHANGED <<scenario, run, started, is_bootstrapped, k_buckets, lookup_task_map,
                       tasks, net, unread>>
    BY DEF pingTimedOut
  <1>2. Learning
    BY <1>1, UnchangedLearns
  <1>3. Pings'
    BY <1>1, PingsStay
  <1>4. /\ is_bootstrapped \subseteq started \ {Boot} /\ expired \subseteq Rpc
        /\ requests_map \in [Node -> SUBSET Rpc]
    BY DEF Inv, Lives, Datagrams, Pings
  <1>5. n \in started
    BY DEF Inv, Lives
  <1>6. \A x \in Node \ started : requests_map'[x] = requests_map[x]
    BY <1>1, <1>4, <1>5
  <1>7. rpc \in Rpc
    BY <1>4
  <1> QED
    BY <1>1, <1>2, <1>3, <1>4, <1>6, <1>7, QuietKeeps

-----------------------------------------------------------------------------
(***************************************************************************)
(* A task runs.                                                            *)
(***************************************************************************)

\* What TasksOnlyProgress says of a step.
Progress ==
    \A x \in started' : \A j \in DOMAIN tasks[x] :
        /\ j \in DOMAIN tasks'[x] /\ tasks[x][j].queried \subseteq tasks'[x][j].queried
        /\ tasks[x][j].finished = 1 => tasks'[x][j] = tasks[x][j]

\* A task that is over waits for nobody, so no entry of its can be spent.
LEMMA RunTaskProgress ==
    ASSUME Inv, NEW n, NEW job, NEW before, NEW after, NEW spent,
           Moves(n, job, before, after, spent), RunTask(n, job, before, after, spent),
           started' = started, job \in DOMAIN tasks[n] => spent # {}
    PROVE  Progress
  <1>1. /\ n \in Node
        /\ \A x \in Node \ {n} : tasks'[x] = tasks[x]
        /\ DOMAIN tasks'[n] = DOMAIN tasks[n] \cup {job} /\ tasks'[n][job] = after
        /\ \A j \in DOMAIN tasks[n] \ {job} : tasks'[n][j] = tasks[n][j]
    BY RunTaskEffect
  <1>2. ASSUME job \in DOMAIN tasks[n]
        PROVE  /\ tasks[n][job].queried \subseteq after.queried
               /\ tasks[n][job].finished # 1
    <2>1. before = tasks[n][job] /\ before.queried \subseteq after.queried
          /\ spent \subseteq PendingOf(n, job)
      BY <1>2 DEF Moves
    <2>2. Asked(n, job) # {}
      BY <1>2, <2>1 DEF Asked
    <2>3. PICK told : Sound(tasks[n][job], Asked(n, job), told, n, Target(n, job), Entry)
      BY <1>1, <1>2 DEF Inv, Lookups, SoundTask
    <2>4. tasks[n][job].finished = 0
      BY <2>2, <2>3 DEF Sound, Counting
    <2> QED
      BY <2>1, <2>4
  <1>3. started \subseteq Node
    BY DEF Inv, Lives
  <1>4. ASSUME NEW x \in started, NEW j \in DOMAIN tasks[x]
        PROVE  /\ j \in DOMAIN tasks'[x] /\ tasks[x][j].queried \subseteq tasks'[x][j].queried
               /\ tasks[x][j].finished = 1 => tasks'[x][j] = tasks[x][j]
    <2>1. CASE x = n /\ j = job
      BY <1>1, <1>2, <1>4, <2>1
    <2>2. CASE ~ (x = n /\ j = job)
      BY <1>1, <1>3, <1>4, <2>2
    <2> QED
      BY <2>1, <2>2
  <1> QED
    BY <1>4 DEF Progress

\* What a step that runs a task must see to, besides its moving as it may.
LEMMA RunTaskKeeps ==
    ASSUME Inv, NEW n, NEW job, NEW before, NEW after, NEW spent,
           Moves(n, job, before, after, spent), RunTask(n, job, before, after, spent),
           scenario' = scenario, run' = run, started' = started, Learning, Pings',
           expired \subseteq expired', expired' \subseteq Rpc, unread' = unread,
           \A x \in Node \ started : requests_map'[x] = requests_map[x],
           is_bootstrapped \subseteq is_bootstrapped', is_bootstrapped' \subseteq started \ {Boot},
           \A x \in is_bootstrapped' \ is_bootstrapped :
              /\ (Knows(Boot, x) \/ Crashed(Boot))'
              /\ (Knows(x, Boot) \/ IsFull(k_buckets[x][Home(x, Boot)]))',
           job = "self" => n \in is_bootstrapped',
           job = "value" /\ after.found = {} /\ InTime(n, "value")'
               => before.found = {} /\ Peers(spent) \cap Holder \subseteq UnreadBy(n),
           job \in DOMAIN tasks[n] => spent # {}
    PROVE  Inv' /\ Progress
  <1>1. Lookups'
    BY RunTaskLookups
  <1>2. Datagrams'
    <2>1. unread \subseteq Rpc
      BY DEF Inv, Datagrams
    <2> QED
      BY <2>1, RunTaskDatagrams
  <1>3. Values'
    <2>1. UnreadBy(n)' = UnreadBy(n)
      BY DEF UnreadBy
    <2> QED
      BY <2>1, RunTaskValues
  <1>4. Lives'
    <2>1. \A x \in Node \ {n} : tasks'[x] = tasks[x] /\ lookup_task_map'[x] = lookup_task_map[x]
      BY RunTaskEffect
    <2>2. n \in started
      BY DEF Moves
    <2>3. \A x \in Node \ started : x \in Node \ {n}
      BY <2>2
    <2> QED
      BY <2>1, <2>3, LivesStay
  <1>5. BootstrapIsMutual'
    BY MutualHolds
  <1>6. Tables'
    BY DEF Learning
  <1>7. Progress
    BY RunTaskProgress
  <1> QED
    BY <1>1, <1>2, <1>3, <1>4, <1>5, <1>6, <1>7 DEF Inv

\* The user's search starts.
LEMMA findValueKeeps ==
    ASSUME Inv, NEW n \in Node, findValue(n)
    PROVE  Inv' /\ Progress
  <1>1. /\ n \in started /\ "value" \notin DOMAIN tasks[n] /\ startLookup(n, "value", k_buckets[n])
        /\ UNCHANGED <<scenario, run, started, is_bootstrapped, k_buckets, requests_map, expired,
                       unread>>
    BY DEF findValue
  <1>2. PICK after : after = start(FindKNodes(k_buckets[n], n, Target(n, "value")), n)
    OBVIOUS
  <1>3. RunTask(n, "value", NewTask, after, {})
    BY <1>1, <1>2 DEF startLookup
  <1>4. Table(k_buckets[n], Entry) /\ "value" \in Job
    BY DEF Inv, Tables, Job
  <1>5. Moves(n, "value", NewTask, after, {})
    BY <1>1, <1>2, <1>4, StartMoves
  <1>6. Learning
    BY <1>1, UnchangedLearns
  <1>7. Pings'
    BY <1>1 DEF Inv, Pings
  <1>8. is_bootstrapped \subseteq started \ {Boot} /\ expired \subseteq Rpc
    BY DEF Inv, Lives, Datagrams
  <1>9. NewTask.found = {} /\ Peers({}) \cap Holder \subseteq UnreadBy(n)
    BY DEF NewTask, Peers
  <1>10. PICK job : job = "value"
    OBVIOUS
  <1>11. job # "self"
    BY <1>10
  <1> QED
    BY <1>1, <1>3, <1>5, <1>6, <1>7, <1>8, <1>9, <1>10, <1>11, RunTaskKeeps

\* A request of a lookup is given up.
LEMMA lookupTimedOutKeeps ==
    ASSUME Inv, NEW n \in Node, NEW rpc \in lookup_task_map[n], lookupTimedOut(n, rpc)
    PROVE  Inv' /\ Progress
  <1>1. PICK job, t, u : job = rpc.job /\ t = tasks[n][job] /\ u = requestTimedOut(t, n)
    OBVIOUS
  <1>2. /\ RunTask(n, job, t, u, {rpc}) /\ expired' = expired \cup {rpc}
        /\ UNCHANGED <<scenario, run, started, is_bootstrapped, k_buckets, requests_map, unread>>
    BY <1>1 DEF lookupTimedOut
  <1>3. PICK told \in SUBSET Node :
           Awaits(t, Asked(n, job), rpc.peer, told, n, Target(n, job), Entry)
    BY <1>1, EntryAwaits
  <1>4. Settled(t, Asked(n, job), rpc.peer, told, u, n, Target(n, job), Entry)
    BY <1>1, <1>3, TimedOutEffect
  <1>5. Moves(n, job, t, u, {rpc})
    BY <1>1, <1>4, SettledMoves
  <1>6. Learning
    BY <1>2, UnchangedLearns
  <1>7. Pings'
    BY <1>2 DEF Inv, Pings
  <1>8. is_bootstrapped \subseteq started \ {Boot} /\ expired \subseteq Rpc
    BY DEF Inv, Lives, Datagrams
  <1>9. rpc \in Rpc /\ rpc.owner = n /\ rpc.run = run[n] /\ job \in DOMAIN tasks[n]
    BY <1>1 DEF Inv, Lookups
  <1>10. job = "self" => n \in is_bootstrapped
    BY <1>9 DEF Inv, Lookups
  <1>11. job = "value" => ~ InTime(n, "value")'
    BY <1>1, <1>2, <1>9 DEF InTime
  <1> QED
    BY <1>2, <1>5, <1>6, <1>7, <1>8, <1>9, <1>10, <1>11, RunTaskKeeps

\* What an answer makes of the task that waits for it.
AfterReply(m, t) ==
    IF m.rpc.job = "self" THEN onNodesReceived(t, m.nodes, m.to, m.to)
    ELSE IF m.data THEN onDataReceived(t, m.from)
    ELSE onNoDataReceived(t, m.nodes, Key, m.to)

\* It comes from the peer that task t of n waits for, and moves the task to u.
TakesReply(m, n, rpc, job, t, u, told) ==
    /\ n = m.to /\ rpc = m.rpc /\ job = rpc.job /\ t = tasks[n][job] /\ u = AfterReply(m, t)
    /\ RunTask(n, job, t, u, {rpc}) /\ Moves(n, job, t, u, {rpc})
    /\ onReceive(m) /\ m.is_reply /\ rpc \in lookup_task_map[n]
    /\ is_bootstrapped' = is_bootstrapped /\ requests_map' = requests_map /\ unread' = unread
    /\ n \in Node /\ m.from \in Id /\ m.nodes \in Seq(Entry) /\ Idle(m) /\ m.data \in BOOLEAN
    /\ rpc.owner = n /\ rpc.run = run[n] /\ job \in DOMAIN tasks[n]
    /\ m.from = rpc.peer /\ m.from # n
    /\ told \in SUBSET Node /\ Awaits(t, Asked(n, job), rpc.peer, told, n, Target(n, job), Entry)

\* So is every answer taken.
LEMMA LookupReplyMoves ==
    ASSUME Inv, NEW m \in net, onLookupReply(m)
    PROVE  \E n, rpc, job, t, u, told : TakesReply(m, n, rpc, job, t, u, told)
  <1>0. PICK n, rpc, job, t, u :
           n = m.to /\ rpc = m.rpc /\ job = rpc.job /\ t = tasks[n][job] /\ u = AfterReply(m, t)
    OBVIOUS
  <1>1. /\ RunTask(n, job, t, u, {rpc}) /\ onReceive(m) /\ m.is_reply /\ rpc \in lookup_task_map[n]
        /\ is_bootstrapped' = is_bootstrapped /\ requests_map' = requests_map /\ unread' = unread
    BY <1>0 DEF onLookupReply, AwaitedReply, AfterReply
  <1>2. /\ n \in Node /\ m.from \in Id /\ m.nodes \in Seq(Entry)
        /\ Formed(m) /\ Idle(m) /\ m.data \in BOOLEAN
    BY <1>0, Nodes DEF Inv, Datagrams, Datagram, Formed
  <1>3. rpc.owner = n /\ rpc.run = run[n] /\ job \in DOMAIN tasks[n] /\ job \in Job
    BY <1>0, <1>1, <1>2 DEF Inv, Lookups
  <1>4. m.from = rpc.peer /\ m.from # n
    <2>1. m.from = rpc.peer
      BY <1>0, <1>3, RequestReachesPeer
    <2> QED
      BY <1>0, <1>2, <1>3, <2>1 DEF Formed
  <1>5. PICK told \in SUBSET Node :
           Awaits(t, Asked(n, job), rpc.peer, told, n, Target(n, job), Entry)
    BY <1>0, <1>1, <1>2, EntryAwaits
  <1>6. \E now \in SUBSET Node : Settled(t, Asked(n, job), rpc.peer, now, u, n, Target(n, job), Entry)
    <2>1. CASE job # "self" /\ m.data
      <3>1. u = onDataReceived(t, m.from)
        BY <1>0, <2>1 DEF AfterReply
      <3>2. Settled(t, Asked(n, job), rpc.peer, told, u, n, Target(n, job), Entry)
        BY <1>2, <1>5, <3>1, DataEffect
      <3> QED
        BY <3>2
    <2>2. CASE ~ (job # "self" /\ m.data)
      <3>1. PICK target : target = Target(n, job)
        OBVIOUS
      <3>2. \/ u = onNodesReceived(t, m.nodes, target, n)
            \/ u = onNoDataReceived(t, m.nodes, target, n)
        BY <1>0, <2>2, <3>1 DEF Target, AfterReply
      <3>3. Settled(t, Asked(n, job), rpc.peer, told \cup Ids(m.nodes), u, n, target, Entry)
        BY <1>2, <1>5, <3>1, <3>2, NodesEffect
      <3>4. told \cup Ids(m.nodes) \in SUBSET Node
        BY <1>2, Nodes
      <3> QED
        BY <3>1, <3>3, <3>4
    <2> QED
      BY <2>1, <2>2
  <1>7. Moves(n, job, t, u, {rpc})
    BY <1>0, <1>1, <1>2, <1>6, SettledMoves
  <1>8. TakesReply(m, n, rpc, job, t, u, told)
    BY <1>0, <1>1, <1>2, <1>3, <1>4, <1>5, <1>7 DEF TakesReply
  <1> QED
    BY <1>8

(***************************************************************************)
(* A peer answers.  An answer without the value is not from a holder that  *)
(* could read it: those only send it to somebody who gave their request up. *)
(***************************************************************************)
LEMMA onLookupReplyKeeps ==
    ASSUME Inv, NEW m \in net, onLookupReply(m)
    PROVE  Inv' /\ Progress
  <1>1. PICK n, rpc, job, t, u, told : TakesReply(m, n, rpc, job, t, u, told)
    BY LookupReplyMoves
  <1>2. /\ n = m.to /\ rpc = m.rpc /\ job = rpc.job /\ t = tasks[n][job] /\ u = AfterReply(m, t)
        /\ RunTask(n, job, t, u, {rpc}) /\ Moves(n, job, t, u, {rpc})
        /\ onReceive(m) /\ m.is_reply /\ rpc \in lookup_task_map[n]
        /\ is_bootstrapped' = is_bootstrapped /\ requests_map' = requests_map /\ unread' = unread
        /\ n \in Node /\ m.from \in Id /\ m.nodes \in Seq(Entry) /\ Idle(m) /\ m.data \in BOOLEAN
        /\ rpc.owner = n /\ rpc.run = run[n] /\ job \in DOMAIN tasks[n] /\ m.from = rpc.peer
    BY <1>1 DEF TakesReply
  <1>3. Awaits(t, Asked(n, job), rpc.peer, told, n, Target(n, job), Entry)
    BY <1>1 DEF TakesReply
  <1>4. UNCHANGED <<scenario, run, started, expired>>
    BY <1>2 DEF onReceive
  <1>5. Learning
    BY <1>2, ReceiveLearns
  <1>6. Pings'
    BY <1>2, <1>4 DEF Inv, Pings
  <1>7. is_bootstrapped \subseteq started \ {Boot} /\ expired \subseteq Rpc
    BY DEF Inv, Lives, Datagrams
  <1>8. job = "self" => n \in is_bootstrapped
    BY <1>2 DEF Inv, Lookups
  <1>9. ASSUME ~ m.data
        PROVE  u.found = t.found
    <2>1. PICK target, nodes, x, W : target = Target(n, job) /\ nodes = m.nodes /\ x = rpc.peer
                                     /\ W = Asked(n, job)
      OBVIOUS
    <2>2. \/ u = onNodesReceived(t, nodes, target, n)
          \/ u = onNoDataReceived(t, nodes, target, n)
      BY <1>2, <1>9, <2>1 DEF Target, AfterReply
    <2>3. Awaits(t, W, x, told, n, target, Entry) /\ nodes \in Seq(Entry)
      BY <1>2, <1>3, <2>1
    <2>4. FindsNothing(t, u)
      BY <2>2, <2>3, NodesEffect
    <2> QED
      BY <2>4 DEF FindsNothing
  <1>10. job = "value" /\ u.found = {} => t.found = {} /\ Peers({rpc}) \cap Holder \subseteq UnreadBy(n)
    <2> SUFFICES ASSUME job = "value", u.found = {}
                 PROVE  t.found = {} /\ (rpc.peer \in Holder => rpc.peer \in UnreadBy(n))
      BY DEF Peers
    <2>1. ~ m.data
      <3> SUFFICES ASSUME m.data
                   PROVE  FALSE
        OBVIOUS
      <3>1. u = onDataReceived(t, m.from)
        BY <1>2 DEF AfterReply
      <3>2. PICK from, W, x, target :
               /\ from \in Id
               /\ u = onDataReceived(t, from) /\ W = Asked(n, job) /\ x = rpc.peer
               /\ target = Target(n, job)
        BY <1>2, <3>1
      <3>3. Awaits(t, W, x, told, n, target, Entry)
        BY <1>3, <3>2
      <3>4. u.found = t.found \cup {from}
        BY <3>2, <3>3, DataEffect
      <3> QED
        BY <3>4
    <2>2. u.found = t.found
      BY <1>9, <2>1
    <2>3. rpc.peer \in Holder => rpc.peer \in UnreadBy(n)
      <3>1. rpc.peer \in Holder => rpc \in unread
        BY <1>2, <2>1 DEF Idle
      <3> QED
        BY <1>2, <3>1 DEF UnreadBy
    <2> QED
      BY <2>2, <2>3
  <1>11. /\ RunTask(n, job, t, u, {rpc}) /\ Moves(n, job, t, u, {rpc})
         /\ is_bootstrapped' = is_bootstrapped /\ requests_map' = requests_map /\ unread' = unread
         /\ {rpc} # {}
    BY <1>2
  <1> QED
    BY <1>4, <1>5, <1>6, <1>7, <1>8, <1>10, <1>11, RunTaskKeeps

(***************************************************************************)
(* A PING is answered to the node that waits for it.  It comes from the    *)
(* bootstrap node, which knows this node or has crashed since; and this    *)
(* node has just stored it, if there was room.                             *)
(***************************************************************************)
LEMMA onPingReplyKeeps ==
    ASSUME Inv, NEW m \in net, onPingReply(m)
    PROVE  Inv' /\ Progress
  <1>1. PICK n, rpc : n = m.to /\ rpc = m.rpc
    OBVIOUS
  <1>2. /\ onReceive(m) /\ m.is_reply /\ rpc \in requests_map[n]
        /\ requests_map' = [requests_map EXCEPT ![n] = @ \ {rpc}]
        /\ is_bootstrapped' = is_bootstrapped \cup {n} /\ unread' = unread
    BY <1>1 DEF onPingReply
  <1>3. UNCHANGED <<scenario, run, started, expired>>
    BY <1>2 DEF onReceive
  <1>4. n \in Node /\ n \in started /\ Formed(m) /\ Replied(m)
    BY <1>1 DEF Inv, Datagrams, Datagram, onPingReply, onReceive
  <1>5. rpc.owner = n /\ rpc.peer = Boot
    BY <1>2, <1>4 DEF Inv, Pings
  <1>6. m.from = Boot /\ n # Boot /\ Boot \in Node
    <2>1. m.from = Boot
      BY <1>1, <1>5, RequestReachesPeer
    <2> QED
      BY <1>1, <1>4, <1>5, <2>1, Nodes DEF Formed
  <1>7. Learning /\ k_buckets'[n] = Registered(m)
    BY <1>1, <1>2, ReceiveLearns
  <1>8. Pings'
    BY <1>2, <1>3, <1>4, PingsStay
  <1>9. is_bootstrapped \subseteq started \ {Boot} /\ expired \subseteq Rpc
    BY DEF Inv, Lives, Datagrams
  <1>10. \A x \in Node \ started : requests_map'[x] = requests_map[x]
    <2>1. requests_map \in [Node -> SUBSET Rpc]
      BY DEF Inv, Pings
    <2> QED
      BY <1>2, <1>4, <2>1
  <1>11. (Knows(Boot, n) \/ Crashed(Boot))'
    <2>1. Knows(Boot, n) \/ Crashed(Boot)
      BY <1>1, <1>2, <1>4, <1>6 DEF Replied
    <2>2. Knows(Boot, n) => Knows(Boot, n)'
      BY <1>4, <1>6, <1>7, KnowsMore
    <2>3. Crashed(Boot)' <=> Crashed(Boot)
      BY <1>3 DEF Crashed
    <2> QED
      BY <2>1, <2>2, <2>3
  <1>12. (Knows(n, Boot) \/ IsFull(k_buckets[n][Home(n, Boot)]))'
    <2>1. PICK u : u = Registered(m)
      OBVIOUS
    <2>2. Table(u, Entry) /\ Registers(u, n, [node_id |-> Boot, address |-> Boot])
      BY <1>1, <1>6, <2>1, RegisteredEffect
    <2>3. Boot \in Ids(u[Home(n, Boot)]) \/ IsFull(u[Home(n, Boot)])
      BY <1>6, <2>2 DEF Registers
    <2>4. FindNode(u, n, Boot) # {} <=> Boot \in Ids(u[Home(n, Boot)])
      BY <1>4, <1>6, <2>2, KnowsIsHome
    <2>5. Knows(n, Boot)' <=> FindNode(u, n, Boot) # {}
      BY <1>7, <2>1 DEF Knows
    <2> QED
      BY <1>7, <2>1, <2>3, <2>4, <2>5
  <1>13. /\ is_bootstrapped \subseteq is_bootstrapped' /\ is_bootstrapped' \subseteq started \ {Boot}
         /\ n \in is_bootstrapped'
         /\ \A x \in is_bootstrapped' \ is_bootstrapped :
               /\ (Knows(Boot, x) \/ Crashed(Boot))'
               /\ (Knows(x, Boot) \/ IsFull(k_buckets[x][Home(x, Boot)]))'
    <2>1. \A x \in is_bootstrapped' \ is_bootstrapped : x = n
      BY <1>2
    <2> QED
      BY <1>2, <1>4, <1>6, <1>9, <1>11, <1>12, <2>1
  <1>14. CASE n \in is_bootstrapped
    <2>1. UNCHANGED <<lookup_task_map, tasks, net>>
      BY <1>1, <1>14 DEF onPingReply
    <2>2. Progress
      BY <2>1 DEF Progress
    <2> QED
      BY <1>2, <1>3, <1>7, <1>8, <1>9, <1>10, <1>13, <2>1, <2>2, QuietKeeps
  <1>15. CASE n \notin is_bootstrapped
    <2>1. PICK after : after = start(FindKNodes(Registered(m), n, Target(n, "self")), n)
      OBVIOUS
    <2>2. RunTask(n, "self", NewTask, after, {})
      BY <1>1, <1>15, <2>1 DEF onPingReply, startLookup
    <2>3. "self" \notin DOMAIN tasks[n] /\ "self" \in Job
      BY <1>4, <1>15 DEF Inv, Lookups, Job
    <2>4. Table(Registered(m), Entry)
      BY RegisteredEffect
    <2>5. Moves(n, "self", NewTask, after, {})
      <3>1. PICK t : t = Registered(m)
        OBVIOUS
      <3> QED
        BY <1>4, <2>1, <2>3, <2>4, <3>1, StartMoves
    <2>6. PICK job : job = "self"
      OBVIOUS
    <2>7. job # "value"
      BY <2>6
    <2> QED
      BY <1>2, <1>3, <1>7, <1>8, <1>9, <1>10, <1>13, <2>2, <2>3, <2>5, <2>6, <2>7, RunTaskKeeps
  <1> QED
    BY <1>14, <1>15

-----------------------------------------------------------------------------
(***************************************************************************)
(* Lives begin and end.                                                    *)
(***************************************************************************)

\* No map entry of a node that is not started, and a request of a life not begun
\* was never sent.
LEMMA startNodeKeeps ==
    ASSUME Inv, NEW n \in Node, startNode(n)
    PROVE  Inv'
  <1>1. /\ n \notin started /\ started' = started \cup {n} /\ run' = [run EXCEPT ![n] = @ + 1]
        /\ UNCHANGED <<scenario, is_bootstrapped, k_buckets, lookup_task_map, tasks, expired, unread>>
    BY DEF startNode
  <1>2. /\ run[n] \in 0 .. 1 /\ requests_map[n] = {} /\ lookup_task_map[n] = {}
        /\ DOMAIN tasks[n] = {}
    BY <1>1 DEF Inv, Lives
  <1>3. /\ run' \in [Node -> 0 .. 2] /\ run'[n] = run[n] + 1 /\ run'[n] \in 1 .. 2
        /\ \A x \in Node \ {n} : run'[x] = run[x]
    BY <1>1, <1>2 DEF Inv, Lives
  <1>4. PICK ping : ping = Request(n, run'[n], "ping", [node_id |-> Boot, address |-> Boot])
    OBVIOUS
  <1>5. /\ ping.rpc = [owner |-> n, run |-> run'[n], job |-> "ping", peer |-> Boot]
        /\ ping.type = "PING" /\ ping.from = n /\ ping.to = Boot /\ ~ ping.is_reply
        /\ ping.nodes = << >>
    BY <1>4 DEF Request, Type
  <1>6. ping.rpc \in Rpc /\ ping \in Datagram
    <2>1. ping.rpc \in Rpc
      BY <1>3, <1>5, Nodes DEF Rpc
    <2>2. Target(n, "ping") \in Id /\ Boot \in Node /\ << >> \in Seq(NodeEntry)
      BY Nodes
    <2> QED
      BY <1>4, <1>5, <2>1, <2>2 DEF Request, Datagram, Type
  <1>7. \/ n = Boot /\ requests_map' = requests_map /\ net' = net
        \/ /\ n # Boot /\ requests_map' = [requests_map EXCEPT ![n] = @ \cup {ping.rpc}]
           /\ net' = net \cup {ping}
    BY <1>4 DEF startNode, bootstrap
  <1>8. Lives'
    <2>1. \A x \in Node \ {n} : requests_map'[x] = requests_map[x]
      BY <1>7 DEF Inv, Pings
    <2>2. Lives
      BY DEF Inv
    <2> QED
      BY <1>1, <1>3, <2>1, <2>2 DEF Lives
  <1>9. Pings'
    <2>1. Pings
      BY DEF Inv
    <2>2. CASE n = Boot
      <3>1. requests_map' = requests_map
        BY <1>7, <2>2
      <3> QED
        BY <1>2, <1>3, <2>1, <3>1 DEF Pings
    <2>3. CASE n # Boot
      <3>1. requests_map' = [requests_map EXCEPT ![n] = {ping.rpc}]
        BY <1>2, <1>7, <2>3
      <3>2. /\ requests_map' \in [Node -> SUBSET Rpc] /\ requests_map'[n] = {ping.rpc}
            /\ \A x \in Node \ {n} : requests_map'[x] = requests_map[x]
        BY <1>6, <2>1, <3>1 DEF Pings
      <3> QED
        BY <1>3, <1>5, <2>1, <3>2 DEF Pings
    <2> QED
      BY <2>2, <2>3
  <1>10. Lookups'
    <2>1. Lookups
      BY DEF Inv
    <2>2. \A x, j, told : SoundTask(x, j, told)' <=> SoundTask(x, j, told)
      BY <1>1 DEF SoundTask, Asked, PendingOf
    <2>3. \A x \in Node : \A rpc \in lookup_task_map[x] : run'[x] = run[x]
      BY <1>2, <1>3
    <2> QED
      BY <1>1, <2>1, <2>2, <2>3 DEF Lookups
  <1>11. Values'
    <2>1. Values
      BY DEF Inv
    <2>2. \A x \in Node : DOMAIN tasks[x] # {} => (InTime(x, "value")' <=> InTime(x, "value"))
                                                 /\ UnreadBy(x)' = UnreadBy(x)
      BY <1>1, <1>2, <1>3 DEF InTime, UnreadBy
    <2>3. \A x : Asked(x, "value")' = Asked(x, "value")
      BY <1>1 DEF Asked, PendingOf
    <2> QED
      BY <1>1, <2>1, <2>2, <2>3 DEF Values
  <1>12. \A x \in Node : Crashed(x) => Crashed(x)'
    BY <1>1, <1>2, <1>3 DEF Crashed
  <1>13. \A x, y : Knows(x, y)' <=> Knows(x, y)
    BY <1>1 DEF Knows
  <1>14. BootstrapIsMutual'
    BY <1>1, <1>12, <1>13, Nodes DEF Inv, BootstrapIsMutual
  <1>15. Datagrams'
    <2>1. ASSUME NEW m \in net
          PROVE  m \in Datagram /\ (Formed(m) /\ Used(m.rpc) /\ Replied(m) /\ Idle(m))'
      <3>1. /\ m \in Datagram /\ Formed(m) /\ Used(m.rpc) /\ Replied(m) /\ Idle(m)
            /\ m.from \in Node /\ m.rpc \in Rpc
        BY DEF Inv, Datagrams, Datagram
      <3>2. PICK rpc : rpc = m.rpc
        OBVIOUS
      <3>3. rpc.owner \in Node /\ rpc.run \in 1 .. 2 /\ Used(rpc)
        BY <3>1, <3>2 DEF Rpc
      <3>4. Used(rpc)'
        <4>1. CASE rpc.owner = n
          BY <1>2, <1>3, <3>3, <4>1 DEF Used
        <4>2. CASE rpc.owner # n
          BY <1>1, <1>3, <3>3, <4>2 DEF Used
        <4> QED
          BY <4>1, <4>2
      <3>5. Formed(m)'
        BY <3>1 DEF Formed
      <3>6. Replied(m)'
        BY <1>12, <1>13, <3>1 DEF Replied
      <3>7. Idle(m)'
        BY <1>1, <3>1 DEF Idle
      <3> QED
        BY <3>1, <3>2, <3>4, <3>5, <3>6, <3>7
    <2>2. CASE n # Boot
      <3>1. Formed(ping)'
        BY <1>5, <2>2 DEF Formed, Type
      <3>2. Used(ping.rpc)'
        <4>1. "ping" \notin Job
          BY DEF Job
        <4> QED
          BY <1>3, <1>5, <4>1 DEF Used
      <3>3. Replied(ping)' /\ Idle(ping)'
        BY <1>5 DEF Replied, Idle
      <3> QED
        BY <1>1, <1>6, <1>7, <2>1, <2>2, <3>1, <3>2, <3>3 DEF Inv, Datagrams
    <2>3. CASE n = Boot
      BY <1>1, <1>7, <2>1, <2>3 DEF Inv, Datagrams
    <2> QED
      BY <2>2, <2>3
  <1>16. Tables'
    BY <1>1 DEF Inv, Tables
  <1> QED
    BY <1>8, <1>9, <1>10, <1>11, <1>14, <1>15, <1>16 DEF Inv

\* The table of a Node object begins empty.
LEMMA EmptyTable == EmptyBuckets \in KBuckets /\ Table(EmptyBuckets, Entry)
  <1>1. \A E : << >> \in Seq(E)
    OBVIOUS
  <1>2. DOMAIN << >> = {} /\ Len(<< >>) = 0
    OBVIOUS
  <1>3. EmptyBuckets \in KBuckets /\ \A i \in Bits : EmptyBuckets[i] = << >>
    BY <1>1 DEF EmptyBuckets, KBuckets
  <1>4. WellFormed(EmptyBuckets)
    BY <1>2, <1>3 DEF WellFormed, Distinct
  <1> QED
    BY <1>1, <1>3, <1>4 DEF Table

\* What a crash takes is what the invariant is about.
LEMMA crashKeeps ==
    ASSUME Inv, NEW n \in Node, crash(n)
    PROVE  Inv'
  <1>1. /\ n \in started /\ run[n] = 1
        /\ started' = started \ {n} /\ is_bootstrapped' = is_bootstrapped \ {n}
        /\ k_buckets' = [k_buckets EXCEPT ![n] = EmptyBuckets]
        /\ requests_map' = [requests_map EXCEPT ![n] = {}]
        /\ lookup_task_map' = [lookup_task_map EXCEPT ![n] = {}]
        /\ tasks' = [tasks EXCEPT ![n] = NoTask]
        /\ UNCHANGED <<scenario, run, net, expired, unread>>
    BY DEF crash
  <1>2. /\ requests_map' \in [Node -> SUBSET Rpc] /\ requests_map'[n] = {}
        /\ \A x \in Node \ {n} : requests_map'[x] = requests_map[x]
    BY <1>1 DEF Inv, Pings
  <1>3. /\ lookup_task_map' \in [Node -> SUBSET Rpc] /\ lookup_task_map'[n] = {}
        /\ \A x \in Node \ {n} : lookup_task_map'[x] = lookup_task_map[x]
        /\ DOMAIN tasks' = Node /\ tasks'[n] = NoTask
        /\ \A x \in Node \ {n} : tasks'[x] = tasks[x]
    BY <1>1 DEF Inv, Lookups
  <1>4. DOMAIN tasks'[n] = {}
    BY <1>3 DEF NoTask
  <1>5. Tables' /\ \A x \in Node \ {n} : k_buckets'[x] = k_buckets[x]
    BY <1>1, EmptyTable DEF Inv, Tables
  <1>6. Lives'
    <2>1. Lives
      BY DEF Inv
    <2> QED
      BY <1>1, <1>2, <1>3, <1>4, <2>1 DEF Lives
  <1>7. Pings'
    <2>1. Pings
      BY DEF Inv
    <2> QED
      BY <1>1, <1>2, <2>1 DEF Pings
  <1>8. \A x \in Node \ {n} : \A j : Asked(x, j)' = Asked(x, j)
    BY <1>3 DEF Asked, PendingOf
  <1>9. Lookups'
    <2>1. Lookups
      BY DEF Inv
    <2>2. \A x \in Node \ {n} : \A j, told : SoundTask(x, j, told) => SoundTask(x, j, told)'
      BY <1>3, <1>8 DEF SoundTask
    <2> QED
      BY <1>1, <1>3, <1>4, <2>1, <2>2 DEF Lookups
  <1>10. Values'
    <2>1. Values
      BY DEF Inv
    <2>2. \A x : (InTime(x, "value")' <=> InTime(x, "value")) /\ UnreadBy(x)' = UnreadBy(x)
      BY <1>1 DEF InTime, UnreadBy
    <2> QED
      BY <1>3, <1>4, <1>8, <2>1, <2>2 DEF Values
  <1>11. Crashed(n)' /\ \A x \in Node \ {n} : Crashed(x)' <=> Crashed(x)
    BY <1>1 DEF Crashed
  <1>12. \A x \in Node \ {n} : \A y : Knows(x, y)' <=> Knows(x, y)
    BY <1>5 DEF Knows
  <1>13. BootstrapIsMutual'
    <2>1. ASSUME NEW x \in is_bootstrapped \ {n}
          PROVE  /\ (Knows(Boot, x) \/ Crashed(Boot))'
                 /\ (Knows(x, Boot) \/ IsFull(k_buckets[x][Home(x, Boot)]))'
      <3>1. /\ Knows(Boot, x) \/ Crashed(Boot)
            /\ Knows(x, Boot) \/ IsFull(k_buckets[x][Home(x, Boot)])
        BY DEF Inv, BootstrapIsMutual
      <3>2. x \in Node \ {n} /\ Boot \in Node
        BY Nodes DEF Inv, Lives
      <3> QED
        BY <1>5, <1>11, <1>12, <3>1, <3>2
    <2> QED
      BY <1>1, <2>1 DEF BootstrapIsMutual
  <1>14. ASSUME NEW m \in net
         PROVE  (Formed(m) /\ Used(m.rpc) /\ Replied(m) /\ Idle(m))'
    <2>1. /\ Formed(m) /\ Used(m.rpc) /\ Replied(m) /\ Idle(m)
          /\ m.from \in Node /\ m.rpc.owner \in Node
      BY DEF Inv, Datagrams, Datagram, Rpc
    <2>2. Formed(m)'
      BY <2>1 DEF Formed
    <2>3. Used(m.rpc)'
      BY <1>1, <1>3, <2>1 DEF Used
    <2>4. Replied(m)'
      BY <1>11, <1>12, <2>1 DEF Replied
    <2>5. Idle(m)'
      BY <1>1, <1>3, <2>1 DEF Idle
    <2> QED
      BY <2>2, <2>3, <2>4, <2>5
  <1>15. Datagrams'
    BY <1>1, <1>14 DEF Inv, Datagrams
  <1> QED
    BY <1>5, <1>6, <1>7, <1>9, <1>10, <1>13, <1>15 DEF Inv

-----------------------------------------------------------------------------
\* Nothing is started at first.
LEMMA InitHolds ==
    ASSUME Init
    PROVE  Inv
  <1>1. \A n \in Node : tasks[n] = NoTask /\ DOMAIN tasks[n] = {}
    BY DEF Init, NoTask
  <1>2. Lives
    BY <1>1 DEF Init, Lives
  <1>3. Tables
    BY EmptyTable DEF Init, Tables
  <1>4. Pings
    BY DEF Init, Pings
  <1>5. Lookups
    BY <1>1 DEF Init, Lookups
  <1>6. Datagrams
    BY DEF Init, Datagrams
  <1>7. Values
    BY <1>1 DEF Values
  <1>8. BootstrapIsMutual
    BY DEF Init, BootstrapIsMutual
  <1> QED
    BY <1>2, <1>3, <1>4, <1>5, <1>6, <1>7, <1>8 DEF Inv

\* A step that leaves everything as it is.
LEMMA StutterHolds ==
    ASSUME Inv, UNCHANGED vars
    PROVE  Inv' /\ Progress
  <1>1. Learning
    BY UnchangedLearns DEF vars
  <1>2. Pings'
    BY DEF Inv, Pings, vars
  <1>3. is_bootstrapped \subseteq started \ {Boot} /\ expired \subseteq Rpc
    BY DEF Inv, Lives, Datagrams
  <1>4. Inv'
    <2>1. UNCHANGED <<scenario, run, started, is_bootstrapped, requests_map, lookup_task_map,
                      tasks, net, expired, unread>>
      BY DEF vars
    <2> QED
      BY <1>1, <1>2, <1>3, <2>1, QuietKeeps
  <1>5. Progress
    BY DEF Progress, vars
  <1> QED
    BY <1>4, <1>5

\* Every step keeps the invariant, and no step takes progress back.
LEMMA NextHolds ==
    ASSUME Inv, [Next]_vars
    PROVE  Inv' /\ Progress
  <1>1. ASSUME NEW n \in Node, startNode(n)
        PROVE  Inv' /\ Progress
    <2>1. tasks' = tasks
      BY <1>1 DEF startNode
    <2> QED
      BY <1>1, <2>1, startNodeKeeps DEF Progress
  <1>2. ASSUME NEW n \in Node, crash(n)
        PROVE  Inv' /\ Progress
    <2>1. \A x \in started' : tasks'[x] = tasks[x]
      BY <1>2 DEF crash, Inv, Lives, Lookups
    <2> QED
      BY <1>2, <2>1, crashKeeps DEF Progress
  <1>3. ASSUME NEW n \in Node, findValue(n)
        PROVE  Inv' /\ Progress
    BY <1>3, findValueKeeps
  <1>4. ASSUME NEW n \in Node, NEW rpc \in requests_map[n], pingTimedOut(n, rpc)
        PROVE  Inv' /\ Progress
    <2>1. tasks' = tasks
      BY <1>4 DEF pingTimedOut
    <2> QED
      BY <1>4, <2>1, pingTimedOutKeeps DEF Progress
  <1>5. ASSUME NEW n \in Node, NEW rpc \in lookup_task_map[n], lookupTimedOut(n, rpc)
        PROVE  Inv' /\ Progress
    BY <1>5, lookupTimedOutKeeps
  <1>6. ASSUME NEW m \in net, onPing(m)
        PROVE  Inv' /\ Progress
    <2>1. tasks' = tasks
      BY <1>6 DEF onPing, SendReply
    <2> QED
      BY <1>6, <2>1, onPingKeeps DEF Progress
  <1>7. ASSUME NEW m \in net, onLatePingReply(m)
        PROVE  Inv' /\ Progress
    <2>1. tasks' = tasks
      BY <1>7 DEF onLatePingReply
    <2> QED
      BY <1>7, <2>1, onLatePingReplyKeeps DEF Progress
  <1>8. ASSUME NEW m \in net, onPingReply(m)
        PROVE  Inv' /\ Progress
    BY <1>8, onPingReplyKeeps
  <1>9. ASSUME NEW m \in net, onLookupReply(m)
        PROVE  Inv' /\ Progress
    BY <1>9, onLookupReplyKeeps
  <1>10. ASSUME NEW m \in net, onFindNode(m)
         PROVE  Inv' /\ Progress
    <2>1. tasks' = tasks
      BY <1>10 DEF onFindNode, SendNodes, SendReply
    <2> QED
      BY <1>10, <2>1, onFindNodeKeeps DEF Progress
  <1>11. ASSUME NEW m \in net, onFindValue(m)
         PROVE  Inv' /\ Progress
    <2>1. tasks' = tasks
      BY <1>11 DEF onFindValue, SendNodes, SendReply
    <2> QED
      BY <1>11, <2>1, onFindValueKeeps DEF Progress
  <1>12. CASE UNCHANGED vars
    BY <1>12, StutterHolds
  <1>13. CASE Next
    BY <1>1, <1>2, <1>3, <1>4, <1>5, <1>6, <1>7, <1>8, <1>9, <1>10, <1>11, <1>13 DEF Next, Deliver
  <1> QED
    BY <1>12, <1>13

\* The invariant holds in every reachable state.
THEOREM Invariance == Spec => []Inv
  <1>1. Init => Inv
    BY InitHolds
  <1>2. Inv /\ [Next]_vars => Inv'
    BY NextHolds
  <1> QED
    BY <1>1, <1>2, PTL DEF Spec

\* The state is well typed.
THEOREM TypeCorrect == Spec => []TypeOK
  <1>1. Inv => TypeOK
    <2> SUFFICES ASSUME Inv
                 PROVE  TypeOK
      OBVIOUS
    <2>1. \A n \in Node : \A j \in DOMAIN tasks[n] : j \in Job /\ tasks[n][j] \in LookupTask
      BY DEF Inv, Lookups, SoundTask, Sound, Counting
    <2> QED
      BY <2>1 DEF Inv, Lives, Tables, Pings, Lookups, Datagrams, TypeOK
  <1> QED
    BY <1>1, Invariance, PTL

(***************************************************************************)
(* A task has as many active requests as map entries, and is over exactly  *)
(* when it has none: each entry is of another peer.                        *)
(***************************************************************************)
THEOREM MatchCorrect == Spec => []TasksMatchMap
  <1>1. ASSUME Inv, NEW n \in Node, NEW j \in DOMAIN tasks[n]
        PROVE  /\ tasks[n][j].active = Cardinality(PendingOf(n, j))
               /\ tasks[n][j].finished = IF PendingOf(n, j) = {} THEN 1 ELSE 0
    <2>1. PICK told : Sound(tasks[n][j], Asked(n, j), told, n, Target(n, j), Entry)
      BY <1>1 DEF Inv, Lookups, SoundTask
    <2>2. /\ tasks[n][j].active = Cardinality(Asked(n, j))
          /\ tasks[n][j].finished = IF Asked(n, j) = {} THEN 1 ELSE 0
          /\ Asked(n, j) \subseteq Others(Entry, n)
      BY <2>1 DEF Sound, Counting
    <2>3. Asked(n, j) = {} <=> PendingOf(n, j) = {}
      BY DEF Asked
    <2>4. IsFiniteSet(Asked(n, j))
      BY <2>2, Nodes, EntriesOf
    <2> DEFINE S == PendingOf(n, j)
               f == [rpc \in S |-> rpc.peer]
    <2>5. \A a, b \in S : a.peer = b.peer => a = b
      <3>1. \A a \in S : a \in lookup_task_map[n] /\ a.job = j
        BY DEF PendingOf
      <3>2. \A a \in S : a = NewRpc(n, j, a.peer)
        BY <1>1, <3>1, EntriesAreNew
      <3> QED
        BY <3>2
    <2>6. f \in Injection(S, Asked(n, j)) /\ f \in Surjection(S, Asked(n, j))
      <3>1. f \in [S -> Asked(n, j)] /\ \A p \in Asked(n, j) : \E a \in S : f[a] = p
        BY DEF Asked
      <3>2. \A a, b \in S : f[a] = f[b] => a = b
        BY <2>5
      <3> QED
        BY <3>1, <3>2 DEF Injection, IsInjective, Surjection
    <2> HIDE DEF f
    <2>7. Cardinality(S) = Cardinality(Asked(n, j))
      BY <2>4, <2>6, FS_Injection
    <2> QED
      BY <2>2, <2>3, <2>7
  <1>2. Inv => TasksMatchMap
    BY <1>1 DEF TasksMatchMap
  <1> QED
    BY <1>2, Invariance, PTL

\* A task is fed only by the peer it asked.
THEOREM AnswersCorrect == Spec => []OnlyPeerAnswers
  <1>1. Inv => OnlyPeerAnswers
    BY DEF Inv, Datagrams, Formed, OnlyPeerAnswers
  <1> QED
    BY <1>1, Invariance, PTL

\* A bootstrap is mutual, in each life of the node.
THEOREM MutualCorrect == Spec => []BootstrapIsMutual
  <1>1. Inv => BootstrapIsMutual
    BY DEF Inv
  <1> QED
    BY <1>1, Invariance, PTL

\* A search that failed in time saw no holder but the node itself and those that
\* could not read their database.
THEOREM HonestCorrect == Spec => []ValueFailureIsHonest
  <1>1. ASSUME Inv, NEW n \in Node, "value" \in DOMAIN tasks[n],
               NEW t, t = tasks[n]["value"], t.finished = 1, t.found = {}, InTime(n, "value")
        PROVE  Ids(t.saved) \cap Holder \subseteq {n} \cup UnreadBy(n)
    <2>1. PICK told : Sound(t, Asked(n, "value"), told, n, Target(n, "value"), Entry)
      BY <1>1 DEF Inv, Lookups, SoundTask
    <2>2. Asked(n, "value") = {}
      BY <1>1, <2>1 DEF Sound, Counting
    <2>3. Ids(t.saved) \subseteq t.queried \cup {n}
      BY <1>1, <2>1, <2>2 DEF Sound, Reporting
    <2>4. t.queried \cap Holder \subseteq UnreadBy(n)
      BY <1>1, <2>2 DEF Inv, Values
    <2> QED
      BY <2>3, <2>4
  <1>2. Inv => ValueFailureIsHonest
    BY <1>1 DEF ValueFailureIsHonest
  <1> QED
    BY <1>2, Invariance, PTL

\* A task of this life is never replaced, forgets nobody and ends once.
THEOREM ProgressCorrect == Spec => TasksOnlyProgress
  <1>1. Inv /\ [Next]_vars => Progress
    BY NextHolds
  <1>2. Progress => \A n \in started' : \A j \in DOMAIN tasks[n] :
                       /\ j \in DOMAIN tasks'[n]
                       /\ tasks[n][j].queried \subseteq tasks'[n][j].queried
                       /\ tasks[n][j].finished = 1 => tasks'[n][j] = tasks[n][j]
    BY DEF Progress
  <1> QED
    BY <1>1, <1>2, Invariance, PTL DEF Spec, TasksOnlyProgress
-----------------------------------------------------------------------------
(***************************************************************************)
(* Discovery: the invariant behind LookupsDiscover, for nodes whose tables *)
(* have RoomForAll.  It is about the lookups for the own id none of whose  *)
(* requests timed out.                                                     *)
(***************************************************************************)

\* Places: a node is in a lower bucket only because the higher ones are full.
Places == \A n \in Node : Placed(k_buckets[n], n)

\* The node looks for its own id, and no request for it has timed out.
Joined(n) == "self" \in DOMAIN tasks[n] /\ InTime(n, "self")

\* Whom that lookup has kept or asked.
Heard(n) == Ids(tasks[n]["self"].saved) \cup tasks[n]["self"].queried

\* Datagram x is the reply of p to that lookup.
Answers(x, n, p) == x.is_reply /\ x.from = p /\ x.to = n /\ x.rpc = NewRpc(n, "self", p)

\* SelfTasks: such a lookup lists nobody twice and has heard of the bootstrap node, and
\* whoever it no longer waits for has answered and is known.
SelfTasks ==
    \A n \in Node : Joined(n) =>
        /\ tasks[n]["self"].found = {} /\ Distinct(tasks[n]["self"].saved) /\ Boot \in Heard(n)
        /\ \A p \in tasks[n]["self"].queried \ Asked(n, "self") :
              Knows(n, p) /\ \E x \in net : Answers(x, n, p)

\* SelfMessages: the bootstrap node knew whoever looks for itself before it asked
\* anybody, and a request for it carries its id.
SelfMessages ==
    \A x \in net : x.rpc.job = "self" =>
        /\ Knows(Boot, x.rpc.owner) \/ Crashed(Boot)
        /\ ~ x.is_reply => x.payload = x.rpc.owner

\* The bootstrap node has answered n without naming m.
Missed(n, m) ==
    /\ Joined(n)
    /\ IF Boot \in Asked(n, "self")
       THEN \E x \in net : Answers(x, n, Boot) /\ m \notin Ids(x.nodes)
       ELSE Boot \in tasks[n]["self"].queried /\ m \notin Heard(n)

\* What m was sent by n for the lookup of m.
RepliedTo(x, n, m) ==
    x.is_reply /\ x.rpc.job = "self" /\ x.rpc.owner = m /\ x.from = n /\ x.to = m

\* Pairs: it names at least one of two nodes to the other, and a node that was not told
\* of the other learns of it by replying to it.
Pairs ==
    ~ Crashed(Boot) => \A n, m \in Node : n # m /\ Missed(n, m) =>
        ~ Missed(m, n) /\ \A x \in net : RepliedTo(x, n, m) => Knows(n, m)

Discovery == Places /\ SelfTasks /\ SelfMessages /\ Pairs

-----------------------------------------------------------------------------
(***************************************************************************)
(* With room for all, registering is knowing.                              *)
(***************************************************************************)

\* The others fit into one bucket.
LEMMA OthersFit ==
    ASSUME RoomForAll, NEW n \in Node
    PROVE  /\ n \in Id /\ Node \ {n} \in SUBSET Id /\ Cardinality(Node \ {n}) <= kBucketLimit
           /\ Cardinality(Node \ {n}) \in Nat /\ IsFiniteSet(Node \ {n})
           /\ \A S \in SUBSET (Node \ {n}) : IsFiniteSet(S) /\ Cardinality(S) <= kBucketLimit
  <1>1. Node \subseteq Id /\ IsFiniteSet(Node) /\ Cardinality(Node) \in Nat
    BY Nodes, IdsAreFinite
  <1>2. Cardinality(Node \ {n}) = Cardinality(Node) - 1
    BY <1>1, FS_RemoveElement
  <1>3. Cardinality(Node) <= kBucketLimit + 1
    BY DEF RoomForAll
  <1>4. IsFiniteSet(Node \ {n}) /\ Cardinality(Node \ {n}) \in Nat
    BY <1>1, IdsAreFinite
  <1>5. Cardinality(Node \ {n}) <= kBucketLimit
    BY <1>1, <1>2, <1>3, <1>4
  <1>6. ASSUME NEW S \in SUBSET (Node \ {n})
        PROVE  IsFiniteSet(S) /\ Cardinality(S) <= kBucketLimit
    <2>1. IsFiniteSet(S) /\ Cardinality(S) \in Nat /\ Cardinality(S) <= Cardinality(Node \ {n})
      BY <1>4, FS_Subset, FS_CardinalityType
    <2> QED
      BY <1>4, <1>5, <2>1
  <1> QED
    BY <1>1, <1>4, <1>5, <1>6

\* A table holds other nodes.
LEMMA TableHoldsOthers ==
    ASSUME NEW n \in Node, NEW t, Table(t, Entry), Placed(t, n), NEW i \in Bits
    PROVE  /\ t[i] \in Seq(NodeEntry) /\ Distinct(t[i]) /\ Ids(t[i]) \subseteq Node \ {n}
  <1>1. t[i] \in Seq(Entry) /\ t[i] \in Seq(NodeEntry) /\ Distinct(t[i])
    BY DEF Table, WellFormed, KBuckets
  <1>2. Ids(t[i]) \subseteq Node
    BY <1>1, Nodes
  <1>3. n \notin Ids(t[i])
    <2>1. SUFFICES ASSUME n \in Ids(t[i]) PROVE FALSE
      OBVIOUS
    <2>2. n \in Id /\ i \in Xor(n, n)
      BY <2>1 DEF Placed
    <2> QED
      BY <2>2, XorType
  <1> QED
    BY <1>1, <1>2, <1>3

\* A full bucket has everybody.
LEMMA FullHasAll ==
    ASSUME RoomForAll, NEW n \in Node, NEW t, Table(t, Entry), Placed(t, n),
           NEW i \in Bits, IsFull(t[i])
    PROVE  Ids(t[i]) = Node \ {n}
  <1>1. /\ t[i] \in Seq(NodeEntry) /\ Distinct(t[i]) /\ Ids(t[i]) \subseteq Node \ {n}
        /\ Len(t[i]) >= kBucketLimit
    BY TableHoldsOthers DEF IsFull
  <1>2. PICK peers : peers = Node \ {n}
    OBVIOUS
  <1>3. peers \in SUBSET Id /\ Cardinality(peers) <= kBucketLimit /\ Ids(t[i]) \subseteq peers
    BY <1>1, <1>2, OthersFit
  <1> QED
    BY <1>1, <1>2, <1>3, LongHasAll

\* Registered is known.
LEMMA RegisteredIsKnown ==
    ASSUME RoomForAll, NEW n \in Node, NEW t, Table(t, Entry), Placed(t, n),
           NEW p \in Node \ {n}, Registers(t, n, [node_id |-> p, address |-> p])
    PROVE  p \in Ids(t[Home(n, p)])
  <1>1. n \in Id /\ p \in Id \ {n}
    BY Nodes
  <1>2. Home(n, p) \in Bits
    BY <1>1, HomeIsBit
  <1>3. p \in Ids(t[Home(n, p)]) \/ IsFull(t[Home(n, p)])
    BY DEF Registers
  <1> QED
    BY <1>2, <1>3, FullHasAll

\* A table that serves.
LEMMA TableServes ==
    ASSUME RoomForAll, NEW n \in Node, NEW t, Table(t, Entry), Placed(t, n)
    PROVE  Serves(t, n, Node \ {n})
  <1>1. WellFormed(t) /\ \A i \in Bits : Ids(t[i]) \subseteq Node \ {n}
    BY TableHoldsOthers DEF Table
  <1>2. Node \ {n} \subseteq Id \ {n} /\ Cardinality(Node \ {n}) <= kBucketLimit
    BY OthersFit
  <1>3. \A x \in Node \ {n} : Xor(x, n) # {0}
    BY DEF RoomForAll
  <1> QED
    BY <1>1, <1>2, <1>3 DEF Serves

\* But for the bootstrap node's, no bucket is ever full.
LEMMA JoiningIsNotFull ==
    ASSUME RoomForAll, NEW n \in Node \ {Boot}, NEW t, Table(t, Entry), Placed(t, n)
    PROVE  NoneFull(t)
  <1>1. PICK peers : peers = Node \ {n}
    OBVIOUS
  <1>2. n \in Id /\ peers \in SUBSET Id
    BY <1>1, OthersFit
  <1>3. WellFormed(t) /\ \A i \in Bits : Ids(t[i]) \subseteq peers
    BY <1>1, TableHoldsOthers DEF Table
  <1>4. \A i \in Bits : Cardinality({x \in peers : Home(n, x) = i}) < kBucketLimit
    BY <1>1 DEF RoomForAll
  <1> QED
    BY <1>2, <1>3, <1>4, SpreadIsNotFull

(***************************************************************************)
(* The bootstrap node answers whoever it knows with everybody it knows, a  *)
(* joining node finds in its own table everybody it knows.                 *)
(***************************************************************************)
LEMMA AnswerHasKnown ==
    ASSUME RoomForAll, NEW n \in Node, NEW t, Table(t, Entry), Placed(t, n), NEW id \in Node,
           \/ id = n /\ n # Boot
           \/ id # n /\ id \in Ids(t[Home(n, id)])
    PROVE  /\ Distinct(FindKNodes(t, n, id))
           /\ \A y \in Node \ {n} : y \in Ids(t[Home(n, y)]) => y \in Ids(FindKNodes(t, n, id))
  <1>1. PICK peers : peers = Node \ {n}
    OBVIOUS
  <1>2. Serves(t, n, peers) /\ n \in Id /\ id \in Id
    BY <1>1, TableServes, Nodes
  <1>3. \/ id = n /\ NoneFull(t)
        \/ id # n /\ id \in Ids(t[Home(n, id)])
    BY JoiningIsNotFull
  <1> QED
    BY <1>1, <1>2, <1>3, AnswerIsComplete

\* Storing the nodes of a message leaves nodes in their places.
LEMMA StoresPlace ==
    ASSUME NEW E \in SUBSET NodeEntry, NEW t, Table(t, E), NEW owner \in Id, Placed(t, owner),
           NEW ns \in Seq(E)
    PROVE  Placed(StoreNodes(t, owner, ns), owner)
  <1>1. PICK len \in Nat : len = Len(ns) /\ DOMAIN ns = 1 .. len
    BY LenProperties
  <1>2. \A p \in 1 .. len : ns[p] \in E
    BY <1>1, ElementOfSeq
  <1>3. PICK w : /\ w[0] = t /\ w[len] = StoreNodes(t, owner, ns)
                 /\ \A k \in 1 .. len : w[k] = StoreNode(w[k - 1], owner, ns[k])
    BY <1>1, StoresInOrder
  <1> DEFINE Good(k) == Table(w[k], E) /\ Placed(w[k], owner)
             bad == {k \in 0 .. len : ~ Good(k)}
  <1>4. Good(0)
    BY <1>3
  <1>5. ASSUME NEW k \in 1 .. len, Good(k - 1)
        PROVE  Good(k)
    <2>1. PICK v : v = w[k - 1]
      OBVIOUS
    <2>2. PICK e \in E : e = ns[k]
      BY <1>2
    <2>3. w[k] = StoreNode(v, owner, e)
      BY <1>3, <2>1, <2>2
    <2>4. Table(v, E) /\ Placed(v, owner) /\ WellFormed(v)
      BY <1>5, <2>1 DEF Table
    <2>5. Table(StoreNode(v, owner, e), E)
      BY <2>4, StoreNodeIn
    <2>6. Placed(StoreNode(v, owner, e), owner)
      BY <2>4, StoreNodePlaces
    <2> QED
      BY <2>3, <2>5, <2>6
  <1>6. SUFFICES ASSUME ~ Good(len)
                 PROVE  FALSE
    BY <1>3
  <1> HIDE DEF Good
  <1>7. bad \in SUBSET Nat /\ bad # {}
    BY <1>1, <1>6
  <1>8. PICK k \in bad : \A j \in bad : ~ (j < k)
    BY <1>7, LeastNatural
  <1>9. k \in 1 .. len /\ k - 1 \in 0 .. len /\ k - 1 < k
    BY <1>4, <1>8
  <1>10. Good(k - 1)
    BY <1>8, <1>9
  <1> QED
    BY <1>5, <1>8, <1>9, <1>10

\* So does receiving it.
LEMMA RegisteredPlaced ==
    ASSUME Inv, Places, NEW m \in net
    PROVE  Placed(Registered(m), m.to)
  <1>1. m \in Datagram /\ Formed(m)
    BY DEF Inv, Datagrams
  <1>2. m.from \in Node /\ m.to \in Node /\ m.nodes \in Seq(Entry)
    BY <1>1 DEF Datagram, Formed
  <1>3. PICK ns : ns = <<[node_id |-> m.from, address |-> m.from]>> \o m.nodes
    OBVIOUS
  <1>4. ns \in Seq(Entry)
    <2>1. [node_id |-> m.from, address |-> m.from] \in Entry
      BY <1>2, Nodes
    <2>2. <<[node_id |-> m.from, address |-> m.from]>> \in Seq(Entry)
      BY <2>1
    <2> QED
      BY <1>2, <1>3, <2>2, ConcatProperties
  <1>5. Table(k_buckets[m.to], Entry) /\ m.to \in Id /\ Placed(k_buckets[m.to], m.to)
    BY <1>2, Nodes DEF Inv, Tables, Places
  <1> QED
    BY <1>3, <1>4, <1>5, Nodes, StoresPlace DEF Registered

\* And the step that receives it.
LEMMA ReceivePlaces ==
    ASSUME Inv, Places, NEW m \in net, onReceive(m)
    PROVE  Places'
  <1>1. k_buckets \in [Node -> KBuckets] /\ m.to \in Node
    BY DEF Inv, Tables, Datagrams, Datagram
  <1>2. k_buckets' = [k_buckets EXCEPT ![m.to] = Registered(m)]
    BY DEF onReceive
  <1>3. Placed(Registered(m), m.to)
    BY RegisteredPlaced
  <1> QED
    BY <1>1, <1>2, <1>3 DEF Places
-----------------------------------------------------------------------------
(***************************************************************************)
(* Steps of the lookups for the own id.                                    *)
(***************************************************************************)

\* What a step may make of that of n: it forgets nobody it heard of, stops waiting
\* for a peer only when that answered, and then heard of whoever the answer names; and
\* to whom it sends a request no answer is under way.
SelfMoves(n) ==
    Joined(n)' =>
        /\ run'[n] = run[n]
        /\ tasks'[n]["self"].found = {} /\ Distinct(tasks'[n]["self"].saved)
        /\ Boot \in Heard(n)'
        /\ Joined(n) => Heard(n) \ {n} \subseteq Heard(n)'
        /\ \A p \in tasks'[n]["self"].queried \ Asked(n, "self")' :
              /\ Knows(n, p)' /\ Joined(n) /\ p \in tasks[n]["self"].queried
              /\ \E x \in net : /\ Answers(x, n, p)
                                /\ p \in Asked(n, "self") => Ids(x.nodes) \subseteq Heard(n)' \cup {n}
        /\ \A p \in Asked(n, "self")' :
              \/ Joined(n) /\ p \in Asked(n, "self")
              \/ \A x \in net : ~ Answers(x, n, p)

\* A step that does not touch it.
LEMMA SelfStays ==
    ASSUME SelfTasks, NEW n \in Node, Joined(n)' => Joined(n) /\ run'[n] = run[n],
           Joined(n)' => tasks'[n]["self"] = tasks[n]["self"],
           Joined(n)' => Asked(n, "self")' = Asked(n, "self"),
           \A p \in Node : Joined(n)' /\ Knows(n, p) => Knows(n, p)',
           \A p \in tasks[n]["self"].queried : Joined(n) => p \in Node
    PROVE  SelfMoves(n)
  <1>1. SUFFICES ASSUME Joined(n)'
                 PROVE  SelfMoves(n)
    BY DEF SelfMoves
  <1>2. /\ Joined(n) /\ run'[n] = run[n] /\ tasks'[n]["self"] = tasks[n]["self"]
        /\ Asked(n, "self")' = Asked(n, "self")
    BY <1>1
  <1>3. Heard(n)' = Heard(n)
    BY <1>2 DEF Heard
  <1>4. /\ tasks[n]["self"].found = {} /\ Distinct(tasks[n]["self"].saved) /\ Boot \in Heard(n)
        /\ \A p \in tasks[n]["self"].queried \ Asked(n, "self") :
              Knows(n, p) /\ \E x \in net : Answers(x, n, p)
    BY <1>2 DEF SelfTasks
  <1>5. \A p \in tasks[n]["self"].queried \ Asked(n, "self") :
              Knows(n, p)' /\ \E x \in net : Answers(x, n, p)
    BY <1>1, <1>2, <1>4
  <1> QED
    BY <1>2, <1>3, <1>4, <1>5 DEF SelfMoves

\* Answers is about the life the node is in.
LEMMA AnswersStay ==
    ASSUME NEW x, NEW n, NEW p, run'[n] = run[n]
    PROVE  Answers(x, n, p)' <=> Answers(x, n, p)
  BY DEF Answers, NewRpc

\* Every such step keeps SelfTasks.
LEMMA MovesKeepTasks ==
    ASSUME \A n \in Node : SelfMoves(n), net \subseteq net'
    PROVE  SelfTasks'
  <1>1. SUFFICES ASSUME NEW n \in Node, Joined(n)'
                 PROVE  /\ tasks'[n]["self"].found = {} /\ Distinct(tasks'[n]["self"].saved)
                        /\ Boot \in Heard(n)'
                        /\ \A p \in tasks'[n]["self"].queried \ Asked(n, "self")' :
                              Knows(n, p)' /\ \E x \in net' : Answers(x, n, p)'
    BY DEF SelfTasks
  <1>2. /\ run'[n] = run[n]
        /\ tasks'[n]["self"].found = {} /\ Distinct(tasks'[n]["self"].saved)
        /\ Boot \in Heard(n)'
        /\ \A p \in tasks'[n]["self"].queried \ Asked(n, "self")' :
              Knows(n, p)' /\ \E x \in net : Answers(x, n, p)
    BY <1>1 DEF SelfMoves
  <1> QED
    BY <1>2, AnswersStay

\* And with them, when no reply is sent, who was missed was missed before.
LEMMA MissedBefore ==
    ASSUME NEW n \in Node, NEW m \in Node, n # m, SelfMoves(n), Missed(n, m)',
           \A x \in net' \ net : ~ x.is_reply,
           Joined(n) => Asked(n, "self") \subseteq tasks[n]["self"].queried
    PROVE  Missed(n, m)
  <1>1. Joined(n)' /\ run'[n] = run[n]
    BY DEF Missed, SelfMoves
  <1>2. CASE Boot \in Asked(n, "self")'
    <2>1. PICK x \in net' : Answers(x, n, Boot)' /\ m \notin Ids(x.nodes)
      BY <1>2 DEF Missed
    <2>2. Answers(x, n, Boot) /\ x.is_reply
      BY <1>1, <2>1, AnswersStay DEF Answers
    <2>3. x \in net
      BY <2>2
    <2>4. Joined(n) /\ Boot \in Asked(n, "self")
      BY <1>1, <1>2, <2>2, <2>3 DEF SelfMoves
    <2> QED
      BY <2>1, <2>2, <2>3, <2>4 DEF Missed
  <1>3. CASE Boot \notin Asked(n, "self")'
    <2>1. Boot \in tasks'[n]["self"].queried /\ m \notin Heard(n)'
      BY <1>3 DEF Missed
    <2>2. /\ Joined(n) /\ Boot \in tasks[n]["self"].queried
          /\ \E x \in net : /\ Answers(x, n, Boot)
                            /\ Boot \in Asked(n, "self") => Ids(x.nodes) \subseteq Heard(n)' \cup {n}
          /\ Heard(n) \ {n} \subseteq Heard(n)'
      BY <1>1, <1>3, <2>1 DEF SelfMoves
    <2>3. m \notin Heard(n)
      BY <2>1, <2>2
    <2>4. CASE Boot \in Asked(n, "self")
      <3>1. PICK x \in net : Answers(x, n, Boot) /\ Ids(x.nodes) \subseteq Heard(n)' \cup {n}
        BY <2>2, <2>4
      <3>2. m \notin Ids(x.nodes)
        BY <2>1, <3>1
      <3> QED
        BY <2>2, <2>4, <3>1, <3>2 DEF Missed
    <2>5. CASE Boot \notin Asked(n, "self")
      BY <2>2, <2>3, <2>5 DEF Missed
    <2> QED
      BY <2>4, <2>5
  <1> QED
    BY <1>2, <1>3

\* A datagram names nodes, and a lookup asks nodes.
LEMMA NodesAsked ==
    ASSUME Inv, NEW n \in Node, Joined(n)
    PROVE  /\ n \in is_bootstrapped /\ n \in started /\ n # Boot
           /\ Asked(n, "self") \subseteq tasks[n]["self"].queried
           /\ tasks[n]["self"].queried \subseteq Node \ {n}
  <1>1. "self" \in DOMAIN tasks[n]
    BY DEF Joined
  <1>2. n \in is_bootstrapped /\ n \in started /\ n # Boot
    BY <1>1 DEF Inv, Lives, Lookups
  <1>3. \E told \in SUBSET Node : SoundTask(n, "self", told)
    BY <1>1 DEF Inv, Lookups
  <1>4. /\ Asked(n, "self") \subseteq tasks[n]["self"].queried
        /\ tasks[n]["self"].queried \subseteq Others(Entry, n)
    BY <1>3 DEF SoundTask, Sound, Counting
  <1> QED
    BY <1>2, <1>4, Nodes

(***************************************************************************)
(* A step that sends no reply: it starts or ends a life, runs a task, or   *)
(* does nothing to them.                                                   *)
(***************************************************************************)
LEMMA RequestStep ==
    ASSUME Inv, Discovery, Places', \A n \in Node : SelfMoves(n),
           Crashed(Boot) => Crashed(Boot)', net \subseteq net', net' \subseteq Datagram,
           \A n, p \in Node : Knows(n, p) => \/ Knows(n, p)'
                                             \/ ~ Joined(n)' /\ (n = Boot => Crashed(Boot)'),
           \A x \in net' \ net : /\ ~ x.is_reply
                                 /\ x.rpc.job = "self" =>
                                      /\ x.payload = x.rpc.owner
                                      /\ (Knows(Boot, x.rpc.owner) \/ Crashed(Boot))'
    PROVE  Discovery'
  <1>1. SelfTasks'
    BY MovesKeepTasks
  <1>2. SelfMessages'
    <2>1. SUFFICES ASSUME NEW x \in net', x.rpc.job = "self"
                   PROVE  /\ Knows(Boot, x.rpc.owner)' \/ Crashed(Boot)'
                          /\ ~ x.is_reply => x.payload = x.rpc.owner
      BY DEF SelfMessages
    <2>2. x.rpc.owner \in Node /\ Boot \in Node
      BY Nodes DEF Datagram, Rpc
    <2>3. CASE x \in net
      <3>1. /\ Knows(Boot, x.rpc.owner) \/ Crashed(Boot)
            /\ ~ x.is_reply => x.payload = x.rpc.owner
        BY <2>1, <2>3 DEF Discovery, SelfMessages
      <3> QED
        BY <2>2, <3>1
    <2>4. CASE x \notin net
      BY <2>1, <2>4
    <2> QED
      BY <2>3, <2>4
  <1>3. Pairs'
    <2>1. SUFFICES ASSUME ~ Crashed(Boot)', NEW n \in Node, NEW m \in Node, n # m, Missed(n, m)'
                   PROVE  ~ Missed(m, n)' /\ \A x \in net' : RepliedTo(x, n, m) => Knows(n, m)'
      BY DEF Pairs, RepliedTo
    <2>2. ASSUME NEW a \in Node, NEW b \in Node, a # b, Missed(a, b)'
          PROVE  Missed(a, b)
      <3>1. Joined(a) => Asked(a, "self") \subseteq tasks[a]["self"].queried
        BY NodesAsked
      <3> QED
        BY <2>2, <3>1, MissedBefore
    <2>3. Missed(n, m)
      BY <2>1, <2>2
    <2>4. ~ Missed(m, n) /\ \A x \in net : RepliedTo(x, n, m) => Knows(n, m)
      BY <2>1, <2>3 DEF Discovery, Pairs
    <2>5. Joined(n)'
      BY <2>1 DEF Missed
    <2>6. Knows(n, m) => Knows(n, m)'
      BY <2>5
    <2> QED
      BY <2>1, <2>2, <2>4, <2>6 DEF RepliedTo
  <1> QED
    BY <1>1, <1>2, <1>3 DEF Discovery
-----------------------------------------------------------------------------
(***************************************************************************)
(* Steps that reply.                                                       *)
(***************************************************************************)

\* Only the peer of a request answers it while it is awaited, and to a request.
LEMMA NewReply ==
    ASSUME Inv, NEW m \in net, onReceive(m), NEW nodes, NEW data, SendReply(m, nodes, data),
           NEW z \in net' \ net
    PROVE  /\ z.is_reply /\ z.rpc = m.rpc /\ z.from = m.to /\ z.to = m.from /\ z.nodes = nodes
           /\ Knows(m.to, m.from)'
  <1>1. m.to \in Node /\ m.from \in Node /\ Table(Registered(m), Entry)
    BY RegisteredEffect DEF Datagram
  <1>2. PICK e \in FindNode(Registered(m), m.to, m.from) : z = Reply(m, e, nodes, data)
    BY DEF SendReply
  <1>3. m.to \in Id /\ m.from \in Id /\ Entry \in SUBSET NodeEntry
    BY <1>1, Nodes
  <1>4. e \in Entry /\ e.node_id = m.from
    BY <1>1, <1>2, <1>3, FindNodeIsHome
  <1>5. e.address = m.from
    BY <1>4 DEF Entry
  <1>6. k_buckets'[m.to] = Registered(m)
    BY ReceiveLearns
  <1>7. Knows(m.to, m.from)'
    BY <1>2, <1>6 DEF Knows
  <1> QED
    BY <1>2, <1>5, <1>7 DEF Reply

(***************************************************************************)
(* When the bootstrap node answers n, whoever it does not name has sent    *)
(* nothing for its own lookup yet: the node is asked for the id of n, which*)
(* it knows, and names everybody it knows.                                 *)
(***************************************************************************)
LEMMA NotNamedNotJoined ==
    ASSUME RoomForAll, Inv, Discovery, ~ Crashed(Boot), NEW m \in net, onReceive(m),
           NEW nodes, NEW data, SendReply(m, nodes, data),
           m.rpc.job = "self" => nodes = FindKNodes(Registered(m), m.to, m.payload),
           NEW n \in Node, NEW k \in Node, n # k, Boot \in Asked(n, "self"),
           NEW z \in net' \ net, Answers(z, n, Boot), k \notin Ids(z.nodes)
    PROVE  \A x \in net : x.rpc.job = "self" => x.rpc.owner # k
  <1>1. /\ z.is_reply /\ z.rpc = m.rpc /\ z.from = m.to /\ z.to = m.from /\ z.nodes = nodes
        /\ Knows(m.to, m.from)'
    BY NewReply
  <1>2. /\ z.from = Boot /\ z.to = n
        /\ z.rpc = [owner |-> n, run |-> run[n], job |-> "self", peer |-> Boot]
    BY DEF Answers, NewRpc
  <1>3. /\ m.to = Boot /\ m.from = n /\ m.rpc.owner = n /\ m.rpc.job = "self"
        /\ m.rpc = [owner |-> n, run |-> run[n], job |-> "self", peer |-> Boot]
    BY <1>1, <1>2
  <1>4. m.rpc \in lookup_task_map[n]
    <2>1. PICK r \in lookup_task_map[n] : r.job = "self" /\ r.peer = Boot
      BY DEF Asked, PendingOf
    <2>2. r \in Rpc /\ r.owner = n /\ r.run = run[n]
      BY <2>1 DEF Inv, Lookups
    <2>3. r = [owner |-> n, run |-> run[n], job |-> "self", peer |-> Boot]
      BY <2>1, <2>2 DEF Rpc
    <2> QED
      BY <1>3, <2>1, <2>3
  <1>5. ~ m.is_reply
    BY <1>3, <1>4 DEF Inv, Datagrams, Idle
  <1>6. m.payload = n /\ Boot \in Node /\ n # Boot
    <2>1. m.payload = n
      BY <1>3, <1>5 DEF Discovery, SelfMessages
    <2>2. m.rpc.owner # m.rpc.peer
      BY DEF Inv, Datagrams, Formed
    <2> QED
      BY <1>3, <2>1, <2>2, Nodes
  <1>7. PICK t : t = Registered(m)
    OBVIOUS
  <1>8. Table(t, Entry) /\ Placed(t, Boot) /\ k_buckets'[Boot] = t
    BY <1>3, <1>7, RegisteredEffect, RegisteredPlaced, ReceiveLearns DEF Discovery
  <1>9. \A y \in Node \ {Boot} : Knows(Boot, y)' <=> y \in Ids(t[Home(Boot, y)])
    <2>1. \A y \in Node \ {Boot} : FindNode(t, Boot, y) # {} <=> y \in Ids(t[Home(Boot, y)])
      BY <1>6, <1>8, KnowsIsHome
    <2> QED
      BY <1>8, <2>1 DEF Knows
  <1>10. n \in Ids(t[Home(Boot, n)])
    BY <1>1, <1>3, <1>6, <1>9
  <1>11. nodes = FindKNodes(t, Boot, n)
    BY <1>3, <1>6, <1>7
  <1>12. \A y \in Node \ {Boot} : y \in Ids(t[Home(Boot, y)]) => y \in Ids(nodes)
    BY <1>6, <1>8, <1>10, <1>11, AnswerHasKnown
  <1>13. ~ Knows(Boot, k)
    <2>1. CASE k = Boot
      <3>1. FindNode(k_buckets[Boot], Boot, Boot) = {}
        BY DEF FindNode
      <3> QED
        BY <2>1, <3>1 DEF Knows
    <2>2. CASE k # Boot
      <3>1. ~ Knows(Boot, k)'
        BY <1>1, <1>9, <1>12, <2>2
      <3> QED
        BY <1>6, <3>1, ReceiveLearns, KnowsMore
    <2> QED
      BY <2>1, <2>2
  <1> QED
    BY <1>13 DEF Discovery, SelfMessages

(***************************************************************************)
(* A reply: if it is of the bootstrap node to n, the nodes it does not     *)
(* name come later than n.                                                 *)
(***************************************************************************)
LEMMA ReplyStep ==
    ASSUME RoomForAll, Inv, Inv', Discovery, NEW m \in net, onReceive(m),
           NEW nodes, NEW data, SendReply(m, nodes, data),
           m.rpc.job = "self" => nodes = FindKNodes(Registered(m), m.to, m.payload)
    PROVE  Discovery'
  <1>1. UNCHANGED <<run, started, expired, lookup_task_map, tasks>> /\ net \subseteq net'
    BY DEF onReceive, SendReply
  <1>2. Places' /\ Learning
    BY ReceivePlaces, ReceiveLearns DEF Discovery
  <1>3. \A x, y \in Node : Knows(x, y) => Knows(x, y)'
    BY <1>2, KnowsMore
  <1>4. Boot \in Node /\ net' \subseteq Datagram /\ (Crashed(Boot)' <=> Crashed(Boot))
    BY <1>1, Nodes DEF Inv, Datagrams, Crashed
  <1>5. ASSUME NEW n \in Node
        PROVE  /\ Joined(n)' <=> Joined(n)
               /\ Asked(n, "self")' = Asked(n, "self")
               /\ Heard(n)' = Heard(n)
               /\ \A x, p : Answers(x, n, p)' <=> Answers(x, n, p)
    BY <1>1 DEF Joined, InTime, Asked, PendingOf, Heard, Answers, NewRpc
  <1>6. SelfTasks'
    <2>1. ASSUME NEW n \in Node
          PROVE  SelfMoves(n)
      <3>1. \A p \in tasks[n]["self"].queried : Joined(n) => p \in Node
        BY NodesAsked
      <3> QED
        BY <1>1, <1>3, <1>5, <3>1, SelfStays DEF Discovery
    <2> QED
      BY <1>1, <2>1, MovesKeepTasks
  <1>7. SelfMessages'
    <2>1. SUFFICES ASSUME NEW x \in net', x.rpc.job = "self"
                   PROVE  /\ Knows(Boot, x.rpc.owner)' \/ Crashed(Boot)'
                          /\ ~ x.is_reply => x.payload = x.rpc.owner
      BY DEF SelfMessages
    <2>2. PICK y \in net : y.rpc = x.rpc /\ (~ x.is_reply => x = y)
      <3>1. CASE x \in net
        BY <3>1
      <3>2. CASE x \notin net
        BY <3>2, NewReply
      <3> QED
        BY <3>1, <3>2
    <2>3. x.rpc.owner \in Node
      BY <1>4 DEF Datagram, Rpc
    <2>4. /\ Knows(Boot, x.rpc.owner) \/ Crashed(Boot)
          /\ ~ x.is_reply => x.payload = x.rpc.owner
      BY <2>1, <2>2 DEF Discovery, SelfMessages
    <2> QED
      BY <1>3, <1>4, <2>3, <2>4
  <1>8. Pairs'
    <2>1. SUFFICES ASSUME ~ Crashed(Boot)', NEW n \in Node, NEW k \in Node, n # k, Missed(n, k)'
                   PROVE  ~ Missed(k, n)' /\ \A x \in net' : RepliedTo(x, n, k) => Knows(n, k)'
      BY DEF Pairs, RepliedTo
    <2>2. ~ Crashed(Boot)
      BY <1>4, <2>1
    <2>3. ASSUME NEW a \in Node, NEW b \in Node, a # b, Missed(a, b)'
          PROVE  \/ Missed(a, b)
                 \/ \A x \in net : x.rpc.job = "self" => x.rpc.owner # b
      <3>1. Joined(a)
        BY <1>5, <2>3 DEF Missed
      <3>2. CASE Boot \in Asked(a, "self")
        <4>1. PICK x \in net' : Answers(x, a, Boot) /\ b \notin Ids(x.nodes)
          BY <1>5, <2>3, <3>2 DEF Missed
        <4>2. CASE x \in net
          BY <3>1, <3>2, <4>1, <4>2 DEF Missed
        <4>3. CASE x \notin net
          BY <2>2, <2>3, <3>2, <4>1, <4>3, NotNamedNotJoined
        <4> QED
          BY <4>2, <4>3
      <3>3. CASE Boot \notin Asked(a, "self")
        <4>1. Boot \in tasks[a]["self"].queried /\ b \notin Heard(a)
          BY <1>1, <1>5, <2>3, <3>3 DEF Missed
        <4> QED
          BY <3>1, <3>3, <4>1 DEF Missed
      <3> QED
        BY <3>2, <3>3
    <2>4. ~ Missed(k, n)'
      <3>1. SUFFICES ASSUME Missed(k, n)' PROVE FALSE
        OBVIOUS
      <3>2. ASSUME NEW a \in Node, NEW b \in Node, a # b, Missed(a, b)'
            PROVE  \E x \in net : x.rpc.job = "self" /\ x.rpc.owner = a
        <4>1. Joined(a)
          BY <1>5, <3>2 DEF Missed
        <4>2. CASE Boot \in Asked(a, "self")
          <5>1. PICK x \in net' : Answers(x, a, Boot)
            BY <1>5, <3>2, <4>2 DEF Missed
          <5>2. x.rpc.job = "self" /\ x.rpc.owner = a
            BY <5>1 DEF Answers, NewRpc
          <5>3. \E y \in net : y.rpc = x.rpc
            BY NewReply
          <5> QED
            BY <5>2, <5>3
        <4>3. CASE Boot \notin Asked(a, "self")
          <5>1. Boot \in tasks[a]["self"].queried
            BY <1>1, <1>5, <3>2, <4>3 DEF Missed
          <5>2. \E x \in net : Answers(x, a, Boot)
            BY <4>1, <4>3, <5>1 DEF Discovery, SelfTasks
          <5> QED
            BY <5>2 DEF Answers, NewRpc
        <4> QED
          BY <4>2, <4>3
      <3>3. Missed(n, k) /\ Missed(k, n)
        BY <2>1, <2>3, <3>1, <3>2
      <3> QED
        BY <2>1, <2>2, <3>3 DEF Discovery, Pairs
    <2>5. ASSUME NEW x \in net', RepliedTo(x, n, k)
          PROVE  Knows(n, k)'
      <3>1. CASE x \in net
        <4>1. Missed(n, k)
          BY <2>1, <2>3, <2>5, <3>1 DEF RepliedTo
        <4> QED
          BY <1>3, <2>1, <2>2, <2>5, <3>1, <4>1 DEF Discovery, Pairs
      <3>2. CASE x \notin net
        BY <2>5, <3>2, NewReply DEF RepliedTo
      <3> QED
        BY <3>1, <3>2
    <2> QED
      BY <2>4, <2>5
  <1> QED
    BY <1>2, <1>6, <1>7, <1>8 DEF Discovery
-----------------------------------------------------------------------------
(***************************************************************************)
(* The actions.                                                            *)
(***************************************************************************)

\* A step of a life that leaves the lookup of n for itself alone.
LEMMA SelfRests ==
    ASSUME Inv, Discovery, run' = run, Learning, expired \subseteq expired', NEW n \in Node,
           "self" \in DOMAIN tasks'[n] =>
               "self" \in DOMAIN tasks[n] /\ tasks'[n]["self"] = tasks[n]["self"],
           Asked(n, "self")' = Asked(n, "self")
    PROVE  SelfMoves(n)
  <1>1. Joined(n)' => Joined(n) /\ tasks'[n]["self"] = tasks[n]["self"] /\ run'[n] = run[n]
    BY DEF Joined, InTime
  <1>2. \A p \in Node : Knows(n, p) => Knows(n, p)'
    BY KnowsMore
  <1>3. \A p \in tasks[n]["self"].queried : Joined(n) => p \in Node
    BY NodesAsked
  <1> QED
    BY <1>1, <1>2, <1>3, SelfStays DEF Discovery

\* A step that runs no task and sends nothing.
LEMMA QuietStep ==
    ASSUME Inv, Inv', Discovery, Places', Learning, expired \subseteq expired',
           UNCHANGED <<run, started, lookup_task_map, tasks, net>>
    PROVE  Discovery'
  <1>1. \A n \in Node : SelfMoves(n)
    <2>1. \A n \in Node : Asked(n, "self")' = Asked(n, "self")
      BY DEF Asked, PendingOf
    <2> QED
      BY <2>1, SelfRests
  <1>2. \A n, p \in Node : Knows(n, p) => Knows(n, p)'
    BY KnowsMore
  <1>3. (Crashed(Boot) => Crashed(Boot)') /\ net' \subseteq Datagram
    BY DEF Crashed, Inv, Datagrams
  <1> QED
    BY <1>1, <1>2, <1>3, RequestStep

\* A step that runs a task.
LEMMA RunTaskStep ==
    ASSUME Inv, Inv', Discovery, NEW n, NEW job, NEW before, NEW after, NEW spent,
           Moves(n, job, before, after, spent), RunTask(n, job, before, after, spent),
           run' = run, started' = started, expired \subseteq expired', Learning, Places',
           job = "self" => SelfMoves(n)
    PROVE  Discovery'
  <1>1. /\ n \in Node /\ DOMAIN tasks'[n] = DOMAIN tasks[n] \cup {job}
        /\ \A x \in Node \ {n} : tasks'[x] = tasks[x]
        /\ \A j \in DOMAIN tasks[n] \ {job} : tasks'[n][j] = tasks[n][j]
        /\ \A m \in net' : m \in net \/ \E e \in Entry :
              e.node_id \in after.queried \ before.queried /\ m = Request(n, run[n], job, e)
        /\ net \subseteq net'
    BY RunTaskEffect
  <1>2. \A x \in Node : \A j : <<x, j>> # <<n, job>> => Asked(x, j)' = Asked(x, j)
    BY RunTaskAsked
  <1>3. ASSUME NEW x \in Node
        PROVE  SelfMoves(x)
    <2>1. CASE x = n /\ job = "self"
      BY <2>1
    <2>2. CASE ~ (x = n /\ job = "self")
      <3>1. Asked(x, "self")' = Asked(x, "self")
        BY <1>2, <2>2
      <3>2. "self" \in DOMAIN tasks'[x] =>
               "self" \in DOMAIN tasks[x] /\ tasks'[x]["self"] = tasks[x]["self"]
        BY <1>1, <2>2
      <3> QED
        BY <3>1, <3>2, SelfRests
    <2> QED
      BY <2>1, <2>2
  <1>4. \A x, p \in Node : Knows(x, p) => Knows(x, p)'
    BY KnowsMore
  <1>5. (Crashed(Boot) => Crashed(Boot)') /\ net' \subseteq Datagram
    BY DEF Crashed, Inv, Datagrams
  <1>6. ASSUME NEW x \in net' \ net
        PROVE  /\ ~ x.is_reply
               /\ x.rpc.job = "self" =>
                    /\ x.payload = x.rpc.owner
                    /\ (Knows(Boot, x.rpc.owner) \/ Crashed(Boot))'
    <2>1. PICK e \in Entry : x = Request(n, run[n], job, e)
      BY <1>1
    <2>2. ~ x.is_reply /\ x.rpc.job = job /\ x.rpc.owner = n /\ x.payload = Target(n, job)
      BY <2>1 DEF Request
    <2>3. ASSUME job = "self"
          PROVE  /\ x.payload = n
                 /\ (Knows(Boot, n) \/ Crashed(Boot))'
      <3>1. n \in is_bootstrapped'
        BY <1>1, <2>3 DEF Inv, Lookups
      <3> QED
        BY <2>2, <2>3, <3>1 DEF Target, Inv, BootstrapIsMutual
    <2> QED
      BY <2>2, <2>3
  <1> QED
    BY <1>1, <1>3, <1>4, <1>5, <1>6, RequestStep

\* The user's search is another task.
LEMMA findValueDiscovers ==
    ASSUME Inv, Inv', Discovery, NEW n \in Node, findValue(n)
    PROVE  Discovery'
  <1>1. /\ n \in started /\ "value" \notin DOMAIN tasks[n] /\ startLookup(n, "value", k_buckets[n])
        /\ UNCHANGED <<run, started, k_buckets, expired>>
    BY DEF findValue
  <1>2. PICK after, job : /\ after = start(FindKNodes(k_buckets[n], n, Target(n, "value")), n)
                          /\ job = "value"
    OBVIOUS
  <1>3. RunTask(n, job, NewTask, after, {}) /\ job # "self"
    BY <1>1, <1>2 DEF startLookup
  <1>4. Table(k_buckets[n], Entry) /\ "value" \in Job
    BY DEF Inv, Tables, Job
  <1>5. Moves(n, job, NewTask, after, {})
    BY <1>1, <1>2, <1>4, StartMoves
  <1>6. Learning /\ Places'
    BY <1>1, UnchangedLearns DEF Discovery, Places
  <1> QED
    BY <1>1, <1>3, <1>5, <1>6, RunTaskStep

\* A lookup that lost a request promises nothing.
LEMMA lookupTimedOutDiscovers ==
    ASSUME Inv, Inv', Discovery, NEW n \in Node, NEW rpc \in lookup_task_map[n],
           lookupTimedOut(n, rpc)
    PROVE  Discovery'
  <1>1. PICK job, t, u : job = rpc.job /\ t = tasks[n][job] /\ u = requestTimedOut(t, n)
    OBVIOUS
  <1>2. /\ RunTask(n, job, t, u, {rpc}) /\ expired' = expired \cup {rpc}
        /\ UNCHANGED <<run, started, k_buckets>>
    BY <1>1 DEF lookupTimedOut
  <1>3. PICK told \in SUBSET Node :
           Awaits(t, Asked(n, job), rpc.peer, told, n, Target(n, job), Entry)
    BY <1>1, EntryAwaits
  <1>4. Settled(t, Asked(n, job), rpc.peer, told, u, n, Target(n, job), Entry)
    BY <1>1, <1>3, TimedOutEffect
  <1>5. Moves(n, job, t, u, {rpc})
    BY <1>1, <1>4, SettledMoves
  <1>6. Learning /\ Places'
    BY <1>2, UnchangedLearns DEF Discovery, Places
  <1>7. rpc.owner = n /\ rpc.run = run[n]
    BY DEF Inv, Lookups
  <1>8. job = "self" => SelfMoves(n)
    <2>1. job = "self" => ~ Joined(n)'
      BY <1>1, <1>2, <1>7 DEF Joined, InTime
    <2> QED
      BY <2>1 DEF SelfMoves
  <1> QED
    BY <1>2, <1>5, <1>6, <1>8, RunTaskStep

\* A timer of a PING.
LEMMA pingTimedOutDiscovers ==
    ASSUME Inv, Inv', Discovery, NEW n \in Node, NEW rpc \in requests_map[n], pingTimedOut(n, rpc)
    PROVE  Discovery'
  <1>1. /\ expired \subseteq expired'
        /\ UNCHANGED <<run, started, k_buckets, lookup_task_map, tasks, net>>
    BY DEF pingTimedOut
  <1>2. Learning /\ Places'
    BY <1>1, UnchangedLearns DEF Discovery, Places
  <1> QED
    BY <1>1, <1>2, QuietStep

\* A PING reply nobody waits for.
LEMMA onLatePingReplyDiscovers ==
    ASSUME Inv, Inv', Discovery, NEW m \in net, onLatePingReply(m)
    PROVE  Discovery'
  <1>1. onReceive(m) /\ UNCHANGED <<run, started, expired, lookup_task_map, tasks, net>>
    BY DEF onLatePingReply, onReceive
  <1>2. Learning /\ Places'
    BY <1>1, ReceiveLearns, ReceivePlaces DEF Discovery
  <1> QED
    BY <1>1, <1>2, QuietStep

\* The type of a datagram tells the job.
LEMMA TypeTells ==
    ASSUME Inv, NEW m \in net, m.rpc.job = "self"
    PROVE  m.type = "FIND_NODE"
  BY DEF Inv, Datagrams, Formed, Type

\* The requests of others.
LEMMA RepliesDiscover ==
    ASSUME RoomForAll, Inv, Inv', Discovery, NEW m \in net,
           onPing(m) \/ onFindNode(m) \/ onFindValue(m)
    PROVE  Discovery'
  <1>1. onReceive(m)
    BY DEF onPing, onFindNode, onFindValue
  <1>2. PICK nodes, data : /\ SendReply(m, nodes, data)
                           /\ m.type = "FIND_NODE" =>
                                nodes = FindKNodes(Registered(m), m.to, m.payload)
    BY DEF onPing, onFindNode, onFindValue, SendNodes
  <1> QED
    BY <1>1, <1>2, TypeTells, ReplyStep

\* Whoever is received is known, and the table has nodes in their places.
LEMMA SenderIsKnown ==
    ASSUME RoomForAll, Inv, Discovery, NEW m \in net, onReceive(m), m.from # m.to
    PROVE  /\ Learning /\ Places' /\ Knows(m.to, m.from)'
           /\ Table(Registered(m), Entry) /\ Placed(Registered(m), m.to)
           /\ m.from \in Ids(Registered(m)[Home(m.to, m.from)])
  <1>1. PICK t, n, p : t = Registered(m) /\ n = m.to /\ p = m.from
    OBVIOUS
  <1>2. /\ n \in Node /\ p \in Node \ {n} /\ Table(t, Entry) /\ Placed(t, n)
        /\ Registers(t, n, [node_id |-> p, address |-> p])
    BY <1>1, RegisteredEffect, RegisteredPlaced DEF Datagram, Discovery
  <1>3. Learning /\ Places' /\ k_buckets'[n] = t
    BY <1>1, ReceiveLearns, ReceivePlaces DEF Discovery
  <1>4. p \in Ids(t[Home(n, p)])
    BY <1>2, RegisteredIsKnown
  <1>5. FindNode(t, n, p) # {}
    BY <1>2, <1>4, KnowsIsHome
  <1>6. Knows(n, p)'
    BY <1>3, <1>5 DEF Knows
  <1> QED
    BY <1>1, <1>2, <1>3, <1>4, <1>6

\* An answer of a peer is taken in full.
LEMMA onLookupReplyDiscovers ==
    ASSUME RoomForAll, Inv, Inv', Discovery, NEW m \in net, onLookupReply(m)
    PROVE  Discovery'
  <1>0. PICK n, rpc, job, t, u, told : TakesReply(m, n, rpc, job, t, u, told)
    BY LookupReplyMoves
  <1>1. n = m.to /\ rpc = m.rpc /\ job = rpc.job /\ t = tasks[n][job] /\ u = AfterReply(m, t)
    BY <1>0 DEF TakesReply
  <1>2. /\ RunTask(n, job, t, u, {rpc}) /\ Moves(n, job, t, u, {rpc})
        /\ onReceive(m) /\ m.is_reply /\ rpc \in lookup_task_map[n]
        /\ n \in Node /\ m.nodes \in Seq(Entry)
        /\ rpc.owner = n /\ rpc.run = run[n] /\ job \in DOMAIN tasks[n]
        /\ m.from = rpc.peer /\ m.from # n
    BY <1>0 DEF TakesReply
  <1>3. UNCHANGED <<run, started, expired>>
    BY <1>2 DEF onReceive
  <1>4. Learning /\ Places' /\ Knows(n, rpc.peer)'
    BY <1>1, <1>2, SenderIsKnown
  <1>5. ASSUME job = "self"
        PROVE  SelfMoves(n)
    <2>1. SUFFICES ASSUME Joined(n)'
                   PROVE  SelfMoves(n)
      BY DEF SelfMoves
    <2>2. Joined(n)
      BY <1>2, <1>3, <1>5, <2>1 DEF Joined, InTime
    <2>3. /\ t.found = {} /\ Distinct(t.saved) /\ Boot \in Heard(n)
          /\ \A p \in t.queried \ Asked(n, "self") :
                Knows(n, p) /\ \E x \in net : Answers(x, n, p)
      BY <1>1, <1>2, <1>5, <2>2 DEF Discovery, SelfTasks
    <2>4. n # Boot /\ Asked(n, "self") \subseteq t.queried /\ t.queried \subseteq Node \ {n}
      BY <1>1, <1>2, <1>5, <2>2, NodesAsked
    <2>5. Awaits(t, Asked(n, "self"), rpc.peer, told, n, n, Entry)
      BY <1>0, <1>5 DEF TakesReply, Target
    <2>6. u = onNodesReceived(t, m.nodes, n, n)
      BY <1>1, <1>5 DEF AfterReply
    <2>7. Cardinality(Others(Entry, n)) <= kBucketLimit
      BY <1>2, Nodes, OthersFit
    <2>8. /\ Distinct(u.saved) /\ u.found = {}
          /\ Ids(t.saved) \cup Ids(m.nodes) \subseteq Ids(u.saved) \cup u.queried \cup {n}
      BY <1>2, <2>3, <2>5, <2>6, <2>7, SelfAnswer
    <2>9. t.queried \subseteq u.queried
      BY <1>2 DEF Moves
    <2>10. tasks'[n]["self"] = u
      BY <1>2, <1>5, RunTaskEffect
    <2>11. Asked(n, "self")' = (Asked(n, "self") \ {rpc.peer}) \cup (u.queried \ t.queried)
      <3>1. Peers({rpc}) = {rpc.peer}
        BY DEF Peers
      <3>2. Asked(n, job)' = (Asked(n, job) \ Peers({rpc})) \cup (u.queried \ t.queried)
        BY <1>2, RunTaskAsked
      <3>3. Asked(n, job)' = Asked(n, "self")' /\ Asked(n, job) = Asked(n, "self")
        BY <1>5 DEF Asked, PendingOf
      <3> QED
        BY <3>1, <3>2, <3>3
    <2>12. Heard(n) = Ids(t.saved) \cup t.queried /\ Heard(n)' = Ids(u.saved) \cup u.queried
      BY <1>1, <1>5, <2>10 DEF Heard
    <2>13. Heard(n) \ {n} \subseteq Heard(n)' /\ Boot \in Heard(n)'
      BY <2>3, <2>4, <2>8, <2>9, <2>12
    <2>14. Answers(m, n, rpc.peer)
      <3>1. rpc \in Rpc
        BY <1>2 DEF Inv, Lookups
      <3>2. rpc = NewRpc(n, "self", rpc.peer)
        BY <1>1, <1>2, <1>5, <3>1 DEF Rpc, NewRpc
      <3> QED
        BY <1>1, <1>2, <3>2 DEF Answers
    <2>15. ASSUME NEW p \in u.queried \ Asked(n, "self")'
           PROVE  /\ Knows(n, p)' /\ p \in t.queried
                  /\ \E x \in net : /\ Answers(x, n, p)
                                    /\ p \in Asked(n, "self") => Ids(x.nodes) \subseteq Heard(n)' \cup {n}
      <3>1. p \in t.queried
        BY <2>11, <2>15
      <3>2. CASE p = rpc.peer
        <4>1. Ids(m.nodes) \subseteq Heard(n)' \cup {n}
          BY <2>8, <2>12
        <4> QED
          BY <1>4, <2>14, <3>1, <3>2, <4>1
      <3>3. CASE p # rpc.peer
        <4>1. p \notin Asked(n, "self")
          BY <2>11, <2>15, <3>3
        <4>2. Knows(n, p) /\ \E x \in net : Answers(x, n, p)
          BY <2>3, <3>1, <4>1
        <4>3. Knows(n, p)'
          BY <1>2, <1>4, <2>4, <3>1, <4>2, KnowsMore
        <4> QED
          BY <3>1, <4>1, <4>2, <4>3
      <3> QED
        BY <3>2, <3>3
    <2>16. ASSUME NEW p \in Asked(n, "self")'
           PROVE  p \in Asked(n, "self") \/ \A x \in net : ~ Answers(x, n, p)
      <3>1. SUFFICES ASSUME p \notin Asked(n, "self"), NEW x \in net, Answers(x, n, p)
                     PROVE  FALSE
        OBVIOUS
      <3>2. p \notin t.queried
        BY <2>11, <2>16, <3>1
      <3>3. /\ x.rpc.owner = n /\ x.rpc.run = run[n] /\ x.rpc.job = "self" /\ x.rpc.peer = p
            /\ Used(x.rpc)
        BY <3>1 DEF Answers, NewRpc, Inv, Datagrams
      <3>4. n \in started
        BY <2>2, NodesAsked, <1>2
      <3> QED
        BY <1>1, <1>5, <3>2, <3>3, <3>4 DEF Used, Job
    <2> QED
      BY <1>1, <1>3, <1>5, <2>2, <2>8, <2>10, <2>13, <2>15, <2>16 DEF SelfMoves
  <1> QED
    BY <1>2, <1>3, <1>4, <1>5, RunTaskStep

(***************************************************************************)
(* A bootstrap that ends: the node has just stored the bootstrap node, so  *)
(* its own table names it.                                                 *)
(***************************************************************************)
LEMMA onPingReplyDiscovers ==
    ASSUME RoomForAll, Inv, Inv', Discovery, NEW m \in net, onPingReply(m)
    PROVE  Discovery'
  <1>1. PICK n : n = m.to
    OBVIOUS
  <1>2. onReceive(m) /\ m.rpc \in requests_map[n] /\ n \in started
    BY <1>1 DEF onPingReply, onReceive
  <1>3. UNCHANGED <<run, started, expired>>
    BY <1>2 DEF onReceive
  <1>4. m.from = Boot /\ n \in Node \ {Boot} /\ Boot \in Node
    <2>1. n \in Node /\ Formed(m)
      BY <1>1 DEF Inv, Datagrams, Datagram
    <2>2. m.rpc.owner = n /\ m.rpc.peer = Boot
      BY <1>2, <2>1 DEF Inv, Pings
    <2>3. m.from = Boot
      BY <1>1, <2>2, RequestReachesPeer
    <2> QED
      BY <1>1, <2>1, <2>2, <2>3, Nodes DEF Formed
  <1>5. PICK t : t = Registered(m)
    OBVIOUS
  <1>6. /\ Learning /\ Places' /\ Table(t, Entry) /\ Placed(t, n)
        /\ Boot \in Ids(t[Home(n, Boot)])
    BY <1>1, <1>2, <1>4, <1>5, SenderIsKnown
  <1>7. CASE n \in is_bootstrapped
    <2>1. UNCHANGED <<lookup_task_map, tasks, net>>
      BY <1>1, <1>7 DEF onPingReply
    <2> QED
      BY <1>3, <1>6, <2>1, QuietStep
  <1>8. CASE n \notin is_bootstrapped
    <2>1. PICK s, u : s = FindKNodes(t, n, n) /\ u = start(s, n)
      OBVIOUS
    <2>2. Target(n, "self") = n /\ "self" \in Job
      BY DEF Target, Job
    <2>3. RunTask(n, "self", NewTask, u, {})
      BY <1>1, <1>5, <1>8, <2>1, <2>2 DEF onPingReply, startLookup
    <2>4. "self" \notin DOMAIN tasks[n]
      BY <1>4, <1>8 DEF Inv, Lookups
    <2>5. Moves(n, "self", NewTask, u, {})
      BY <1>2, <1>6, <2>1, <2>2, <2>4, StartMoves
    <2>6. s \in Seq(Entry) /\ Distinct(s) /\ Boot \in Ids(s)
      <3>1. s \in Seq(Entry)
        BY <1>4, <1>6, <2>1, Nodes, AnswerIsShort
      <3>2. Distinct(s) /\ \A y \in Node \ {n} : y \in Ids(t[Home(n, y)]) => y \in Ids(s)
        BY <1>4, <1>6, <2>1, AnswerHasKnown
      <3> QED
        BY <1>4, <1>6, <3>1, <3>2
    <2>7. u.saved = s /\ u.found = {} /\ Distinct(u.saved)
      <3>1. Setting(n, n, Entry)
        BY <1>4, <2>2, Nodes
      <3> QED
        BY <1>4, <2>1, <2>6, <3>1, SelfStart
    <2>8. tasks'[n]["self"] = u
      BY <2>3, <2>5, RunTaskEffect
    <2>9. Asked(n, "self")' = (Asked(n, "self") \ Peers({})) \cup (u.queried \ NewTask.queried)
      BY <2>3, <2>5, RunTaskAsked
    <2>10. u.queried \subseteq Asked(n, "self")'
      BY <2>9 DEF NewTask
    <2>11. \A x \in net : \A p : ~ Answers(x, n, p)
      <3>1. SUFFICES ASSUME NEW x \in net, NEW p, Answers(x, n, p)
                     PROVE  FALSE
        OBVIOUS
      <3>2. x.rpc.owner = n /\ x.rpc.run = run[n] /\ x.rpc.job = "self" /\ Used(x.rpc)
        BY <3>1 DEF Answers, NewRpc, Inv, Datagrams
      <3> QED
        BY <1>2, <2>2, <2>4, <3>2 DEF Used
    <2>12. ~ Joined(n) /\ Boot \in Heard(n)'
      BY <2>4, <2>6, <2>7, <2>8 DEF Joined, Heard
    <2>13. SelfMoves(n)
      BY <1>3, <2>7, <2>8, <2>10, <2>11, <2>12 DEF SelfMoves
    <2>14. PICK job : job = "self"
      OBVIOUS
    <2> QED
      BY <1>3, <1>6, <2>3, <2>5, <2>13, <2>14, RunTaskStep
  <1> QED
    BY <1>7, <1>8

\* A life begins.
LEMMA startNodeDiscovers ==
    ASSUME Inv, Inv', Discovery, NEW n \in Node, startNode(n)
    PROVE  Discovery'
  <1>1. /\ n \notin started /\ started' = started \cup {n} /\ run' = [run EXCEPT ![n] = @ + 1]
        /\ UNCHANGED <<k_buckets, lookup_task_map, tasks, expired>>
        /\ net' = net \/ net' = net \cup {Request(n, run'[n], "ping", [node_id |-> Boot, address |-> Boot])}
    BY DEF startNode, bootstrap
  <1>2. /\ run \in [Node -> 0 .. 2] /\ run[n] # 2 /\ DOMAIN tasks[n] = {}
    BY <1>1 DEF Inv, Lives
  <1>3. run'[n] = run[n] + 1 /\ \A x \in Node \ {n} : run'[x] = run[x]
    BY <1>1, <1>2
  <1>4. Places' /\ Boot \in Node /\ net \subseteq net' /\ net' \subseteq Datagram
    BY <1>1, Nodes DEF Discovery, Places, Inv, Datagrams
  <1>5. \A x, p : Knows(x, p)' <=> Knows(x, p)
    BY <1>1 DEF Knows
  <1>6. Crashed(Boot) => Crashed(Boot)'
    BY <1>1, <1>2, <1>3, <1>4 DEF Crashed
  <1>7. ASSUME NEW x \in Node
        PROVE  SelfMoves(x)
    <2>1. CASE x = n
      <3>1. ~ Joined(n)'
        BY <1>1, <1>2 DEF Joined
      <3> QED
        BY <2>1, <3>1 DEF SelfMoves
    <2>2. CASE x # n
      <3>1. run'[x] = run[x]
        BY <1>3, <2>2
      <3>2. Joined(x)' => Joined(x)
        BY <1>1, <3>1 DEF Joined, InTime
      <3>3. Asked(x, "self")' = Asked(x, "self")
        BY <1>1 DEF Asked, PendingOf
      <3>4. \A p \in tasks[x]["self"].queried : Joined(x) => p \in Node
        BY NodesAsked
      <3> QED
        BY <1>1, <1>5, <3>1, <3>2, <3>3, <3>4, SelfStays DEF Discovery
    <2> QED
      BY <2>1, <2>2
  <1>8. ASSUME NEW x \in net' \ net
        PROVE  ~ x.is_reply /\ x.rpc.job # "self"
    <2>1. x = Request(n, run'[n], "ping", [node_id |-> Boot, address |-> Boot])
      BY <1>1
    <2> QED
      BY <2>1 DEF Request
  <1> QED
    BY <1>4, <1>5, <1>6, <1>7, <1>8, RequestStep

\* A life ends.
LEMMA crashDiscovers ==
    ASSUME Inv, Inv', Discovery, NEW n \in Node, crash(n)
    PROVE  Discovery'
  <1>1. /\ n \in started /\ run[n] = 1 /\ started' = started \ {n}
        /\ k_buckets' = [k_buckets EXCEPT ![n] = EmptyBuckets]
        /\ lookup_task_map' = [lookup_task_map EXCEPT ![n] = {}]
        /\ tasks' = [tasks EXCEPT ![n] = NoTask]
        /\ UNCHANGED <<run, net, expired>>
    BY DEF crash
  <1>2. /\ DOMAIN tasks = Node /\ k_buckets \in [Node -> KBuckets]
        /\ lookup_task_map \in [Node -> SUBSET Rpc]
    BY DEF Inv, Lookups, Tables
  <1>3. \A x \in Node \ {n} : /\ k_buckets'[x] = k_buckets[x] /\ tasks'[x] = tasks[x]
                              /\ lookup_task_map'[x] = lookup_task_map[x]
    BY <1>1, <1>2
  <1>4. k_buckets'[n] = EmptyBuckets /\ DOMAIN tasks'[n] = {}
    BY <1>1, <1>2 DEF NoTask
  <1>5. Places'
    <2>1. Placed(EmptyBuckets, n)
      BY DEF Placed, EmptyBuckets, Ids
    <2> QED
      BY <1>3, <1>4, <2>1 DEF Discovery, Places
  <1>6. ~ Joined(n)'
    BY <1>4 DEF Joined
  <1>7. \A x \in Node \ {n} : \A p : Knows(x, p)' <=> Knows(x, p)
    BY <1>3 DEF Knows
  <1>8. (Crashed(Boot) => Crashed(Boot)') /\ (n = Boot => Crashed(Boot)') /\ net' \subseteq Datagram
    BY <1>1 DEF Crashed, Inv, Datagrams
  <1>9. ASSUME NEW x \in Node
        PROVE  SelfMoves(x)
    <2>1. CASE x = n
      BY <1>6, <2>1 DEF SelfMoves
    <2>2. CASE x # n
      <3>1. Joined(x)' => Joined(x)
        BY <1>1, <1>3, <2>2 DEF Joined, InTime
      <3>2. Asked(x, "self")' = Asked(x, "self")
        BY <1>3, <2>2 DEF Asked, PendingOf
      <3>3. \A p \in tasks[x]["self"].queried : Joined(x) => p \in Node
        BY NodesAsked
      <3> QED
        BY <1>1, <1>3, <1>7, <2>2, <3>1, <3>2, <3>3, SelfStays DEF Discovery
    <2> QED
      BY <2>1, <2>2
  <1> QED
    BY <1>1, <1>5, <1>6, <1>7, <1>8, <1>9, RequestStep

\* Nothing is known, asked or sent at first.
LEMMA InitDiscovers ==
    ASSUME Init
    PROVE  Discovery
  <1>1. /\ k_buckets = [n \in Node |-> EmptyBuckets] /\ tasks = [n \in Node |-> NoTask] /\ net = {}
    BY DEF Init
  <1>2. \A n \in Node : DOMAIN tasks[n] = {}
    BY <1>1 DEF NoTask
  <1>3. \A n \in Node : Placed(k_buckets[n], n)
    BY <1>1 DEF Placed, EmptyBuckets, Ids
  <1>4. \A n \in Node : ~ Joined(n)
    BY <1>2 DEF Joined
  <1>5. SelfTasks /\ Pairs
    BY <1>4 DEF SelfTasks, Pairs, Missed
  <1>6. SelfMessages
    BY <1>1 DEF SelfMessages
  <1> QED
    BY <1>3, <1>5, <1>6 DEF Discovery, Places

\* Every step keeps the invariant.
LEMMA NextDiscovers ==
    ASSUME RoomForAll, Inv, Inv', Discovery, [Next]_vars
    PROVE  Discovery'
  <1>1. CASE UNCHANGED vars
    <2>1. UNCHANGED <<run, started, expired, k_buckets, lookup_task_map, tasks, net>>
      BY <1>1 DEF vars
    <2>2. Learning /\ Places'
      BY <2>1, UnchangedLearns DEF Discovery, Places
    <2> QED
      BY <2>1, <2>2, QuietStep
  <1>2. ASSUME NEW m \in net, Deliver(m)
        PROVE  Discovery'
    <2>1. CASE onPing(m) \/ onFindNode(m) \/ onFindValue(m)
      BY <2>1, RepliesDiscover
    <2> QED
      BY <1>2, <2>1, onLatePingReplyDiscovers, onPingReplyDiscovers, onLookupReplyDiscovers DEF Deliver
  <1>3. CASE Next
    BY <1>2, <1>3, startNodeDiscovers, crashDiscovers, findValueDiscovers, pingTimedOutDiscovers,
       lookupTimedOutDiscovers DEF Next
  <1> QED
    BY <1>1, <1>3

\* Two nodes that are done: one heard of the other and asked it.
LEMMA DoneDiscovers ==
    ASSUME Inv, Discovery
    PROVE  LookupsDiscover
  <1>1. ASSUME NEW n \in Node, SelfLookupDone(n)
        PROVE  /\ Joined(n) /\ Asked(n, "self") = {} /\ Boot \in tasks[n]["self"].queried
               /\ Heard(n) \subseteq tasks[n]["self"].queried \cup {n}
               /\ \A p \in tasks[n]["self"].queried :
                     Knows(n, p) /\ \E x \in net : Answers(x, n, p)
    <2>1. Joined(n) /\ tasks[n]["self"].finished = 1
      BY <1>1 DEF SelfLookupDone, Joined
    <2>2. PICK told \in SUBSET Node : SoundTask(n, "self", told)
      BY <2>1 DEF Joined, Inv, Lookups
    <2>3. Asked(n, "self") = {}
      BY <2>1, <2>2 DEF SoundTask, Sound, Counting
    <2>4. /\ tasks[n]["self"].found = {} /\ Boot \in Heard(n)
          /\ \A p \in tasks[n]["self"].queried \ Asked(n, "self") :
                Knows(n, p) /\ \E x \in net : Answers(x, n, p)
      BY <2>1 DEF Discovery, SelfTasks
    <2>5. Ids(tasks[n]["self"].saved) \subseteq tasks[n]["self"].queried \cup {n}
      BY <2>2, <2>3, <2>4 DEF SoundTask, Sound, Reporting
    <2>6. n # Boot
      BY <2>1, NodesAsked
    <2> QED
      BY <2>1, <2>3, <2>4, <2>5, <2>6 DEF Heard
  <1>2. SUFFICES ASSUME ~ Crashed(Boot), NEW n \in Node, NEW m \in Node, n # m, SelfLookupDone(n),
                        SelfLookupDone(m) \/ (m \in tasks[n]["self"].queried /\ ~ Crashed(m))
                 PROVE  Knows(n, m) /\ Knows(m, n)
    BY DEF LookupsDiscover
  <1>3. CASE m \in tasks[n]["self"].queried /\ ~ Crashed(m)
    <2>1. Knows(n, m) /\ \E x \in net : Answers(x, n, m)
      BY <1>1, <1>2, <1>3
    <2>2. PICK x \in net : x.is_reply /\ x.from = m /\ x.to = n /\ Replied(x)
      BY <2>1 DEF Answers, Inv, Datagrams
    <2> QED
      BY <1>3, <2>1, <2>2 DEF Replied
  <1>4. CASE SelfLookupDone(m)
    <2>1. ASSUME NEW a \in Node, NEW b \in Node, a # b, SelfLookupDone(a), SelfLookupDone(b),
                 b \notin Heard(a)
          PROVE  Knows(a, b) /\ Knows(b, a)
      <3>1. Missed(a, b)
        BY <1>1, <2>1 DEF Missed
      <3>2. ~ Missed(b, a) /\ \A x \in net : RepliedTo(x, a, b) => Knows(a, b)
        BY <1>2, <2>1, <3>1 DEF Discovery, Pairs
      <3>3. a \in tasks[b]["self"].queried
        BY <1>1, <2>1, <3>2 DEF Missed
      <3>4. Knows(b, a) /\ \E x \in net : Answers(x, b, a)
        BY <1>1, <2>1, <3>3
      <3>5. \E x \in net : RepliedTo(x, a, b)
        BY <3>4 DEF Answers, RepliedTo, NewRpc
      <3> QED
        BY <3>2, <3>4, <3>5
    <2>2. CASE m \in Heard(n) /\ n \in Heard(m)
      <3>1. m \in tasks[n]["self"].queried /\ n \in tasks[m]["self"].queried
        BY <1>1, <1>2, <1>4, <2>2
      <3> QED
        BY <1>1, <1>2, <1>4, <3>1
    <2> QED
      BY <1>2, <1>4, <2>1, <2>2
  <1> QED
    BY <1>2, <1>3, <1>4

(***************************************************************************)
(* Two nodes that both looked for themselves without a timeout know each   *)
(* other, whatever was lost, repeated or reordered and whoever else        *)
(* crashed, as long as the bootstrap node lives and there is room for all. *)
(***************************************************************************)
THEOREM DiscoverCorrect ==
    ASSUME RoomForAll
    PROVE  Spec => []LookupsDiscover
  <1>1. Init => Discovery
    BY InitDiscovers
  <1>2. Inv /\ Inv' /\ Discovery /\ [Next]_vars => Discovery'
    BY NextDiscovers
  <1>3. Inv /\ Discovery => LookupsDiscover
    BY DoneDiscovers
  <1>4. Spec => []Inv
    BY Invariance
  <1> QED
    BY <1>1, <1>2, <1>3, <1>4, PTL DEF Spec
=============================================================================
