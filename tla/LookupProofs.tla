--------------------------- MODULE LookupProofs ---------------------------
(***************************************************************************)
(* What a lookup task reports, for every width of the ids, every           *)
(* kBucketLimit and kParallelismLimit, every set of peers and whatever     *)
(* they answer; and that every step of it is a step of LookupSpec.         *)
(***************************************************************************)
EXTENDS Lookup, LookupTaskProofs

USE NodeIdAssumption, KBucketsAssumption, LookupTaskAssumption
    DEF NodeIdAssumption, KBucketsAssumption, LookupTaskAssumption

\* The entries a task saves.
Entry == [node_id : Peer, address : Address]

\* What is assumed of the peers.
LEMMA Peers == /\ owner_id \in Id /\ target_id \in Id /\ Peer \subseteq Id
               /\ Holder \subseteq Peer \ {owner_id} /\ IsFiniteSet(Address)
               /\ Setting(owner_id, target_id, Entry)
               /\ Others(Entry, owner_id) \subseteq Peer \ {owner_id}
  <1>1. /\ owner_id \in Id /\ target_id \in Id /\ Peer \subseteq Id
        /\ Holder \subseteq Peer \ {owner_id} /\ IsFiniteSet(Address)
    BY LookupAssumption DEF LookupAssumption
  <1>2. Entry \subseteq NodeEntry
    BY <1>1 DEF Entry, NodeEntry
  <1> QED
    BY <1>1, <1>2 DEF Setting, Others, Entry

USE Peers

\* Ids are finitely many, and so are the entries of an answer.
LEMMA Finite ==
    /\ IsFiniteSet(Peer) /\ \A S \in SUBSET Peer : IsFiniteSet(S) /\ Cardinality(S) \in Nat
    /\ IsFiniteSet(Entry)
    /\ Entry \subseteq NodeEntry
  <1>3. IsFiniteSet(Peer)
    BY IdsAreFinite
  <1>4. \A S \in SUBSET Peer : IsFiniteSet(S) /\ Cardinality(S) \in Nat
    BY IdsAreFinite
  <1>5. IsFiniteSet(Peer \X Address)
    BY <1>3, FS_Product
  <1> DEFINE f == [pair \in Peer \X Address |-> [node_id |-> pair[1], address |-> pair[2]]]
  <1>6. f \in Surjection(Peer \X Address, Entry)
    <2>1. f \in [Peer \X Address -> Entry]
      BY DEF Entry
    <2>2. ASSUME NEW e \in Entry
          PROVE  \E pair \in Peer \X Address : f[pair] = e
      <3>1. <<e.node_id, e.address>> \in Peer \X Address
        BY DEF Entry
      <3>2. f[<<e.node_id, e.address>>] = e
        BY <3>1 DEF Entry
      <3> QED
        BY <3>1, <3>2
    <2> QED
      BY <2>1, <2>2 DEF Surjection
  <1>7. IsFiniteSet(Entry)
    BY <1>5, <1>6, FS_Surjection
  <1>8. Entry \subseteq NodeEntry
    BY DEF Entry, NodeEntry
  <1> QED
    BY <1>3, <1>4, <1>7, <1>8

-----------------------------------------------------------------------------
\* The invariant.

\* The task of this module is sound, see LookupTaskProofs.
SoundTask == Sound(task, pending, learned, owner_id, target_id, Entry)

\* found_data_ holds what the holders answered that were not given up and could read.
Found ==
    task.found = IF kind = "node" THEN {}
                 ELSE ((task.queried \ pending) \cap Holder) \ silent

Inv ==
    /\ kind \in {"node", "value"} /\ learned \subseteq Peer
    /\ silent \subseteq task.queried \ pending
    /\ SoundTask
    /\ Found

-----------------------------------------------------------------------------
\* The steps.

\* A start asks the first of the nodes it was given, and nobody answered yet.
LEMMA InvInit == Init => Inv
  <1> SUFFICES ASSUME Init
               PROVE  Inv
    OBVIOUS
  <1>1. PICK s \in StartList : task = start(s, owner_id) /\ pending = task.queried /\ learned = Ids(s)
    BY DEF Init
  <1>2. kind \in {"node", "value"} /\ silent = {}
    BY DEF Init
  <1>3. /\ s \in Seq(Entry) /\ Len(s) <= kBucketLimit
        /\ \A i \in DOMAIN s : s[i].node_id \in Peer
    <2>1. PICK Start : Start = [node_id : Peer \ {owner_id}, address : Address]
      OBVIOUS
    <2>2. s \in Seq(Start) /\ Len(s) <= kBucketLimit
      BY <2>1, LookupAssumption DEF LookupAssumption
    <2>3. Start \subseteq Entry
      BY <2>1 DEF Entry
    <2>4. s \in Seq(Entry)
      BY <2>2, <2>3
    <2>5. \A i \in DOMAIN s : s[i] \in Entry
      BY <2>4, ElementOfSeq, LenProperties
    <2> QED
      BY <2>2, <2>4, <2>5 DEF Entry
  <1>4. learned \subseteq Peer
    BY <1>1, <1>3 DEF Ids
  <1>5. PICK u : u = start(s, owner_id)
    OBVIOUS
  <1>6. Sound(u, u.queried, Ids(s), owner_id, target_id, Entry) /\ u.found = {}
    BY <1>3, <1>5, StartEffect
  <1> QED
    BY <1>1, <1>2, <1>4, <1>5, <1>6 DEF Inv, SoundTask, Found

\* What is neither asked nor waited for any more is one peer more.
LEMMA OneMore ==
    ASSUME NEW asked, NEW waiting \in SUBSET asked, NEW from \in waiting, NEW more, asked \subseteq more,
           NEW rest, rest = (waiting \ {from}) \cup (more \ asked)
    PROVE  more \ rest = (asked \ waiting) \cup {from}
  OBVIOUS

\* The task waits for every peer a request is pending to.
LEMMA AwaitsPending ==
    ASSUME Inv, NEW from \in pending
    PROVE  Awaits(task, pending, from, learned, owner_id, target_id, Entry)
  BY DEF Inv, SoundTask, Awaits

\* What a step does to the task, put together.
LEMMA Settling ==
    ASSUME Inv, NEW from \in pending, pending' = Pending(from), NEW u, NEW told,
           task' = u, learned' = told,
           Settled(task, pending, from, told, u, owner_id, target_id, Entry)
    PROVE  /\ SoundTask' /\ task.queried \subseteq task'.queried
           /\ task'.queried \ pending' = (task.queried \ pending) \cup {from}
  <1>1. /\ Sound(u, (pending \ {from}) \cup (u.queried \ task.queried), told,
                 owner_id, target_id, Entry)
        /\ task.queried \subseteq u.queried
    BY DEF Settled
  <1>2. pending' = (pending \ {from}) \cup (u.queried \ task.queried)
    BY DEF Pending
  <1>3. SoundTask'
    BY <1>1, <1>2 DEF SoundTask
  <1>4. pending \subseteq task.queried
    BY AwaitsPending, Waiting
  <1> QED
    BY <1>1, <1>2, <1>3, <1>4, OneMore

\* An answer with nodes: of a node lookup, of a peer without the value, or of a
\* holder that cannot read it.
LEMMA RespondNodesStep ==
    ASSUME Inv, NEW from \in pending, RespondNodes(from)
    PROVE  Inv' /\ task.queried \subseteq task'.queried
  <1>1. PICK nodes \in Answer :
           /\ task' = IF kind = "node" THEN onNodesReceived(task, nodes, target_id, owner_id)
                      ELSE onNoDataReceived(task, nodes, target_id, owner_id)
           /\ learned' = learned \cup Ids(nodes)
    BY DEF RespondNodes
  <1>2. /\ pending' = Pending(from) /\ kind' = kind
        /\ silent' = IF kind = "node" THEN silent ELSE silent \cup ({from} \cap Holder)
    BY DEF RespondNodes
  <1>3. nodes \in Seq(Entry) /\ Ids(nodes) \subseteq Peer
    <2>1. PICK S \in SUBSET Entry : nodes = SetToSeq(S)
      BY DEF Answer, Entry
    <2>2. IsFiniteSet(S)
      BY Finite, FS_Subset
    <2>3. nodes \in Seq(S) /\ Seq(S) \subseteq Seq(Entry)
      BY <2>1, <2>2, SetToSeqLists
    <2>4. \A i \in DOMAIN nodes : nodes[i] \in Entry
      BY <2>3, ElementOfSeq, LenProperties
    <2> QED
      BY <2>3, <2>4 DEF Ids, Entry
  <1>4. PICK u, told, t : u = task' /\ told = learned \cup Ids(nodes) /\ t = task
    OBVIOUS
  <1>5. \/ u = onNodesReceived(t, nodes, target_id, owner_id)
        \/ u = onNoDataReceived(t, nodes, target_id, owner_id)
    BY <1>1, <1>4
  <1>6. Settled(t, pending, from, told, u, owner_id, target_id, Entry) /\ u.found = t.found
    <2>1. Awaits(t, pending, from, learned, owner_id, target_id, Entry)
      BY <1>4, AwaitsPending
    <2>2. Settled(t, pending, from, told, u, owner_id, target_id, Entry) /\ FindsNothing(t, u)
      BY <1>3, <1>4, <1>5, <2>1, NodesEffect
    <2> QED
      BY <2>2 DEF FindsNothing
  <1>7. /\ SoundTask' /\ task.queried \subseteq task'.queried
        /\ task'.queried \ pending' = (task.queried \ pending) \cup {from}
    BY <1>1, <1>2, <1>4, <1>6, Settling
  <1>8. Found'
    BY <1>2, <1>4, <1>6, <1>7 DEF Inv, Found
  <1>9. silent' \subseteq task'.queried \ pending'
    BY <1>2, <1>7 DEF Inv
  <1> QED
    BY <1>1, <1>2, <1>3, <1>7, <1>8, <1>9 DEF Inv

\* An answer with data is kept, and asks nobody.
LEMMA RespondDataStep ==
    ASSUME Inv, NEW from \in pending, RespondData(from)
    PROVE  Inv' /\ task.queried \subseteq task'.queried
  <1>1. /\ kind = "value" /\ from \in Holder /\ task' = onDataReceived(task, from)
        /\ pending' = Pending(from) /\ kind' = kind /\ learned' = learned /\ silent' = silent
    BY DEF RespondData
  <1>2. PICK u, t : u = task' /\ t = task
    OBVIOUS
  <1>3. /\ Settled(t, pending, from, learned, u, owner_id, target_id, Entry)
        /\ u.found = t.found \cup {from}
    <2>1. Awaits(t, pending, from, learned, owner_id, target_id, Entry)
      BY <1>2, AwaitsPending
    <2>2. from \in Id /\ u = onDataReceived(t, from)
      BY <1>1, <1>2
    <2> QED
      BY <2>1, <2>2, DataEffect
  <1>4. /\ SoundTask' /\ task.queried \subseteq task'.queried
        /\ task'.queried \ pending' = (task.queried \ pending) \cup {from}
    BY <1>1, <1>2, <1>3, Settling
  <1>5. from \notin silent
    BY DEF Inv
  <1>6. Found'
    BY <1>1, <1>2, <1>3, <1>4, <1>5 DEF Inv, Found
  <1> QED
    BY <1>1, <1>4, <1>6 DEF Inv

\* A timer that fires before the answer: the peer is given up for this task.
LEMMA TimeOutStep ==
    ASSUME Inv, NEW from \in pending, TimeOut(from)
    PROVE  Inv' /\ task.queried \subseteq task'.queried
  <1>1. /\ task' = requestTimedOut(task, owner_id) /\ pending' = Pending(from)
        /\ silent' = silent \cup {from} /\ kind' = kind /\ learned' = learned
    BY DEF TimeOut
  <1>2. PICK u, t : u = task' /\ t = task
    OBVIOUS
  <1>3. Settled(t, pending, from, learned, u, owner_id, target_id, Entry) /\ u.found = t.found
    <2>1. Awaits(t, pending, from, learned, owner_id, target_id, Entry)
      BY <1>2, AwaitsPending
    <2> QED
      BY <1>1, <1>2, <2>1, TimedOutEffect
  <1>4. /\ SoundTask' /\ task.queried \subseteq task'.queried
        /\ task'.queried \ pending' = (task.queried \ pending) \cup {from}
    BY <1>1, <1>2, <1>3, Settling
  <1>5. Found'
    BY <1>1, <1>2, <1>3, <1>4 DEF Inv, Found
  <1> QED
    BY <1>1, <1>4, <1>5 DEF Inv

\* Every step preserves the invariant, and what was asked stays asked.
LEMMA InvNext == Inv /\ [Next]_vars => Inv' /\ task.queried \subseteq task'.queried
  <1> SUFFICES ASSUME Inv, [Next]_vars
               PROVE  Inv' /\ task.queried \subseteq task'.queried
    OBVIOUS
  <1>1. CASE Next
    <2>1. PICK from \in pending : RespondNodes(from) \/ RespondData(from) \/ TimeOut(from)
      BY <1>1 DEF Next
    <2>2. CASE RespondNodes(from)
      BY <2>2, RespondNodesStep
    <2>3. CASE RespondData(from)
      BY <2>3, RespondDataStep
    <2>4. CASE TimeOut(from)
      BY <2>4, TimeOutStep
    <2> QED
      BY <2>1, <2>2, <2>3, <2>4
  <1>2. CASE UNCHANGED vars
    BY <1>2 DEF vars, Inv, SoundTask, Found
  <1> QED
    BY <1>1, <1>2

-----------------------------------------------------------------------------
\* The theorems.

\* The invariant holds over every race of answers and timers.
THEOREM Invariance == Spec => []Inv
  <1>1. Inv /\ [Next]_vars => Inv'
    BY InvNext
  <1> QED
    BY InvInit, <1>1, PTL DEF Spec

\* The state stays well typed; active_requests_ is never negative.
THEOREM TypeCorrect == Spec => []TypeOK
  <1>1. Inv => TypeOK
    BY Peers DEF Inv, SoundTask, Sound, Counting, TypeOK
  <1> QED
    BY Invariance, <1>1, PTL

(***************************************************************************)
(* active_requests_ counts the entries of lookup_task_map_: no race of an  *)
(* answer and a timer counts one request twice, or never.                  *)
(***************************************************************************)
THEOREM CountCorrect == Spec => []ActiveCountsPending
  <1>1. Inv => ActiveCountsPending
    BY DEF Inv, SoundTask, Sound, Counting, ActiveCountsPending
  <1> QED
    BY Invariance, <1>1, PTL

(***************************************************************************)
(* What a finished task reports are the K nearest of all the nodes it was  *)
(* told of, in whatever order and number the answers came.                 *)
(***************************************************************************)
THEOREM NearestCorrect == Spec => []ResultIsNearestLearned
  <1>1. Inv => ResultIsNearestLearned
    BY DEF Inv, SoundTask, Sound, Reporting, Nearest, ReportsNodes, ResultIsNearestLearned
  <1> QED
    BY Invariance, <1>1, PTL

(***************************************************************************)
(* A finished task asked every node that it reports, except the owner; and *)
(* valueSearchFailed means that those of them that answered do not have    *)
(* the value or could not read it.                                         *)
(***************************************************************************)
THEOREM AskedCorrect == Spec => []ResultWasAsked
  <1>1. Inv => ResultWasAsked
    <2> SUFFICES ASSUME Inv, ReportsNodes, NEW x \in Ids(task.saved) \ {owner_id}
                 PROVE  x \in task.queried /\ (kind = "node" \/ x \in silent \/ x \notin Holder)
      BY DEF ResultWasAsked
    <2>1. pending = {} /\ task.found = {}
      BY DEF ReportsNodes
    <2>2. x \in task.queried
      BY <2>1 DEF Inv, SoundTask, Sound, Reporting
    <2>3. kind = "node" \/ x \in silent \/ x \notin Holder
      BY <2>1, <2>2 DEF Inv, Found
    <2> QED
      BY <2>2, <2>3
  <1> QED
    BY Invariance, <1>1, PTL

(***************************************************************************)
(* A value search reports the data of exactly the holders it asked that    *)
(* answered with it before their timer fired: nothing that comes before or *)
(* after such an answer loses its data.                                    *)
(***************************************************************************)
THEOREM DataCorrect == Spec => []DataIsReported
  <1>1. Inv => DataIsReported
    BY DEF Inv, Found, DataIsReported
  <1> QED
    BY Invariance, <1>1, PTL

\* The module INSTANCE makes has the same Cardinality.
LEMMA SameCardinality == \A S : Abstract!Cardinality(S) = Cardinality(S)
  BY DEF Abstract!Cardinality, Cardinality, Abstract!IsFiniteSet, IsFiniteSet

(***************************************************************************)
(* The safety part of ImplementsLookup: a task starts as a lookup may and  *)
(* every step of it is a step of LookupSpec or changes nothing there.      *)
(***************************************************************************)
THEOREM Implements == Spec => Abstract!Init /\ [][Abstract!Settle]_(Abstract!vars)
  <1>1. Inv => /\ pending \in SUBSET (Peer \ {owner_id}) /\ task.queried \in SUBSET (Peer \ {owner_id})
               /\ Cardinality(pending) <= kParallelismLimit
               /\ (task.finished = 1) = (pending = {})
    BY Peers DEF Inv, SoundTask, Sound, Counting
  <1>2. Init => Abstract!Init
    <2> SUFFICES ASSUME Init
                 PROVE  Abstract!Init
      OBVIOUS
    <2>1. pending = task.queried
      BY DEF Init
    <2>2. PICK B \in SUBSET (Peer \ {owner_id}) : B = pending
      BY <1>1, InvInit
    <2>3. /\ Cardinality(B) <= kParallelismLimit /\ task.queried = B /\ pending = B
          /\ (task.finished = 1) = (B = {})
      BY <1>1, <2>1, <2>2, InvInit
    <2> QED
      BY ONLY <2>2, <2>3, SameCardinality DEF Abstract!Init, Abstract!Others
  <1>3. Inv /\ [Next]_vars => [Abstract!Settle]_(Abstract!vars)
    <2> SUFFICES ASSUME Inv, [Next]_vars
                 PROVE  [Abstract!Settle]_(Abstract!vars)
      OBVIOUS
    <2>1. Inv' /\ task.queried \subseteq task'.queried
      BY InvNext
    <2>2. /\ pending' \in SUBSET (Peer \ {owner_id}) /\ task'.queried \in SUBSET (Peer \ {owner_id})
          /\ Cardinality(pending') <= kParallelismLimit
          /\ (task'.finished = 1) = (pending' = {})
      BY <2>1, Peers DEF Inv, SoundTask, Sound, Counting
    <2>3. CASE Next
      <3>1. PICK from \in pending : pending' = Pending(from)
        BY <2>3 DEF Next, RespondNodes, RespondData, TimeOut
      <3>2. PICK B : B = task'.queried \ task.queried
        OBVIOUS
      <3>3. /\ B \in SUBSET ((Peer \ {owner_id}) \ task.queried)
            /\ task'.queried = task.queried \cup B
        BY <2>1, <2>2, <3>2
      <3>4. pending' = (pending \ {from}) \cup B
        BY <3>1, <3>2 DEF Pending
      <3>5. Abstract!Settle
        BY ONLY <2>2, <3>3, <3>4, from \in pending, SameCardinality
           DEF Abstract!Settle, Abstract!Others
      <3> QED
        BY <3>5
    <2>4. CASE UNCHANGED vars
      BY <2>4 DEF vars, Abstract!vars
    <2> QED
      BY <2>3, <2>4
  <1> QED
    BY Invariance, <1>2, <1>3, PTL DEF Spec
===========================================================================
