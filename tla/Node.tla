------------------------------- MODULE Node -------------------------------
(***************************************************************************)
(* Nodes of src/Kademlia/src/node.cpp exchanging RPCs over UDP: startNode  *)
(* and bootstrap, PING, FIND_NODE and FIND_VALUE with their requests,      *)
(* replies and timers, the routing tables and the lookup tasks.  STORE and *)
(* the database are in module ChatStore.                                   *)
(*                                                                         *)
(* A node is named by its id, and so is the address it listens at.  An RPC *)
(* id is random in the code and never reused here: it is named by the node *)
(* that sent the request, the job it was sent for and the peer.  One event *)
(* of a node's Qt event loop (a datagram, a timer, a call) is one step.    *)
(***************************************************************************)
EXTENDS LookupTask

CONSTANTS
    Node,              \* ids of the nodes
    Boot,              \* the node of bootstrap_node_ip
    Key,               \* the key findValue looks for
    Holder,            \* the nodes that have Key in their database
    Scenario           \* what may happen in a run, see below

(***************************************************************************)
(* A scenario bounds a run: the nodes whose user calls findValue, the      *)
(* nodes that may crash and start once more, and the routes <<from, to>>   *)
(* that deliver nothing.                                                   *)
(***************************************************************************)
ASSUME NodeAssumption ==
    /\ Boot \in Node /\ Node \subseteq Id /\ Key \in Id /\ Holder \subseteq Node
    /\ Address = Node
    /\ Scenario \subseteq [seeker : SUBSET Node, crashes : SUBSET Node,
                          cut : SUBSET (Node \X Node)]

VARIABLES
    scenario,          \* the scenario of this run
    run,               \* how often each node was started: it has as many lives
    started,           \* nodes whose socket is bound
    is_bootstrapped,   \* nodes with is_bootstrapped_
    k_buckets,         \* r_table_ of each node
    requests_map,      \* requests_map_ of each node, as a set of RPC ids
    lookup_task_map,   \* the keys of lookup_task_map_ of each node
    tasks,             \* the task objects of each node, by job
    net,               \* every datagram ever sent
    expired,           \* history: the RPC ids whose timer fired in time
    unread             \* history: the RPC ids for which a holder's SELECT failed

vars == <<scenario, run, started, is_bootstrapped, k_buckets, requests_map, lookup_task_map,
          tasks, net, expired, unread>>

(***************************************************************************)
(* Each node runs two lookups: "self" for its own id, which the end of its *)
(* bootstrap starts, and "value" for Key, when its user calls findValue.   *)
(***************************************************************************)
Job == {"self", "value"}

Rpc == [owner : Node, run : 1 .. 2, job : Job \cup {"ping"}, peer : Node]

Type(job) == [ping |-> "PING", self |-> "FIND_NODE", value |-> "FIND_VALUE"][job]

Target(n, job) == IF job = "self" THEN n ELSE Key

Datagram == [type : {"PING", "FIND_NODE", "FIND_VALUE"}, from : Node, to : Node,
             rpc : Rpc, is_reply : BOOLEAN, payload : Id,
             nodes : Seq(NodeEntry), data : BOOLEAN]

Request(n, r, job, entry) ==
    [type |-> Type(job), from |-> n, to |-> entry.address,
     rpc |-> [owner |-> n, run |-> r, job |-> job, peer |-> entry.node_id],
     is_reply |-> FALSE, payload |-> Target(n, job), nodes |-> << >>, data |-> FALSE]

Reply_ToOwner(m, entry, nodes, data) ==
    [type |-> m.type, from |-> m.to, to |-> m.rpc.owner, rpc |-> m.rpc,
     is_reply |-> TRUE, payload |-> {}, nodes |-> nodes, data |-> data]

\* A reply has no payload; std::bitset reads the empty string as 0.
Reply(m, entry, nodes, data) ==
    [type |-> m.type, from |-> m.to, to |-> entry.address, rpc |-> m.rpc,
     is_reply |-> TRUE, payload |-> {}, nodes |-> nodes, data |-> data]

NoTask == [j \in {} |-> NewTask]

Init ==
    /\ scenario \in Scenario
    /\ run = [n \in Node |-> 0]
    /\ started = {}
    /\ is_bootstrapped = {}
    /\ k_buckets = [n \in Node |-> EmptyBuckets]
    /\ requests_map = [n \in Node |-> {}]
    /\ lookup_task_map = [n \in Node |-> {}]
    /\ tasks = [n \in Node |-> NoTask]
    /\ net = {}
    /\ expired = {}
    /\ unread = {}

----------------------------------------------------------------------------
\* bootstrap: ping the bootstrap node once.
bootstrap(n) ==
    LET ping == Request(n, run'[n], "ping", [node_id |-> Boot, address |-> Boot])
    IN  /\ requests_map' = [requests_map EXCEPT ![n] = @ \cup {ping.rpc}]
        /\ net' = net \cup {ping}

\* startNode: bind the socket and make the routing table, which begins empty.  The
\* bootstrap node itself pings nobody.
startNode(n) ==
    /\ n \notin started
    /\ started' = started \cup {n}
    /\ run' = [run EXCEPT ![n] = @ + 1]
    /\ IF n = Boot THEN UNCHANGED <<requests_map, net>> ELSE bootstrap(n)
    /\ UNCHANGED <<scenario, is_bootstrapped, k_buckets, lookup_task_map, tasks, expired, unread>>

(***************************************************************************)
(* The process ends: everything a Node object holds is gone, its datagrams *)
(* are still under way, and its id and database are on disk.               *)
(***************************************************************************)
crash(n) ==
    /\ n \in started /\ run[n] = 1 /\ n \in scenario.crashes        \* bound
    /\ started' = started \ {n}
    /\ is_bootstrapped' = is_bootstrapped \ {n}
    /\ k_buckets' = [k_buckets EXCEPT ![n] = EmptyBuckets]
    /\ requests_map' = [requests_map EXCEPT ![n] = {}]
    /\ lookup_task_map' = [lookup_task_map EXCEPT ![n] = {}]
    /\ tasks' = [tasks EXCEPT ![n] = NoTask]
    /\ UNCHANGED <<scenario, run, net, expired, unread>>

(***************************************************************************)
(* A task object went from `before' to `after': the map entry `spent' is   *)
(* erased, and each node newly asked gets a map entry and a datagram.      *)
(***************************************************************************)
RunTask(n, job, before, after, spent) ==
    LET requests == {Request(n, run[n], job, e) : e \in NewlyAsked(before, after)}
    IN  /\ tasks' = [tasks EXCEPT ![n] = [j \in {job} \cup DOMAIN @ |->
                                               IF j = job THEN after ELSE @[j]]]
        /\ lookup_task_map' =
              [lookup_task_map EXCEPT ![n] = (@ \ spent) \cup {r.rpc : r \in requests}]
        /\ net' = net \cup requests

\* findNode and findValue: make a task and start it on the answer of findKNodes.
startLookup(n, job, table) ==
    RunTask(n, job, NewTask, start(FindKNodes(table, n, Target(n, job)), n), {})

findValue(n) ==
    /\ n \in started \cap scenario.seeker
    /\ "value" \notin DOMAIN tasks[n]
    /\ startLookup(n, "value", k_buckets[n])
    /\ UNCHANGED <<scenario, run, started, is_bootstrapped, k_buckets, requests_map, expired,
                   unread>>

pingTimedOut_NoErase(n, rpc) ==
    /\ rpc \in requests_map[n]
    /\ expired' = expired \cup {rpc}
    /\ UNCHANGED <<scenario, run, started, is_bootstrapped, k_buckets, requests_map,
                   lookup_task_map, tasks, net, unread>>

\* The timer of pushRequestToMap.
pingTimedOut(n, rpc) ==
    /\ rpc \in requests_map[n]
    /\ requests_map' = [requests_map EXCEPT ![n] = @ \ {rpc}]
    /\ expired' = expired \cup {rpc}
    /\ UNCHANGED <<scenario, run, started, is_bootstrapped, k_buckets, lookup_task_map, tasks, net,
                   unread>>

lookupTimedOut_NoErase(n, rpc) ==
    /\ rpc \in lookup_task_map[n]
    /\ LET task == tasks[n][rpc.job]
       IN  RunTask(n, rpc.job, task, requestTimedOut(task, n), {})
    /\ expired' = expired \cup {rpc}
    /\ UNCHANGED <<scenario, run, started, is_bootstrapped, k_buckets, requests_map, unread>>

\* The timer of a requestCreated: the entry is erased before the task is told.
lookupTimedOut(n, rpc) ==
    /\ rpc \in lookup_task_map[n]
    /\ LET task == tasks[n][rpc.job]
       IN  RunTask(n, rpc.job, task, requestTimedOut(task, n), {rpc})
    /\ expired' = expired \cup {rpc}
    /\ UNCHANGED <<scenario, run, started, is_bootstrapped, k_buckets, requests_map, unread>>

----------------------------------------------------------------------------
Registered_RequestsOnly(m) ==
    StoreNodes(k_buckets[m.to], m.to,
               (IF m.is_reply THEN << >> ELSE <<[node_id |-> m.from, address |-> m.from]>>)
                   \o m.nodes)

(***************************************************************************)
(* onReceive: whatever the datagram is, its sender is stored, then the     *)
(* nodes nested in a FIND_NODE or FIND_VALUE, and the handlers read the    *)
(* table that results.                                                     *)
(***************************************************************************)
Registered(m) ==
    StoreNodes(k_buckets[m.to], m.to,
               <<[node_id |-> m.from, address |-> m.from]>> \o m.nodes)

onReceive(m) ==
    /\ m.to \in started
    /\ k_buckets' = [k_buckets EXCEPT ![m.to] = Registered(m)]
    /\ UNCHANGED <<scenario, run, started, expired>>

\* A reply goes to the address findNode has for the sender, if it has one.
SendReply(m, nodes, data) ==
    /\ net' = net \cup {Reply(m, e, nodes, data) :
                           e \in FindNode(Registered(m), m.to, m.from)}
    /\ UNCHANGED <<is_bootstrapped, requests_map, lookup_task_map, tasks>>

onPing(m) ==
    /\ m.type = "PING" /\ ~ m.is_reply
    /\ onReceive(m)
    /\ SendReply(m, << >>, FALSE)
    /\ UNCHANGED unread

\* A PING reply nobody waits for any more.
onLatePingReply(m) ==
    /\ m.type = "PING" /\ m.is_reply
    /\ m.rpc \notin requests_map[m.to]
    /\ onReceive(m)
    /\ UNCHANGED <<is_bootstrapped, requests_map, lookup_task_map, tasks, net, unread>>

\* The first PING reply emits finishedBootstrap, whose slot calls findNode(node_id_).
onPingReply(m) ==
    /\ m.type = "PING" /\ m.is_reply
    /\ m.rpc \in requests_map[m.to]
    /\ onReceive(m)
    /\ requests_map' = [requests_map EXCEPT ![m.to] = @ \ {m.rpc}]
    /\ is_bootstrapped' = is_bootstrapped \cup {m.to}
    /\ IF m.to \in is_bootstrapped THEN UNCHANGED <<lookup_task_map, tasks, net>>
       ELSE startLookup(m.to, "self", Registered(m))
    /\ UNCHANGED unread

AwaitedReply_Any(m) == m.is_reply /\ m.rpc.owner = m.to

AwaitedReply(m) == m.is_reply /\ m.rpc \in lookup_task_map[m.to]

onLookupReply(m) ==
    /\ m.type \in {"FIND_NODE", "FIND_VALUE"}
    /\ AwaitedReply(m)
    /\ onReceive(m)
    /\ LET n == m.to
           job == m.rpc.job
           task == tasks[n][job]
           after == IF job = "self" THEN onNodesReceived(task, m.nodes, n, n)
                    ELSE IF m.data THEN onDataReceived(task, m.from)
                    ELSE onNoDataReceived(task, m.nodes, Key, n)
       IN  RunTask(n, job, task, after, {m.rpc})
    /\ UNCHANGED <<is_bootstrapped, requests_map, unread>>

SendNodes(m) == SendReply(m, FindKNodes(Registered(m), m.to, m.payload), FALSE)

\* The else branch of the FIND_NODE handler: it is also taken by a reply nobody
\* waits for, and answers it.
onFindNode(m) ==
    /\ m.type = "FIND_NODE"
    /\ ~ AwaitedReply(m)
    /\ onReceive(m)
    /\ SendNodes(m)
    /\ UNCHANGED unread

\* It has the value.  The database has none under the empty key of a reply.
HoldsValue(m) == ~ m.is_reply /\ m.to \in Holder

onFindValue_IgnoresValue(m) ==
    /\ m.type = "FIND_VALUE"
    /\ ~ AwaitedReply(m)
    /\ onReceive(m)
    /\ SendNodes(m)
    /\ unread' = unread

\* The same of FIND_VALUE.  When its SELECT fails, getValues returns nothing though
\* the node has the value.
onFindValue(m) ==
    /\ m.type = "FIND_VALUE"
    /\ ~ AwaitedReply(m)
    /\ onReceive(m)
    /\ \/ HoldsValue(m) /\ SendReply(m, << >>, TRUE) /\ unread' = unread
       \/ HoldsValue(m) /\ SendNodes(m) /\ unread' = unread \cup {m.rpc}
       \/ ~ HoldsValue(m) /\ SendNodes(m) /\ unread' = unread

(***************************************************************************)
(* UDP: a datagram may be delivered late, out of order, more than once or  *)
(* never, so delivering one leaves it in net.                              *)
(***************************************************************************)
Deliver(m) ==
    /\ <<m.from, m.to>> \notin scenario.cut
    /\ \/ onPing(m) \/ onLatePingReply(m) \/ onPingReply(m)
       \/ onLookupReply(m) \/ onFindNode(m) \/ onFindValue(m)

Next ==
    \/ \E n \in Node :
          \/ startNode(n)
          \/ crash(n)
          \/ findValue(n)
          \/ \E rpc \in requests_map[n] : pingTimedOut(n, rpc)
          \/ \E rpc \in lookup_task_map[n] : lookupTimedOut(n, rpc)
    \/ \E m \in net : Deliver(m)

(***************************************************************************)
(* Qt fires some due timer of a node in the end; of the network, and of    *)
(* the user, nothing is assumed.                                           *)
(***************************************************************************)
timerFires(n) ==
    \/ \E rpc \in requests_map[n] : pingTimedOut(n, rpc)
    \/ \E rpc \in lookup_task_map[n] : lookupTimedOut(n, rpc)

Fairness == \A n \in Node : WF_vars(timerFires(n))

Spec == Init /\ [][Next]_vars /\ Fairness

----------------------------------------------------------------------------
PendingOf(n, job) == {rpc \in lookup_task_map[n] : rpc.job = job}

Knows(n, m) == FindNode(k_buckets[n], n, m) # {}

\* The state is well typed; only a started node has bootstrapped.
TypeOK ==
    /\ scenario \in Scenario
    /\ run \in [Node -> 0 .. 2]
    /\ started \subseteq Node
    /\ is_bootstrapped \subseteq started
    /\ k_buckets \in [Node -> KBuckets]
    /\ requests_map \in [Node -> SUBSET Rpc]
    /\ lookup_task_map \in [Node -> SUBSET Rpc]
    /\ \A n \in Node : \A j \in DOMAIN tasks[n] : j \in Job /\ tasks[n][j] \in LookupTask
    /\ net \subseteq Datagram
    /\ expired \subseteq Rpc /\ unread \subseteq Rpc

(***************************************************************************)
(* Over every race of replies, duplicates and timers a task has as many    *)
(* active requests as it has map entries, and has finished exactly when it *)
(* has none: no lookup hangs or ends while a request of it is outstanding. *)
(***************************************************************************)
TasksMatchMap ==
    \A n \in Node : \A j \in DOMAIN tasks[n] :
        /\ tasks[n][j].active = Cardinality(PendingOf(n, j))
        /\ tasks[n][j].finished = IF PendingOf(n, j) = {} THEN 1 ELSE 0

(***************************************************************************)
(* A task is only ever fed by the peer it asked: a reply that reaches the  *)
(* owner of an RPC comes from the RPC's peer, even when replies are        *)
(* answered with replies.                                                  *)
(***************************************************************************)
OnlyPeerAnswers ==
    \A m \in net : m.is_reply /\ m.to = m.rpc.owner => m.from = m.rpc.peer

\* The first life of a node is over, and with it what its table held.
Crashed(n) == run[n] = 2 \/ (run[n] = 1 /\ n \notin started)

(***************************************************************************)
(* A node that finished its bootstrap is known to the bootstrap node, in   *)
(* each of its own lives, and the node knows the bootstrap node, unless    *)
(* the home buckets are full.  Only a crash of the bootstrap node itself   *)
(* makes it forget, and nobody tells it again.                             *)
(***************************************************************************)
BootstrapIsMutual ==
    \A n \in is_bootstrapped :
        /\ Knows(Boot, n) \/ Crashed(Boot)
        /\ Knows(n, Boot) \/ IsFull(k_buckets[n][Home(n, Boot)])

\* No request of that lookup timed out in this life of the node.
InTime(n, job) == \A rpc \in expired : rpc.owner = n /\ rpc.run = run[n] => rpc.job # job

\* The lookup for its own id is over.
SelfLookupDone(n) ==
    /\ "self" \in DOMAIN tasks[n] /\ tasks[n]["self"].finished = 1
    /\ InTime(n, "self")

(***************************************************************************)
(* What LookupsDiscover takes for granted of the ids.  An answer has room  *)
(* for all other nodes, so the bootstrap node never leaves one out.  In    *)
(* the table of a joining node no bucket ever fills: one that has been     *)
(* asked fills its buckets before it joins, a node that finds no room in   *)
(* its home bucket is stored once more in a lower one, and such duplicates *)
(* can crowd the bootstrap node out of the list a lookup starts from.  And *)
(* no id is in a bucket 0, which findKNodes can miss.                      *)
(***************************************************************************)
RoomForAll ==
    /\ Cardinality(Node) <= kBucketLimit + 1
    /\ \A n \in Node \ {Boot} : \A i \in Bits :
          Cardinality({m \in Node \ {n} : Home(n, m) = i}) < kBucketLimit
    /\ \A n, m \in Node : Xor(n, m) # {0}

(***************************************************************************)
(* Two nodes that both completed the lookup for their own id without a     *)
(* request that timed out know each other, in an instance with RoomForAll: *)
(* whichever asked the bootstrap node second was told of the other and     *)
(* asked it.  So do a node that completed it and one it asked.  A node     *)
(* that crashed and joined again knows and is known too, though its table  *)
(* was lost and answers to its first life still arrive.                    *)
(***************************************************************************)
LookupsDiscover ==
    ~ Crashed(Boot) => \A n, m \in Node :
        /\ n # m /\ SelfLookupDone(n)
        /\ SelfLookupDone(m) \/ (m \in tasks[n]["self"].queried /\ ~ Crashed(m))
        => Knows(n, m) /\ Knows(m, n)

\* The holders whose SELECT failed when they were asked in this life of n.
UnreadBy(n) ==
    {rpc.peer : rpc \in {u \in unread : u.owner = n /\ u.run = run[n] /\ u.job = "value"}}

(***************************************************************************)
(* A value search that failed although none of its requests timed out saw  *)
(* no holder of the value but the node itself and those that could not     *)
(* read their database: no race of data, dataless answers and duplicates   *)
(* loses a value that was within reach.                                    *)
(***************************************************************************)
ValueFailureIsHonest ==
    \A n \in Node : "value" \in DOMAIN tasks[n] =>
        LET t == tasks[n]["value"]
        IN  t.finished = 1 /\ t.found = {} /\ InTime(n, "value")
            => Ids(t.saved) \cap Holder \subseteq {n} \cup UnreadBy(n)

(***************************************************************************)
(* A node bootstraps at most once in a life, so it makes one task per job: *)
(* no duplicated or late PING reply, nor one to an earlier life, replaces  *)
(* a running lookup by a new one.                                          *)
(***************************************************************************)
TasksOnlyProgress ==
    [][\A n \in started' : \A j \in DOMAIN tasks[n] :
          /\ j \in DOMAIN tasks'[n]
          /\ tasks[n][j].queried \subseteq tasks'[n][j].queried
          /\ tasks[n][j].finished = 1 => tasks'[n][j] = tasks[n][j]]_vars

(***************************************************************************)
(* Every request is answered or given up, whatever the network loses: a    *)
(* lookup cannot go on asking, and nothing is outstanding for ever.        *)
(***************************************************************************)
RequestsSettle ==
    <>[](\A n \in Node : requests_map[n] = {} /\ lookup_task_map[n] = {})

============================================================================
