------------------------------ MODULE Lookup ------------------------------
(***************************************************************************)
(* One lookup task from Node::findNode or Node::findValue to its last      *)
(* answer.  Every request has an entry in Node::lookup_task_map_ and a     *)
(* 2000 ms timer; the entry is erased by the answer or by the timer,       *)
(* whichever comes first.  The peers answer what they like: any nodes, up  *)
(* to kBucketLimit.  Asked for a value, the peers of Holder answer with    *)
(* data, or with nodes when they cannot read their database.               *)
(***************************************************************************)
EXTENDS LookupTask

CONSTANTS
    owner_id, target_id,
    Peer,              \* the ids that answers carry
    Holder,            \* the peers that have the value
    StartList          \* what findKNodes may answer to start()

ASSUME LookupAssumption ==
    /\ owner_id \in Id /\ target_id \in Id /\ Peer \subseteq Id
    /\ Holder \subseteq Peer \ {owner_id}
    /\ StartList \subseteq Seq([node_id : Peer \ {owner_id}, address : Address])
    /\ \A s \in StartList : Len(s) <= kBucketLimit
    /\ IsFiniteSet(Address)

VARIABLES
    kind,              \* NodeLookupTask or ValueLookupTask
    task,              \* the task object
    pending,           \* the peers whose request is in lookup_task_map_
    learned,           \* history: the ids the task was ever told
    silent             \* history: the peers whose request timed out, and the
                       \* holders whose SELECT failed

vars == <<kind, task, pending, learned, silent>>

\* In whatever order the nodes of an answer come, Merge sorts them.
Answer == {SetToSeq(S) : S \in {T \in SUBSET [node_id : Peer, address : Address] :
                                    Cardinality(T) <= kBucketLimit}}

Init ==
    /\ kind \in {"node", "value"}
    /\ \E s \in StartList :
        /\ task = start(s, owner_id)
        /\ pending = task.queried
        /\ learned = Ids(s)
    /\ silent = {}

\* requestCreated inserts one map entry for each newly queried peer.
Pending(from) == (pending \ {from}) \cup (task'.queried \ task.queried)

RespondNodes(from) ==
    /\ from \in pending
    /\ \E nodes \in Answer :
        /\ task' = IF kind = "node" THEN onNodesReceived(task, nodes, target_id, owner_id)
                   ELSE onNoDataReceived(task, nodes, target_id, owner_id)
        /\ learned' = learned \cup Ids(nodes)
    /\ pending' = Pending(from)
    /\ silent' = IF kind = "node" THEN silent ELSE silent \cup ({from} \cap Holder)
    /\ kind' = kind

RespondData(from) ==
    /\ from \in pending
    /\ kind = "value" /\ from \in Holder
    /\ task' = onDataReceived(task, from)
    /\ pending' = Pending(from)
    /\ UNCHANGED <<kind, learned, silent>>

TimeOut(from) ==
    /\ from \in pending
    /\ task' = requestTimedOut(task, owner_id)
    /\ pending' = Pending(from)
    /\ silent' = silent \cup {from}
    /\ UNCHANGED <<kind, learned>>

Next == \E from \in pending : RespondNodes(from) \/ RespondData(from) \/ TimeOut(from)

\* QTimer::singleShot fires in the end for an entry that is still there.
Fairness == \A from \in Peer : WF_vars(TimeOut(from))

Spec == Init /\ [][Next]_vars /\ Fairness

----------------------------------------------------------------------------
\* The state is well typed; active_requests_ is never negative.
TypeOK ==
    /\ kind \in {"node", "value"}
    /\ task \in LookupTask
    /\ pending \subseteq Peer
    /\ learned \subseteq Peer
    /\ silent \subseteq Peer

(***************************************************************************)
(* active_requests_ is the number of requests that can still be answered   *)
(* or time out, over every race of answers and timers.  Were it ever       *)
(* larger the task would hang.                                             *)
(***************************************************************************)
ActiveCountsPending == task.active = Cardinality(pending)

\* The task is over and reports nodes: a value search that found data does not.
ReportsNodes == pending = {} /\ task.found = {}

(***************************************************************************)
(* The nodes reported at the end are the nearest of all the task was told: *)
(* no truncation on the way lost one that was nearer.                      *)
(***************************************************************************)
ResultIsNearestLearned ==
    ReportsNodes =>
        /\ Ids(task.saved) \subseteq learned
        /\ Len(task.saved) < kBucketLimit => Ids(task.saved) = learned
        /\ \A x \in Ids(task.saved), y \in learned \ Ids(task.saved) :
              CloserTo(target_id, x, y)

(***************************************************************************)
(* Every node reported at the end was asked, the owner excepted: neither   *)
(* search stops while one of the K nearest was never tried, and            *)
(* valueSearchFailed is an honest answer: those of them that answered do   *)
(* not have the value, or could not read it.                               *)
(***************************************************************************)
ResultWasAsked ==
    ReportsNodes =>
        \A x \in Ids(task.saved) \ {owner_id} :
            x \in task.queried /\ (kind = "node" \/ x \in silent \/ x \notin Holder)

(***************************************************************************)
(* Data that arrived in time is reported: the value search succeeds as     *)
(* soon as one holder that was asked answers with the value before its     *)
(* timer fires, whatever timers and other answers come before and after.   *)
(***************************************************************************)
DataIsReported ==
    pending = {} /\ kind = "value" => task.found = (task.queried \cap Holder) \ silent

Abstract == INSTANCE LookupSpec WITH
    Owner   <- owner_id,
    asked   <- task.queried,
    waiting <- pending,
    done    <- task.finished = 1

(***************************************************************************)
(* The task does what every lookup promises.  It is done when it waits for *)
(* nobody and not before, although both sendNextRequests and the code      *)
(* after it can emit taskFinished; with the fairness of the timers it      *)
(* ends, if nobody ever answers.                                           *)
(***************************************************************************)
ImplementsLookup == Abstract!Spec
============================================================================
