---------------------------- MODULE LookupTask ----------------------------
(***************************************************************************)
(* ILookupTask and its two subclasses (lookup_task_base.cpp,               *)
(* node_lookup_task.cpp, value_lookup_task.cpp) as operators on the value  *)
(* of a task object.  Module Lookup makes a state machine of them, module  *)
(* Node runs them over the network.                                        *)
(*                                                                         *)
(*   saved     saved_nodes_                                                *)
(*   queried   queried_nodes_                                              *)
(*   active    active_requests_, an int that should never go negative      *)
(*   complete  is_complete_                                                *)
(*   found     found_data_, as the set of the peers whose answers it came  *)
(*             from; always empty in a NodeLookupTask                      *)
(*   finished  how often taskFinished was emitted                          *)
(*                                                                         *)
(* taskFinished is connected directly to the lambda of the constructor, so *)
(* emitting it runs the resize and reports the result at once.             *)
(***************************************************************************)
EXTENDS KBuckets

CONSTANT kParallelismLimit      \* alpha: requests in flight per task

ASSUME LookupTaskAssumption == kParallelismLimit \in Nat \ {0}

LookupTask ==
    [saved : Seq(NodeEntry), queried : SUBSET Id, active : Nat,
     complete : BOOLEAN, found : SUBSET Id, finished : Nat]

NewTask == [saved |-> << >>, queried |-> {}, active |-> 0,
            complete |-> FALSE, found |-> {}, finished |-> 0]

FirstK(s) == SubSeq(s, 1, Min({kBucketLimit, Len(s)}))

(***************************************************************************)
(* emit taskFinished() and the lambda it is connected to: a task that      *)
(* found data reports the data, any other the first K saved nodes.         *)
(***************************************************************************)
EmitFinished(task) ==
    [task EXCEPT !.finished = @ + 1,
                 !.saved = IF task.found = {} THEN FirstK(@) ELSE @]

Finish(task) == [EmitFinished(task) EXCEPT !.complete = TRUE]

FinishIfIdle(task) ==
    IF task.active = 0 /\ ~ task.complete THEN Finish(task) ELSE task

(***************************************************************************)
(* The loop of sendNextRequests: walking saved_nodes_ in order, the next   *)
(* nodes not yet queried, the owner excepted, as many as there is room for *)
(* under kParallelismLimit.  It looks past the first K.                    *)
(***************************************************************************)
Unqueried_AsksOwner(task, owner) ==
    {p \in DOMAIN task.saved : task.saved[p].node_id \notin task.queried}

Unqueried(task, owner) ==
    {p \in DOMAIN task.saved :
        /\ task.saved[p].node_id \notin task.queried \cup {owner}
        /\ \A q \in 1 .. p - 1 : task.saved[q].node_id # task.saved[p].node_id}

NextBatch(task, owner) ==
    LET room == kParallelismLimit - task.active
        open == Unqueried(task, owner)
    IN  {task.saved[p] : p \in {q \in open :
            room < 0 \/ Cardinality({o \in open : o < q}) < room}}

BatchIds(task, owner) == {n.node_id : n \in NextBatch(task, owner)}

sendNextRequests(task, owner) ==
    LET asked == BatchIds(task, owner)
    IN  FinishIfIdle([task EXCEPT !.queried = @ \cup asked,
                                  !.active = @ + Cardinality(asked)])

checkFirstK_OffByOne(task) ==
    \E p \in DOMAIN FirstK(task.saved) :
        p < kBucketLimit /\ task.saved[p].node_id \notin task.queried

\* Is there an unqueried node among the first K?  The owner counts as one: it is
\* never queried.
checkFirstK(task) ==
    \E p \in DOMAIN FirstK(task.saved) : task.saved[p].node_id \notin task.queried

\* start(), with the answer of routing_table_.findKNodes(target_id_).
start(nodes, owner) ==
    IF nodes = << >> THEN EmitFinished(NewTask)
    ELSE sendNextRequests([NewTask EXCEPT !.saved = nodes], owner)

requestTimedOut_NotCounted(task, owner) ==
    IF checkFirstK(task) /\ ~ task.complete THEN sendNextRequests(task, owner)
    ELSE FinishIfIdle(task)

requestTimedOut_CountedTwice(task, owner) ==
    LET t == [task EXCEPT !.active = @ - 2]
    IN  IF checkFirstK(t) /\ ~ t.complete THEN sendNextRequests(t, owner)
        ELSE FinishIfIdle(t)

requestTimedOut(task, owner) ==
    LET t == [task EXCEPT !.active = @ - 1]
    IN  IF checkFirstK(t) /\ ~ t.complete THEN sendNextRequests(t, owner)
        ELSE FinishIfIdle(t)

Merge_DropsNodes(task, nodes, target) ==
    [task EXCEPT !.saved = NearestFirst(@, target)]

\* closest_nodes() of an answer: the nodes not saved yet are appended, each id
\* once, and the whole is sorted.
Merge(task, nodes, target) ==
    LET new == {p \in DOMAIN nodes :
                    /\ nodes[p].node_id \notin Ids(task.saved)
                    /\ \A q \in 1 .. p - 1 : nodes[q].node_id # nodes[p].node_id}
        added == SetToSeq({nodes[p] : p \in new})
    IN  [task EXCEPT !.saved = NearestFirst(@ \o added, target)]

(***************************************************************************)
(* The nodes requestCreated was emitted for between two values of a task.  *)
(* A task that asks somebody does not truncate its list in the same step.  *)
(***************************************************************************)
NewlyAsked(before, after) ==
    {after.saved[Min(Positions(after.saved, id))] : id \in after.queried \ before.queried}

\* NodeLookupTask::onResponseReceived.
onNodesReceived(task, nodes, target, owner) ==
    LET t == Merge([task EXCEPT !.active = @ - 1], nodes, target)
    IN  IF checkFirstK(t) THEN sendNextRequests(t, owner) ELSE FinishIfIdle(t)

onDataReceived_StopsAtOnce(task, from) ==
    LET t == [task EXCEPT !.active = @ - 1]
    IN  IF t.complete THEN t ELSE Finish([t EXCEPT !.found = @ \cup {from}])

(***************************************************************************)
(* ValueLookupTask::onResponseReceived: an answer with data is kept but    *)
(* does not stop the search, and asks nobody else itself.                  *)
(***************************************************************************)
onDataReceived(task, from) ==
    LET t == [task EXCEPT !.active = @ - 1]
    IN  IF t.complete THEN t
        ELSE FinishIfIdle([t EXCEPT !.found = @ \cup {from}])

onNoDataReceived(task, nodes, target, owner) ==
    LET t == [task EXCEPT !.active = @ - 1]
        m == Merge(t, nodes, target)
    IN  IF t.complete THEN t
        ELSE FinishIfIdle(IF checkFirstK(m) THEN sendNextRequests(m, owner) ELSE m)
============================================================================
