# P2PMessenger in TLA+

P2PMessenger is a chat program without a server: every user runs a node of a
Kademlia network (`src/Kademlia`) under a Qt/QML user interface
(`src/Messenger`). Nodes exchange protobuf messages over UDP, find each other
through routing tables of k-buckets and iterative lookups, and send chat messages
as STORE RPCs, which each side keeps in an SQLite database.

This directory holds TLA+ modules of that code, the TLC runs that check them on
small instances, and TLAPS proofs of what holds for every size.
`PROJECT.json` maps every definition to its lines in the source.

## Inventory

| Component | State | Operations | Talks to |
|---|---|---|---|
| Node ids (`node_entry.h`, `utils.h`) | none | XOR distance, order of distances | everybody |
| `RoutingTable` | 128 buckets of at most `kBucketLimit` = 5 entries | `storeNode` (with `eraseDuplicate`), `findNode`, `findKNodes` | called by `Node` and by lookup tasks |
| `ILookupTask`, `NodeLookupTask`, `ValueLookupTask` | `saved_nodes_`, `queried_nodes_`, `active_requests_`, `is_complete_`, `found_data_` | `start`, `onResponseReceived`, `requestTimedOut` | emits `requestCreated` and its result to `Node` |
| `Node`, RPC side | `requests_map_`, `lookup_task_map_`, `r_table_`, `is_bootstrapped_` | `startNode`, `bootstrap`, `findNode`, `findValue`, `onReceive` and one handler per message type, timers of 2000 and 2500 ms | other nodes by UDP; the tasks by calls and signals |
| `Node`, chat side | `requests_map_` | `sendStore`, the STORE handler, `fetchContactsFromDb`, `fetchMessagesFromDb` | other nodes by STORE; the UI by queued signals; the tables by calls |
| `DBController` | tables Contacts, Messages, KademliaData of an SQLite file | one call per SQL statement; `addOrUpdateContact` has two | called by `Node`; other processes through the file |
| `ChatController`, `Messenger/app/main.cpp` | `current_peer_id_`, `contacts_`, `current_messages_` | `selectChat`, `sendMessage`, `loadContacts`, slots for what is fetched | the node's thread by queued signals |
| Identity (`initSocket`, `initNodeId`, `isNewConnection`, `generateNodeId`) | `conf/conf.json`, `node_id_` | run once by `startNode` | other processes started in the directory, through the file |
| Hex strings (`utils.cpp`) | none | `hexToBitset`, `bitsetToHex` | peer ids of the UI and the tables, the id in `conf.json` |
| `MessageWrapper` | a buffer | pack, unpack | nobody: `MessageBuilder::build` has no caller |
| QML, build files, `Kademlia/app` | | | |

What is hard here:

* **Races of answers and timers.** A task has up to `kParallelismLimit` = 3
  requests open, each ended by an answer or a timer, and keeps a counter that must
  agree with the map. Correct: the counter is exact, the task finishes once, never
  hangs, and reports the nearest nodes it was told of, all asked.
* **The network.** UDP loses, duplicates and reorders, and replies look like
  requests to a handler that does not expect them. Correct: a task is fed only by
  the peer it asked, a node bootstraps once, nodes that joined find each other.
* **Full buckets.** Nothing is ever evicted; a node that does not fit overflows
  into another bucket or is dropped. Correct: overflow only past full buckets,
  whoever was heard is found unless its home bucket is full, and answers hold the
  nearest nodes.
* **Partial failure.** Saving a message takes several database calls on each of
  two machines, and any of them may fail, reads included: a failed SELECT is answered
  like one that finds nothing. Correct: an acknowledgement, an announcement and an
  incoming row each imply something about the other tables, and a holder that cannot
  read does not end a search for which another could answer.
* **Crashes and restarts.** `conf.json` is emptied before it is written; a node that
  comes back has its id and nothing else, and replies to its former run still
  arrive. Correct: no node changes an id it has shown, and none is confused by its past.
* **Files that are shared.** Paths are relative and a port that is taken is only
  logged, so two messengers may use one `conf.json` and one database, statement by
  statement. Correct: row ids keep their meaning, and a peer has one chat.
* **Two threads.** The UI asks and the node answers through event queues while
  the user goes on clicking, sometimes on nothing: an empty text under "Start new
  chat" is selected too. Correct: the view is one chat, fresh when the queues are
  empty, and to who only reads the one in the header.

The list `hazards` in `PROJECT.json` names each of these at its line.

## Modules

```
NodeId --- KBuckets --- RoutingTable            one table, any order of stores
  |           |
  |       LookupTask --- Lookup --> LookupSpec  one task, any answers and timers
  |           |
  |          Node                               tables + tasks + network + restarts
  |
HexCodec --- MCChat --- Chat                    UI thread + node thread
ChatStore                                       STORE RPC + database tables
Database --> ChatBook                           SQL statements of several callers
Identity                                        conf.json through starts and crashes
```

`-->` leads to an abstract specification that the module is checked to implement.

* **NodeId**: an id is the set of its one bits, so XOR is a symmetric difference.
  `Less` is `operator<` of `utils.h`, `CloserTo` the comparator of every `std::sort`.
* **KBuckets**: the code of `routing_table.cpp` as operators on a table. `StoreNode`
  goes to the highest set bit of the distance whose bucket has room (the loop of
  `storeNode`), `Refresh` is `eraseDuplicate` and `push_back`, `FindKNodes` has the
  early unsorted return for a full home bucket, the widening loop (with bucket 0,
  which its condition misses, left out as in the code) and the final sort. Only
  entries of equal id compare equal, and a `std::sort` of at most 14 entries is an
  insertion sort, which keeps their order; so does the model.
* **RoutingTable**: one table over its life: the action `storeNode` in any order.
* **LookupTask**: the task object as a record and its methods as operators from
  record to record, since `Node` calls them synchronously. `EmitFinished` includes
  the lambda connected to `taskFinished`, which truncates the list.
* **Lookup**: one task of either kind from `start()` to its last answer. The start
  list is whatever `findKNodes` answers on a reachable table; peers answer any
  nodes, and holders of the value may answer with it, or with nodes when their SELECT
  fails; `silent` remembers those, and those that were given up. `pending` is the part
  of `lookup_task_map_` with this task.
* **LookupSpec**: what any lookup promises: nobody is asked twice, never itself,
  at most `kParallelismLimit` at a time, done exactly when it waits for nobody.
  Lookups of both kinds are checked to implement it (`ImplementsLookup`).
* **Node**: nodes running `startNode`, `bootstrap`, PING, FIND_NODE and FIND_VALUE
  over a network. One event of a Qt event loop is one step. `net` only grows: a
  datagram may be delivered any number of times, in any order or never. `onReceive`
  stores the sender and the nested nodes before the handler runs. `crash` ends a
  process: its table, tasks and requests are lost, its id is not (module `Identity`),
  and `startNode` begins its second `run`. A holder of the value answers with it, or,
  when the SELECT of `getValues` fails, with nodes; the history `unread` keeps the
  requests that met such a failure. A `scenario` says who searches a value,
  who may crash, and which routes deliver nothing, to keep a run small.
* **ChatStore**: `sendStore`, the STORE handler in its three outcomes (unknown
  sender, chat message, delayed message), the reply and the timer, over the three
  tables. Every call that saves may fail; `failures` remembers which did. Values are
  bound through `QString::fromStdString` (constant `fromStdString`), which keeps what a
  user types and replaces bytes that are not UTF-8, as those of a `DelayedChatMessage`
  with the time of day in it. `no_room`
  stands for what the routing table does with a peer whose home bucket is full.
* **Database**: the calls of `DBController` that change a table, each SQL statement a
  step. Texts are saved by callers that go the way of `sendStore` and the STORE
  handler (find the contact, add it, add the message) and interleave, fail and stop
  anywhere, beside deletions of contacts and messages. AUTOINCREMENT, UNIQUE and the
  foreign key, which a PRAGMA of each connection turns on, are modelled as guards.
* **ChatBook**: what the tables promise without row ids: one chat per peer, a text only
  in the chat of its peer, entered once. `chats` of `Database` is the refinement mapping:
  the rows `getChatMessages` selects for the contact of each peer.
* **Identity**: `startNode` up to the first PING, of processes on machines of their own or
  in one directory, which start and crash any number of times. The file is read up to
  three times in a start and written in two steps (emptied, then written), each a step
  of the model; an open, a bind and a write may fail. What happens to a torn file
  depends on where it is parsed: the process ends, except inside the try block of
  `initNodeId`. The digest is a function of the port only, because the
  address hashed is the wildcard the socket is bound to.
* **Chat**: the UI thread and the node's thread, each with a FIFO of posted events.
  Clicks and datagrams happen between any two events: a busy window system hands
  over several clicks before posted events run. `PeerOf` is
  `bitsetToHex(hexToBitset(_))`, which folds the spellings of an id together:
  a chat opened in lower case sends to the peer but finds no rows. The name may be
  empty (`Main.qml:122`). A fetch may fail and then answers with an empty list;
  `read_failed` says of which table the last one did.
* **HexCodec**: the two functions of `utils.cpp`, `hexToBitset` as a recursion over the
  rounds of its loop (every character shifts, also one that is no digit). `MCChat` takes
  `PeerOf` from it and assumes, which TLC evaluates, that they agree with the closed form
  `HexValue` and that ids survive being written and read (`RoundTrip`): all ids of two
  digits, all strings of up to three characters of each kind.

`MC...` modules give the constants values. A definition named `X_Slip` is a seeded
fault: what a plausible slip would make of definition `X` (a dropped guard, a
missing reset). Nothing uses it but the list `mutants`, which says which property
breaks when `X` is replaced by it; it shows that the property can fail.

What the modules leave out of the code they model: `std::unordered_map` may rehash between
`map_it` being found and erased (`node.cpp:53-56`), which the standard leaves
undefined; the usual libraries erase by node, and so does the model. A
completed task without map entries is destroyed in the code and stays, inert, in
the model. `findValue` is called once per node and never while an earlier
search runs. RPC ids are four random bytes; the model assumes they never collide.

## Runs

| Run | Bounds | Shows |
|---|---|---|
| `routing_table` | 4-bit ids, 8 peers, one at 2 addresses, buckets of 2 | table limits, overflow, duplicates, how good `findNode` and `findKNodes` are, and that a full bucket freezes its answers, even to an outdated address |
| `lookup` | 3-bit ids, 7 peers, 2 holders, K = 3, α = 2 | bookkeeping, honest result, termination, refinement of `LookupSpec` |
| `network` | bootstrap node + 2, K = 2, α = 2, 4 scenarios | tasks match the map, replies come from the peer asked, a bootstrap is mutual, nodes discover each other, a value search fails honestly, every request settles; also across a crash and restart |
| `chat_store` | 2 peers, 2 sends, 3 rows each, fetches of 2 | what an acknowledgement is worth, both ends agree, what is announced can be fetched |
| `database` | 3 texts for one peer, 1 for another, 3 row ids, 1 key with 2 values | constraints, ids keep their meaning, refinement of `ChatBook` |
| `identity` | 2 processes in 1 or 2 directories, or 1 and a test node | one id per node, what becomes of a saved id, ids are equal exactly if ports are |
| `chat` | 2 peers in 3 spellings and the empty name, 2 clicks, 1 send, 1 receive | the view during and after any interleaving; the event loops come to rest |

The largest runs take less than two minutes: `chat` has 711,734 distinct states,
`identity` 828,301, `database` 342,548, `network` 83,254 and `lookup` 25,404.

What the properties except, because the code does not give it:

* `ValueFailureIsHonest` excepts holders whose SELECT failed when they were asked. They
  answer like any node without the value (`node.cpp:171`), and are not asked again.
* `SettledViewIsFresh`, `ReaderSeesActiveChat` and `SenderIsListed` say nothing after a
  fetch that failed: it shows an empty chat or an empty list until the next one.
* `SettledViewIsFresh` says nothing under an empty name either. With it `main.cpp:50`
  fetches no chat when a message arrives, so who sends a text, enters an empty name before
  the queued refresh and writes no more may be left with that chat as it was. To who
  only reads the view is then empty, which `ReaderSeesActiveChat` includes.
* `AckedIsKept` says that what `fromStdString` left of the value is kept. A delayed message
  is seldom UTF-8, so this is seldom what was sent.
* `AnnouncedIsFetched` is about chats within the limit; past it see `last_is_fetched`.
* `SavedIdSurvives`: where several messengers share `conf.json`, one that read it before
  there was an id still empties it; no other id takes the place of the saved one as long
  as their sockets bind. Alone with its file a node never loses its id.
* `OneIdentity` and `IdIsPort` say nothing of a node whose `conf.json` did not open, which
  may join with id 0.

Four further runs are expected to find a violation. Each states what a comment
says and the code does not do:

| Run | The comment | What happens |
|---|---|---|
| `chat_text_is_saved` | `node.cpp:398` "if it's normal message" | a text that parses as protobuf ("hi" does) is not saved, and if it is sent the receiver files it as a delayed message (in the trace it is not sent: the peer is unknown) |
| `last_is_fetched` | `node.cpp:503` "Get last 100 msgs" | the query returns the first ones |
| `machines_differ` | `node.cpp:285` "Generating id by ip:port" | the ip hashed is the wildcard address: all messengers get the id of port 1337 |
| `active_chat_is_shown` | `Main.qml:178` "Active Chat" | the refresh of a sent text can land in the next chat opened; two peers, one spelling each, no failed fetch in the trace |

Three comments about the routing table are loose in a way the passing properties
already tell, so they have no run: `node.cpp:218` "storing each node we got a
message from" (`HeardIsFound` has its exception, a full home bucket; with all
buckets full a node is in none), `routing_table.h:24` "erases a duplicate"
(`NoDuplicateInBucket` is about one bucket: a node of a full bucket is put into the
next one again) and `routing_table.h:26` (the highest bucket holds the furthest
nodes, not the nearest).

**Why the bounds are enough.** The code compares ids only by equality and by
distance, so a few ids in each position of the distance order stand for all. With
K = 2 or 3 buckets fill, overflow and return early; with eight peers a chain of two overflows
and a dropped node occur. Two open requests give every race of answers and timers;
more add no new order between two of them. Three nodes are the least
with which a node hears of another from a third. Two sends cross, repeat and follow
each other; a third row per node lets a datagram be delivered twice. In `Database` a
third caller for a peer comes when its chat has two texts, so that losing a chat
differs from deleting a text, and a third row id is one to be given again. In
`Identity` two processes give every order of uses of a file, and starts and crashes
are not bounded. In `Node` a node lives twice: replies to the first life meet the second. In `Chat` two
clicks and a send are the least that make a stale refresh possible, and one message
arriving beside them meets every state of the queues; the proofs have no bounds. In
`ChatStore` a chat of three rows is one past the limit.

**Fairness.** Timers: `QTimer::singleShot` fires, so an entry that stays in a map
is timed out in the end (`WF` of the timer actions; for `Node` per node, some due
timer fires). Event loops: each thread of `Chat` handles its next event. Nothing
is assumed of the network, the peers or the user. The liveness results need no
more: lookups end because every timer fires, though nobody ever answers.

`CHECK_DEADLOCK FALSE` stands where the system may stop: a finished lookup, and the
chat modules, where nothing happens once the bounds on sends and clicks are reached.

`Database` has symmetry over the texts for one peer; nothing in it is temporal but
action properties. The other runs have no symmetry, or only over the peers of `ChatStore`.

## Proofs

Checked by TLAPS for every value of the constants, from the named assumptions of the
modules: every width of the ids, every `kBucketLimit` and `kParallelismLimit`, every
set of nodes, peers, holders, texts and processes, and every bound on sends, clicks
and rows. `PROJECT.json` lists the theorems. Three kinds of modules hold them: facts
about operators (`LookupTaskProofs`), invariants of a specification (the others), and
in `DatabaseProofs` and `LookupProofs` a refinement too. In each, an inductive
invariant `Inv` implies the properties of the run.

* `LookupTaskProofs` proves what the operators of `NodeId`, `KBuckets` and
  `LookupTask` do; no state is involved.
  `CloserToStrictOrder`: the comparator given to `std::sort` is a strict total order;
  a sort with any other is undefined behaviour. `StoreNodeEffect` and `StoreNodeKeeps`:
  a store changes one bucket, the highest of the distance with room. `FindKNodesEffect`:
  what an answer of `findKNodes` holds, through the early return, the widening, the sort
  and the truncation. The widening is a recursive function, so what it collects is
  shown with a set of rounds at which the claim fails and its least member.
  *The life of a task* then says what a task is at any time (`Sound`: of its value, the
  peers it waits for and the ids it was told) and that a start, an answer with nodes, an
  answer with data and a timer preserve it. `Sound` has `Counting` (the counter,
  `taskFinished` and the open requests agree), `Collecting` (while it waits nothing it
  was told is dropped, and a list longer than K is in order) and `Reporting` (what it
  ends with). The middle one is the strengthening: the result can only be the nearest
  if nothing was lost before the last truncation. Both `Lookup` and `Node` use it.
* `RoutingTableProofs`: `Inv` is the conjunction of `TypeOK`, `BucketsWithinLimit`,
  `OverflowOnlyFromFull`, `NoDuplicateInBucket` and `HeardIsFound`. They need each other:
  that a refresh leaves the length of a bucket alone needs distinct ids in it, that
  overflow stays past full buckets needs that full buckets never change, and that a heard
  node stays found needs both. From it follow one theorem per property, `FreezesAnswers`
  (nobody is forgotten, and the answer of a full home bucket never changes), and with
  `FindKNodesEffect` the two about its answers, `NearestCorrect` and `ShortAnswerCorrect`.
  The first rests on `SameHomeIsNearer`: a node of the home bucket of the target is nearer
  to it than any node at home in another bucket.
* `LookupProofs`: `Inv` is `Sound` of the task, with `pending` as what it waits for and
  `learned` as what it was told, and `Found`, which says whose data it holds. The five
  properties follow, and `Implements`: every step is a step of `LookupSpec` or changes
  nothing there. The fairness of `LookupSpec` is left to TLC.
* `NodeProofs`: `Inv` has seven parts. `Lives`: what is not started holds nothing.
  `Tables`: they hold nodes at their own addresses. `Pings`: a node awaits only the PING
  of its own life to the bootstrap node. `Lookups`: each map entry is of a task of this
  life, and each task is `Sound` with the peers of its entries as those it waits for.
  `Values`: without a timeout a search that found nothing still waits for every holder it
  asked, but for those in `unread`. `BootstrapIsMutual` is a part too. The part that makes
  the others inductive is `Datagrams`, about every datagram ever sent, since each may arrive
  at any later time: `Formed`, it goes between the owner of its RPC and the peer asked;
  `Used`, no new request will have its id; `Replied`, whoever replied knows whom it replied
  to or has crashed since (`SendReply` asks `findNode` for the address, and tables forget
  nothing); `Idle`, the owner of an RPC answers a reply, and so makes a holder that can read
  its database reply without the value, only when it gave the RPC up. `MatchCorrect`
  counts the entries of a task by their peers. For `ProgressCorrect` each step that runs a
  task shows that the task was new or waited for somebody.
* `DiscoverCorrect`, also in `NodeProofs`: `LookupsDiscover` for every number of nodes, by a
  second invariant `Discovery` on top of `Inv`. The argument is about the order in which
  the bootstrap node hears of two nodes n and m. `Pairs`: if its answer to n did not name m
  then its answer to m names n, and n knows m as soon as a reply of n to m's lookup is sent
  (`onReceive` registers whoever asks). Hence, when both lookups are over, one of the two has
  asked the other, and `SelfTasks` says that whoever was asked and is no longer awaited has
  answered and is known. `SelfMessages` gives the start: who looks for its id was
  registered by the bootstrap node before (its PING), and its request is for its own id.
  `Places` (`storeNode` goes below a bucket only if that is full) makes `findKNodes`
  complete: `AnswerIsComplete` says that its answer has every node that is in its home
  bucket, and none twice, in spite of the early return. `MergeDistinct` and its
  companions say that a lookup lists nobody twice, so its truncation to K drops nobody.
  The hypothesis `RoomForAll` bounds the ids: at most K nodes besides one's own, no bucket
  of a joining node is ever full, no two ids at distance 1. Each part is about code: an
  answer holds K nodes; `storeNode` stores a node whose home bucket is full again with each
  message, in a lower bucket, and the copies can push the bootstrap node out of the K a
  lookup starts from; `findKNodes` does not look into bucket 0 from every target.
  `MCRoomForAll` has TLC check the hypothesis on the instance of the runs.
* `DatabaseProofs`: `Inv` is `TypeOK`, `HeldIdsAreRight` and `IdsInSequence`. The last is what
  the first two lack: an id that a caller still holds of a deleted row is in no table, so
  only the sequence of `AUTOINCREMENT`, which no held id exceeds, says that it is not
  given again. `ImplementsBook` is the whole of
  `Spec => ImplementsChatBook`, which has no fairness. It adds `RowsAreOwn`: every row is in the
  chat of its peer and is the one its caller was told of, hence the only one of its
  text. `ChatsAre` then gives the book without the join over ids, and one lemma per
  statement shows the step of the book that it is.
* `ChatStoreProofs`: `Inv` adds to `AckedIsKept` and `BothEndsAgree` `Addressed` (a
  datagram goes to an end of its RPC), `ReplyIsKept` (a reply on its way has something to
  acknowledge), `SavedBeforeSent` (the sender's row, or its failure, is there before
  anybody can receive the text) and `AnnouncedIsSaved` (an announced row is in the table
  and its sender known), from which `AnnouncedIsFetched` follows: of a chat of at most
  `Limit` rows every row has fewer than `Limit` before it.
* `IdentityProofs`: `Inv` adds to `TypeOK` and `OneIdentity` the parts `Shape` (processes use the
  file of their directory, and write only ids), `OwnFile` (how far a start got tells what is
  in a file nobody else uses; it is only emptied when it held no id) and `IdsOfPort`
  (every id on its way is that of the port, where no bind failed). `SavedIdCorrect` has two
  halves: where a node has the file to itself `OwnFile` says that nobody about to write finds
  an id in it, and where it is shared (`SharedIdStep`) `IdsOfPort` says that whoever writes
  an id writes the same one.
* `ChatProofs`: `Inv` says what the queues mean. `Types`: what is posted names chats that
  were opened, and lists that were once in the tables. `Fresh`: an opened chat is
  `Coming` (it is asked for after the last text to be saved, or its answer is the last on its
  way, or it is shown, or the last fetch failed), or an event is queued that will ask for one,
  or the name is empty. `Current`: to a user who
  only reads it is the current chat. `AllListed`: the same of the list of contacts.
  *The spellings of an id* are there too, for every width in whole digits and texts of every
  length: `CodecCorrect` (written and read again an id is the same; what the loop reads is
  `HexValue`, because no two recursions with one start differ: at the least round where they
  would they do not) and `SpellingsFold`, which shows of the code what `ChatAssumption`
  takes for granted of `PeerOf`.

Assumptions worth knowing: the lists a lookup starts with have at most K nodes, which
`FindKNodesEffect` proves of `findKNodes`; addresses are finitely many; in `Node` a node's address
is its id; all messengers have one port, the 1337 of `Messenger/app/main.cpp:20`.

Six definitions have the form they have because the provers must expand them. `NearestFirst`
ranks each entry by counting those before it (`NearestFirstSorts` proves it sorted and
complete) and the rows of `Chat` are kept per peer, where `SortSeq` and `SelectSeq`, which
are built into the prover, cannot be expanded. `StoreNodes` is a fold, which `StoresInOrder`
unfolds one store at a time; `hexToBitset` is a recursive function and `Nibble` names the four
weights, since powers are nothing to the provers. `RunTask` writes out the function that `:>` and
`@@` would give.

Every invariant and action property of a passing run is stated by a theorem. Only
model-checked is what needs fairness, which the prover cannot do: `RequestsSettle`,
`EventsSettle`, and that a lookup ends (the `WF` of `ImplementsLookup`). Where ids are crowded
(`RoomForAll` fails) `LookupsDiscover` is not claimed, neither by the run nor by the proof.

## Not modelled, and why

* `MessageWrapper` and `MessageBuilder::build`: dead code, no datagram is framed.
  `getExpiredKeys` and `hasValue` only read and have no caller either.
* Quitting: `aboutToQuit` ends the node's event loop without handling what is posted to
  it, and `main` does not wait. Of the text that is lost the model has the outcome
  (a `sendStore` that saves nothing), not the exit.
* `my_peer_id_`: `onMyIdReceived` sets it to an id that does not change once
  `startNode` has run, which is before the first event of the node's thread.
* Statements of SQLite are atomic and durable; its locks and the errors of the disk show
  as calls that fail, each in the module about its effect: saves in `ChatStore`, `Database`
  and `Chat`, the SELECT of `getValues` in `Node` and `Lookup`, those of the two fetches in
  `Chat`. When the `getContactById` of a save fails the upsert returns the id there is, so
  that outcome is one of those that saving has. `fetchMessages` of `ChatStore` is the answer
  of a fetch that does not fail.
* The bootstrap node is pinged once, without retry, and a message to an unknown
  peer is saved and never sent. Nothing in the repository says otherwise, so
  there is nothing to check; the models behave the same way.
* Repetition: UDP may deliver a STORE twice, which saves it twice. Same.
* Layout, logging, wording; datagrams from no `Node`. One that does not parse is dropped
  (`node.cpp:227`). One that parses with a `from_user` that is no bit string throws at
  `node.cpp:219`, outside the try block of `processMessage`; no node sends such a one.

## Plan

Done: the table, the lookups, the network with crashes and restarts, the STORE RPC, the
database, the identity, the two threads, the hex codec; and the proofs of every safety
and action property of the passing runs. Left: composing `ChatStore` with the table of
`Node`, so that `known` and `no_room` are the answers of `findNode` and not a choice.
