----------------------------- MODULE ChatStore -----------------------------
(***************************************************************************)
(* Chat messages as STORE RPCs: Node::sendStore and the STORE handler of   *)
(* node.cpp with the tables of DBController (db_controller.cpp) they write *)
(* and Node::fetchMessagesFromDb reads.                                    *)
(*                                                                         *)
(* The routing table is the set of nodes findNode answers.  A peer is not  *)
(* added when its home bucket is full, which it then remains (module       *)
(* RoutingTable): `no_room' names those peers, and the node itself, which  *)
(* has no bucket.  A database call may fail.  An RPC is named by its place *)
(* in `sent'.                                                              *)
(***************************************************************************)
EXTENDS Naturals, Sequences, FiniteSets, SequencesExt

CONSTANTS
    Node,              \* the nodes
    Text,              \* the values sent
    Typed,             \* those a user types; the others are DelayedChatMessages
    Parseable,         \* those that DelayedChatMessage::ParseFromString accepts
    fromStdString,     \* QString::fromStdString: bytes that are not UTF-8 are lost
    Limit,             \* messages fetchMessagesFromDb asks for (100 in the code)
    MaxSends,          \* bound: calls of sendStore
    MaxStored          \* bound: rows of a node past which no STORE is delivered

\* A typed text is UTF-8; a DelayedChatMessage with the time of day in it is not.
ASSUME ChatStoreAssumption ==
    /\ Typed \cup Parseable = Text
    /\ DOMAIN fromStdString = Text /\ \A text \in Typed : fromStdString[text] = text
    /\ Limit \in Nat \ {0} /\ MaxSends \in Nat /\ MaxStored \in Nat

VARIABLES
    no_room,           \* the nodes storeNode has no place for, per node
    known,             \* the nodes findNode answers, per node
    contacts,          \* table Contacts: the peerIds, per node
    messages,          \* table Messages in the order of messageId, per node
    kademlia_data,     \* table KademliaData, per node
    requests_map,      \* requests_map_ of each node
    net,               \* every datagram ever sent
    sent,              \* history: the calls of sendStore
    acked,             \* history: the RPCs whose reply came in time
    received,          \* history: the RPCs receivedMessage was emitted for
    failures           \* history: <<node, rpc>> when the database failed

db == <<contacts, messages, kademlia_data>>
vars == <<no_room, known, db, requests_map, net, sent, acked, received, failures>>

Message == [peer : Node, isOutgoing : BOOLEAN, data : Range(fromStdString)]

Init ==
    /\ no_room \in [Node -> SUBSET Node]
    /\ known \in [Node -> SUBSET Node]
    /\ \A n \in Node : n \in no_room[n] /\ known[n] \cap no_room[n] = {}
    /\ contacts = [n \in Node |-> {}]
    /\ messages = [n \in Node |-> << >>]
    /\ kademlia_data = [n \in Node |-> << >>]
    /\ requests_map = [n \in Node |-> {}]
    /\ net = {}
    /\ sent = << >>
    /\ acked = {}
    /\ received = {}
    /\ failures = {}

(***************************************************************************)
(* getContactById, addOrUpdateContact when there is no such contact, and   *)
(* addMessage.  Without a contact id no message is added.  (A contact that *)
(* is inserted and then not read back is the outcome "no_message".)        *)
(* The name of a seeded fault is that of the definition a plausible slip   *)
(* would turn into it, an underscore, and the slip.                        *)
(***************************************************************************)
Outcome == {"no_contact", "no_message", "saved"}

SaveMessage_NoContactCheck(n, rpc, message, outcome) ==
    /\ contacts' = [contacts EXCEPT ![n] =
           IF outcome = "no_contact" THEN @ ELSE @ \cup {message.peer}]
    /\ messages' = [messages EXCEPT ![n] = Append(@, message)]
    /\ failures' = IF outcome = "saved" THEN failures ELSE failures \cup {<<n, rpc>>}

SaveMessage(n, rpc, message, outcome) ==
    /\ outcome = "no_contact" => message.peer \notin contacts[n]
    /\ contacts' = [contacts EXCEPT ![n] =
           IF outcome = "no_contact" THEN @ ELSE @ \cup {message.peer}]
    /\ messages' = [messages EXCEPT ![n] =
           IF outcome = "saved" THEN Append(@, message) ELSE @]
    /\ failures' = IF outcome = "saved" THEN failures ELSE failures \cup {<<n, rpc>>}

Outgoing(to, value) == [peer |-> to, isOutgoing |-> TRUE, data |-> fromStdString[value]]

SaveOutgoing_UnsentOnly(n, rpc, to, value) ==
    IF value \in Parseable \/ to \in known[n] THEN UNCHANGED <<db, failures>>
    ELSE /\ \E outcome \in Outcome : SaveMessage(n, rpc, Outgoing(to, value), outcome)
         /\ UNCHANGED kademlia_data

\* A value that parses as a DelayedChatMessage is not saved by its sender.
SaveOutgoing(n, rpc, to, value) ==
    IF value \in Parseable THEN UNCHANGED <<db, failures>>
    ELSE /\ \E outcome \in Outcome : SaveMessage(n, rpc, Outgoing(to, value), outcome)
         /\ UNCHANGED kademlia_data

\* sendStore: save, then send once if findNode knows the peer, whatever became
\* of the saving.
sendStore(n, to, value) ==
    LET rpc == Len(sent) + 1
    IN  /\ Len(sent) < MaxSends                        \* bound
        /\ sent' = Append(sent, [from |-> n, to |-> to, value |-> value])
        /\ SaveOutgoing(n, rpc, to, value)
        /\ IF to \in known[n]
           THEN /\ requests_map' = [requests_map EXCEPT ![n] = @ \cup {rpc}]
                /\ net' = net \cup {[rpc |-> rpc, to |-> to, is_reply |-> FALSE]}
           ELSE UNCHANGED <<requests_map, net>>
        /\ UNCHANGED <<no_room, known, acked, received>>

From(m) == IF m.is_reply THEN sent[m.rpc].to ELSE sent[m.rpc].from

\* onReceive stores the sender of every datagram, if its home bucket has room.
StoreSender(m) ==
    /\ known' = [known EXCEPT ![m.to] = @ \cup ({From(m)} \ no_room[m.to])]
    /\ UNCHANGED no_room

Reply(m) == [rpc |-> m.rpc, to |-> From(m), is_reply |-> TRUE]

\* The STORE handler: nothing is done for a sender that findNode does not know.
onUnknownStore(m) ==
    /\ ~ m.is_reply
    /\ StoreSender(m)
    /\ From(m) \notin known'[m.to]
    /\ UNCHANGED <<db, requests_map, net, sent, acked, received, failures>>

Incoming(rpc) ==
    [peer |-> sent[rpc].from, isOutgoing |-> FALSE, data |-> fromStdString[sent[rpc].value]]

onChatStore_AnnouncesAlways(m) ==
    /\ ~ m.is_reply
    /\ sent[m.rpc].value \notin Parseable
    /\ StoreSender(m)
    /\ From(m) \in known'[m.to]
    /\ \E outcome \in Outcome : SaveMessage(m.to, m.rpc, Incoming(m.rpc), outcome)
    /\ received' = received \cup {m.rpc}
    /\ net' = net \cup {Reply(m)}
    /\ UNCHANGED <<kademlia_data, requests_map, sent, acked>>

\* A value that does not parse as a DelayedChatMessage is a chat message: it is
\* saved, announced if that worked, and acknowledged in any case.
onChatStore(m) ==
    /\ ~ m.is_reply
    /\ sent[m.rpc].value \notin Parseable
    /\ StoreSender(m)
    /\ From(m) \in known'[m.to]
    /\ \E outcome \in Outcome :
        /\ SaveMessage(m.to, m.rpc, Incoming(m.rpc), outcome)
        /\ received' = IF outcome = "saved" THEN received \cup {m.rpc} ELSE received
    /\ net' = net \cup {Reply(m)}
    /\ UNCHANGED <<kademlia_data, requests_map, sent, acked>>

\* storeValue: what fromStdString makes of the value.
StoredRow(rpc) == [key |-> sent[rpc].to, value |-> fromStdString[sent[rpc].value]]

StoreValue(m) ==
    kademlia_data' = [kademlia_data EXCEPT ![m.to] = Append(@, StoredRow(m.rpc))]

onDelayedStore_AcksFailure(m) ==
    /\ ~ m.is_reply
    /\ sent[m.rpc].value \in Parseable
    /\ StoreSender(m)
    /\ From(m) \in known'[m.to]
    /\ \/ StoreValue(m) /\ UNCHANGED failures
       \/ failures' = failures \cup {<<m.to, m.rpc>>} /\ UNCHANGED kademlia_data
    /\ net' = net \cup {Reply(m)}
    /\ UNCHANGED <<contacts, messages, requests_map, sent, acked, received>>

\* A value that parses is kept for its key as fromStdString leaves it; when that
\* fails there is no reply.
onDelayedStore(m) ==
    /\ ~ m.is_reply
    /\ sent[m.rpc].value \in Parseable
    /\ StoreSender(m)
    /\ From(m) \in known'[m.to]
    /\ \/ StoreValue(m) /\ net' = net \cup {Reply(m)} /\ UNCHANGED failures
       \/ failures' = failures \cup {<<m.to, m.rpc>>} /\ UNCHANGED <<kademlia_data, net>>
    /\ UNCHANGED <<contacts, messages, requests_map, sent, acked, received>>

\* A reply ends its request.
onStoreReply(m) ==
    /\ m.is_reply
    /\ StoreSender(m)
    /\ requests_map' = [requests_map EXCEPT ![m.to] = @ \ {m.rpc}]
    /\ acked' = IF m.rpc \in requests_map[m.to] THEN acked \cup {m.rpc} ELSE acked
    /\ UNCHANGED <<db, net, sent, received, failures>>

\* The timer of pushRequestToMap.
requestTimedOut(n, rpc) ==
    /\ rpc \in requests_map[n]
    /\ requests_map' = [requests_map EXCEPT ![n] = @ \ {rpc}]
    /\ UNCHANGED <<no_room, known, db, net, sent, acked, received, failures>>

\* UDP delivers a datagram any number of times, in any order, or never.
Deliver(m) == onUnknownStore(m) \/ onChatStore(m) \/ onDelayedStore(m) \/ onStoreReply(m)

Next ==
    \/ \E n, to \in Node, value \in Text : sendStore(n, to, value)
    \/ \E m \in net :
        /\ m.is_reply \/ Len(messages[m.to]) + Len(kademlia_data[m.to]) < MaxStored
        /\ Deliver(m)
    \/ \E n \in Node : \E rpc \in requests_map[n] : requestTimedOut(n, rpc)

Spec == Init /\ [][Next]_vars

-----------------------------------------------------------------------------
\* What the tables say.

Holds(n, message) == \E i \in DOMAIN messages[n] : messages[n][i] = message

\* The rows of a peer's chat.
ChatOf(n, peer) == {i \in DOMAIN messages[n] : messages[n][i].peer = peer}

\* The rows fetchMessagesFromDb answers, when no SELECT fails: ORDER BY timestamp
\* ASC LIMIT.  Timestamps grow with messageId: the clock is not set back.
fetchMessages(n, peer) ==
    IF peer \notin contacts[n] THEN {}
    ELSE {i \in ChatOf(n, peer) : Cardinality({j \in ChatOf(n, peer) : j < i}) < Limit}

(***************************************************************************)
(* Properties.                                                             *)
(***************************************************************************)

\* The tables hold records of their columns, and every chat row has its contact,
\* which FOREIGN KEY("chatId") asks for.
TypeOK ==
    /\ known \in [Node -> SUBSET Node]
    /\ contacts \in [Node -> SUBSET Node]
    /\ requests_map \in [Node -> SUBSET DOMAIN sent]
    /\ acked \cup received \subseteq DOMAIN sent
    /\ \A n \in Node :
        /\ \A i \in DOMAIN messages[n] :
               messages[n][i] \in Message /\ messages[n][i].peer \in contacts[n]
        /\ \A i \in DOMAIN kademlia_data[n] :
               kademlia_data[n][i] \in [key : Node, value : Range(fromStdString)]

\* What an acknowledgement before the timeout is worth: what fromStdString left
\* of the value is in the receiver's tables, unless saving a chat message there
\* failed, which alone is acknowledged all the same.  It is what was sent only
\* if that is UTF-8: a chat message always, a delayed one seldom.
AckedIsKept ==
    \A rpc \in acked :
        LET s == sent[rpc]
        IN  IF s.value \in Parseable
            THEN \E i \in DOMAIN kademlia_data[s.to] : kademlia_data[s.to][i] = StoredRow(rpc)
            ELSE Holds(s.to, Incoming(rpc)) \/ <<s.to, rpc>> \in failures

\* The two ends of a chat agree: an incoming message at n from a peer is an
\* outgoing one at that peer, unless saving it there failed.
BothEndsAgree ==
    \A n \in Node : \A i \in DOMAIN messages[n] :
        ~ messages[n][i].isOutgoing =>
            \E rpc \in DOMAIN sent :
                /\ sent[rpc].to = n
                /\ Incoming(rpc) = messages[n][i]
                /\ \/ Holds(sent[rpc].from, Outgoing(sent[rpc].to, sent[rpc].value))
                   \/ <<sent[rpc].from, rpc>> \in failures

\* The user is told of a message (receivedMessage) only once fetching the chat
\* shows it, as long as the chat is not longer than the limit (past it, see
\* LastIsFetched), and only of one that a peer of the routing table sent.
AnnouncedIsFetched ==
    \A rpc \in received :
        LET s == sent[rpc]
        IN  /\ s.from \in known[s.to]
            /\ Cardinality(ChatOf(s.to, s.from)) <= Limit =>
                   \E i \in fetchMessages(s.to, s.from) : messages[s.to][i] = Incoming(rpc)

(***************************************************************************)
(* What comments say of the code, and it does not do.                      *)
(***************************************************************************)

\* node.cpp:398 "if it's normal message": what a user types is a normal message
\* and is saved before it is sent.  A text whose bytes are a valid protobuf
\* message, as those of "hi", is not.
ChatTextIsSaved ==
    \A rpc \in DOMAIN sent :
        sent[rpc].value \in Typed =>
            \/ Holds(sent[rpc].from, Outgoing(sent[rpc].to, sent[rpc].value))
            \/ <<sent[rpc].from, rpc>> \in failures

\* node.cpp:503 "Get last 100 msgs": the last message of a chat is fetched.
LastIsFetched ==
    \A n, peer \in Node :
        ChatOf(n, peer) # {} =>
            \E i \in fetchMessages(n, peer) : \A j \in ChatOf(n, peer) : j <= i
============================================================================
