------------------------------- MODULE Chat -------------------------------
(***************************************************************************)
(* The two threads of the messenger: the UI thread with ChatController     *)
(* (chat_controller.cpp) and the node's thread, whose slots read and write *)
(* its database (node.cpp).  Every connection of app/main.cpp between them *)
(* crosses threads, so a signal is an event posted to the other thread's   *)
(* queue, and Qt keeps the order of the events posted to a thread.  Clicks *)
(* and datagrams come from outside and are not in that order.              *)
(*                                                                         *)
(* A chat has less than the 100 messages that one fetch returns.  my_peer_ *)
(* id_ is set once and left out.                                           *)
(***************************************************************************)
EXTENDS Naturals, Sequences, FiniteSets, SequencesExt

CONSTANTS
    Peer,              \* the other nodes, named by bitsetToHex of their id
    Name,              \* what a user may enter as a peer id
    NoPeer,            \* the empty text: nothing entered, or no chat yet
    PeerOf,            \* bitsetToHex(hexToBitset(name)): spellings of one id
    MaxClicks,         \* bound: chats selected
    MaxWrites,         \* bound: messages sent by the user
    MaxReceives        \* bound: messages received

ASSUME ChatAssumption ==
    /\ NoPeer \in Name /\ Peer \subseteq Name \ {NoPeer}
    /\ PeerOf \in [Name \ {NoPeer} -> Peer] /\ \A p \in Peer : PeerOf[p] = p
    /\ MaxClicks \in Nat /\ MaxWrites \in Nat /\ MaxReceives \in Nat

VARIABLES
    db_contacts,       \* node: table Contacts
    db_messages,       \* node: table Messages, the rows of each peer in order
    to_node,           \* the node thread's event queue
    current_peer_id,   \* UI: current_peer_id_
    contacts,          \* UI: contacts_
    current_messages,  \* UI: current_messages_
    to_ui,             \* the UI thread's event queue
    read_failed,       \* history: "contacts", "messages": its last fetch failed
    clicks,            \* history: the chats selected
    wrote,             \* history: messages the user sent
    came               \* history: messages received

db == <<db_contacts, db_messages>>
ui == <<current_peer_id, contacts, current_messages>>
vars == <<db, to_node, ui, to_ui, read_failed, clicks, wrote, came>>

Init ==
    /\ db_contacts \in SUBSET Peer           \* of an earlier session
    /\ db_messages = [p \in Peer |-> << >>]
    /\ to_node = <<[event |-> "requestContacts"]>>  \* Component.onCompleted
    /\ current_peer_id = NoPeer
    /\ contacts = {}
    /\ current_messages = << >>
    /\ to_ui = << >> /\ read_failed = {}
    /\ clicks = << >> /\ wrote = 0 /\ came = 0

requestMessages(name) == [event |-> "requestMessages", peer |-> name]

-----------------------------------------------------------------------------
\* What the user does.

\* A contact is clicked, or a text accepted under "Start new chat" (Main.qml:122),
\* which may be empty.
selectChat(name) ==
    /\ Len(clicks) < MaxClicks                                     \* bound
    /\ clicks' = Append(clicks, name)
    /\ current_peer_id' = name
    /\ to_node' = Append(to_node, requestMessages(name))
    /\ UNCHANGED <<db, contacts, current_messages, to_ui, read_failed, wrote, came>>

sendMessage_RefreshFirst ==
    /\ wrote < MaxWrites
    /\ current_peer_id # NoPeer
    /\ wrote' = wrote + 1
    /\ to_node' = to_node \o <<requestMessages(current_peer_id),
                    [event |-> "requestSendMessage", peer |-> PeerOf[current_peer_id]]>>
    /\ UNCHANGED <<db, ui, to_ui, read_failed, clicks, came>>

sendMessage_RawName ==
    /\ wrote < MaxWrites
    /\ current_peer_id # NoPeer
    /\ wrote' = wrote + 1
    /\ to_node' = Append(to_node, [event |-> "requestSendMessage", peer |-> current_peer_id])
    /\ to_ui' = Append(to_ui, [event |-> "refresh", peer |-> current_peer_id])
    /\ UNCHANGED <<db, ui, read_failed, clicks, came>>

\* The text is posted to the node, and to the UI's own queue a refresh of the
\* chat that is current now.
sendMessage ==
    /\ wrote < MaxWrites                                         \* bound
    /\ current_peer_id # NoPeer
    /\ wrote' = wrote + 1
    /\ to_node' = Append(to_node, [event |-> "requestSendMessage",
                                   peer |-> PeerOf[current_peer_id]])
    /\ to_ui' = Append(to_ui, [event |-> "refresh", peer |-> current_peer_id])
    /\ UNCHANGED <<db, ui, read_failed, clicks, came>>

-----------------------------------------------------------------------------
\* The node's thread.

Saved(peer, isMine) ==
    /\ db_contacts' = db_contacts \cup {peer}
    /\ db_messages' = [db_messages EXCEPT ![peer] =
                          Append(@, [peer |-> peer, isMine |-> isMine])]

contactsFetched(list) == [event |-> "contactsFetched", list |-> list]

messagesFetched(list) == [event |-> "messagesFetched", list |-> list]

\* The rows of a chat: no contact of that very spelling, no messages.
Fetched(name) == IF name \in Peer THEN db_messages[name] ELSE << >>

\* A SELECT that fails is answered like one that finds nothing.
fetchContactsFromDb ==
    /\ Head(to_node).event = "requestContacts"
    /\ \/ /\ to_ui' = Append(to_ui, contactsFetched(db_contacts))
          /\ read_failed' = read_failed \ {"contacts"}
       \/ /\ to_ui' = Append(to_ui, contactsFetched({}))
          /\ read_failed' = read_failed \cup {"contacts"}
    /\ UNCHANGED db

fetchMessagesFromDb_EveryChat ==
    /\ Head(to_node).event = "requestMessages"
    /\ to_ui' = Append(to_ui, messagesFetched(FlattenSeq(SetToSeq(Range(db_messages)))))
    /\ read_failed' = read_failed \ {"messages"}
    /\ UNCHANGED db

\* Either SELECT may fail, of the contact or of its messages.
fetchMessagesFromDb ==
    /\ Head(to_node).event = "requestMessages"
    /\ \/ /\ to_ui' = Append(to_ui, messagesFetched(Fetched(Head(to_node).peer)))
          /\ read_failed' = read_failed \ {"messages"}
       \/ /\ to_ui' = Append(to_ui, messagesFetched(<< >>))
          /\ read_failed' = read_failed \cup {"messages"}
    /\ UNCHANGED db

\* Saving may fail, with or without a new contact left behind (module ChatStore).
sendStore ==
    /\ Head(to_node).event = "requestSendMessage"
    /\ LET peer == Head(to_node).peer
       IN  \/ Saved(peer, TRUE)
           \/ db_contacts' \in {db_contacts, db_contacts \cup {peer}} /\ UNCHANGED db_messages
    /\ UNCHANGED <<to_ui, read_failed>>

nodeHandles ==
    /\ to_node # << >>
    /\ to_node' = Tail(to_node)
    /\ fetchContactsFromDb \/ fetchMessagesFromDb \/ sendStore
    /\ UNCHANGED <<ui, clicks, wrote, came>>

\* The STORE handler: a message of a peer is saved and announced; one that is
\* not saved may leave a new contact behind.
receiveStore(peer) ==
    /\ came < MaxReceives                                          \* bound
    /\ came' = came + 1
    /\ \/ /\ Saved(peer, FALSE)
          /\ to_ui' = Append(to_ui, [event |-> "receivedMessage"])
       \/ /\ db_contacts' \in {db_contacts, db_contacts \cup {peer}}
          /\ UNCHANGED <<db_messages, to_ui>>
    /\ UNCHANGED <<to_node, ui, read_failed, clicks, wrote>>

-----------------------------------------------------------------------------
\* The UI thread.

onContactsReceived ==
    /\ Head(to_ui).event = "contactsFetched"
    /\ contacts' = Head(to_ui).list
    /\ UNCHANGED <<to_node, current_peer_id, current_messages>>

onMessagesReceived_FetchesAgain ==
    /\ Head(to_ui).event = "messagesFetched"
    /\ current_messages' = Head(to_ui).list
    /\ to_node' = Append(to_node, requestMessages(current_peer_id))
    /\ UNCHANGED <<current_peer_id, contacts>>

onMessagesReceived ==
    /\ Head(to_ui).event = "messagesFetched"
    /\ current_messages' = Head(to_ui).list
    /\ UNCHANGED <<to_node, current_peer_id, contacts>>

onReceivedMessage_NoContacts ==
    /\ Head(to_ui).event = "receivedMessage"
    /\ to_node' = IF current_peer_id = NoPeer THEN to_node
                  ELSE Append(to_node, requestMessages(current_peer_id))
    /\ UNCHANGED ui

onReceivedMessage_NoRefresh ==
    /\ Head(to_ui).event = "receivedMessage"
    /\ to_node' = Append(to_node, [event |-> "requestContacts"])
    /\ UNCHANGED ui

\* receivedMessage: loadContacts, and selectChat of the current chat again.
onReceivedMessage ==
    /\ Head(to_ui).event = "receivedMessage"
    /\ to_node' = Append(to_node, [event |-> "requestContacts"]) \o
                  IF current_peer_id = NoPeer THEN << >>
                  ELSE <<requestMessages(current_peer_id)>>
    /\ UNCHANGED ui

refreshAfterSend ==
    /\ Head(to_ui).event = "refresh"
    /\ to_node' = Append(to_node, requestMessages(Head(to_ui).peer))
    /\ UNCHANGED ui

uiHandles ==
    /\ to_ui # << >>
    /\ to_ui' = Tail(to_ui)
    /\ onContactsReceived \/ onMessagesReceived \/ onReceivedMessage \/ refreshAfterSend
    /\ UNCHANGED <<db, read_failed, clicks, wrote, came>>

-----------------------------------------------------------------------------
Next ==
    \/ \E name \in Name : selectChat(name)
    \/ sendMessage
    \/ \E peer \in Peer : receiveStore(peer)
    \/ nodeHandles
    \/ uiHandles

\* Each thread runs an event loop, so a queued event is handled.
Fairness == WF_vars(nodeHandles) /\ WF_vars(uiHandles)

Spec == Init /\ [][Next]_vars /\ Fairness

-----------------------------------------------------------------------------
\* Every event of one thread has been answered by the other.
Settled == to_node = << >> /\ to_ui = << >>

Opened == Range(clicks)

(***************************************************************************)
(* Properties.                                                             *)
(***************************************************************************)

Row == [peer : Peer, isMine : BOOLEAN]

NodeEvent ==
    [event : {"requestContacts"}] \cup [event : {"requestMessages"}, peer : Name]
        \cup [event : {"requestSendMessage"}, peer : Peer]

UiEvent ==
    [event : {"receivedMessage"}] \cup [event : {"refresh"}, peer : Name \ {NoPeer}]
        \cup [event : {"contactsFetched"}, list : SUBSET db_contacts]
        \cup [event : {"messagesFetched"}, list : Seq(Row)]

\* The queues hold events of their thread, and the UI shows database rows.
TypeOK ==
    /\ db_contacts \subseteq Peer /\ db_messages \in [Peer -> Seq(Row)]
    /\ current_peer_id \in Name
    /\ contacts \subseteq db_contacts
    /\ current_messages \in Seq(Row)
    /\ to_node \in Seq(NodeEvent)
    /\ to_ui \in Seq(UiEvent)
    /\ read_failed \subseteq {"contacts", "messages"}

\* Whatever the order of fetches and messages, the view is at every moment one
\* chat as it was, its messages in order: never two chats mixed.
ViewIsOneChat ==
    current_messages = << >> \/ \E name \in Opened : IsPrefix(current_messages, Fetched(name))

\* No refresh comes too early: once the threads are done with each other and
\* the last fetch did not fail, the view is one opened chat with everything
\* that was saved of it.  The refresh of sendMessage needs no answer from the
\* database for that: it is queued behind the text.  While the name is empty an
\* arriving message fetches no chat (main.cpp:50): who sends a text, enters an
\* empty name before the refresh and writes no more may be left with that chat
\* as it was, and is excepted.
SettledViewIsFresh ==
    Settled /\ "messages" \notin read_failed /\ current_peer_id # NoPeer
        => \E name \in Opened \ {NoPeer} : current_messages = Fetched(name)

\* A user who only reads sees, in the end, the chat named in the header, and an
\* empty view under an empty name, unless the last fetch failed.
ReaderSeesActiveChat ==
    Settled /\ wrote = 0 /\ "messages" \notin read_failed
        => current_messages = Fetched(current_peer_id)

\* Whoever sent a message that was saved is in the list of contacts, unless the
\* last fetch of them failed.
SenderIsListed ==
    Settled /\ "contacts" \notin read_failed
        => \A p \in Peer : \A i \in DOMAIN db_messages[p] :
               ~ db_messages[p][i].isMine => p \in contacts

\* The two threads do not keep each other busy: an event leads to finitely many.
EventsSettle == <>[]Settled

(***************************************************************************)
(* What comments say of the code, and it does not do.                      *)
(***************************************************************************)

\* Main.qml:178 "RIGHT PANEL: Active Chat", under the header "Chatting with: "
\* and the current peer's id: a user who sends a text and opens another chat
\* before the queued refresh runs is left with the first chat under the second
\* one's header, with no failed fetch.
ActiveChatIsShown ==
    Settled /\ "messages" \notin read_failed /\ current_peer_id # NoPeer
        => current_messages = Fetched(current_peer_id)
=============================================================================
