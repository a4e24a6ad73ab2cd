----------------------------- MODULE Database -----------------------------
(***************************************************************************)
(* The three SQLite tables of DBController (db_controller.cpp) and every   *)
(* call that changes them.  The tables outlive the process, and processes  *)
(* started in one directory with one port share the file, so each SQL      *)
(* statement is a step of its own.  A text is saved as Node does it        *)
(* (sendStore and the STORE handler, node.cpp): getContactById,            *)
(* addOrUpdateContact and addMessage; whoever saved it may then use its    *)
(* message id.  Any statement may fail (the disk, a lock of another        *)
(* process), and a caller may stop for good after any of them; where the   *)
(* caller learns nothing from that it is a stuttering step.                *)
(*                                                                         *)
(* Left out: the columns that only describe (alias, address, dates), and   *)
(* the order of the rows of a chat, which is in module ChatStore.          *)
(***************************************************************************)
EXTENDS Naturals, FiniteSets, Functions

CONSTANTS
    Text,              \* the texts saved, each by a caller of its own
    PeerOf,            \* the peerId each belongs to
    Status,            \* values of column "status"
    Key, Value,        \* of storeValue
    fromStdString,     \* QString::fromStdString: bytes that are not UTF-8 are lost
    MaxId              \* bound: row ids of Contacts and of Messages

None == 0              \* no id: -1 in the code

ASSUME DatabaseAssumption ==
    /\ DOMAIN PeerOf = Text /\ 0 \in Status /\ MaxId \in Nat
    /\ DOMAIN fromStdString = Value

VARIABLES
    contacts,          \* table Contacts
    messages,          \* table Messages
    kademlia_data,     \* table KademliaData
    last_id,           \* sqlite_sequence: the last id of each AUTOINCREMENT
    pc,                \* how far the caller that saves a text got
    contact_id,        \* the id it got for the contact
    message_id         \* what its addMessage returned

rows == <<contacts, messages, last_id>>
caller == <<pc, contact_id, message_id>>
vars == <<rows, kademlia_data, caller>>

Contact == [id : 1 .. MaxId, peerId : Range(PeerOf)]
Message == [messageId : 1 .. MaxId, chatId : 1 .. MaxId, text : Text, status : Status]

Init ==
    /\ contacts = {} /\ messages = {} /\ kademlia_data = {}
    /\ last_id = [contact |-> 0, message |-> 0]
    /\ pc = [t \in Text |-> "start"]
    /\ contact_id = [t \in Text |-> None]
    /\ message_id = [t \in Text |-> None]

NewIds_Reused(last, used) == (1 .. MaxId) \ used

\* AUTOINCREMENT: an id is larger than every one the table ever had.
NewIds(last, used) == last + 1 .. MaxId

GoTo(t, step) == pc' = [pc EXCEPT ![t] = step]

\* The contact id getContactById or the SELECT of addOrUpdateContact finds.
Lookup(t, found, missing) ==
    \/ \E c \in contacts :
        /\ c.peerId = PeerOf[t]
        /\ contact_id' = [contact_id EXCEPT ![t] = c.id]
        /\ GoTo(t, found)
    \/ GoTo(t, missing) /\ UNCHANGED contact_id

-----------------------------------------------------------------------------
\* A SELECT that fails looks like one that finds nothing.
getContactById(t) ==
    /\ pc[t] = "start"
    /\ Lookup(t, "has_contact", "no_contact")
    /\ UNCHANGED <<rows, kademlia_data, message_id>>

SamePeer(c, t) == c.peerId = PeerOf[t]

Upsert_Replaces(t) ==
    \E id \in NewIds(last_id.contact, {c.id : c \in contacts}) :
        LET replaced == {c \in contacts : SamePeer(c, t)}
        IN  /\ contacts' = (contacts \ replaced) \cup {[id |-> id, peerId |-> PeerOf[t]]}
            /\ messages' = {m \in messages : \A c \in replaced : c.id # m.chatId}
            /\ last_id' = [last_id EXCEPT !.contact = id]

\* ON CONFLICT(peerId) DO UPDATE keeps the row and its id.
Upsert(t) ==
    IF \E c \in contacts : SamePeer(c, t) THEN UNCHANGED rows
    ELSE \E id \in NewIds(last_id.contact, {c.id : c \in contacts}) :
            /\ contacts' = contacts \cup {[id |-> id, peerId |-> PeerOf[t]]}
            /\ last_id' = [last_id EXCEPT !.contact = id]
            /\ UNCHANGED messages

\* addOrUpdateContact: the INSERT, and then a SELECT for the id.
addOrUpdateContact(t) ==
    /\ \/ pc[t] = "no_contact" /\ Upsert(t) /\ GoTo(t, "upserted") /\ UNCHANGED contact_id
       \/ pc[t] = "no_contact" /\ GoTo(t, "not_saved") /\ UNCHANGED <<rows, contact_id>>
       \/ pc[t] = "upserted" /\ Lookup(t, "has_contact", "not_saved") /\ UNCHANGED rows
    /\ UNCHANGED <<kademlia_data, message_id>>

ForeignKeyHolds_Off(chatId) == TRUE

\* FOREIGN KEY("chatId"), which PRAGMA foreign_keys = ON enforces.
ForeignKeyHolds(chatId) == \E c \in contacts : c.id = chatId

addMessage(t) ==
    /\ pc[t] = "has_contact"
    /\ \/ /\ ForeignKeyHolds(contact_id[t])
          /\ \E id \in NewIds(last_id.message, {m.messageId : m \in messages}) :
                /\ messages' = messages \cup
                       {[messageId |-> id, chatId |-> contact_id[t], text |-> t, status |-> 0]}
                /\ last_id' = [last_id EXCEPT !.message = id]
                /\ message_id' = [message_id EXCEPT ![t] = id]
          /\ GoTo(t, "saved")
       \/ GoTo(t, "not_saved") /\ UNCHANGED <<messages, last_id, message_id>>
    /\ UNCHANGED <<contacts, kademlia_data, contact_id>>

updateMessageStatus(t, status) ==
    /\ pc[t] = "saved"
    /\ messages' = {IF m.messageId = message_id[t] THEN [m EXCEPT !.status = status] ELSE m :
                       m \in messages}
    /\ UNCHANGED <<contacts, last_id, kademlia_data, caller>>

deleteMessage(t) ==
    /\ pc[t] = "saved"
    /\ messages' = {m \in messages : m.messageId # message_id[t]}
    /\ UNCHANGED <<contacts, last_id, kademlia_data, caller>>

\* ON DELETE CASCADE takes the messages of the contact along.
deleteContact(id) ==
    /\ contacts' = {c \in contacts : c.id # id}
    /\ messages' = {m \in messages : m.chatId # id}
    /\ UNCHANGED <<last_id, kademlia_data, caller>>

\* INSERT OR IGNORE; no column is UNIQUE, so nothing is ever ignored.  Rows that
\* differ only in id and date are one here.  A key is written in 0s and 1s.
storeValue(key, value) ==
    /\ kademlia_data' = kademlia_data \cup {<<key, fromStdString[value]>>}
    /\ UNCHANGED <<rows, caller>>

removeValue(key) ==
    /\ kademlia_data' = {d \in kademlia_data : d[1] # key}
    /\ UNCHANGED <<rows, caller>>

Next ==
    \/ \E t \in Text :
        \/ getContactById(t) \/ addOrUpdateContact(t) \/ addMessage(t) \/ deleteMessage(t)
        \/ \E status \in Status : updateMessageStatus(t, status)
    \/ \E id \in 1 .. MaxId : deleteContact(id)
    \/ \E key \in Key : removeValue(key) \/ \E value \in Value : storeValue(key, value)

Spec == Init /\ [][Next]_vars

-----------------------------------------------------------------------------
\* getChatMessages of the contact of a peer, as the entries of its chat.
chats ==
    [p \in {c.peerId : c \in contacts} |->
        {[text |-> m.text, status |-> m.status] :
            m \in {r \in messages : [id |-> r.chatId, peerId |-> p] \in contacts}}]

(***************************************************************************)
(* Properties.                                                             *)
(***************************************************************************)

\* The tables keep their constraints: primary keys, UNIQUE peerIds, and no
\* message without its contact.
TypeOK ==
    /\ contacts \subseteq Contact /\ messages \subseteq Message
    /\ \A c, d \in contacts : c.id = d.id \/ c.peerId = d.peerId => c = d
    /\ \A m, r \in messages : m.messageId = r.messageId => m = r
    /\ \A m \in messages : \E c \in contacts : c.id = m.chatId
    /\ kademlia_data \subseteq Key \X Range(fromStdString)
    /\ last_id \in [contact : 0 .. MaxId, message : 0 .. MaxId]
    /\ contact_id \in [Text -> 0 .. MaxId] /\ message_id \in [Text -> 0 .. MaxId]
    /\ pc \in [Text -> {"start", "no_contact", "upserted", "has_contact", "saved", "not_saved"}]

(***************************************************************************)
(* An id that a caller still holds never comes to mean something else,     *)
(* whatever others delete and add in the meantime: it is that of the peer  *)
(* or of the text it was given for, or of nothing.                         *)
(***************************************************************************)
HeldIdsAreRight ==
    \A t \in Text :
        /\ \A c \in contacts : c.id = contact_id[t] => c.peerId = PeerOf[t]
        /\ \A m \in messages : m.messageId = message_id[t] => m.text = t

(***************************************************************************)
(* Seen without row ids, the tables are a ChatBook: calls of two callers   *)
(* for one peer, in any order and with any failures, give one chat, and    *)
(* saving a message never loses another, moves it to another chat or       *)
(* brings back a deleted one.                                              *)
(***************************************************************************)
Book == INSTANCE ChatBook
ImplementsChatBook == Book!Spec
=============================================================================
