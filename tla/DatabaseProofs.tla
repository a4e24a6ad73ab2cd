-------------------------- MODULE DatabaseProofs --------------------------
(***************************************************************************)
(* The constraints of the tables and the meaning of the ids that callers   *)
(* hold, for every number of texts, peers and row ids.                     *)
(***************************************************************************)
EXTENDS Database, TLAPS

\* No id in a table or in a caller's hands is beyond the sequence of its table:
\* why AUTOINCREMENT never gives an id that somebody still holds.
IdsInSequence ==
    /\ \A c \in contacts : c.id <= last_id.contact
    /\ \A m \in messages : m.messageId <= last_id.message
    /\ \A t \in Text : contact_id[t] <= last_id.contact /\ message_id[t] <= last_id.message

Inv == TypeOK /\ HeldIdsAreRight /\ IdsInSequence

USE DatabaseAssumption DEF DatabaseAssumption, None

\* The types of the fields and values, as the later steps need them.
LEMMA Types ==
    ASSUME Inv
    PROVE  /\ MaxId \in Nat
           /\ last_id.contact \in 0 .. MaxId /\ last_id.message \in 0 .. MaxId
           /\ \A c \in contacts : c.id \in 1 .. MaxId /\ c.peerId \in Range(PeerOf)
           /\ \A m \in messages : m.messageId \in 1 .. MaxId
           /\ \A t \in Text : contact_id[t] \in 0 .. MaxId /\ message_id[t] \in 0 .. MaxId
  <1>1. MaxId \in Nat
    OBVIOUS
  <1>2. \A c \in contacts : c.id \in 1 .. MaxId /\ c.peerId \in Range(PeerOf)
    BY DEF Inv, TypeOK, Contact
  <1>3. \A m \in messages : m.messageId \in 1 .. MaxId
    BY DEF Inv, TypeOK, Message
  <1>4. last_id.contact \in 0 .. MaxId /\ last_id.message \in 0 .. MaxId
    BY DEF Inv, TypeOK
  <1>5. \A t \in Text : contact_id[t] \in 0 .. MaxId /\ message_id[t] \in 0 .. MaxId
    BY DEF Inv, TypeOK
  <1> QED
    BY <1>1, <1>2, <1>3, <1>4, <1>5

\* A caller that finds the contact of its peer gets the id of that peer.
LEMMA LookupStep ==
    ASSUME Inv, NEW t \in Text, NEW found \in {"has_contact"},
           NEW missing \in {"no_contact", "not_saved"},
           Lookup(t, found, missing), UNCHANGED <<rows, kademlia_data, message_id>>
    PROVE  Inv'
  <1>1. /\ pc' \in [Text -> {"start", "no_contact", "upserted", "has_contact", "saved", "not_saved"}]
        /\ \/ contact_id' = contact_id
           \/ \E c \in contacts : /\ c.peerId = PeerOf[t]
                                  /\ contact_id' = [contact_id EXCEPT ![t] = c.id]
    BY DEF Inv, TypeOK, Lookup, GoTo
  <1>2. CASE contact_id' = contact_id
    BY <1>1, <1>2 DEF Inv, TypeOK, HeldIdsAreRight, IdsInSequence, rows
  <1>3. ASSUME NEW c \in contacts, c.peerId = PeerOf[t],
               contact_id' = [contact_id EXCEPT ![t] = c.id]
        PROVE  Inv'
    <2>1. c.id \in 0 .. MaxId /\ contact_id' \in [Text -> 0 .. MaxId]
      BY <1>3, Types DEF Inv, TypeOK
    <2>2. TypeOK'
      BY <1>1, <2>1 DEF Inv, TypeOK, rows
    <2>3. HeldIdsAreRight'
      BY <1>3, <2>1 DEF Inv, TypeOK, HeldIdsAreRight, rows
    <2>4. IdsInSequence'
      BY <1>3, <2>1 DEF Inv, TypeOK, IdsInSequence, rows
    <2> QED
      BY <2>2, <2>3, <2>4 DEF Inv
  <1> QED
    BY <1>1, <1>2, <1>3

\* A step that deletes rows, with the messages of deleted contacts, or changes
\* nothing in the two tables, and gives nobody an id.
LEMMA DeleteStep ==
    ASSUME Inv, contacts' \subseteq contacts, messages' \subseteq messages,
           \A m \in messages' : \E c \in contacts' : c.id = m.chatId,
           kademlia_data' \subseteq Key \X Range(fromStdString), UNCHANGED <<last_id, contact_id, message_id>>,
           pc' \in [Text -> {"start", "no_contact", "upserted", "has_contact", "saved", "not_saved"}]
    PROVE  Inv'
  <1>1. TypeOK'
    BY DEF Inv, TypeOK
  <1>2. HeldIdsAreRight'
    BY DEF Inv, HeldIdsAreRight
  <1>3. IdsInSequence'
    BY DEF Inv, IdsInSequence
  <1> QED
    BY <1>1, <1>2, <1>3 DEF Inv

\* A new contact has an id nobody holds, and the peer had none.
LEMMA UpsertStep ==
    ASSUME Inv, NEW t \in Text, pc[t] = "no_contact", Upsert(t), GoTo(t, "upserted"),
           UNCHANGED <<kademlia_data, contact_id, message_id>>
    PROVE  Inv'
  <1>1. pc' \in [Text -> {"start", "no_contact", "upserted", "has_contact", "saved", "not_saved"}]
    BY DEF Inv, TypeOK, GoTo
  <1>2. CASE UNCHANGED rows
    <2> QED
      BY <1>1, <1>2, DeleteStep DEF Inv, TypeOK, rows
  <1>3. ASSUME NEW id \in NewIds(last_id.contact, {c.id : c \in contacts}),
               ~ \E c \in contacts : SamePeer(c, t),
               contacts' = contacts \cup {[id |-> id, peerId |-> PeerOf[t]]},
               last_id' = [last_id EXCEPT !.contact = id],
               UNCHANGED messages
        PROVE  Inv'
    <2> DEFINE new == [id |-> id, peerId |-> PeerOf[t]]
    <2>1. id \in 1 .. MaxId /\ id > last_id.contact
      BY <1>3, Types DEF NewIds
    <2>2. new \in Contact /\ new.id = id /\ new.peerId = PeerOf[t]
      BY <2>1 DEF Contact, Range
    <2>3. last_id' \in [contact : 0 .. MaxId, message : 0 .. MaxId]
          /\ last_id'.contact = id /\ last_id'.message = last_id.message
      BY <1>3, <2>1, Types DEF Inv, TypeOK
    <2>4. \A c \in contacts : c.id \in 1 .. MaxId /\ c.id # id /\ c.peerId # PeerOf[t]
      BY <1>3, <2>1, Types DEF Inv, IdsInSequence, SamePeer
    <2>5. TypeOK'
      <3>1. contacts' \subseteq Contact
        BY <1>3, <2>2 DEF Inv, TypeOK
      <3>2. \A c, d \in contacts' : c.id = d.id \/ c.peerId = d.peerId => c = d
        BY <1>3, <2>2, <2>4 DEF Inv, TypeOK
      <3>3. \A m \in messages' : \E c \in contacts' : c.id = m.chatId
        BY <1>3 DEF Inv, TypeOK
      <3> QED
        BY <1>1, <1>3, <2>3, <3>1, <3>2, <3>3 DEF Inv, TypeOK
    <2>6. HeldIdsAreRight'
      <3>1. \A s \in Text : contact_id[s] # id
        BY <2>1, Types DEF Inv, IdsInSequence
      <3> QED
        BY <1>3, <2>2, <3>1 DEF Inv, HeldIdsAreRight
    <2>7. IdsInSequence'
      BY <1>3, <2>1, <2>2, <2>3, Types DEF Inv, IdsInSequence
    <2> QED
      BY <2>5, <2>6, <2>7 DEF Inv
  <1> QED
    BY <1>2, <1>3 DEF Upsert, rows

\* addMessage: the new row has an id no row and no caller has, and its contact
\* is there.
LEMMA AddMessageStep ==
    ASSUME Inv, NEW t \in Text, addMessage(t)
    PROVE  Inv'
  <1>1. pc' \in [Text -> {"start", "no_contact", "upserted", "has_contact", "saved", "not_saved"}]
    BY DEF Inv, TypeOK, addMessage, GoTo
  <1>2. CASE UNCHANGED <<messages, last_id, message_id>>
    BY <1>1, <1>2, DeleteStep DEF Inv, TypeOK, addMessage
  <1>3. ASSUME ForeignKeyHolds(contact_id[t]),
               NEW id \in NewIds(last_id.message, {m.messageId : m \in messages}),
               messages' = messages \cup
                   {[messageId |-> id, chatId |-> contact_id[t], text |-> t, status |-> 0]},
               last_id' = [last_id EXCEPT !.message = id],
               message_id' = [message_id EXCEPT ![t] = id]
        PROVE  Inv'
    <2> DEFINE new == [messageId |-> id, chatId |-> contact_id[t], text |-> t, status |-> 0]
    <2>1. id \in 1 .. MaxId /\ id > last_id.message
      BY <1>3, Types DEF NewIds
    <2>2. PICK c \in contacts : c.id = contact_id[t]
      BY <1>3 DEF ForeignKeyHolds
    <2>3. new \in Message
      BY <2>1, <2>2, Types DEF Message
    <2>4. last_id' \in [contact : 0 .. MaxId, message : 0 .. MaxId]
          /\ last_id'.message = id /\ last_id'.contact = last_id.contact
      BY <1>3, <2>1, Types DEF Inv, TypeOK
    <2>5. message_id' \in [Text -> 0 .. MaxId]
          /\ \A s \in Text : message_id'[s] = IF s = t THEN id ELSE message_id[s]
      BY <1>3, <2>1, Types DEF Inv, TypeOK
    <2>6. \A m \in messages : m.messageId \in 1 .. MaxId /\ m.messageId # id
      BY <2>1, Types DEF Inv, IdsInSequence
    <2>7. UNCHANGED <<contacts, kademlia_data, contact_id>>
      BY DEF addMessage
    <2>8. TypeOK'
      <3>1. messages' \subseteq Message
        BY <1>3, <2>3 DEF Inv, TypeOK
      <3>2. \A m, r \in messages' : m.messageId = r.messageId => m = r
        BY <1>3, <2>6 DEF Inv, TypeOK
      <3>3. \A m \in messages' : \E d \in contacts' : d.id = m.chatId
        BY <1>3, <2>2, <2>7 DEF Inv, TypeOK
      <3> QED
        BY <1>1, <2>4, <2>5, <2>7, <3>1, <3>2, <3>3 DEF Inv, TypeOK
    <2>9. HeldIdsAreRight'
      <3>1. \A s \in Text : message_id[s] # id
        BY <2>1, Types DEF Inv, IdsInSequence
      <3>2. \A s \in Text : \A m \in messages' : m.messageId = message_id'[s] => m.text = s
        BY <1>3, <2>5, <2>6, <3>1 DEF Inv, HeldIdsAreRight
      <3> QED
        BY <2>7, <3>2 DEF Inv, HeldIdsAreRight
    <2>10. IdsInSequence'
      <3>1. \A m \in messages' : m.messageId <= last_id'.message
        BY <1>3, <2>1, <2>4, <2>6, Types DEF Inv, IdsInSequence
      <3>2. \A s \in Text : message_id'[s] <= last_id'.message
        BY <2>1, <2>4, <2>5, Types DEF Inv, IdsInSequence
      <3> QED
        BY <2>4, <2>7, <3>1, <3>2 DEF Inv, IdsInSequence
    <2> QED
      BY <2>8, <2>9, <2>10 DEF Inv
  <1> QED
    BY <1>2, <1>3 DEF addMessage

\* updateMessageStatus changes no id, text or chat.
LEMMA UpdateStatusStep ==
    ASSUME Inv, NEW t \in Text, NEW status \in Status, updateMessageStatus(t, status)
    PROVE  Inv'
  <1> DEFINE Updated(m) == IF m.messageId = message_id[t] THEN [m EXCEPT !.status = status] ELSE m
  <1>1. messages' = {Updated(m) : m \in messages}
    BY DEF updateMessageStatus
  <1>2. \A m \in messages : /\ Updated(m) \in Message
                            /\ Updated(m).messageId = m.messageId
                            /\ Updated(m).chatId = m.chatId
                            /\ Updated(m).text = m.text
    BY DEF Inv, TypeOK, Message
  <1>3. UNCHANGED <<contacts, last_id, kademlia_data, pc, contact_id, message_id>>
    BY DEF updateMessageStatus, caller
  <1>4. TypeOK'
    <2> HIDE DEF Updated
    <2>1. messages' \subseteq Message
      BY <1>1, <1>2
    <2>2. \A m, r \in messages' : m.messageId = r.messageId => m = r
      BY <1>1, <1>2 DEF Inv, TypeOK
    <2>3. \A m \in messages' : \E c \in contacts : c.id = m.chatId
      BY <1>1, <1>2 DEF Inv, TypeOK
    <2> QED
      BY <1>3, <2>1, <2>2, <2>3 DEF Inv, TypeOK
  <1>5. HeldIdsAreRight'
    <2> HIDE DEF Updated
    <2> QED
      BY <1>1, <1>2, <1>3 DEF Inv, HeldIdsAreRight
  <1>6. IdsInSequence'
    <2> HIDE DEF Updated
    <2> QED
      BY <1>1, <1>2, <1>3 DEF Inv, IdsInSequence
  <1> QED
    BY <1>4, <1>5, <1>6 DEF Inv

\* The tables start empty.
LEMMA InvInit == Init => Inv
  BY DEF Init, Inv, TypeOK, HeldIdsAreRight, IdsInSequence

\* Every step keeps the invariant.
LEMMA InvNext ==
    ASSUME Inv, [Next]_vars
    PROVE  Inv'
  <1>1. ASSUME NEW t \in Text, getContactById(t) PROVE Inv'
    BY <1>1, LookupStep DEF getContactById
  <1>2. ASSUME NEW t \in Text, addOrUpdateContact(t) PROVE Inv'
    <2>1. CASE pc[t] = "no_contact" /\ Upsert(t) /\ GoTo(t, "upserted") /\ UNCHANGED contact_id
      BY <1>2, <2>1, UpsertStep DEF addOrUpdateContact
    <2>2. CASE GoTo(t, "not_saved") /\ UNCHANGED <<rows, contact_id>>
      BY <1>2, <2>2, DeleteStep DEF addOrUpdateContact, Inv, TypeOK, GoTo, rows
    <2>3. CASE Lookup(t, "has_contact", "not_saved") /\ UNCHANGED rows
      BY <1>2, <2>3, LookupStep DEF addOrUpdateContact
    <2> QED
      BY <1>2, <2>1, <2>2, <2>3 DEF addOrUpdateContact
  <1>3. ASSUME NEW t \in Text, addMessage(t) PROVE Inv'
    BY <1>3, AddMessageStep
  <1>4. ASSUME NEW t \in Text, deleteMessage(t) PROVE Inv'
    BY <1>4, DeleteStep DEF deleteMessage, caller, Inv, TypeOK
  <1>5. ASSUME NEW t \in Text, NEW status \in Status, updateMessageStatus(t, status) PROVE Inv'
    BY <1>5, UpdateStatusStep
  <1>6. ASSUME NEW id \in 1 .. MaxId, deleteContact(id) PROVE Inv'
    BY <1>6, DeleteStep DEF deleteContact, caller, Inv, TypeOK
  <1>7. ASSUME NEW key \in Key, removeValue(key) PROVE Inv'
    BY <1>7, DeleteStep DEF removeValue, rows, caller, Inv, TypeOK
  <1>8. ASSUME NEW key \in Key, NEW value \in Value, storeValue(key, value) PROVE Inv'
    <2>1. fromStdString[value] \in Range(fromStdString)
      BY DatabaseAssumption DEF DatabaseAssumption, Range
    <2> QED
      BY <1>8, <2>1, DeleteStep DEF storeValue, rows, caller, Inv, TypeOK
  <1>9. CASE UNCHANGED vars
    BY <1>9, DeleteStep DEF vars, rows, caller, Inv, TypeOK
  <1> QED
    BY <1>1, <1>2, <1>3, <1>4, <1>5, <1>6, <1>7, <1>8, <1>9 DEF Next

(***************************************************************************)
(* The inductive invariant: callers may interleave, fail and stop anywhere *)
(* and others delete anything, and still the tables keep their constraints *)
(* and no id that is held changes its meaning.                             *)
(***************************************************************************)
THEOREM Invariance == Spec => []Inv
  BY InvInit, InvNext, PTL DEF Spec

\* The tables always keep their constraints, with PRAGMA foreign_keys.
THEOREM TypeCorrect == Spec => []TypeOK
  <1>1. Inv => TypeOK
    BY DEF Inv
  <1> QED
    BY <1>1, Invariance, PTL

\* An id that a caller holds means what it was given for, or nothing.
THEOREM HeldIdsCorrect == Spec => []HeldIdsAreRight
  <1>1. Inv => HeldIdsAreRight
    BY DEF Inv
  <1> QED
    BY <1>1, Invariance, PTL

-----------------------------------------------------------------------------
(***************************************************************************)
(* Database implements ChatBook, for every number of texts, peers and row  *)
(* ids, however the statements of the callers interleave and fail.         *)
(***************************************************************************)

\* Every row is in the chat of its peer, and is the one its caller was told of:
\* so a text has at most one row, and none before it is saved.
RowsAreOwn ==
    \A m \in messages :
        /\ [id |-> m.chatId, peerId |-> PeerOf[m.text]] \in contacts
        /\ pc[m.text] = "saved" /\ message_id[m.text] = m.messageId

RInv == Inv /\ RowsAreOwn

Peers == {c.peerId : c \in contacts}

Entry(m) == [text |-> m.text, status |-> m.status]

ChatOf(p) == {Entry(m) : m \in {r \in messages : PeerOf[r.text] = p}}

\* A contact is its id and its peerId, and each of them names it.
LEMMA ContactOf ==
    ASSUME RInv, NEW m \in messages
    PROVE  /\ m.text \in Text /\ m.status \in Status
           /\ PeerOf[m.text] \in Peers
           /\ \A p : [id |-> m.chatId, peerId |-> p] \in contacts <=> p = PeerOf[m.text]
  <1> DEFINE c == [id |-> m.chatId, peerId |-> PeerOf[m.text]]
  <1>1. c \in contacts /\ c.peerId = PeerOf[m.text] /\ c.id = m.chatId
    BY DEF RInv, RowsAreOwn
  <1>2. m.text \in Text /\ m.status \in Status
    BY DEF RInv, Inv, TypeOK, Message
  <1>3. ASSUME NEW p, [id |-> m.chatId, peerId |-> p] \in contacts
        PROVE  p = PeerOf[m.text]
    <2>1. [id |-> m.chatId, peerId |-> p] = c
      BY <1>1, <1>3 DEF RInv, Inv, TypeOK
    <2> QED
      BY <2>1
  <1> QED
    BY <1>1, <1>2, <1>3 DEF Peers

\* The refinement mapping without the join over ids.
LEMMA ChatsAre == RInv => chats = [p \in Peers |-> ChatOf(p)]
  <1> SUFFICES ASSUME RInv PROVE chats = [p \in Peers |-> ChatOf(p)]
    OBVIOUS
  <1>1. ASSUME NEW p \in Peers
        PROVE  {r \in messages : [id |-> r.chatId, peerId |-> p] \in contacts}
                 = {r \in messages : PeerOf[r.text] = p}
    BY ContactOf
  <1> QED
    BY <1>1 DEF chats, Peers, ChatOf, Entry

\* The same of the state after a step.
LEMMA ChatsAreNext == RInv' => (chats = [p \in Peers |-> ChatOf(p)])'
  BY ChatsAre, PTL

\* The tables start empty, so no row is anybody's.
LEMMA RInvInit == Init => RInv
  <1>1. Init => Inv
    BY InvInit
  <1> QED
    BY <1>1 DEF Init, RInv, RowsAreOwn

\* The rows left after a step that adds none are still their callers'.
LEMMA RowsKept ==
    ASSUME RInv,
           \A m \in messages' : \E r \in messages :
               /\ r.messageId = m.messageId /\ r.chatId = m.chatId /\ r.text = m.text
               /\ \A c \in contacts : c.id = m.chatId => c \in contacts',
           \A s \in Text : pc[s] = "saved" => pc'[s] = "saved" /\ message_id'[s] = message_id[s]
    PROVE  RowsAreOwn'
  <1> SUFFICES ASSUME NEW m \in messages'
               PROVE  /\ [id |-> m.chatId, peerId |-> PeerOf[m.text]] \in contacts'
                      /\ pc'[m.text] = "saved" /\ message_id'[m.text] = m.messageId
    BY DEF RowsAreOwn
  <1>1. PICK r \in messages :
               /\ r.messageId = m.messageId /\ r.chatId = m.chatId /\ r.text = m.text
               /\ \A c \in contacts : c.id = m.chatId => c \in contacts'
    OBVIOUS
  <1>2. r.text \in Text
    BY ContactOf
  <1> QED
    BY <1>1, <1>2 DEF RInv, RowsAreOwn

\* A caller that saves no row and goes on was not one that had saved.
LEMMA RowsKeptOnGoTo ==
    ASSUME RInv, NEW t \in Text, NEW step, pc[t] # "saved", GoTo(t, step),
           contacts \subseteq contacts', UNCHANGED <<messages, message_id>>
    PROVE  RowsAreOwn'
  <1>1. \A s \in Text : pc[s] = "saved" => pc'[s] = "saved"
    BY DEF RInv, Inv, TypeOK, GoTo
  <1> QED
    BY <1>1, RowsKept

\* A row that addMessage adds is in the chat of the peer its caller asked for.
LEMMA RowsAdded ==
    ASSUME RInv, NEW t \in Text, addMessage(t)
    PROVE  RowsAreOwn'
  <1>1. pc[t] = "has_contact" /\ UNCHANGED contacts
    BY DEF addMessage
  <1>2. CASE UNCHANGED <<messages, last_id, message_id>> /\ GoTo(t, "not_saved")
    BY <1>1, <1>2, RowsKeptOnGoTo
  <1>3. ASSUME ForeignKeyHolds(contact_id[t]), GoTo(t, "saved"),
               NEW id \in NewIds(last_id.message, {m.messageId : m \in messages}),
               messages' = messages \cup
                   {[messageId |-> id, chatId |-> contact_id[t], text |-> t, status |-> 0]},
               message_id' = [message_id EXCEPT ![t] = id]
        PROVE  RowsAreOwn'
    <2>1. PICK c \in contacts : c.id = contact_id[t]
      BY <1>3 DEF ForeignKeyHolds
    <2>2. c = [id |-> contact_id[t], peerId |-> PeerOf[t]]
      BY <2>1 DEF RInv, Inv, TypeOK, HeldIdsAreRight, Contact
    <2>3. pc'[t] = "saved" /\ message_id'[t] = id
      BY <1>3 DEF RInv, Inv, TypeOK, GoTo
    <2>4. \A s \in Text \ {t} : pc'[s] = pc[s] /\ message_id'[s] = message_id[s]
      BY <1>3 DEF RInv, Inv, TypeOK, GoTo
    <2>5. \A m \in messages : m.text \in Text \ {t}
      BY <1>1, ContactOf DEF RInv, RowsAreOwn
    <2> QED
      BY <1>1, <1>3, <2>2, <2>3, <2>4, <2>5 DEF RInv, RowsAreOwn
  <1> QED
    BY <1>2, <1>3 DEF addMessage

\* Every step keeps the rows where they belong.
LEMMA RInvNext == RInv /\ [Next]_vars => RInv'
  <1> SUFFICES ASSUME RInv, [Next]_vars PROVE RowsAreOwn'
    BY InvNext DEF RInv
  <1>1. ASSUME NEW t \in Text, getContactById(t) PROVE RowsAreOwn'
    <2>1. \E step : GoTo(t, step)
      BY <1>1 DEF getContactById, Lookup
    <2> QED
      BY <1>1, <2>1, RowsKeptOnGoTo DEF getContactById, rows
  <1>2. ASSUME NEW t \in Text, addOrUpdateContact(t) PROVE RowsAreOwn'
    <2>1. \E step : GoTo(t, step)
      BY <1>2 DEF addOrUpdateContact, Lookup
    <2>2. contacts \subseteq contacts' /\ UNCHANGED messages
      BY <1>2 DEF addOrUpdateContact, Upsert, rows
    <2>3. pc[t] # "saved" /\ UNCHANGED message_id
      BY <1>2 DEF addOrUpdateContact
    <2> QED
      BY <2>1, <2>2, <2>3, RowsKeptOnGoTo
  <1>3. ASSUME NEW t \in Text, addMessage(t) PROVE RowsAreOwn'
    BY <1>3, RowsAdded
  <1>4. ASSUME NEW t \in Text, deleteMessage(t) PROVE RowsAreOwn'
    BY <1>4, RowsKept DEF deleteMessage, caller
  <1>5. ASSUME NEW t \in Text, NEW status \in Status, updateMessageStatus(t, status)
        PROVE  RowsAreOwn'
    <2>1. \A m \in messages :
             LET u == [m EXCEPT !.status = status]
             IN  u.messageId = m.messageId /\ u.chatId = m.chatId /\ u.text = m.text
      BY DEF RInv, Inv, TypeOK, Message
    <2>2. \A m \in messages' : \E r \in messages :
             r.messageId = m.messageId /\ r.chatId = m.chatId /\ r.text = m.text
      BY <1>5, <2>1 DEF updateMessageStatus
    <2> QED
      BY <1>5, <2>2, RowsKept DEF updateMessageStatus, caller
  <1>6. ASSUME NEW id \in 1 .. MaxId, deleteContact(id) PROVE RowsAreOwn'
    BY <1>6, RowsKept DEF deleteContact, caller
  <1>7. ASSUME NEW key \in Key, removeValue(key) PROVE RowsAreOwn'
    BY <1>7, RowsKept DEF removeValue, rows, caller
  <1>8. ASSUME NEW key \in Key, NEW value \in Value, storeValue(key, value) PROVE RowsAreOwn'
    BY <1>8, RowsKept DEF storeValue, rows, caller
  <1>9. CASE UNCHANGED vars
    BY <1>9, RowsKept DEF vars, rows, caller
  <1> QED
    BY <1>1, <1>2, <1>3, <1>4, <1>5, <1>6, <1>7, <1>8, <1>9 DEF Next

-----------------------------------------------------------------------------
\* A step that leaves both tables alone leaves the book alone.
LEMMA BookKept == UNCHANGED <<contacts, messages>> => UNCHANGED chats
  BY DEF chats

\* A contact that is added is a chat that is opened, and it is empty.
LEMMA UpsertOpens ==
    ASSUME RInv, RInv', NEW t \in Text, Upsert(t)
    PROVE  [Book!Next]_chats
  <1>1. CASE UNCHANGED rows
    BY <1>1, BookKept DEF rows
  <1>2. ASSUME NEW id, ~ \E c \in contacts : SamePeer(c, t),
               contacts' = contacts \cup {[id |-> id, peerId |-> PeerOf[t]]},
               UNCHANGED messages
        PROVE  [Book!Next]_chats
    <2> DEFINE p == PeerOf[t]
    <2>1. p \notin Peers /\ Peers' = Peers \cup {p}
      <3>1. p \notin Peers
        BY <1>2 DEF Peers, SamePeer
      <3>2. [id |-> id, peerId |-> p].peerId = p
        OBVIOUS
      <3> QED
        BY <1>2, <3>1, <3>2 DEF Peers
    <2>2. \A q : ChatOf(q)' = ChatOf(q)
      BY <1>2 DEF ChatOf
    <2>3. ChatOf(p) = {}
      BY <2>1, ContactOf DEF ChatOf
    <2>4. DOMAIN chats = Peers /\ \A q \in Peers : chats[q] = ChatOf(q)
      BY ChatsAre
    <2>5. chats' = [q \in Peers' |-> ChatOf(q)']
      BY ChatsAreNext
    <2>6. chats' = [q \in Peers \cup {p} |-> IF q = p THEN {} ELSE chats[q]]
      BY <2>1, <2>2, <2>3, <2>4, <2>5
    <2>7. Book!OpenChat(p)
      BY <2>1, <2>4, <2>6 DEF Book!OpenChat
    <2>8. p \in Book!Range(PeerOf)
      BY DatabaseAssumption DEF DatabaseAssumption, Book!Range
    <2> QED
      BY <2>7, <2>8 DEF Book!Next
  <1> QED
    BY <1>1, <1>2 DEF Upsert

\* A change of one text's rows, seen in the book: its chat loses some entries
\* and gains others.
LEMMA RowChange ==
    ASSUME RInv, RInv', NEW t \in Text, PeerOf[t] \in Peers, UNCHANGED contacts,
           NEW removed, NEW added,
           ChatOf(PeerOf[t])' = (ChatOf(PeerOf[t]) \ removed) \cup added,
           \A p : p # PeerOf[t] => ChatOf(p)' = ChatOf(p)
    PROVE  Book!Change(t, removed, added)
  <1>1. Peers' = Peers
    BY DEF Peers
  <1>2. DOMAIN chats = Peers /\ \A q \in Peers : chats[q] = ChatOf(q)
    BY ChatsAre
  <1>3. chats' = [q \in Peers |-> ChatOf(q)']
    BY <1>1, ChatsAreNext
  <1>4. chats' = [chats EXCEPT ![PeerOf[t]] = (@ \ removed) \cup added]
    BY <1>2, <1>3, ChatsAre
  <1> QED
    BY <1>2, <1>4 DEF Book!Change

\* A text has at most one row, the one its caller was told of.
LEMMA RowOfText ==
    ASSUME RInv, NEW t \in Text
    PROVE  \A m \in messages : m.text = t <=> m.messageId = message_id[t]
  BY DEF RInv, RowsAreOwn, Inv, HeldIdsAreRight

\* A row that is added is a text that enters the chat of its peer, for the
\* first time.
LEMMA AddMessageAdds ==
    ASSUME RInv, RInv', NEW t \in Text, addMessage(t)
    PROVE  [Book!Next]_chats
  <1>1. CASE UNCHANGED <<messages, last_id, message_id>>
    BY <1>1, BookKept DEF addMessage
  <1>2. ASSUME ForeignKeyHolds(contact_id[t]), NEW id,
               messages' = messages \cup
                   {[messageId |-> id, chatId |-> contact_id[t], text |-> t, status |-> 0]}
        PROVE  [Book!Next]_chats
    <2> DEFINE entry == [text |-> t, status |-> 0]
               row == [messageId |-> id, chatId |-> contact_id[t], text |-> t, status |-> 0]
    <2>1. PeerOf[t] \in Peers
      BY <1>2 DEF ForeignKeyHolds, RInv, Inv, HeldIdsAreRight, Peers
    <2>2. UNCHANGED contacts
      BY DEF addMessage
    <2>3. \A m \in messages : m.text # t
      BY DEF addMessage, RInv, RowsAreOwn
    <2>4. row.text = t /\ Entry(row) = entry
      BY DEF Entry
    <2>5. ChatOf(PeerOf[t])' = (ChatOf(PeerOf[t]) \ {}) \cup {entry}
      BY <1>2, <2>4 DEF ChatOf, Entry
    <2>6. \A p : p # PeerOf[t] => ChatOf(p)' = ChatOf(p)
      BY <1>2, <2>4 DEF ChatOf
    <2>7. Book!Change(t, {}, {entry})
      BY <2>1, <2>2, <2>5, <2>6, RowChange
    <2>8. \A p \in DOMAIN chats : chats[p] \cap Book!Entries(t) = {}
      BY <2>3, ChatsAre DEF ChatOf, Entry, Book!Entries
    <2>9. Book!AddText(t)
      BY <2>7, <2>8 DEF Book!AddText
    <2> QED
      BY <2>9 DEF Book!Next
  <1> QED
    BY <1>1, <1>2 DEF addMessage

\* A row that is deleted is a text that leaves its chat.
LEMMA DeleteMessageDrops ==
    ASSUME RInv, RInv', NEW t \in Text, deleteMessage(t)
    PROVE  [Book!Next]_chats
  <1>1. messages' = {m \in messages : m.text # t} /\ UNCHANGED contacts
    BY RowOfText DEF deleteMessage
  <1>2. CASE \A m \in messages : m.text # t
    BY <1>1, <1>2, BookKept
  <1>3. CASE \E m \in messages : m.text = t
    <2>1. PeerOf[t] \in Peers
      BY <1>3, ContactOf
    <2>2. \A m \in messages : Entry(m) \in Book!Entries(t) <=> m.text = t
      BY ContactOf DEF Entry, Book!Entries
    <2>3. ChatOf(PeerOf[t])' = (ChatOf(PeerOf[t]) \ Book!Entries(t)) \cup {}
      BY <1>1, <2>2 DEF ChatOf, Entry
    <2>4. \A p : p # PeerOf[t] => ChatOf(p)' = ChatOf(p)
      BY <1>1 DEF ChatOf
    <2>5. Book!DropText(t)
      BY <1>1, <2>1, <2>3, <2>4, RowChange DEF Book!DropText
    <2> QED
      BY <2>5 DEF Book!Next
  <1> QED
    BY <1>2, <1>3

\* A status that is updated is that of the text's one entry.
LEMMA UpdateStatusSets ==
    ASSUME RInv, RInv', NEW t \in Text, NEW status \in Status, updateMessageStatus(t, status)
    PROVE  [Book!Next]_chats
  <1> DEFINE Updated(m) == IF m.text = t THEN [m EXCEPT !.status = status] ELSE m
             entry == [text |-> t, status |-> status]
  <1>1. messages' = {Updated(m) : m \in messages} /\ UNCHANGED contacts
    BY RowOfText DEF updateMessageStatus
  <1>2. CASE \A m \in messages : m.text # t
    <2>1. messages' = messages
      BY <1>1, <1>2
    <2> QED
      BY <1>1, <2>1, BookKept
  <1>3. CASE \E m \in messages : m.text = t
    <2>1. \A m \in messages : /\ Updated(m).text = m.text
                              /\ Entry(Updated(m)) = IF m.text = t THEN entry ELSE Entry(m)
      BY DEF Entry, RInv, Inv, TypeOK, Message
    <2>2. \A m \in messages : Entry(m) \in Book!Entries(t) <=> m.text = t
      BY ContactOf DEF Entry, Book!Entries
    <2> HIDE DEF Updated
    <2>3. \A p : ChatOf(p)' = {IF m.text = t THEN entry ELSE Entry(m) :
                                  m \in {r \in messages : PeerOf[r.text] = p}}
      <3>1. \A p : ChatOf(p)' = {Entry(m) : m \in {r \in messages' : PeerOf[r.text] = p}}
        BY DEF ChatOf, Entry
      <3> QED
        BY <1>1, <2>1, <3>1
    <2>4. ChatOf(PeerOf[t])' = (ChatOf(PeerOf[t]) \ Book!Entries(t)) \cup {entry}
      <3> HIDE DEF entry
      <3> QED
        BY <1>3, <2>2, <2>3 DEF ChatOf
    <2>5. \A p : p # PeerOf[t] => ChatOf(p)' = ChatOf(p)
      <3> HIDE DEF entry
      <3> QED
        BY <2>3 DEF ChatOf
    <2>6. PeerOf[t] \in Peers
      BY <1>3, ContactOf
    <2>7. Book!Change(t, Book!Entries(t), {entry})
      BY <1>1, <2>4, <2>5, <2>6, RowChange
    <2>8. PeerOf[t] \in DOMAIN chats /\ chats[PeerOf[t]] \cap Book!Entries(t) # {}
      BY <1>3, <2>2, <2>6, ChatsAre DEF ChatOf
    <2>9. Book!SetStatus(t, status)
      BY <2>7, <2>8 DEF Book!SetStatus
    <2> QED
      BY <2>9 DEF Book!Next
  <1> QED
    BY <1>2, <1>3

\* A contact that is deleted is a chat that is dropped, with what is in it.
LEMMA DeleteContactDrops ==
    ASSUME RInv, RInv', NEW id, deleteContact(id)
    PROVE  [Book!Next]_chats
  <1>1. contacts' = {c \in contacts : c.id # id} /\ messages' = {m \in messages : m.chatId # id}
    BY DEF deleteContact
  <1>2. CASE \A c \in contacts : c.id # id
    <2>1. \A m \in messages : m.chatId # id
      BY <1>2 DEF RInv, Inv, TypeOK
    <2> QED
      BY <1>1, <1>2, <2>1, BookKept
  <1>3. ASSUME NEW c \in contacts, c.id = id
        PROVE  [Book!Next]_chats
    <2> DEFINE p == c.peerId
    <2>1. \A d \in contacts : d.id = id <=> d.peerId = p
      BY <1>3 DEF RInv, Inv, TypeOK
    <2>2. Peers' = Peers \ {p} /\ p \in Peers
      BY <1>1, <2>1 DEF Peers
    <2>3. \A m \in messages : m.chatId = id => PeerOf[m.text] = p
      <3>1. SUFFICES ASSUME NEW m \in messages, m.chatId = id
                     PROVE  PeerOf[m.text] = p
        OBVIOUS
      <3>2. PICK d \in contacts : d.id = m.chatId /\ d.peerId = PeerOf[m.text]
        BY DEF RInv, RowsAreOwn
      <3> QED
        BY <2>1, <3>1, <3>2
    <2>4. \A q : q # p => ChatOf(q)' = ChatOf(q)
      BY <1>1, <2>3 DEF ChatOf, Entry
    <2>5. DOMAIN chats = Peers /\ \A q \in Peers : chats[q] = ChatOf(q)
      BY ChatsAre
    <2>6. chats' = [q \in Peers' |-> ChatOf(q)']
      BY ChatsAreNext
    <2>7. chats' = [q \in DOMAIN chats \ {p} |-> chats[q]]
      BY <2>2, <2>4, <2>5, <2>6
    <2>8. Book!DropChat(p)
      BY <2>2, <2>5, <2>7 DEF Book!DropChat, Book!Restrict
    <2>9. p \in Book!Range(PeerOf)
      BY DEF RInv, Inv, TypeOK, Contact, Range, Book!Range
    <2> QED
      BY <2>8, <2>9 DEF Book!Next
  <1> QED
    BY <1>2, <1>3

\* Every step of the tables is one of the book, or none.
LEMMA BookStep == RInv /\ RInv' /\ [Next]_vars => [Book!Next]_chats
  <1> SUFFICES ASSUME RInv, RInv', [Next]_vars PROVE [Book!Next]_chats
    OBVIOUS
  <1>1. ASSUME NEW t \in Text, getContactById(t) PROVE [Book!Next]_chats
    BY <1>1, BookKept DEF getContactById, rows
  <1>2. ASSUME NEW t \in Text, addOrUpdateContact(t) PROVE [Book!Next]_chats
    <2>1. Upsert(t) \/ UNCHANGED rows
      BY <1>2 DEF addOrUpdateContact
    <2> QED
      BY <2>1, UpsertOpens, BookKept DEF rows
  <1>3. ASSUME NEW t \in Text, addMessage(t) PROVE [Book!Next]_chats
    BY <1>3, AddMessageAdds
  <1>4. ASSUME NEW t \in Text, deleteMessage(t) PROVE [Book!Next]_chats
    BY <1>4, DeleteMessageDrops
  <1>5. ASSUME NEW t \in Text, NEW status \in Status, updateMessageStatus(t, status)
        PROVE  [Book!Next]_chats
    BY <1>5, UpdateStatusSets
  <1>6. ASSUME NEW id \in 1 .. MaxId, deleteContact(id) PROVE [Book!Next]_chats
    BY <1>6, DeleteContactDrops
  <1>7. ASSUME NEW key \in Key, removeValue(key) PROVE [Book!Next]_chats
    BY <1>7, BookKept DEF removeValue, rows
  <1>8. ASSUME NEW key \in Key, NEW value \in Value, storeValue(key, value)
        PROVE  [Book!Next]_chats
    BY <1>8, BookKept DEF storeValue, rows
  <1>9. CASE UNCHANGED vars
    BY <1>9, BookKept DEF vars, rows
  <1> QED
    BY <1>1, <1>2, <1>3, <1>4, <1>5, <1>6, <1>7, <1>8, <1>9 DEF Next

(***************************************************************************)
(* The tables implement the book: two callers for one peer, in any order   *)
(* and with any failure, never make two chats of it, and no statement      *)
(* loses, moves, repeats or brings back a text.                            *)
(***************************************************************************)
THEOREM ImplementsBook == Spec => ImplementsChatBook
  <1>1. Init => Book!Init
    BY DEF Init, Book!Init, chats
  <1> QED
    BY <1>1, RInvInit, RInvNext, BookStep, PTL DEF Spec, ImplementsChatBook, Book!Spec
=============================================================================
