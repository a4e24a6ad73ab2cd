------------------------- MODULE ChatStoreProofs -------------------------
(***************************************************************************)
(* What sender and receiver of a STORE may rely on, for every number of    *)
(* nodes, texts and sends, however datagrams are lost, repeated and        *)
(* reordered and whatever the databases fail to save.                      *)
(***************************************************************************)
EXTENDS ChatStore, SequenceTheorems, FiniteSetTheorems, TLAPS

Call == [from : Node, to : Node, value : Text]

Value == [key : Node, value : Range(fromStdString)]

\* The types of the state, in full: TypeOK follows.
Types ==
    /\ no_room \in [Node -> SUBSET Node] /\ known \in [Node -> SUBSET Node]
    /\ contacts \in [Node -> SUBSET Node]
    /\ messages \in [Node -> Seq(Message)]
    /\ kademlia_data \in [Node -> Seq(Value)]
    /\ sent \in Seq(Call)
    /\ requests_map \in [Node -> SUBSET DOMAIN sent]
    /\ net \subseteq [rpc : DOMAIN sent, to : Node, is_reply : BOOLEAN]
    /\ acked \subseteq DOMAIN sent /\ received \subseteq DOMAIN sent
    /\ \A n \in Node : \A i \in DOMAIN messages[n] : messages[n][i].peer \in contacts[n]

\* A datagram goes to one of the two ends of its RPC.
Addressed ==
    \A m \in net : m.to = IF m.is_reply THEN sent[m.rpc].from ELSE sent[m.rpc].to

\* What AckedIsKept says of an RPC.
Kept(rpc) ==
    LET s == sent[rpc]
    IN  IF s.value \in Parseable
        THEN \E i \in DOMAIN kademlia_data[s.to] : kademlia_data[s.to][i] = StoredRow(rpc)
        ELSE Holds(s.to, Incoming(rpc)) \/ <<s.to, rpc>> \in failures

\* A reply is on its way only when there is something it can acknowledge.
ReplyIsKept == \A m \in net : m.is_reply => Kept(m.rpc)

\* What BothEndsAgree needs of the sender.
SavedBySender(rpc) ==
    \/ Holds(sent[rpc].from, Outgoing(sent[rpc].to, sent[rpc].value))
    \/ <<sent[rpc].from, rpc>> \in failures

\* A chat message is in its sender's table before anybody can receive it.
SavedBeforeSent == \A rpc \in DOMAIN sent : sent[rpc].value \notin Parseable => SavedBySender(rpc)

\* An announced message is in the table, and its sender is known.
AnnouncedIsSaved ==
    \A rpc \in received :
        Holds(sent[rpc].to, Incoming(rpc)) /\ sent[rpc].from \in known[sent[rpc].to]

Inv ==
    /\ Types /\ Addressed /\ ReplyIsKept /\ SavedBeforeSent
    /\ AckedIsKept /\ BothEndsAgree /\ AnnouncedIsSaved

USE ChatStoreAssumption DEF ChatStoreAssumption

\* What is bound is a text that fromStdString gives.
LEMMA Converted == \A value \in Text : fromStdString[value] \in Range(fromStdString)
  BY DEF Range

\* Nothing was sent, saved or received.
LEMMA InvInit == Init => Inv
  BY DEF Init, Inv, Types, Addressed, ReplyIsKept, SavedBeforeSent, AckedIsKept, BothEndsAgree,
     AnnouncedIsSaved

\* No step takes back a call, a row, a contact, a failure or a known node.
Grows ==
    /\ \A rpc \in DOMAIN sent : rpc \in DOMAIN sent' /\ sent'[rpc] = sent[rpc]
    /\ \A n \in Node :
        /\ known[n] \subseteq known'[n]
        /\ \A i \in DOMAIN messages[n] :
               i \in DOMAIN messages'[n] /\ messages'[n][i] = messages[n][i]
        /\ \A i \in DOMAIN kademlia_data[n] :
               i \in DOMAIN kademlia_data'[n] /\ kademlia_data'[n][i] = kademlia_data[n][i]
    /\ failures \subseteq failures'

\* So what holds of an RPC that is there goes on holding.
LEMMA GrowsKeeps ==
    ASSUME Types, Grows, NEW rpc \in DOMAIN sent
    PROVE  /\ sent[rpc] \in Call /\ sent'[rpc] = sent[rpc]
           /\ Incoming(rpc)' = Incoming(rpc)
           /\ Kept(rpc) => Kept(rpc)'
           /\ SavedBySender(rpc) => SavedBySender(rpc)'
           /\ Holds(sent[rpc].to, Incoming(rpc)) => Holds(sent[rpc].to, Incoming(rpc))'
  <1>1. sent[rpc] \in Call /\ sent'[rpc] = sent[rpc]
    BY DEF Types, Grows
  <1>2. Incoming(rpc)' = Incoming(rpc)
    BY <1>1 DEF Incoming
  <1>3. \A n \in Node : \A x : Holds(n, x) => Holds(n, x)'
    BY DEF Grows, Holds
  <1>4. sent[rpc].to \in Node /\ sent[rpc].from \in Node
    BY <1>1 DEF Call
  <1>5. SavedBySender(rpc) => SavedBySender(rpc)'
    BY <1>1, <1>3, <1>4 DEF SavedBySender, Outgoing, Grows
  <1>6. Holds(sent[rpc].to, Incoming(rpc)) => Holds(sent[rpc].to, Incoming(rpc))'
    BY <1>1, <1>2, <1>3, <1>4
  <1>7. Kept(rpc) => Kept(rpc)'
    BY <1>1, <1>4, <1>6 DEF Kept, StoredRow, Grows
  <1> QED
    BY <1>1, <1>2, <1>5, <1>6, <1>7

\* SaveMessage: the row is there, or the failure is noted.
LEMMA SaveMessageEffect ==
    ASSUME Types, NEW n \in Node, NEW rpc, NEW message \in Message, NEW outcome \in Outcome,
           SaveMessage(n, rpc, message, outcome)
    PROVE  /\ contacts' \in [Node -> SUBSET Node]
           /\ messages' \in [Node -> Seq(Message)]
           /\ failures \subseteq failures'
           /\ \A q \in Node :
                /\ contacts[q] \subseteq contacts'[q]
                /\ \A i \in DOMAIN messages[q] :
                     i \in DOMAIN messages'[q] /\ messages'[q][i] = messages[q][i]
                /\ \A i \in DOMAIN messages'[q] :
                     \/ i \in DOMAIN messages[q] /\ messages'[q][i] = messages[q][i]
                     \/ q = n /\ outcome = "saved" /\ messages'[q][i] = message
                /\ \A i \in DOMAIN messages'[q] : messages'[q][i].peer \in contacts'[q]
           /\ IF outcome = "saved" THEN Holds(n, message)' ELSE <<n, rpc>> \in failures'
  <1>1. message.peer \in Node
    BY DEF Message
  <1>2. contacts' \in [Node -> SUBSET Node]
    BY <1>1 DEF SaveMessage, Types
  <1>3. \A q \in Node : contacts[q] \subseteq contacts'[q]
    BY DEF SaveMessage, Types
  <1>4. failures \subseteq failures'
    BY DEF SaveMessage
  <1>5. CASE outcome = "saved"
    <2> DEFINE new == Append(messages[n], message)
    <2>1. messages[n] \in Seq(Message)
      BY DEF Types
    <2>2. /\ new \in Seq(Message) /\ Len(new) = Len(messages[n]) + 1
          /\ \A i \in 1 .. Len(messages[n]) : new[i] = messages[n][i]
          /\ new[Len(messages[n]) + 1] = message
      BY <2>1, AppendProperties
    <2>3. DOMAIN messages[n] = 1 .. Len(messages[n]) /\ Len(messages[n]) \in Nat
          /\ DOMAIN new = 1 .. Len(messages[n]) + 1
      BY <2>1, <2>2, LenProperties
    <2>4. messages' = [messages EXCEPT ![n] = new] /\ message.peer \in contacts'[n]
      BY <1>5 DEF SaveMessage, Types
    <2> HIDE DEF new
    <2>5. messages' \in [Node -> Seq(Message)] /\ messages'[n] = new
          /\ \A q \in Node \ {n} : messages'[q] = messages[q]
      BY <2>2, <2>4 DEF Types
    <2>6. Holds(n, message)'
      BY <2>2, <2>3, <2>5 DEF Holds
    <2>7. \A i \in DOMAIN new : \/ i \in DOMAIN messages[n] /\ new[i] = messages[n][i]
                             \/ new[i] = message
      BY <2>2, <2>3
    <2>8. \A i \in DOMAIN messages[n] : i \in DOMAIN new /\ new[i] = messages[n][i]
      BY <2>2, <2>3
    <2>9. \A q \in Node : \A i \in DOMAIN messages'[q] : messages'[q][i].peer \in contacts'[q]
      BY <1>3, <2>4, <2>5, <2>7 DEF Types
    <2> QED
      BY <1>2, <1>3, <1>4, <1>5, <2>5, <2>6, <2>7, <2>8, <2>9
  <1>6. CASE outcome # "saved"
    <2>1. messages' = messages /\ <<n, rpc>> \in failures'
      BY <1>6 DEF SaveMessage, Types
    <2> QED
      BY <1>2, <1>3, <1>4, <1>6, <2>1 DEF Types
  <1> QED
    BY <1>5, <1>6

(***************************************************************************)
(* The invariant after a step that takes nothing back follows from what is *)
(* new: datagrams, calls, acknowledgements, announcements and rows.        *)
(***************************************************************************)
LEMMA NewOnes ==
    ASSUME Inv, Types', Grows,
           \A m \in net' \ net :
               /\ m.to = IF m.is_reply THEN sent'[m.rpc].from ELSE sent'[m.rpc].to
               /\ m.is_reply => Kept(m.rpc)',
           \A rpc \in DOMAIN sent' \ DOMAIN sent :
               sent'[rpc].value \notin Parseable => SavedBySender(rpc)',
           \A rpc \in acked' \ acked : Kept(rpc)',
           \A rpc \in received' \ received :
               Holds(sent[rpc].to, Incoming(rpc))' /\ sent'[rpc].from \in known'[sent'[rpc].to],
           \A n \in Node : \A i \in DOMAIN messages'[n] :
               \/ i \in DOMAIN messages[n] /\ messages'[n][i] = messages[n][i]
               \/ messages'[n][i].isOutgoing
               \/ \E rpc \in DOMAIN sent : /\ sent[rpc].to = n /\ sent[rpc].value \notin Parseable
                                           /\ Incoming(rpc) = messages'[n][i]
    PROVE  Inv'
  <1>1. Types
    BY DEF Inv
  <1>2. Addressed'
    <2> SUFFICES ASSUME NEW m \in net'
                 PROVE  m.to = IF m.is_reply THEN sent'[m.rpc].from ELSE sent'[m.rpc].to
      BY DEF Addressed
    <2>1. CASE m \in net
      <3>1. m.rpc \in DOMAIN sent
        BY <1>1, <2>1 DEF Types
      <3> QED
        BY <2>1, <3>1 DEF Grows, Inv, Addressed
    <2> QED
      BY <2>1
  <1>3. ReplyIsKept'
    <2> SUFFICES ASSUME NEW m \in net', m.is_reply
                 PROVE  Kept(m.rpc)'
      BY DEF ReplyIsKept
    <2>1. CASE m \in net
      <3>1. m.rpc \in DOMAIN sent
        BY <1>1, <2>1 DEF Types
      <3> QED
        BY <1>1, <2>1, <3>1, GrowsKeeps DEF Inv, ReplyIsKept
    <2> QED
      BY <2>1
  <1>4. SavedBeforeSent'
    <2> SUFFICES ASSUME NEW rpc \in DOMAIN sent', sent'[rpc].value \notin Parseable
                 PROVE  SavedBySender(rpc)'
      BY DEF SavedBeforeSent
    <2>1. CASE rpc \in DOMAIN sent
      BY <1>1, <2>1, GrowsKeeps DEF Inv, SavedBeforeSent
    <2> QED
      BY <2>1
  <1>5. AckedIsKept'
    <2>1. ASSUME NEW rpc \in acked'
          PROVE  Kept(rpc)'
      <3>1. CASE rpc \in acked
        <4>1. rpc \in DOMAIN sent /\ Kept(rpc)
          BY <1>1, <3>1 DEF Inv, AckedIsKept, Kept, Types
        <4> QED
          BY <1>1, <4>1, GrowsKeeps
      <3> QED
        BY <3>1
    <2> QED
      BY <2>1 DEF AckedIsKept, Kept
  <1>6. AnnouncedIsSaved'
    <2> SUFFICES ASSUME NEW rpc \in received'
                 PROVE  /\ Holds(sent[rpc].to, Incoming(rpc))'
                        /\ sent'[rpc].from \in known'[sent'[rpc].to]
      BY DEF AnnouncedIsSaved
    <2>1. CASE rpc \in received
      <3>1. /\ rpc \in DOMAIN sent /\ sent[rpc] \in Call
            /\ Holds(sent[rpc].to, Incoming(rpc)) /\ sent[rpc].from \in known[sent[rpc].to]
        BY <1>1, <2>1 DEF Inv, AnnouncedIsSaved, Types
      <3> QED
        BY <1>1, <3>1, GrowsKeeps DEF Grows, Call
    <2> QED
      BY <2>1
  <1>7. BothEndsAgree'
    <2> SUFFICES ASSUME NEW n \in Node, NEW i \in DOMAIN messages'[n], ~ messages'[n][i].isOutgoing
                 PROVE  \E rpc \in DOMAIN sent' :
                           /\ sent'[rpc].to = n
                           /\ Incoming(rpc)' = messages'[n][i]
                           /\ SavedBySender(rpc)'
      BY DEF BothEndsAgree, SavedBySender
    <2>1. \E rpc \in DOMAIN sent :
             sent[rpc].to = n /\ Incoming(rpc) = messages'[n][i] /\ SavedBySender(rpc)
      <3>1. CASE i \in DOMAIN messages[n] /\ messages'[n][i] = messages[n][i]
        BY <3>1 DEF Inv, BothEndsAgree, SavedBySender
      <3>2. ASSUME NEW rpc \in DOMAIN sent, sent[rpc].to = n, sent[rpc].value \notin Parseable,
                   Incoming(rpc) = messages'[n][i]
            PROVE  SavedBySender(rpc)
        BY <3>2 DEF Inv, SavedBeforeSent
      <3> QED
        BY <3>1, <3>2
    <2> QED
      BY <1>1, <2>1, GrowsKeeps DEF Grows
  <1> QED
    BY <1>2, <1>3, <1>4, <1>5, <1>6, <1>7 DEF Inv

\* Who sent a datagram that is under way, and to whom.
LEMMA DatagramEnds ==
    ASSUME Inv, NEW m \in net
    PROVE  /\ m.rpc \in DOMAIN sent /\ sent[m.rpc] \in Call /\ m.to \in Node /\ From(m) \in Node
           /\ ~ m.is_reply => m.to = sent[m.rpc].to /\ From(m) = sent[m.rpc].from
           /\ m.is_reply => m.to = sent[m.rpc].from
           /\ Incoming(m.rpc) \in Message
  <1>1. m.rpc \in DOMAIN sent /\ sent[m.rpc] \in Call /\ m.to \in Node /\ m.is_reply \in BOOLEAN
    BY DEF Inv, Types
  <1>2. m.to = IF m.is_reply THEN sent[m.rpc].from ELSE sent[m.rpc].to
    BY DEF Inv, Addressed
  <1> QED
    BY <1>1, <1>2, Converted DEF From, Call, Incoming, Message

\* sendStore: a chat message is saved, or its failure noted, before it goes out.
LEMMA SendStep ==
    ASSUME Inv, NEW n \in Node, NEW to \in Node, NEW value \in Text, sendStore(n, to, value)
    PROVE  Inv'
  <1>0. PICK rpc : rpc = Len(sent) + 1
    OBVIOUS
  <1> DEFINE call == [from |-> n, to |-> to, value |-> value]
  <1>1. Types
    BY DEF Inv
  <1>2. /\ sent' = Append(sent, call) /\ call \in Call
        /\ SaveOutgoing(n, rpc, to, value)
        /\ UNCHANGED <<no_room, known, acked, received>>
    BY <1>0 DEF sendStore, Call
  <1>3. /\ sent' \in Seq(Call) /\ DOMAIN sent' = DOMAIN sent \cup {rpc} /\ sent'[rpc] = call
        /\ \A r \in DOMAIN sent : sent'[r] = sent[r]
        /\ rpc \notin DOMAIN sent
    <2>1. sent \in Seq(Call) /\ DOMAIN sent = 1 .. Len(sent) /\ Len(sent) \in Nat
      BY <1>1, LenProperties DEF Types
    <2>2. /\ Append(sent, call) \in Seq(Call) /\ Len(Append(sent, call)) = Len(sent) + 1
          /\ \A r \in 1 .. Len(sent) : Append(sent, call)[r] = sent[r]
          /\ Append(sent, call)[Len(sent) + 1] = call
      BY <1>2, <2>1, AppendProperties
    <2>3. DOMAIN Append(sent, call) = 1 .. Len(sent) + 1
      BY <2>1, <2>2, LenProperties
    <2> QED
      BY <1>0, <1>2, <2>1, <2>2, <2>3
  <1>4. /\ contacts' \in [Node -> SUBSET Node] /\ messages' \in [Node -> Seq(Message)]
        /\ kademlia_data' = kademlia_data /\ failures \subseteq failures'
        /\ \A q \in Node :
             /\ \A i \in DOMAIN messages[q] :
                  i \in DOMAIN messages'[q] /\ messages'[q][i] = messages[q][i]
             /\ \A i \in DOMAIN messages'[q] :
                  \/ i \in DOMAIN messages[q] /\ messages'[q][i] = messages[q][i]
                  \/ messages'[q][i].isOutgoing
             /\ \A i \in DOMAIN messages'[q] : messages'[q][i].peer \in contacts'[q]
        /\ value \notin Parseable =>
             Holds(n, Outgoing(to, value))' \/ <<n, rpc>> \in failures'
    <2>1. CASE value \in Parseable
      BY <1>1, <1>2, <2>1 DEF SaveOutgoing, db, Types
    <2>2. CASE value \notin Parseable
      <3>1. PICK outcome \in Outcome : SaveMessage(n, rpc, Outgoing(to, value), outcome)
        BY <1>2, <2>2 DEF SaveOutgoing
      <3>2. Outgoing(to, value) \in Message /\ Outgoing(to, value).isOutgoing
        BY Converted DEF Outgoing, Message
      <3>3. kademlia_data' = kademlia_data
        BY <1>2, <2>2 DEF SaveOutgoing
      <3> QED
        BY <1>1, <3>1, <3>2, <3>3, SaveMessageEffect
    <2> QED
      BY <2>1, <2>2
  <1>5. /\ requests_map' \in [Node -> SUBSET DOMAIN sent']
        /\ \A m \in net' \ net : m = [rpc |-> rpc, to |-> to, is_reply |-> FALSE]
    <2>1. requests_map' = requests_map
          \/ requests_map' = [requests_map EXCEPT ![n] = @ \cup {rpc}]
      BY <1>0 DEF sendStore
    <2>2. requests_map \in [Node -> SUBSET DOMAIN sent']
      BY <1>1, <1>3 DEF Types
    <2>3. net' = net \/ net' = net \cup {[rpc |-> rpc, to |-> to, is_reply |-> FALSE]}
      BY <1>0 DEF sendStore
    <2> QED
      BY <1>3, <2>1, <2>2, <2>3
  <1>6. Types'
    <2>1. net' \subseteq [rpc : DOMAIN sent', to : Node, is_reply : BOOLEAN]
      <3>1. net \subseteq [rpc : DOMAIN sent', to : Node, is_reply : BOOLEAN]
        BY <1>1, <1>3 DEF Types
      <3>2. [rpc |-> rpc, to |-> to, is_reply |-> FALSE]
              \in [rpc : DOMAIN sent', to : Node, is_reply : BOOLEAN]
        BY <1>3
      <3> QED
        BY <1>5, <3>1, <3>2
    <2> QED
      BY <1>1, <1>2, <1>3, <1>4, <1>5, <2>1 DEF Types
  <1>7. Grows
    BY <1>2, <1>3, <1>4 DEF Grows
  <1>8. value \notin Parseable => SavedBySender(rpc)'
    <2>1. sent'[rpc].from = n /\ sent'[rpc].to = to /\ sent'[rpc].value = value
      BY <1>3
    <2> QED
      BY <1>4, <2>1 DEF SavedBySender, Holds, Outgoing
  <1>9. \A r \in DOMAIN sent' \ DOMAIN sent :
           sent'[r].value \notin Parseable => SavedBySender(r)'
    <2> SUFFICES ASSUME NEW r \in DOMAIN sent' \ DOMAIN sent, sent'[r].value \notin Parseable
                 PROVE  SavedBySender(r)'
      OBVIOUS
    <2>1. r = rpc /\ value \notin Parseable
      BY <1>3
    <2> QED
      BY <1>8, <2>1
  <1>10. \A m \in net' \ net :
            /\ m.to = IF m.is_reply THEN sent'[m.rpc].from ELSE sent'[m.rpc].to
            /\ m.is_reply => Kept(m.rpc)'
    BY <1>3, <1>5
  <1> QED
    BY <1>2, <1>4, <1>6, <1>7, <1>9, <1>10, NewOnes

\* Hearing from a node makes it known and nobody unknown.
LEMMA SenderStored ==
    ASSUME Inv, NEW m \in net, StoreSender(m)
    PROVE  /\ known' \in [Node -> SUBSET Node] /\ no_room' = no_room
           /\ \A n \in Node : known[n] \subseteq known'[n]
  <1>1. Types /\ m.to \in Node /\ From(m) \in Node
    BY DatagramEnds DEF Inv
  <1> QED
    BY <1>1 DEF StoreSender, Types

\* A reply to an RPC that is kept.
LEMMA ReplyEnds ==
    ASSUME Inv, NEW m \in net, ~ m.is_reply, sent' = sent
    PROVE  /\ Reply(m) \in [rpc : DOMAIN sent', to : Node, is_reply : BOOLEAN]
           /\ Reply(m).is_reply /\ Reply(m).rpc = m.rpc
           /\ Reply(m).to = sent'[m.rpc].from
  BY DatagramEnds DEF Reply

\* onUnknownStore: nothing but the routing table changes.
LEMMA UnknownStep ==
    ASSUME Inv, NEW m \in net, onUnknownStore(m)
    PROVE  Inv'
  <1>1. Types /\ StoreSender(m)
    BY DEF onUnknownStore, Inv
  <1>2. UNCHANGED <<no_room, db, requests_map, net, sent, acked, received, failures>>
    BY DEF onUnknownStore, StoreSender
  <1>3. Types' /\ Grows
    BY <1>1, <1>2, SenderStored DEF Types, Grows, db
  <1> QED
    BY <1>1, <1>2, <1>3, NewOnes DEF db

\* onChatStore: announced only if saved, and acknowledged with the failure noted
\* if not.
LEMMA ChatStep ==
    ASSUME Inv, NEW m \in net, onChatStore(m)
    PROVE  Inv'
  <1>1. /\ Types /\ StoreSender(m) /\ ~ m.is_reply /\ sent[m.rpc].value \notin Parseable
        /\ From(m) \in known'[m.to]
        /\ UNCHANGED <<no_room, kademlia_data, requests_map, sent, acked>>
        /\ net' = net \cup {Reply(m)}
    BY DEF onChatStore, Inv, StoreSender
  <1>2. PICK outcome \in Outcome :
           /\ SaveMessage(m.to, m.rpc, Incoming(m.rpc), outcome)
           /\ received' = IF outcome = "saved" THEN received \cup {m.rpc} ELSE received
    BY DEF onChatStore
  <1>3. /\ m.rpc \in DOMAIN sent /\ m.to \in Node /\ m.to = sent[m.rpc].to
        /\ From(m) = sent[m.rpc].from /\ Incoming(m.rpc) \in Message
    BY <1>1, DatagramEnds
  <1>4. /\ contacts' \in [Node -> SUBSET Node]
        /\ messages' \in [Node -> Seq(Message)]
        /\ failures \subseteq failures'
        /\ \A q \in Node :
             /\ \A i \in DOMAIN messages[q] :
                  i \in DOMAIN messages'[q] /\ messages'[q][i] = messages[q][i]
             /\ \A i \in DOMAIN messages'[q] :
                  \/ i \in DOMAIN messages[q] /\ messages'[q][i] = messages[q][i]
                  \/ q = m.to /\ messages'[q][i] = Incoming(m.rpc)
             /\ \A i \in DOMAIN messages'[q] : messages'[q][i].peer \in contacts'[q]
        /\ IF outcome = "saved" THEN Holds(m.to, Incoming(m.rpc))'
                                ELSE <<m.to, m.rpc>> \in failures'
    <2>1. Incoming(m.rpc)' = Incoming(m.rpc)
      BY <1>1 DEF Incoming
    <2>2. PICK row : row = Incoming(m.rpc)
      OBVIOUS
    <2>3. row \in Message /\ SaveMessage(m.to, m.rpc, row, outcome)
      BY <1>2, <1>3, <2>2
    <2>4. IF outcome = "saved" THEN \E i \in DOMAIN messages'[m.to] : messages'[m.to][i] = row
                               ELSE <<m.to, m.rpc>> \in failures'
      BY <1>1, <1>3, <2>3, SaveMessageEffect DEF Holds
    <2>5. outcome = "saved" => Holds(m.to, Incoming(m.rpc))'
      BY <2>1, <2>2, <2>4 DEF Holds
    <2> QED
      BY <1>1, <1>3, <2>2, <2>3, <2>4, <2>5, SaveMessageEffect
  <1>5. Types'
    <2>1. net' \subseteq [rpc : DOMAIN sent', to : Node, is_reply : BOOLEAN]
      BY <1>1, ReplyEnds DEF Types
    <2>2. received' \subseteq DOMAIN sent'
      BY <1>1, <1>2, <1>3 DEF Types
    <2> QED
      BY <1>1, <1>4, <2>1, <2>2, SenderStored DEF Types
  <1>6. Grows
    BY <1>1, <1>4, SenderStored DEF Grows
  <1>7. Kept(m.rpc)'
    BY <1>1, <1>3, <1>4 DEF Kept
  <1>8. \A x \in net' \ net :
           /\ x.to = IF x.is_reply THEN sent'[x.rpc].from ELSE sent'[x.rpc].to
           /\ x.is_reply => Kept(x.rpc)'
    BY <1>1, <1>7, ReplyEnds
  <1>9. \A rpc \in received' \ received :
           Holds(sent[rpc].to, Incoming(rpc))' /\ sent'[rpc].from \in known'[sent'[rpc].to]
    <2> SUFFICES ASSUME NEW rpc \in received' \ received
                 PROVE  Holds(sent[rpc].to, Incoming(rpc))'
                        /\ sent'[rpc].from \in known'[sent'[rpc].to]
      OBVIOUS
    <2>1. rpc = m.rpc /\ outcome = "saved"
      BY <1>2
    <2> QED
      BY <1>1, <1>3, <1>4, <2>1
  <1>10. \A n \in Node : \A i \in DOMAIN messages'[n] :
            \/ i \in DOMAIN messages[n] /\ messages'[n][i] = messages[n][i]
            \/ messages'[n][i].isOutgoing
            \/ \E rpc \in DOMAIN sent : /\ sent[rpc].to = n /\ sent[rpc].value \notin Parseable
                                        /\ Incoming(rpc) = messages'[n][i]
    BY <1>1, <1>3, <1>4
  <1> QED
    BY <1>1, <1>5, <1>6, <1>8, <1>9, <1>10, NewOnes

\* onDelayedStore: acknowledged only if kept.
LEMMA DelayedStep ==
    ASSUME Inv, NEW m \in net, onDelayedStore(m)
    PROVE  Inv'
  <1>1. /\ Types /\ StoreSender(m) /\ ~ m.is_reply /\ sent[m.rpc].value \in Parseable
        /\ UNCHANGED <<no_room, contacts, messages, requests_map, sent, acked, received>>
    BY DEF onDelayedStore, Inv, StoreSender
  <1>2. /\ m.rpc \in DOMAIN sent /\ sent[m.rpc] \in Call /\ m.to \in Node
        /\ m.to = sent[m.rpc].to
    BY <1>1, DatagramEnds
  <1>3. CASE StoreValue(m) /\ net' = net \cup {Reply(m)} /\ failures' = failures
    <2>1. PICK row : row = StoredRow(m.rpc)
      OBVIOUS
    <2>2. row \in Value
      BY <1>1, <1>2, <2>1, Converted DEF Value, Call, StoredRow
    <2> DEFINE new == Append(kademlia_data[m.to], row)
    <2>3. kademlia_data[m.to] \in Seq(Value)
      BY <1>1, <1>2 DEF Types
    <2>4. /\ new \in Seq(Value) /\ Len(new) = Len(kademlia_data[m.to]) + 1
          /\ \A i \in 1 .. Len(kademlia_data[m.to]) : new[i] = kademlia_data[m.to][i]
          /\ new[Len(kademlia_data[m.to]) + 1] = row
      BY <2>2, <2>3, AppendProperties
    <2>5. /\ DOMAIN kademlia_data[m.to] = 1 .. Len(kademlia_data[m.to])
          /\ Len(kademlia_data[m.to]) \in Nat
          /\ DOMAIN new = 1 .. Len(kademlia_data[m.to]) + 1
      BY <2>3, <2>4, LenProperties
    <2>6. kademlia_data' = [kademlia_data EXCEPT ![m.to] = new]
      BY <1>3, <2>1 DEF StoreValue
    <2> HIDE DEF new
    <2>7. /\ kademlia_data' \in [Node -> Seq(Value)] /\ kademlia_data'[m.to] = new
          /\ \A q \in Node \ {m.to} : kademlia_data'[q] = kademlia_data[q]
      BY <1>1, <1>2, <2>4, <2>6 DEF Types
    <2>8. /\ \E i \in DOMAIN new : new[i] = row
          /\ \A i \in DOMAIN kademlia_data[m.to] :
               i \in DOMAIN new /\ new[i] = kademlia_data[m.to][i]
      BY <2>4, <2>5
    <2>9. Types'
      <3>1. net' \subseteq [rpc : DOMAIN sent', to : Node, is_reply : BOOLEAN]
        BY <1>1, <1>3, ReplyEnds DEF Types
      <3> QED
        BY <1>1, <2>7, <3>1, SenderStored DEF Types
    <2>10. Grows
      BY <1>1, <1>3, <2>7, <2>8, SenderStored DEF Grows
    <2>11. Kept(m.rpc)'
      BY <1>1, <1>2, <2>1, <2>7, <2>8 DEF Kept, StoredRow
    <2>12. \A x \in net' \ net :
             /\ x.to = IF x.is_reply THEN sent'[x.rpc].from ELSE sent'[x.rpc].to
             /\ x.is_reply => Kept(x.rpc)'
      BY <1>1, <1>3, <2>11, ReplyEnds
    <2> QED
      BY <1>1, <2>9, <2>10, <2>12, NewOnes
  <1>4. CASE /\ failures' = failures \cup {<<m.to, m.rpc>>}
             /\ UNCHANGED <<kademlia_data, net>>
    <2>1. Types' /\ Grows
      BY <1>1, <1>4, SenderStored DEF Types, Grows
    <2> QED
      BY <1>1, <1>4, <2>1, NewOnes
  <1> QED
    BY <1>3, <1>4 DEF onDelayedStore

\* onStoreReply: what the reply acknowledges was kept before it was sent.
LEMMA ReplyStep ==
    ASSUME Inv, NEW m \in net, onStoreReply(m)
    PROVE  Inv'
  <1>1. /\ Types /\ StoreSender(m) /\ m.is_reply
        /\ UNCHANGED <<no_room, contacts, messages, kademlia_data, net, sent, received, failures>>
        /\ acked' \subseteq acked \cup {m.rpc}
    BY DEF onStoreReply, Inv, StoreSender, db
  <1>2. m.rpc \in DOMAIN sent /\ m.to \in Node
    BY DatagramEnds
  <1>3. requests_map' \in [Node -> SUBSET DOMAIN sent']
    BY <1>1 DEF onStoreReply, Types
  <1>4. Types' /\ Grows
    BY <1>1, <1>2, <1>3, SenderStored DEF Types, Grows
  <1>5. Kept(m.rpc)'
    BY <1>1, <1>2, <1>4, GrowsKeeps DEF Inv, ReplyIsKept
  <1> QED
    BY <1>1, <1>4, <1>5, NewOnes

\* requestTimedOut: the request is dropped.
LEMMA TimeoutStep ==
    ASSUME Inv, NEW n \in Node, NEW rpc, requestTimedOut(n, rpc)
    PROVE  Inv'
  <1>1. Types /\ UNCHANGED <<no_room, known, db, net, sent, acked, received, failures>>
    BY DEF requestTimedOut, Inv
  <1>2. requests_map' \in [Node -> SUBSET DOMAIN sent']
    BY <1>1 DEF requestTimedOut, Types
  <1>3. Types' /\ Grows
    BY <1>1, <1>2 DEF Types, Grows, db
  <1> QED
    BY <1>1, <1>3, NewOnes DEF db

\* One case per action.
LEMMA InvNext == Inv /\ [Next]_vars => Inv'
  <1> SUFFICES ASSUME Inv, [Next]_vars
               PROVE  Inv'
    OBVIOUS
  <1>1. CASE UNCHANGED vars
    <2>1. Types /\ UNCHANGED <<no_room, known, db, requests_map, net, sent, acked, received,
                              failures>>
      BY <1>1 DEF vars, Inv
    <2>2. Types' /\ Grows
      BY <2>1 DEF Types, Grows, db
    <2> QED
      BY <2>1, <2>2, NewOnes DEF db
  <1>2. CASE Next
    BY <1>2, SendStep, UnknownStep, ChatStep, DelayedStep, ReplyStep, TimeoutStep
       DEF Next, Deliver
  <1> QED
    BY <1>1, <1>2

\* The inductive invariant of the STORE RPC and its tables.
THEOREM Invariance == Spec => []Inv
  <1> QED
    BY InvInit, InvNext, PTL DEF Spec

\* Every row has its columns and its contact, and every history its RPC.
THEOREM TypeCorrect == Spec => []TypeOK
  <1>1. Inv => TypeOK
    <2> SUFFICES ASSUME Types
                 PROVE  TypeOK
      BY DEF Inv
    <2>1. ASSUME NEW n \in Node, NEW i \in DOMAIN messages[n]
          PROVE  messages[n][i] \in Message /\ messages[n][i].peer \in contacts[n]
      <3>1. messages[n] \in Seq(Message)
        BY DEF Types
      <3>2. messages[n][i] \in Message
        BY ONLY <3>1, <2>1, ElementOfSeq, LenProperties
      <3> QED
        BY <3>2 DEF Types
    <2>2. ASSUME NEW n \in Node, NEW i \in DOMAIN kademlia_data[n]
          PROVE  kademlia_data[n][i] \in [key : Node, value : Range(fromStdString)]
      <3>1. kademlia_data[n] \in Seq(Value)
        BY DEF Types
      <3>2. kademlia_data[n][i] \in Value
        BY ONLY <3>1, <2>2, ElementOfSeq, LenProperties
      <3> QED
        BY <3>2 DEF Value
    <2> QED
      BY <2>1, <2>2 DEF TypeOK, Types
  <1> QED
    BY <1>1, Invariance, PTL

\* Whoever gets an acknowledgement in time can rely on the receiver's tables, for
\* what fromStdString leaves of the value.
THEOREM AckedCorrect == Spec => []AckedIsKept
  <1>1. Inv => AckedIsKept
    BY DEF Inv
  <1> QED
    BY <1>1, Invariance, PTL

\* What one end shows as received, the other shows as sent, unless that end
\* failed to save it.
THEOREM BothEndsCorrect == Spec => []BothEndsAgree
  <1>1. Inv => BothEndsAgree
    BY DEF Inv
  <1> QED
    BY <1>1, Invariance, PTL

\* While a chat is within the limit the user is told only of messages that
\* fetching it shows, and only of known peers.
THEOREM AnnouncedCorrect == Spec => []AnnouncedIsFetched
  <1>1. Inv => AnnouncedIsFetched
    <2> SUFFICES ASSUME Inv, NEW rpc \in received
                 PROVE  /\ sent[rpc].from \in known[sent[rpc].to]
                        /\ Cardinality(ChatOf(sent[rpc].to, sent[rpc].from)) <= Limit =>
                             \E i \in fetchMessages(sent[rpc].to, sent[rpc].from) :
                                 messages[sent[rpc].to][i] = Incoming(rpc)
      BY DEF AnnouncedIsFetched
    <2>1. PICK to, from : to = sent[rpc].to /\ from = sent[rpc].from
      OBVIOUS
    <2>2. from \in known[to] /\ Holds(to, Incoming(rpc)) /\ to \in Node
      <3>1. sent[rpc] \in Call
        BY DEF Inv, Types
      <3> QED
        BY <2>1, <3>1 DEF Inv, AnnouncedIsSaved, Call
    <2>3. PICK i \in DOMAIN messages[to] : messages[to][i] = Incoming(rpc)
      BY <2>2 DEF Holds
    <2>4. i \in ChatOf(to, from) /\ from \in contacts[to]
      BY <2>1, <2>2, <2>3 DEF Inv, Types, ChatOf, Incoming
    <2>5. ASSUME Cardinality(ChatOf(to, from)) <= Limit
          PROVE  i \in fetchMessages(to, from)
      <3> DEFINE before == {j \in ChatOf(to, from) : j < i}
      <3>1. i \in Nat /\ before \subseteq ChatOf(to, from) /\ before # ChatOf(to, from)
        <4>1. DOMAIN messages[to] = 1 .. Len(messages[to])
          BY <2>2, LenProperties DEF Inv, Types
        <4>2. i \in Nat /\ ~ (i < i)
          BY <2>3, <4>1
        <4> QED
          BY <2>4, <4>2
      <3>2. IsFiniteSet(ChatOf(to, from))
        <4>1. DOMAIN messages[to] = 1 .. Len(messages[to]) /\ Len(messages[to]) \in Nat
          BY <2>2, LenProperties DEF Inv, Types
        <4>2. IsFiniteSet(1 .. Len(messages[to]))
          <5>1. \A n \in Nat : IsFiniteSet(1 .. n)
            <6> TAKE n \in Nat
            <6>1. 1 \in Int /\ n \in Int
              OBVIOUS
            <6> QED
              BY ONLY <6>1, FS_Interval, Zenon
          <5> QED
            BY ONLY <5>1, <4>1
        <4>3. ChatOf(to, from) \subseteq 1 .. Len(messages[to])
          BY <4>1 DEF ChatOf
        <4> QED
          BY <4>2, <4>3, FS_Subset
      <3> HIDE DEF before
      <3>3. /\ Cardinality(before) \in Nat /\ Cardinality(ChatOf(to, from)) \in Nat
            /\ Cardinality(before) < Cardinality(ChatOf(to, from))
        BY <3>1, <3>2, FS_Subset, FS_CardinalityType
      <3>4. Cardinality(before) < Limit
        BY <2>5, <3>3
      <3> QED
        BY <2>4, <3>4 DEF fetchMessages, before
    <2> QED
      BY <2>1, <2>2, <2>3, <2>5
  <1> QED
    BY <1>1, Invariance, PTL

===========================================================================
