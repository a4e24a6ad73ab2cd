----------------------------- MODULE ChatProofs -----------------------------
(***************************************************************************)
(* What the user sees, for every set of peers and spellings and every      *)
(* number of clicks and messages, however the two event queues and the     *)
(* network interleave.                                                     *)
(***************************************************************************)
EXTENDS Chat, HexCodec, SequenceTheorems, NaturalsInduction, WellFoundedInduction,
        TLAPS

\* Of a queue: what all its events are, that it has one of a kind, and that it
\* has one of A with only events of B behind it.
All(q, B) == \A i \in DOMAIN q : q[i] \in B

Has(q, A) == \E i \in DOMAIN q : q[i] \in A

Latest(q, A, B) == \E i \in DOMAIN q : q[i] \in A /\ \A j \in DOMAIN q : j > i => q[j] \in B

\* What each event of a queue is, over all states.
AnyUi ==
    [event : {"receivedMessage"}] \cup [event : {"refresh"}, peer : Name \ {NoPeer}]
        \cup [event : {"contactsFetched"}, list : SUBSET Peer]
        \cup [event : {"messagesFetched"}, list : Seq(Row)]

ContactsRequest == [event : {"requestContacts"}]

Received == [event : {"receivedMessage"}]

\* These make the UI thread ask for a chat again.
Repair == Received \cup [event : {"refresh"}, peer : Name \ {NoPeer}]

ContactLists == [event : {"contactsFetched"}, list : SUBSET Peer]

Chats == [event : {"messagesFetched"}, list : Seq(Row)]

-----------------------------------------------------------------------------
\* The invariant.

\* One chat as it was: what ViewIsOneChat says of the view.
OneChat(s) == s = << >> \/ \E name \in Opened : IsPrefix(s, Fetched(name))

\* What is posted names chats that were opened; who never wrote has posted no
\* text and no refresh after one.
NodeNow ==
    ContactsRequest
        \cup [event : {"requestMessages"}, peer : Opened]
        \cup [event : {"requestSendMessage"}, peer : {p \in Peer : wrote > 0}]

UiNow ==
    Received
        \cup [event : {"refresh"}, peer : {name \in Opened \ {NoPeer} : wrote > 0}]
        \cup [event : {"contactsFetched"}, list : SUBSET db_contacts]
        \cup [event : {"messagesFetched"}, list : {s \in Seq(Row) : OneChat(s)}]

Types ==
    /\ db_contacts \subseteq Peer /\ db_messages \in [Peer -> Seq(Row)]
    /\ \A p \in Peer : db_messages[p] # << >> => p \in db_contacts
    /\ clicks \in Seq(Name) /\ wrote \in Nat
    /\ current_peer_id \in IF Opened = {} THEN {NoPeer} ELSE Opened
    /\ contacts \subseteq db_contacts
    /\ current_messages \in Seq(Row) /\ OneChat(current_messages)
    /\ to_node \in Seq(NodeEvent) /\ All(to_node, NodeNow)
    /\ to_ui \in Seq(AnyUi) /\ All(to_ui, UiNow)
    /\ read_failed \subseteq {"contacts", "messages"}

\* What the view will be of, if nothing more is asked and the last answer is not
\* that of a failed fetch.
Shown(name) ==
    \/ "messages" \in read_failed
    \/ Latest(to_ui, {[event |-> "messagesFetched", list |-> Fetched(name)]}, AnyUi \ Chats)
    \/ All(to_ui, AnyUi \ Chats) /\ current_messages = Fetched(name)

\* The view will be that chat with all that is saved of it by then: it is asked
\* for after the last text that is to be saved, or what was saved is on its way.
Coming(name) ==
    \/ Latest(to_node, {requestMessages(name)}, ContactsRequest)
    \/ All(to_node, ContactsRequest) /\ Shown(name)

\* An opened chat is coming, or the UI thread is going to ask for one: under an
\* empty name it asks for none.
Fresh ==
    current_peer_id # NoPeer
        => Has(to_ui, Repair) \/ \E name \in Opened \ {NoPeer} : Coming(name)

\* To a user who only reads it is the current one, an empty one if unnamed.
Current ==
    Opened # {} /\ wrote = 0
        => (Has(to_ui, Received) /\ current_peer_id # NoPeer) \/ Coming(current_peer_id)

\* The list of contacts has p, or will have it when it is next fetched.
Listed(p) ==
    \/ "contacts" \in read_failed
    \/ Has(to_ui, Received)
    \/ Has(to_node, ContactsRequest)
    \/ Latest(to_ui, [event : {"contactsFetched"}, list : {L \in SUBSET Peer : p \in L}],
            AnyUi \ ContactLists)
    \/ All(to_ui, AnyUi \ ContactLists) /\ p \in contacts

AllListed ==
    \A p \in Peer : \A i \in DOMAIN db_messages[p] : ~ db_messages[p][i].isMine => Listed(p)

Inv == Types /\ Fresh /\ Current /\ AllListed

USE ChatAssumption DEF ChatAssumption

-----------------------------------------------------------------------------
\* Queues.

\* An empty queue has nothing.
LEMMA QueueEmpty == \A A, B : All(<< >>, B) /\ ~ Has(<< >>, A) /\ ~ Latest(<< >>, A, B)
  BY DEF All, Has, Latest

\* Event e is posted to queue q, which becomes r; event e of queue q is handled.
Posted(S, q, e, r) == q \in Seq(S) /\ e \in S /\ r = Append(q, e)

Handled(S, q, e, r) == q \in Seq(S) /\ q # << >> /\ e = Head(q) /\ r = Tail(q)

\* What is posted is the last event.
LEMMA QueueAppend ==
    ASSUME NEW S, NEW q, NEW e, NEW r, Posted(S, q, e, r)
    PROVE  /\ r \in Seq(S)
           /\ \A B : All(r, B) <=> (All(q, B) /\ e \in B)
           /\ \A A : Has(r, A) <=> (Has(q, A) \/ e \in A)
           /\ \A A, B : Latest(r, A, B) <=> (e \in A \/ (Latest(q, A, B) /\ e \in B))
  <1> SUFFICES ASSUME NEW A, NEW B
               PROVE  /\ r \in Seq(S)
                      /\ All(r, B) <=> (All(q, B) /\ e \in B)
                      /\ Has(r, A) <=> (Has(q, A) \/ e \in A)
                      /\ Latest(r, A, B) <=> (e \in A \/ (Latest(q, A, B) /\ e \in B))
    OBVIOUS
  <1> DEFINE n == Len(q)
  <1>0. q \in Seq(S) /\ e \in S /\ r = Append(q, e)
    BY DEF Posted
  <1>1. /\ n \in Nat /\ DOMAIN q = 1 .. n
        /\ r \in Seq(S) /\ DOMAIN r = 1 .. n + 1
        /\ \A i \in 1 .. n : r[i] = q[i]
        /\ r[n + 1] = e
    BY <1>0, AppendProperties, LenProperties
  <1> HIDE DEF n
  <1>2. \A i \in DOMAIN r : i \in DOMAIN q \/ i = n + 1
    BY <1>1
  <1>3. /\ \A i \in DOMAIN q : i \in DOMAIN r /\ n + 1 > i /\ ~ (i > n + 1) /\ r[i] = q[i]
        /\ n + 1 \in DOMAIN r /\ ~ (n + 1 > n + 1)
    BY <1>1
  <1>4. All(r, B) <=> (All(q, B) /\ e \in B)
    BY <1>1, <1>2, <1>3 DEF All
  <1>5. Has(r, A) <=> (Has(q, A) \/ e \in A)
    BY <1>1, <1>2, <1>3 DEF Has
  <1>6. e \in A => Latest(r, A, B)
    BY <1>1, <1>2, <1>3 DEF Latest
  <1>7. Latest(q, A, B) /\ e \in B => Latest(r, A, B)
    BY <1>1, <1>2, <1>3 DEF Latest
  <1>8. Latest(r, A, B) => e \in A \/ (Latest(q, A, B) /\ e \in B)
    BY <1>1, <1>2, <1>3 DEF Latest
  <1> QED
    BY <1>1, <1>4, <1>5, <1>6, <1>7, <1>8

\* What is handled is the first event.
LEMMA QueueTail ==
    ASSUME NEW S, NEW q, NEW e, NEW r, Handled(S, q, e, r)
    PROVE  /\ r \in Seq(S) /\ e \in S
           /\ \A B : All(q, B) <=> (e \in B /\ All(r, B))
           /\ \A A : Has(q, A) <=> (e \in A \/ Has(r, A))
           /\ \A A, B : Latest(q, A, B) <=> (Latest(r, A, B) \/ (e \in A /\ All(r, B)))
  <1> SUFFICES ASSUME NEW A, NEW B
               PROVE  /\ r \in Seq(S) /\ e \in S
                      /\ All(q, B) <=> (e \in B /\ All(r, B))
                      /\ Has(q, A) <=> (e \in A \/ Has(r, A))
                      /\ Latest(q, A, B) <=> (Latest(r, A, B) \/ (e \in A /\ All(r, B)))
    OBVIOUS
  <1> DEFINE n == Len(q)
  <1>0. q \in Seq(S) /\ q # << >> /\ e = Head(q) /\ r = Tail(q)
    BY DEF Handled
  <1>1. /\ n \in Nat /\ n > 0 /\ DOMAIN q = 1 .. n
        /\ r \in Seq(S) /\ DOMAIN r = 1 .. n - 1
        /\ \A i \in 1 .. n - 1 : r[i] = q[i + 1]
    BY <1>0, HeadTailProperties, LenProperties, EmptySeq
  <1>2. e = q[1] /\ e \in S
    BY <1>0, HeadTailProperties
  <1> HIDE DEF n
  <1>3. /\ \A i \in DOMAIN r : i + 1 \in DOMAIN q /\ r[i] = q[i + 1] /\ i + 1 > 1
        /\ \A i \in DOMAIN q : i = 1 \/ \E k \in DOMAIN r : i = k + 1
        /\ 1 \in DOMAIN q
        /\ \A i, j \in DOMAIN r : j + 1 > i + 1 <=> j > i
    <2>1. \A i \in DOMAIN q : i = 1 \/ (i - 1 \in DOMAIN r /\ i = (i - 1) + 1)
      BY <1>1
    <2> QED
      BY <1>1, <2>1
  <1>4. All(q, B) <=> (e \in B /\ All(r, B))
    BY <1>2, <1>3 DEF All
  <1>5. Has(q, A) <=> (e \in A \/ Has(r, A))
    BY <1>2, <1>3 DEF Has
  <1>6. ASSUME Latest(q, A, B)
        PROVE  Latest(r, A, B) \/ (e \in A /\ All(r, B))
    <2>1. PICK i \in DOMAIN q : q[i] \in A /\ \A j \in DOMAIN q : j > i => q[j] \in B
      BY <1>6 DEF Latest
    <2>2. CASE i = 1
      BY <1>2, <1>3, <2>1, <2>2 DEF All
    <2>3. CASE i # 1
      <3>1. PICK k \in DOMAIN r : i = k + 1
        BY <1>3, <2>3
      <3>2. r[k] \in A
        BY <1>3, <2>1, <3>1
      <3>3. \A j \in DOMAIN r : j > k => r[j] \in B
        BY <1>3, <2>1, <3>1
      <3> QED
        BY <3>2, <3>3 DEF Latest
    <2> QED
      BY <2>2, <2>3
  <1>7. ASSUME Latest(r, A, B)
        PROVE  Latest(q, A, B)
    <2>1. PICK k \in DOMAIN r : r[k] \in A /\ \A j \in DOMAIN r : j > k => r[j] \in B
      BY <1>7 DEF Latest
    <2>2. q[k + 1] \in A /\ k + 1 \in DOMAIN q
      BY <1>3, <2>1
    <2>3. ASSUME NEW j \in DOMAIN q, j > k + 1
          PROVE  q[j] \in B
      <3>1. k \in Nat
        BY <1>1
      <3>2. PICK m \in DOMAIN r : j = m + 1
        BY <1>3, <2>3, <3>1, <1>1
      <3> QED
        BY <1>3, <2>1, <2>3, <3>2
    <2> QED
      BY <2>2, <2>3 DEF Latest
  <1>8. e \in A /\ All(r, B) => Latest(q, A, B)
    <2> SUFFICES ASSUME e \in A, All(r, B)
                 PROVE  Latest(q, A, B)
      OBVIOUS
    <2>1. \A j \in DOMAIN q : j > 1 => q[j] \in B
      <3>1. \A j \in DOMAIN q : j > 1 => j # 1
        BY <1>1
      <3> QED
        BY <1>3, <3>1 DEF All
    <2> QED
      BY <1>2, <1>3, <2>1 DEF Latest
  <1> QED
    BY <1>1, <1>2, <1>4, <1>5, <1>6, <1>7, <1>8

-----------------------------------------------------------------------------
\* What steps have in common.

\* A chat is a prefix of itself and of what it grows to.
LEMMA PrefixGrows ==
    /\ \A s \in Seq(Row) : IsPrefix(s, s)
    /\ \A s, t \in Seq(Row) : \A e \in Row : IsPrefix(s, t) => IsPrefix(s, Append(t, e))
  <1>1. \A s \in Seq(Row) : IsPrefix(s, s)
    <2>1. \A s \in Seq(Row) : Len(s) \in Nat
      BY LenProperties
    <2> QED
      BY <2>1 DEF IsPrefix
  <1>2. ASSUME NEW s \in Seq(Row), NEW t \in Seq(Row), NEW e \in Row, IsPrefix(s, t)
        PROVE  IsPrefix(s, Append(t, e))
    <2>1. PICK r : r = Append(t, e)
      OBVIOUS
    <2>2. /\ r \in Seq(Row) /\ Len(r) = Len(t) + 1 /\ Len(t) \in Nat /\ Len(s) \in Nat
          /\ \A i \in 1 .. Len(t) : r[i] = t[i]
      BY <2>1, AppendProperties, LenProperties
    <2>3. Len(s) <= Len(t) /\ SubSeq(s, 1, Len(s)) = SubSeq(t, 1, Len(s))
      BY <1>2 DEF IsPrefix
    <2>4. \A i \in 1 .. Len(s) : i \in 1 .. Len(t)
      BY <2>2, <2>3
    <2>5. SubSeq(t, 1, Len(s)) = SubSeq(r, 1, Len(s))
      BY <2>2, <2>3, <2>4
    <2>6. Len(s) <= Len(r)
      BY <2>2, <2>3
    <2> QED
      BY <2>1, <2>3, <2>5, <2>6 DEF IsPrefix
  <1> QED
    BY <1>1, <1>2

\* Of a step after which every chat is still there, with all it had.
Grows ==
    /\ Opened \subseteq Opened' /\ wrote' \in Nat /\ wrote <= wrote'
    /\ db_contacts \subseteq db_contacts'
    /\ \A s \in Seq(Row) : \A name \in Opened :
          IsPrefix(s, Fetched(name)) => IsPrefix(s, Fetched(name)')

\* What is in the queues then stays right.
LEMMA NowGrows ==
    ASSUME Types, Grows
    PROVE  /\ NodeNow \subseteq NodeNow' /\ UiNow \subseteq UiNow'
           /\ \A s \in Seq(Row) : OneChat(s) => OneChat(s)'
           /\ \A q : All(q, NodeNow) => All(q, NodeNow')
           /\ \A q : All(q, UiNow) => All(q, UiNow')
  <1>1. \A s \in Seq(Row) : OneChat(s) => OneChat(s)'
    BY DEF Grows, OneChat
  <1>2. wrote > 0 => wrote' > 0
    BY DEF Grows, Types
  <1>3. NodeNow \subseteq NodeNow'
    BY <1>2 DEF Grows, NodeNow
  <1>4. UiNow \subseteq UiNow'
    <2>1. {name \in Opened \ {NoPeer} : wrote > 0}
               \subseteq {name \in Opened' \ {NoPeer} : wrote' > 0}
      BY <1>2 DEF Grows
    <2>2. SUBSET db_contacts \subseteq SUBSET db_contacts'
      BY DEF Grows
    <2>3. {s \in Seq(Row) : OneChat(s)} \subseteq {s \in Seq(Row) : OneChat(s)'}
      BY <1>1
    <2> QED
      BY <2>1, <2>2, <2>3 DEF UiNow
  <1> QED
    BY <1>1, <1>3, <1>4 DEF All

\* A step that leaves the tables alone.
LEMMA SameTables ==
    ASSUME UNCHANGED db
    PROVE  /\ \A name : Fetched(name)' = Fetched(name)
           /\ db_contacts' = db_contacts /\ db_messages' = db_messages
  BY DEF db, Fetched

\* And one that selects no chat and sends nothing.
LEMMA Quiet ==
    ASSUME Types, UNCHANGED <<db, clicks, wrote>>
    PROVE  Grows /\ Opened' = Opened
  <1>1. UNCHANGED db
    OBVIOUS
  <1> QED
    BY <1>1, SameTables DEF Grows, Opened, Types

\* Saving a message, which may fail, with a contact left behind or not.
Saving(peer, isMine) ==
    \/ Saved(peer, isMine)
    \/ db_contacts' \in {db_contacts, db_contacts \cup {peer}} /\ UNCHANGED db_messages

\* It adds to one chat.
LEMMA SavingEffect ==
    ASSUME Types, NEW peer \in Peer, NEW isMine \in BOOLEAN, Saving(peer, isMine),
           UNCHANGED <<clicks, wrote>>
    PROVE  /\ db_contacts' \subseteq Peer /\ db_messages' \in [Peer -> Seq(Row)]
           /\ \A p \in Peer : db_messages'[p] # << >> => p \in db_contacts'
           /\ Grows /\ Opened' = Opened
           /\ \/ db_messages' = db_messages
              \/ db_messages' = [db_messages EXCEPT ![peer] =
                                   Append(db_messages[peer], [peer |-> peer, isMine |-> isMine])]
  <1>1. db_contacts \subseteq db_contacts' /\ db_contacts' \subseteq Peer
    BY DEF Saving, Saved, Types
  <1>2. Opened' = Opened /\ wrote' \in Nat /\ wrote <= wrote'
    BY DEF Opened, Types
  <1>3. CASE Saved(peer, isMine)
    <2>1. PICK row \in Row : row = [peer |-> peer, isMine |-> isMine]
      BY DEF Row
    <2>2. PICK chat : chat = Append(db_messages[peer], row)
      OBVIOUS
    <2>3. db_messages[peer] \in Seq(Row) /\ chat \in Seq(Row)
      BY <2>2, AppendProperties DEF Types
    <2>4. db_messages' = [db_messages EXCEPT ![peer] = chat] /\ peer \in db_contacts'
      BY <1>3, <2>1, <2>2 DEF Saved
    <2>5. /\ db_messages' \in [Peer -> Seq(Row)] /\ db_messages'[peer] = chat
          /\ \A p \in Peer : p # peer => db_messages'[p] = db_messages[p]
      BY <2>3, <2>4 DEF Types
    <2>6. \A s \in Seq(Row) : \A name \in Opened :
            IsPrefix(s, Fetched(name)) => IsPrefix(s, Fetched(name)')
      <3> SUFFICES ASSUME NEW s \in Seq(Row), NEW name \in Opened, IsPrefix(s, Fetched(name))
                   PROVE  IsPrefix(s, Fetched(name)')
        OBVIOUS
      <3>1. CASE name = peer
        <4>1. IsPrefix(s, chat)
          BY <2>2, <2>3, <3>1, PrefixGrows DEF Fetched
        <4> QED
          BY <2>5, <3>1, <4>1 DEF Fetched
      <3>2. CASE name # peer
        BY <2>5, <3>2 DEF Fetched
      <3> QED
        BY <3>1, <3>2
    <2>7. \A p \in Peer : db_messages'[p] # << >> => p \in db_contacts'
      BY <1>1, <2>4, <2>5 DEF Types
    <2> QED
      BY <1>1, <1>2, <2>1, <2>2, <2>4, <2>5, <2>6, <2>7 DEF Grows
  <1>4. CASE ~ Saved(peer, isMine)
    <2>1. db_messages' = db_messages
      BY <1>4 DEF Saving
    <2>2. \A name : Fetched(name)' = Fetched(name)
      BY <2>1 DEF Fetched
    <2>3. \A p \in Peer : db_messages'[p] # << >> => p \in db_contacts'
      BY <1>1, <2>1 DEF Types
    <2> QED
      BY <1>1, <1>2, <2>1, <2>2, <2>3 DEF Grows, Types
  <1> QED
    BY <1>3, <1>4

-----------------------------------------------------------------------------
\* The steps.

\* At the start a request for the contacts is posted.
LEMMA InvInit == Init => Inv
  <1> SUFFICES ASSUME Init
               PROVE  Inv
    OBVIOUS
  <1>1. Opened = {}
    BY DEF Init, Opened, Range
  <1>2. to_node \in Seq(NodeEvent) /\ All(to_node, NodeNow)
    BY DEF Init, NodeEvent, All, NodeNow, ContactsRequest
  <1>3. to_ui \in Seq(AnyUi) /\ All(to_ui, UiNow)
    BY QueueEmpty DEF Init
  <1>4. Types
    BY <1>1, <1>2, <1>3 DEF Init, Types, OneChat
  <1> QED
    BY <1>1, <1>4 DEF Init, Inv, Fresh, Current, AllListed

\* A chat is selected: it is asked for, last.
LEMMA SelectStep ==
    ASSUME Inv, NEW name \in Name, selectChat(name)
    PROVE  Inv'
  <1>1. /\ clicks' = Append(clicks, name) /\ current_peer_id' = name
        /\ to_node' = Append(to_node, requestMessages(name))
        /\ UNCHANGED db /\ contacts' = contacts /\ current_messages' = current_messages
        /\ to_ui' = to_ui /\ wrote' = wrote /\ read_failed' = read_failed
    BY DEF selectChat
  <1>2. Types
    BY DEF Inv
  <1>3. clicks' \in Seq(Name) /\ Opened \subseteq Opened' /\ name \in Opened'
    <2>1. clicks \in Seq(Name)
      BY <1>2 DEF Types
    <2>2. /\ clicks' \in Seq(Name) /\ DOMAIN clicks' = 1 .. Len(clicks) + 1
          /\ DOMAIN clicks = 1 .. Len(clicks) /\ Len(clicks) \in Nat
          /\ \A i \in 1 .. Len(clicks) : clicks'[i] = clicks[i]
          /\ clicks'[Len(clicks) + 1] = name
      BY <1>1, <2>1, AppendProperties, LenProperties
    <2> QED
      BY <2>2 DEF Opened, Range
  <1>4. Grows
    BY <1>1, <1>2, <1>3, SameTables DEF Grows, Types
  <1>5. requestMessages(name) \in NodeEvent /\ requestMessages(name) \in NodeNow'
    BY <1>3 DEF requestMessages, NodeEvent, NodeNow
  <1>6. Posted(NodeEvent, to_node, requestMessages(name), to_node')
    BY <1>1, <1>2, <1>5 DEF Posted, Types
  <1>7. to_node' \in Seq(NodeEvent) /\ All(to_node', NodeNow')
    <2>1. All(to_node, NodeNow')
      BY <1>2, <1>4, NowGrows DEF Types
    <2> QED
      BY <1>5, <1>6, <2>1, QueueAppend
  <1>8. All(to_ui', UiNow') /\ OneChat(current_messages)'
    <2>1. All(to_ui, UiNow') /\ OneChat(current_messages)'
      <3>1. PICK s : s = current_messages
        OBVIOUS
      <3>2. s \in Seq(Row) /\ OneChat(s) /\ All(to_ui, UiNow)
        BY <1>2, <3>1 DEF Types
      <3>3. OneChat(s)' /\ All(to_ui, UiNow')
        BY <1>2, <1>4, <3>2, NowGrows
      <3> QED
        BY <1>1, <3>1, <3>3 DEF OneChat
    <2> QED
      BY <1>1, <2>1
  <1>9. Types'
    BY <1>1, <1>2, <1>3, <1>7, <1>8, SameTables DEF Types
  <1>10. Coming(name)'
    <2>1. Latest(to_node', {requestMessages(name)}, ContactsRequest)
      BY <1>6, QueueAppend
    <2> QED
      BY <2>1 DEF Coming
  <1>11. AllListed'
    <2>1. Has(to_node, ContactsRequest) => Has(to_node', ContactsRequest)
      BY <1>6, QueueAppend
    <2>2. \A p \in Peer : Listed(p) => Listed(p)'
      BY <1>1, <2>1 DEF Listed
    <2> QED
      BY <1>1, <2>2, SameTables DEF Inv, AllListed
  <1> QED
    BY <1>1, <1>3, <1>9, <1>10, <1>11 DEF Inv, Fresh, Current

\* A text is posted, and to the UI thread itself the refresh after it.
LEMMA SendStep ==
    ASSUME Inv, sendMessage
    PROVE  Inv'
  <1>1. /\ current_peer_id # NoPeer /\ wrote' = wrote + 1
        /\ to_node' = Append(to_node, [event |-> "requestSendMessage",
                                       peer |-> PeerOf[current_peer_id]])
        /\ to_ui' = Append(to_ui, [event |-> "refresh", peer |-> current_peer_id])
        /\ UNCHANGED db /\ contacts' = contacts /\ current_messages' = current_messages
        /\ current_peer_id' = current_peer_id /\ clicks' = clicks
        /\ read_failed' = read_failed
    BY DEF sendMessage, ui
  <1>2. Types
    BY DEF Inv
  <1>3. /\ Opened' = Opened /\ current_peer_id \in Opened
        /\ current_peer_id \in Name \ {NoPeer}
    <2>1. clicks \in Seq(Name)
      BY <1>2 DEF Types
    <2>2. Opened \subseteq Name
      BY <2>1, LenProperties, ElementOfSeq DEF Opened, Range
    <2> QED
      BY <1>1, <1>2, <2>2 DEF Types, Opened
  <1>4. Grows /\ wrote' > 0
    BY <1>1, <1>2, <1>3, SameTables DEF Grows, Types
  <1>5. PICK text : text = [event |-> "requestSendMessage", peer |-> PeerOf[current_peer_id]]
    OBVIOUS
  <1>6. PICK refresh : refresh = [event |-> "refresh", peer |-> current_peer_id]
    OBVIOUS
  <1>7. PICK A, B : A = NodeNow' /\ B = UiNow'
    OBVIOUS
  <1>8. text \in NodeEvent /\ text \in A
    <2>1. PeerOf[current_peer_id] \in Peer
      BY <1>3
    <2> QED
      BY <1>4, <1>5, <1>7, <2>1 DEF NodeEvent, NodeNow
  <1>9. refresh \in AnyUi /\ refresh \in B /\ refresh \in Repair
    BY <1>3, <1>4, <1>6, <1>7 DEF AnyUi, UiNow, Repair
  <1>10. /\ Posted(NodeEvent, to_node, text, to_node') /\ All(to_node, A)
         /\ Posted(AnyUi, to_ui, refresh, to_ui') /\ All(to_ui, B)
    BY <1>1, <1>2, <1>4, <1>5, <1>6, <1>7, <1>8, <1>9, NowGrows DEF Types, Posted
  <1>11. to_node' \in Seq(NodeEvent) /\ All(to_node', A)
    BY <1>8, <1>10, QueueAppend
  <1>12. /\ to_ui' \in Seq(AnyUi) /\ All(to_ui', B) /\ Has(to_ui', Repair)
         /\ Has(to_ui, Received) => Has(to_ui', Received)
    BY <1>9, <1>10, QueueAppend
  <1>13. OneChat(current_messages)'
    BY <1>1, <1>2, <1>3, SameTables DEF Types, OneChat
  <1>14. Types'
    BY <1>1, <1>2, <1>3, <1>4, <1>7, <1>11, <1>12, <1>13, SameTables DEF Types, Grows
  <1>15. AllListed'
    <2>1. Has(to_node, ContactsRequest) => Has(to_node', ContactsRequest)
      BY <1>10, QueueAppend
    <2>2. refresh \in AnyUi \ ContactLists
      BY <1>6, <1>9 DEF ContactLists
    <2>3. \A C : Latest(to_ui, C, AnyUi \ ContactLists) => Latest(to_ui', C, AnyUi \ ContactLists)
      BY <1>10, <2>2, QueueAppend
    <2>4. All(to_ui, AnyUi \ ContactLists) => All(to_ui', AnyUi \ ContactLists)
      BY <1>10, <2>2, QueueAppend
    <2>5. \A p \in Peer : Listed(p) => Listed(p)'
      BY <1>1, <1>12, <2>1, <2>3, <2>4 DEF Listed
    <2> QED
      BY <1>1, <2>5, SameTables DEF Inv, AllListed
  <1> QED
    BY <1>4, <1>12, <1>14, <1>15 DEF Inv, Fresh, Current

\* The tables and the view after a step that selects no chat and does not
\* change the view.
LEMMA TablesAndView ==
    ASSUME Types, Grows, Opened' = Opened, clicks' = clicks, ui' = ui,
           db_contacts' \subseteq Peer, db_messages' \in [Peer -> Seq(Row)],
           \A p \in Peer : db_messages'[p] # << >> => p \in db_contacts',
           to_node' \in Seq(NodeEvent), All(to_node', NodeNow'),
           to_ui' \in Seq(AnyUi), All(to_ui', UiNow'),
           read_failed' \subseteq {"contacts", "messages"}
    PROVE  Types'
  <1>1. /\ current_peer_id' = current_peer_id /\ contacts' = contacts
        /\ current_messages' = current_messages
    BY DEF ui
  <1>2. OneChat(current_messages)'
    <2>1. PICK s : s = current_messages
      OBVIOUS
    <2>2. s \in Seq(Row) /\ OneChat(s)
      BY <2>1 DEF Types
    <2>3. OneChat(s)'
      BY <2>2, NowGrows
    <2> QED
      BY <1>1, <2>1, <2>3 DEF OneChat
  <1> QED
    BY <1>1, <1>2 DEF Types, Grows

\* A message of a peer that is saved is announced, and that mends everything.
LEMMA ReceiveStep ==
    ASSUME Inv, NEW peer \in Peer, receiveStore(peer)
    PROVE  Inv'
  <1>1. /\ to_node' = to_node /\ ui' = ui /\ clicks' = clicks /\ wrote' = wrote
        /\ read_failed' = read_failed /\ current_peer_id' = current_peer_id
    BY DEF receiveStore, ui
  <1>2. \/ Saved(peer, FALSE) /\ to_ui' = Append(to_ui, [event |-> "receivedMessage"])
        \/ /\ db_contacts' \in {db_contacts, db_contacts \cup {peer}}
           /\ db_messages' = db_messages /\ to_ui' = to_ui
    BY DEF receiveStore
  <1>3. Types
    BY DEF Inv
  <1>4. /\ db_contacts' \subseteq Peer /\ db_messages' \in [Peer -> Seq(Row)]
        /\ \A p \in Peer : db_messages'[p] # << >> => p \in db_contacts'
        /\ Grows /\ Opened' = Opened
    <2>1. Saving(peer, FALSE)
      BY <1>2 DEF Saving
    <2> QED
      BY <1>1, <1>3, <2>1, SavingEffect
  <1>5. /\ to_node' \in Seq(NodeEvent) /\ All(to_node', NodeNow')
        /\ to_ui \in Seq(AnyUi) /\ All(to_ui, UiNow')
    BY <1>1, <1>3, <1>4, NowGrows DEF Types
  <1>6. CASE Saved(peer, FALSE) /\ to_ui' = Append(to_ui, [event |-> "receivedMessage"])
    <2>1. PICK e : e = [event |-> "receivedMessage"]
      OBVIOUS
    <2>2. e \in AnyUi /\ e \in Received /\ e \in Repair /\ e \in UiNow'
      BY <2>1 DEF AnyUi, Received, Repair, UiNow
    <2>3. Posted(AnyUi, to_ui, e, to_ui')
      BY <1>5, <1>6, <2>1, <2>2 DEF Posted
    <2>4. to_ui' \in Seq(AnyUi) /\ All(to_ui', UiNow') /\ Has(to_ui', Received) /\ Has(to_ui', Repair)
      BY <1>5, <2>2, <2>3, QueueAppend
    <2>5. Types'
      BY <1>1, <1>3, <1>4, <1>5, <2>4, TablesAndView DEF Types
    <2>6. Coming(NoPeer) => Coming(NoPeer)'
      <3>1. PICK C, B : /\ C = {[event |-> "messagesFetched", list |-> Fetched(NoPeer)]}
                        /\ B = AnyUi \ Chats
        OBVIOUS
      <3>2. e \in B
        BY <2>1, <2>2, <3>1 DEF Chats
      <3>3. /\ Latest(to_ui, C, B) => Latest(to_ui', C, B)
            /\ All(to_ui, B) => All(to_ui', B)
        BY <2>3, <3>2, QueueAppend
      <3>4. Fetched(NoPeer)' = Fetched(NoPeer) /\ current_messages' = current_messages
        BY <1>1 DEF Fetched, ui
      <3> QED
        BY <1>1, <3>1, <3>3, <3>4 DEF Coming, Shown
    <2>7. Current'
      BY <1>1, <1>4, <2>4, <2>6 DEF Inv, Current
    <2> QED
      BY <2>4, <2>5, <2>7 DEF Inv, Fresh, AllListed, Listed
  <1>7. CASE db_messages' = db_messages /\ to_ui' = to_ui
    <2>1. Types'
      BY <1>1, <1>3, <1>4, <1>5, <1>7, TablesAndView DEF Types
    <2>2. \A name : Fetched(name)' = Fetched(name)
      BY <1>7 DEF Fetched
    <2>3. \A name : Coming(name) => Coming(name)'
      BY <1>1, <1>7, <2>2 DEF Coming, Shown, ui
    <2>4. \A p \in Peer : Listed(p) => Listed(p)'
      BY <1>1, <1>7 DEF Listed, ui
    <2>5. Fresh' /\ AllListed'
      BY <1>1, <1>4, <1>7, <2>3, <2>4 DEF Inv, Fresh, AllListed
    <2>6. Current'
      BY <1>1, <1>4, <1>7, <2>3 DEF Inv, Current, ui
    <2> QED
      BY <2>1, <2>5, <2>6 DEF Inv
  <1> QED
    BY <1>2, <1>6, <1>7

\* The node's thread takes an event from its queue.
LEMMA NodeTakes ==
    ASSUME Inv, to_node # << >>, to_node' = Tail(to_node), Grows
    PROVE  /\ Handled(NodeEvent, to_node, Head(to_node), to_node')
           /\ to_node' \in Seq(NodeEvent) /\ All(to_node', NodeNow')
           /\ Head(to_node) \in NodeNow
  <1>1. Handled(NodeEvent, to_node, Head(to_node), to_node')
    BY DEF Handled, Inv, Types
  <1>2. to_node' \in Seq(NodeEvent) /\ All(to_node', NodeNow) /\ Head(to_node) \in NodeNow
    BY <1>1, QueueTail DEF Inv, Types
  <1> QED
    BY <1>1, <1>2, NowGrows DEF Inv

\* The list of contacts is read and posted.
LEMMA FetchContactsStep ==
    ASSUME Inv, nodeHandles, fetchContactsFromDb
    PROVE  Inv'
  <1>1. /\ to_node # << >> /\ to_node' = Tail(to_node)
        /\ ui' = ui /\ clicks' = clicks /\ wrote' = wrote
        /\ Head(to_node).event = "requestContacts"
        /\ UNCHANGED db
    BY DEF nodeHandles, fetchContactsFromDb
  <1>2. Types
    BY DEF Inv
  <1>3. Grows /\ Opened' = Opened
    BY <1>1, <1>2, Quiet
  <1>4. PICK head : head = Head(to_node)
    OBVIOUS
  <1>5. /\ Handled(NodeEvent, to_node, head, to_node')
        /\ to_node' \in Seq(NodeEvent) /\ All(to_node', NodeNow')
    BY <1>1, <1>3, <1>4, NodeTakes
  <1>6. head \in NodeEvent /\ head \notin {requestMessages(name) : name \in Opened}
    BY <1>1, <1>4, <1>5, QueueTail DEF requestMessages
  <1>7. PICK e : /\ to_ui' = Append(to_ui, e)
                 /\ \/ /\ e = [event |-> "contactsFetched", list |-> db_contacts]
                       /\ read_failed' = read_failed \ {"contacts"}
                    \/ /\ e = [event |-> "contactsFetched", list |-> {}]
                       /\ read_failed' = read_failed \cup {"contacts"}
    BY DEF fetchContactsFromDb, contactsFetched
  <1>8. e \in AnyUi /\ e \in UiNow' /\ e \in AnyUi \ Chats
    BY <1>1, <1>2, <1>7, SameTables DEF Types, AnyUi, UiNow, Chats
  <1>9. Posted(AnyUi, to_ui, e, to_ui')
    BY <1>1, <1>2, <1>7, <1>8 DEF Types, Posted
  <1>10. /\ to_ui' \in Seq(AnyUi) /\ All(to_ui', UiNow')
         /\ \A A : Has(to_ui, A) => Has(to_ui', A)
    <2>1. All(to_ui, UiNow')
      BY <1>2, <1>3, NowGrows DEF Types
    <2> QED
      BY <1>8, <1>9, <2>1, QueueAppend
  <1>11. Types'
    <2>1. read_failed' \subseteq {"contacts", "messages"}
      BY <1>2, <1>7 DEF Types
    <2> QED
      BY <1>1, <1>2, <1>3, <1>5, <1>10, <2>1, SameTables, TablesAndView DEF Types
  <1>12. \A name \in Opened : Coming(name) => Coming(name)'
    <2> SUFFICES ASSUME NEW name \in Opened, Coming(name)
                 PROVE  Coming(name)'
      OBVIOUS
    <2>1. Shown(name) => Shown(name)'
      <3>1. PICK C, B : /\ C = {[event |-> "messagesFetched", list |-> Fetched(name)]}
                        /\ B = AnyUi \ Chats
        OBVIOUS
      <3>2. /\ Latest(to_ui, C, B) => Latest(to_ui', C, B)
            /\ All(to_ui, B) => All(to_ui', B)
        BY <1>8, <1>9, <3>1, QueueAppend
      <3>3. Fetched(name)' = Fetched(name) /\ current_messages' = current_messages
        BY <1>1, SameTables DEF ui
      <3>4. "messages" \in read_failed => "messages" \in read_failed'
        BY <1>7
      <3> QED
        BY <3>1, <3>2, <3>3, <3>4 DEF Shown
    <2>2. head \notin {requestMessages(name)}
      BY <1>6
    <2> QED
      BY <1>5, <2>1, <2>2, QueueTail DEF Coming
  <1>13. \A p \in Peer : db_messages[p] # << >> => Listed(p)'
    <2> SUFFICES ASSUME NEW p \in Peer, p \in db_contacts
                 PROVE  Listed(p)'
      BY <1>2 DEF Types
    <2>1. PICK C, B : /\ C = [event : {"contactsFetched"}, list : {L \in SUBSET Peer : p \in L}]
                      /\ B = AnyUi \ ContactLists
      OBVIOUS
    <2>2. "contacts" \in read_failed' \/ e \in C
      BY <1>2, <1>7, <2>1 DEF Types
    <2>3. e \in C => Latest(to_ui', C, B)
      BY <1>9, QueueAppend
    <2> QED
      BY <2>1, <2>2, <2>3 DEF Listed
  <1>14. Fresh'
    BY <1>1, <1>3, <1>10, <1>12 DEF Inv, Fresh, ui
  <1>15. Current'
    <2>1. Opened # {} => current_peer_id \in Opened
      BY <1>2 DEF Types
    <2> QED
      BY <1>1, <1>3, <1>10, <1>12, <2>1 DEF Inv, Current, ui
  <1>16. AllListed'
    <2>1. \A p \in Peer : \A i \in DOMAIN db_messages[p] : db_messages[p] # << >>
      OBVIOUS
    <2> QED
      BY <1>1, <1>13, <2>1, SameTables DEF AllListed
  <1> QED
    BY <1>11, <1>14, <1>15, <1>16 DEF Inv

\* A chat is read and posted: if it was the last one asked for, it is coming.
LEMMA FetchMessagesStep ==
    ASSUME Inv, nodeHandles, fetchMessagesFromDb
    PROVE  Inv'
  <1>1. /\ to_node # << >> /\ to_node' = Tail(to_node)
        /\ ui' = ui /\ clicks' = clicks /\ wrote' = wrote
        /\ Head(to_node).event = "requestMessages"
        /\ UNCHANGED db
    BY DEF nodeHandles, fetchMessagesFromDb
  <1>2. Types
    BY DEF Inv
  <1>3. Grows /\ Opened' = Opened
    BY <1>1, <1>2, Quiet
  <1>4. PICK head : head = Head(to_node)
    OBVIOUS
  <1>5. /\ Handled(NodeEvent, to_node, head, to_node')
        /\ to_node' \in Seq(NodeEvent) /\ All(to_node', NodeNow') /\ head \in NodeNow
    BY <1>1, <1>3, <1>4, NodeTakes
  <1>6. head \notin ContactsRequest /\ head.peer \in Opened
    BY <1>1, <1>4, <1>5 DEF ContactsRequest, NodeNow
  <1>7. PICK chat : /\ to_ui' = Append(to_ui, [event |-> "messagesFetched", list |-> chat])
                    /\ \/ chat = Fetched(head.peer) /\ read_failed' = read_failed \ {"messages"}
                       \/ chat = << >> /\ read_failed' = read_failed \cup {"messages"}
    BY <1>4 DEF fetchMessagesFromDb, messagesFetched
  <1>8. chat \in Seq(Row) /\ OneChat(chat)
    <2>1. chat \in Seq(Row)
      <3>1. Fetched(head.peer) \in Seq(Row)
        BY <1>2 DEF Fetched, Types
      <3>2. << >> \in Seq(Row)
        OBVIOUS
      <3> QED
        BY <1>7, <3>1, <3>2
    <2> QED
      BY <1>6, <1>7, <2>1, PrefixGrows DEF OneChat
  <1>9. PICK e : e = [event |-> "messagesFetched", list |-> chat]
    OBVIOUS
  <1>10. e \in AnyUi /\ e \in UiNow' /\ e \in AnyUi \ ContactLists
    <2>1. e \in UiNow
      BY <1>8, <1>9 DEF UiNow
    <2>2. e \in AnyUi /\ e \notin ContactLists
      BY <1>8, <1>9 DEF AnyUi, ContactLists
    <2> QED
      BY <1>2, <1>3, <2>1, <2>2, NowGrows
  <1>11. Posted(AnyUi, to_ui, e, to_ui')
    BY <1>1, <1>2, <1>4, <1>7, <1>9, <1>10 DEF Types, Posted
  <1>12. /\ to_ui' \in Seq(AnyUi) /\ All(to_ui', UiNow')
         /\ \A A : Has(to_ui, A) => Has(to_ui', A)
    <2>1. All(to_ui, UiNow')
      BY <1>2, <1>3, NowGrows DEF Types
    <2> QED
      BY <1>10, <1>11, <2>1, QueueAppend
  <1>13. Types'
    <2>1. read_failed' \subseteq {"contacts", "messages"}
      BY <1>2, <1>7 DEF Types
    <2> QED
      BY <1>1, <1>2, <1>3, <1>5, <1>12, <2>1, SameTables, TablesAndView DEF Types
  <1>14. \A name \in Opened : Coming(name) => Coming(name)'
    <2> SUFFICES ASSUME NEW name \in Opened, Coming(name)
                 PROVE  Coming(name)'
      OBVIOUS
    <2>1. Latest(to_node, {requestMessages(name)}, ContactsRequest)
      BY <1>5, <1>6, QueueTail DEF Coming
    <2>2. \/ Latest(to_node', {requestMessages(name)}, ContactsRequest)
          \/ head = requestMessages(name) /\ All(to_node', ContactsRequest)
      BY <1>5, <2>1, QueueTail
    <2>3. CASE head = requestMessages(name) /\ All(to_node', ContactsRequest)
      <3>1. PICK B : B = AnyUi \ Chats
        OBVIOUS
      <3>2. \/ "messages" \in read_failed'
            \/ e = [event |-> "messagesFetched", list |-> Fetched(name)']
        BY <1>1, <1>7, <1>9, <2>3, SameTables DEF requestMessages
      <3>3. Latest(to_ui', {e}, B)
        BY <1>11, QueueAppend
      <3> QED
        BY <2>3, <3>1, <3>2, <3>3 DEF Coming, Shown
    <2> QED
      BY <2>2, <2>3 DEF Coming
  <1>15. \A p \in Peer : Listed(p) => Listed(p)'
    <2> SUFFICES ASSUME NEW p \in Peer, Listed(p)
                 PROVE  Listed(p)'
      OBVIOUS
    <2>1. PICK C, B : /\ C = [event : {"contactsFetched"}, list : {L \in SUBSET Peer : p \in L}]
                      /\ B = AnyUi \ ContactLists
      OBVIOUS
    <2>2. /\ Latest(to_ui, C, B) => Latest(to_ui', C, B)
          /\ All(to_ui, B) => All(to_ui', B)
      BY <1>10, <1>11, <2>1, QueueAppend
    <2>3. Has(to_node, ContactsRequest) => Has(to_node', ContactsRequest)
      BY <1>5, <1>6, QueueTail
    <2>4. /\ contacts' = contacts
          /\ "contacts" \in read_failed => "contacts" \in read_failed'
      BY <1>1, <1>7 DEF ui
    <2> QED
      BY <1>12, <2>1, <2>2, <2>3, <2>4 DEF Listed
  <1>16. Fresh'
    BY <1>1, <1>3, <1>12, <1>14 DEF Inv, Fresh, ui
  <1>17. Current'
    <2>1. Opened # {} => current_peer_id \in Opened
      BY <1>2 DEF Types
    <2> QED
      BY <1>1, <1>3, <1>12, <1>14, <2>1 DEF Inv, Current, ui
  <1>18. AllListed'
    BY <1>1, <1>15, SameTables DEF Inv, AllListed
  <1> QED
    BY <1>13, <1>16, <1>17, <1>18 DEF Inv

\* A text is saved, or not: the refresh after it is still to come.
LEMMA StoreStep ==
    ASSUME Inv, nodeHandles, sendStore
    PROVE  Inv'
  <1>1. /\ to_node # << >> /\ to_node' = Tail(to_node)
        /\ ui' = ui /\ clicks' = clicks /\ wrote' = wrote
        /\ Head(to_node).event = "requestSendMessage"
        /\ Saving(Head(to_node).peer, TRUE)
        /\ to_ui' = to_ui /\ read_failed' = read_failed
    BY DEF nodeHandles, sendStore, Saving
  <1>2. Types
    BY DEF Inv
  <1>3. PICK head : head = Head(to_node)
    OBVIOUS
  <1>4. head.peer \in Peer
    <2>1. Handled(NodeEvent, to_node, head, to_node')
      BY <1>1, <1>2, <1>3 DEF Handled, Types
    <2>2. head \in NodeNow
      BY <1>2, <2>1, QueueTail DEF Types
    <2> QED
      BY <1>1, <1>3, <2>2 DEF NodeNow, ContactsRequest
  <1>5. /\ db_contacts' \subseteq Peer /\ db_messages' \in [Peer -> Seq(Row)]
        /\ \A p \in Peer : db_messages'[p] # << >> => p \in db_contacts'
        /\ Grows /\ Opened' = Opened
    BY <1>1, <1>2, <1>3, <1>4, SavingEffect
  <1>6. /\ Handled(NodeEvent, to_node, head, to_node')
        /\ to_node' \in Seq(NodeEvent) /\ All(to_node', NodeNow')
    BY <1>1, <1>3, <1>5, NodeTakes
  <1>7. head \notin ContactsRequest /\ \A name : head \notin {requestMessages(name)}
    BY <1>1, <1>3 DEF ContactsRequest, requestMessages
  <1>8. Types'
    <2>1. to_ui' \in Seq(AnyUi) /\ All(to_ui', UiNow')
      BY <1>1, <1>2, <1>5, NowGrows DEF Types
    <2> QED
      BY <1>1, <1>2, <1>5, <1>6, <2>1, TablesAndView DEF Types
  <1>9. \A name \in Opened : Coming(name) => Coming(name)'
    BY <1>6, <1>7, QueueTail DEF Coming
  <1>10. \A p \in Peer : Listed(p) => Listed(p)'
    <2>1. Has(to_node, ContactsRequest) => Has(to_node', ContactsRequest)
      BY <1>6, <1>7, QueueTail
    <2> QED
      BY <1>1, <2>1 DEF Listed, ui
  <1>11. AllListed'
    <2> SUFFICES ASSUME NEW p \in Peer, NEW i \in DOMAIN db_messages'[p],
                        ~ db_messages'[p][i].isMine
                 PROVE  Listed(p)'
      BY DEF AllListed
    <2>1. \E k \in DOMAIN db_messages[p] : ~ db_messages[p][k].isMine
      <3>1. CASE db_messages'[p] = db_messages[p]
        BY <3>1
      <3>2. CASE db_messages'[p] # db_messages[p]
        <4>1. PICK row : row = [peer |-> head.peer, isMine |-> TRUE]
          OBVIOUS
        <4>2. db_messages' = [db_messages EXCEPT ![head.peer] = Append(db_messages[head.peer], row)]
          BY <1>1, <1>2, <1>3, <1>4, <3>2, <4>1, SavingEffect
        <4>3. p = head.peer /\ db_messages'[p] = Append(db_messages[p], row)
          BY <1>2, <1>4, <3>2, <4>2 DEF Types
        <4>4. PICK chat : chat = db_messages[p]
          OBVIOUS
        <4>5. chat \in Seq(Row) /\ row \in Row
          BY <1>2, <1>4, <4>1, <4>4 DEF Types, Row
        <4>6. /\ Len(chat) \in Nat /\ DOMAIN chat = 1 .. Len(chat)
              /\ DOMAIN Append(chat, row) = 1 .. Len(chat) + 1
              /\ \A k \in 1 .. Len(chat) : Append(chat, row)[k] = chat[k]
              /\ Append(chat, row)[Len(chat) + 1] = row
          BY <4>5, AppendProperties, LenProperties
        <4>7. i \in DOMAIN chat /\ db_messages'[p][i] = chat[i]
          BY <4>1, <4>3, <4>4, <4>6
        <4> QED
          BY <4>4, <4>7
      <3> QED
        BY <3>1, <3>2
    <2> QED
      BY <1>10, <2>1 DEF Inv, AllListed
  <1>12. Fresh'
    BY <1>1, <1>5, <1>9 DEF Inv, Fresh, ui
  <1>13. Current'
    <2>1. Opened # {} => current_peer_id \in Opened
      BY <1>2 DEF Types
    <2> QED
      BY <1>1, <1>5, <1>9, <2>1 DEF Inv, Current, ui
  <1> QED
    BY <1>8, <1>11, <1>12, <1>13 DEF Inv

\* The UI thread takes an event from its queue.
LEMMA UiTakes ==
    ASSUME Inv, uiHandles
    PROVE  /\ Handled(AnyUi, to_ui, Head(to_ui), to_ui')
           /\ to_ui' \in Seq(AnyUi) /\ All(to_ui', UiNow')
           /\ Head(to_ui) \in UiNow /\ Head(to_ui) \in AnyUi
           /\ UNCHANGED <<db, read_failed, clicks, wrote>> /\ Grows /\ Opened' = Opened
           /\ \A name : Fetched(name)' = Fetched(name)
           /\ db_contacts' = db_contacts /\ db_messages' = db_messages
  <1>1. to_ui # << >> /\ to_ui' = Tail(to_ui) /\ UNCHANGED <<db, read_failed, clicks, wrote>>
    BY DEF uiHandles
  <1>2. Grows /\ Opened' = Opened
    BY <1>1, Quiet DEF Inv
  <1>3. Handled(AnyUi, to_ui, Head(to_ui), to_ui')
    BY <1>1 DEF Handled, Inv, Types
  <1>4. /\ to_ui' \in Seq(AnyUi) /\ All(to_ui', UiNow)
        /\ Head(to_ui) \in UiNow /\ Head(to_ui) \in AnyUi
    BY <1>3, QueueTail DEF Inv, Types
  <1> QED
    BY <1>1, <1>2, <1>3, <1>4, NowGrows, SameTables DEF Inv

\* A list of contacts is shown: it has everybody whose message was announced
\* before it was read.
LEMMA ContactsStep ==
    ASSUME Inv, uiHandles, onContactsReceived
    PROVE  Inv'
  <1>1. /\ Head(to_ui).event = "contactsFetched" /\ contacts' = Head(to_ui).list
        /\ to_node' = to_node /\ current_peer_id' = current_peer_id
        /\ current_messages' = current_messages
    BY DEF onContactsReceived
  <1>2. Types
    BY DEF Inv
  <1>3. PICK head : head = Head(to_ui)
    OBVIOUS
  <1>4. /\ Handled(AnyUi, to_ui, head, to_ui')
        /\ to_ui' \in Seq(AnyUi) /\ All(to_ui', UiNow')
        /\ head \in UiNow /\ head \in AnyUi
        /\ clicks' = clicks /\ wrote' = wrote /\ Grows /\ Opened' = Opened
        /\ \A name : Fetched(name)' = Fetched(name)
        /\ db_contacts' = db_contacts /\ db_messages' = db_messages
        /\ read_failed' = read_failed
    BY <1>3, UiTakes
  <1>5. head \in ContactLists /\ head.list \subseteq db_contacts
    BY <1>1, <1>2, <1>3, <1>4 DEF UiNow, Received, ContactLists, Types
  <1>6. head \notin Received /\ head \notin Repair /\ head \notin Chats
    BY <1>1, <1>3 DEF Received, Repair, Chats
  <1>7. All(to_node', NodeNow')
    BY <1>1, <1>2, <1>4, NowGrows DEF Types
  <1>8. OneChat(current_messages)'
    BY <1>1, <1>2, <1>4 DEF Types, OneChat
  <1>9. Types'
    BY <1>1, <1>2, <1>3, <1>4, <1>5, <1>7, <1>8 DEF Types
  <1>10. /\ Has(to_ui, Received) => Has(to_ui', Received)
         /\ Has(to_ui, Repair) => Has(to_ui', Repair)
    BY <1>4, <1>6, QueueTail
  <1>11. \A name : Coming(name) => Coming(name)'
    <2> SUFFICES ASSUME NEW name, Shown(name)
                 PROVE  Shown(name)'
      BY <1>1 DEF Coming
    <2>1. PICK C, B : /\ C = {[event |-> "messagesFetched", list |-> Fetched(name)]}
                      /\ B = AnyUi \ Chats
      OBVIOUS
    <2>2. head \notin C
      BY <1>1, <1>3, <2>1
    <2>3. /\ Latest(to_ui, C, B) => Latest(to_ui', C, B)
          /\ All(to_ui, B) => All(to_ui', B)
      BY <1>4, <2>2, QueueTail
    <2> QED
      BY <1>1, <1>4, <2>1, <2>3 DEF Shown
  <1>12. \A p \in Peer : Listed(p) => Listed(p)'
    <2> SUFFICES ASSUME NEW p \in Peer, Listed(p)
                 PROVE  Listed(p)'
      OBVIOUS
    <2>1. PICK C, B : /\ C = [event : {"contactsFetched"}, list : {L \in SUBSET Peer : p \in L}]
                      /\ B = AnyUi \ ContactLists
      OBVIOUS
    <2>2. head \notin B
      BY <1>5, <2>1
    <2>3. /\ Latest(to_ui, C, B) => Latest(to_ui', C, B) \/ (head \in C /\ All(to_ui', B))
          /\ ~ All(to_ui, B)
      BY <1>4, <2>2, QueueTail
    <2>4. head \in C => p \in contacts'
      BY <1>1, <1>3, <2>1
    <2> QED
      BY <1>1, <1>4, <1>10, <2>1, <2>3, <2>4 DEF Listed
  <1>13. Fresh' /\ Current'
    BY <1>1, <1>4, <1>10, <1>11 DEF Inv, Fresh, Current
  <1>14. AllListed'
    BY <1>4, <1>12 DEF Inv, AllListed
  <1> QED
    BY <1>9, <1>13, <1>14 DEF Inv

\* A chat that was fetched is shown.
LEMMA MessagesStep ==
    ASSUME Inv, uiHandles, onMessagesReceived
    PROVE  Inv'
  <1>1. /\ Head(to_ui).event = "messagesFetched" /\ current_messages' = Head(to_ui).list
        /\ to_node' = to_node /\ current_peer_id' = current_peer_id /\ contacts' = contacts
    BY DEF onMessagesReceived
  <1>2. Types
    BY DEF Inv
  <1>3. PICK head : head = Head(to_ui)
    OBVIOUS
  <1>4. /\ Handled(AnyUi, to_ui, head, to_ui')
        /\ to_ui' \in Seq(AnyUi) /\ All(to_ui', UiNow')
        /\ head \in UiNow /\ head \in AnyUi
        /\ clicks' = clicks /\ wrote' = wrote /\ Grows /\ Opened' = Opened
        /\ \A name : Fetched(name)' = Fetched(name)
        /\ db_contacts' = db_contacts /\ db_messages' = db_messages
        /\ read_failed' = read_failed
    BY <1>3, UiTakes
  <1>5. head \in Chats /\ head.list \in Seq(Row) /\ OneChat(head.list)
    BY <1>1, <1>3, <1>4 DEF UiNow, Received, Chats
  <1>6. head \notin Received /\ head \notin Repair /\ head \notin ContactLists
    BY <1>1, <1>3 DEF Received, Repair, ContactLists
  <1>7. All(to_node', NodeNow')
    BY <1>1, <1>2, <1>4, NowGrows DEF Types
  <1>8. current_messages' \in Seq(Row) /\ OneChat(current_messages)'
    BY <1>1, <1>3, <1>4, <1>5 DEF OneChat
  <1>9. Types'
    BY <1>1, <1>2, <1>4, <1>7, <1>8 DEF Types
  <1>10. /\ Has(to_ui, Received) => Has(to_ui', Received)
         /\ Has(to_ui, Repair) => Has(to_ui', Repair)
    BY <1>4, <1>6, QueueTail
  <1>11. \A name : Coming(name) => Coming(name)'
    <2> SUFFICES ASSUME NEW name, Shown(name)
                 PROVE  Shown(name)'
      BY <1>1 DEF Coming
    <2>1. PICK C, B : /\ C = {[event |-> "messagesFetched", list |-> Fetched(name)]}
                      /\ B = AnyUi \ Chats
      OBVIOUS
    <2>2. head \notin B
      BY <1>5, <2>1
    <2>3. /\ Latest(to_ui, C, B) => Latest(to_ui', C, B) \/ (head \in C /\ All(to_ui', B))
          /\ ~ All(to_ui, B)
      BY <1>4, <2>2, QueueTail
    <2>4. head \in C => current_messages' = Fetched(name)
      BY <1>1, <1>3, <2>1
    <2> QED
      BY <1>4, <2>1, <2>3, <2>4 DEF Shown
  <1>12. \A p \in Peer : Listed(p) => Listed(p)'
    <2> SUFFICES ASSUME NEW p \in Peer, Listed(p)
                 PROVE  Listed(p)'
      OBVIOUS
    <2>1. PICK C, B : /\ C = [event : {"contactsFetched"}, list : {L \in SUBSET Peer : p \in L}]
                      /\ B = AnyUi \ ContactLists
      OBVIOUS
    <2>2. head \notin C
      BY <1>1, <1>3, <2>1
    <2>3. /\ Latest(to_ui, C, B) => Latest(to_ui', C, B)
          /\ All(to_ui, B) => All(to_ui', B)
      BY <1>4, <2>2, QueueTail
    <2> QED
      BY <1>1, <1>4, <1>10, <2>1, <2>3 DEF Listed
  <1>13. Fresh' /\ Current'
    BY <1>1, <1>4, <1>10, <1>11 DEF Inv, Fresh, Current
  <1>14. AllListed'
    BY <1>4, <1>12 DEF Inv, AllListed
  <1> QED
    BY <1>9, <1>13, <1>14 DEF Inv

\* A message came: contacts and current chat are asked for again.
LEMMA ReceivedStep ==
    ASSUME Inv, uiHandles, onReceivedMessage
    PROVE  Inv'
  <1>1. /\ Head(to_ui).event = "receivedMessage"
        /\ to_node' = Append(to_node, [event |-> "requestContacts"]) \o
                      IF current_peer_id = NoPeer THEN << >>
                      ELSE <<requestMessages(current_peer_id)>>
        /\ ui' = ui
    BY DEF onReceivedMessage
  <1>2. Types
    BY DEF Inv
  <1>3. /\ to_ui' \in Seq(AnyUi) /\ All(to_ui', UiNow')
        /\ clicks' = clicks /\ wrote' = wrote /\ Grows /\ Opened' = Opened
        /\ db_contacts' = db_contacts /\ db_messages' = db_messages
        /\ read_failed' = read_failed
        /\ \A name : Fetched(name)' = Fetched(name)
        /\ Handled(AnyUi, to_ui, Head(to_ui), to_ui')
    BY UiTakes
  <1>4. PICK e : e = [event |-> "requestContacts"]
    OBVIOUS
  <1>5. e \in NodeEvent /\ e \in NodeNow' /\ e \in ContactsRequest
    BY <1>4 DEF NodeEvent, NodeNow, ContactsRequest
  <1>6. PICK q : q = Append(to_node, e)
    OBVIOUS
  <1>7. Posted(NodeEvent, to_node, e, q)
    BY <1>2, <1>5, <1>6 DEF Types, Posted
  <1>8. q \in Seq(NodeEvent) /\ All(q, NodeNow') /\ Has(q, ContactsRequest)
    <2>1. All(to_node, NodeNow')
      BY <1>2, <1>3, NowGrows DEF Types
    <2> QED
      BY <1>5, <1>7, <2>1, QueueAppend
  <1>9. CASE current_peer_id = NoPeer
    <2>1. to_node' = q
      <3>1. to_node' = q \o << >>
        BY <1>1, <1>4, <1>6, <1>9
      <3> QED
        BY <1>8, <3>1, ConcatEmptySeq
    <2>2. Types'
      BY <1>2, <1>3, <1>8, <1>1, <2>1, TablesAndView DEF Types
    <2>3. AllListed'
      BY <1>8, <2>1 DEF AllListed, Listed
    <2>4. current_peer_id' = NoPeer /\ current_messages' = current_messages
      BY <1>1, <1>9 DEF ui
    <2>5. Shown(NoPeer) => Shown(NoPeer)'
      <3>1. PICK C, B : /\ C = {[event |-> "messagesFetched", list |-> Fetched(NoPeer)]}
                        /\ B = AnyUi \ Chats
        OBVIOUS
      <3>2. Head(to_ui) \notin C
        BY <1>1, <3>1
      <3>3. /\ Latest(to_ui, C, B) => Latest(to_ui', C, B)
            /\ All(to_ui, B) => All(to_ui', B)
        BY <1>3, <3>2, QueueTail
      <3> QED
        BY <1>3, <2>4, <3>1, <3>3 DEF Shown
    <2>6. Coming(NoPeer) => Coming(NoPeer)'
      BY <1>5, <1>7, <2>1, <2>5, QueueAppend DEF Coming
    <2> QED
      BY <1>3, <1>9, <2>2, <2>3, <2>4, <2>6 DEF Inv, Fresh, Current
  <1>10. CASE current_peer_id # NoPeer
    <2>1. current_peer_id \in Opened \ {NoPeer} /\ current_peer_id \in Name
      <3>1. Opened \subseteq Name
        BY <1>2, LenProperties, ElementOfSeq DEF Types, Opened, Range
      <3> QED
        BY <1>2, <1>10, <3>1 DEF Types
    <2>2. PICK f : f = requestMessages(current_peer_id)
      OBVIOUS
    <2>3. f \in NodeEvent /\ f \in NodeNow'
      BY <1>3, <2>1, <2>2 DEF requestMessages, NodeEvent, NodeNow
    <2>4. to_node' = Append(q, f)
      <3>1. to_node' = q \o <<f>>
        BY <1>1, <1>4, <1>6, <1>10, <2>2
      <3> QED
        BY <1>8, <2>3, <3>1, AppendIsConcat
    <2>5. Posted(NodeEvent, q, f, to_node')
      BY <1>8, <2>3, <2>4 DEF Posted
    <2>6. /\ to_node' \in Seq(NodeEvent) /\ All(to_node', NodeNow')
          /\ Has(to_node', ContactsRequest) /\ Latest(to_node', {f}, ContactsRequest)
      BY <1>8, <2>3, <2>5, QueueAppend
    <2>7. Types'
      BY <1>1, <1>2, <1>3, <2>6, TablesAndView DEF Types
    <2>8. AllListed'
      BY <2>6 DEF AllListed, Listed
    <2>9. current_peer_id' = current_peer_id
      BY <1>1 DEF ui
    <2>10. Coming(current_peer_id)'
      BY <2>2, <2>6, <2>9 DEF Coming, requestMessages
    <2> QED
      BY <1>3, <2>1, <2>7, <2>8, <2>9, <2>10 DEF Inv, Fresh, Current
  <1> QED
    BY <1>9, <1>10

\* The refresh after a text asks for the chat it was sent from.
LEMMA RefreshStep ==
    ASSUME Inv, uiHandles, refreshAfterSend
    PROVE  Inv'
  <1>1. /\ Head(to_ui).event = "refresh"
        /\ to_node' = Append(to_node, requestMessages(Head(to_ui).peer))
        /\ ui' = ui
    BY DEF refreshAfterSend
  <1>2. Types
    BY DEF Inv
  <1>3. PICK head : head = Head(to_ui)
    OBVIOUS
  <1>4. /\ Handled(AnyUi, to_ui, head, to_ui')
        /\ to_ui' \in Seq(AnyUi) /\ All(to_ui', UiNow')
        /\ head \in UiNow /\ head \in AnyUi
        /\ clicks' = clicks /\ wrote' = wrote /\ Grows /\ Opened' = Opened
        /\ db_contacts' = db_contacts /\ db_messages' = db_messages
        /\ read_failed' = read_failed
    BY <1>3, UiTakes
  <1>5. head.peer \in Opened \ {NoPeer} /\ head.peer \in Name /\ wrote > 0
    <2>1. head.peer \in Opened \ {NoPeer} /\ wrote > 0
      BY <1>1, <1>3, <1>4 DEF UiNow, Received
    <2>2. Opened \subseteq Name
      BY <1>2, LenProperties, ElementOfSeq DEF Types, Opened, Range
    <2> QED
      BY <2>1, <2>2
  <1>6. PICK e : e = requestMessages(head.peer)
    OBVIOUS
  <1>7. e \in NodeEvent /\ e \in NodeNow'
    BY <1>4, <1>5, <1>6 DEF requestMessages, NodeEvent, NodeNow
  <1>8. Posted(NodeEvent, to_node, e, to_node')
    BY <1>1, <1>2, <1>3, <1>6, <1>7 DEF Types, Posted
  <1>9. /\ to_node' \in Seq(NodeEvent) /\ All(to_node', NodeNow')
        /\ Latest(to_node', {e}, ContactsRequest)
        /\ Has(to_node, ContactsRequest) => Has(to_node', ContactsRequest)
    <2>1. All(to_node, NodeNow')
      BY <1>2, <1>4, NowGrows DEF Types
    <2> QED
      BY <1>7, <1>8, <2>1, QueueAppend
  <1>10. Types'
    BY <1>1, <1>2, <1>4, <1>9, TablesAndView DEF Types
  <1>11. Fresh'
    <2>1. PICK name \in Opened \ {NoPeer} : name = head.peer
      BY <1>5
    <2>2. Coming(name)'
      BY <1>6, <1>9, <2>1 DEF Coming, requestMessages
    <2> QED
      BY <1>4, <2>2 DEF Fresh
  <1>12. Current'
    BY <1>2, <1>4, <1>5 DEF Current, Types
  <1>13. \A p \in Peer : Listed(p) => Listed(p)'
    <2> SUFFICES ASSUME NEW p \in Peer, Listed(p)
                 PROVE  Listed(p)'
      OBVIOUS
    <2>1. PICK C, B : /\ C = [event : {"contactsFetched"}, list : {L \in SUBSET Peer : p \in L}]
                      /\ B = AnyUi \ ContactLists
      OBVIOUS
    <2>2. head \notin C /\ head \notin Received
      BY <1>1, <1>3, <2>1 DEF Received
    <2>3. /\ Latest(to_ui, C, B) => Latest(to_ui', C, B)
          /\ All(to_ui, B) => All(to_ui', B)
          /\ Has(to_ui, Received) => Has(to_ui', Received)
      BY <1>4, <2>2, QueueTail
    <2>4. contacts' = contacts
      BY <1>1 DEF ui
    <2> QED
      BY <1>4, <1>9, <2>1, <2>3, <2>4 DEF Listed
  <1>14. AllListed'
    BY <1>4, <1>13 DEF Inv, AllListed
  <1> QED
    BY <1>10, <1>11, <1>12, <1>14 DEF Inv

\* Every step preserves the invariant.
LEMMA InvNext == Inv /\ [Next]_vars => Inv'
  <1> SUFFICES ASSUME Inv, [Next]_vars
               PROVE  Inv'
    OBVIOUS
  <1>1. CASE \E name \in Name : selectChat(name)
    BY <1>1, SelectStep
  <1>2. CASE sendMessage
    BY <1>2, SendStep
  <1>3. CASE \E peer \in Peer : receiveStore(peer)
    BY <1>3, ReceiveStep
  <1>4. CASE nodeHandles
    <2>1. fetchContactsFromDb \/ fetchMessagesFromDb \/ sendStore
      BY <1>4 DEF nodeHandles
    <2> QED
      BY <1>4, <2>1, FetchContactsStep, FetchMessagesStep, StoreStep
  <1>5. CASE uiHandles
    <2>1. onContactsReceived \/ onMessagesReceived \/ onReceivedMessage \/ refreshAfterSend
      BY <1>5 DEF uiHandles
    <2> QED
      BY <1>5, <2>1, ContactsStep, MessagesStep, ReceivedStep, RefreshStep
  <1>6. CASE UNCHANGED vars
    <2>1. UNCHANGED <<db_contacts, db_messages, to_node, current_peer_id, contacts,
                      current_messages, to_ui, read_failed, clicks, wrote>>
      BY <1>6 DEF vars, db, ui
    <2>2. /\ Opened' = Opened /\ NodeNow' = NodeNow /\ UiNow' = UiNow
          /\ OneChat(current_messages)' = OneChat(current_messages)
          /\ \A name : Fetched(name)' = Fetched(name)
      BY <2>1 DEF Opened, NodeNow, UiNow, OneChat, Fetched
    <2>3. Types'
      BY <2>1, <2>2 DEF Inv, Types
    <2>4. \A name : Coming(name)' = Coming(name)
      BY <2>1, <2>2 DEF Coming, Shown
    <2>5. \A p : Listed(p)' = Listed(p)
      BY <2>1 DEF Listed
    <2> QED
      BY <2>1, <2>2, <2>3, <2>4, <2>5 DEF Inv, Fresh, Current, AllListed
  <1> QED
    BY <1>1, <1>2, <1>3, <1>4, <1>5, <1>6 DEF Next

-----------------------------------------------------------------------------
\* The theorems.

(***************************************************************************)
(* The inductive invariant: what is in the two queues tells what the view  *)
(* and the list of contacts are going to be.                               *)
(***************************************************************************)
THEOREM Invariance == Spec => []Inv
  BY InvInit, InvNext, PTL DEF Spec

\* The queues hold events of their thread, and the UI shows database rows.
THEOREM TypeCorrect == Spec => []TypeOK
  <1>1. Inv => TypeOK
    <2> SUFFICES ASSUME Inv
                 PROVE  TypeOK
      OBVIOUS
    <2>1. Types
      BY DEF Inv
    <2>2. Opened \subseteq Name
      BY <2>1, LenProperties, ElementOfSeq DEF Types, Opened, Range
    <2>3. current_peer_id \in Name
      BY <2>1, <2>2 DEF Types
    <2>4. to_ui \in Seq(UiEvent)
      <3>1. PICK U : U = UiEvent
        OBVIOUS
      <3>2. \A e \in UiNow : e \in U
        BY <2>2, <3>1 DEF UiNow, UiEvent, Received
      <3>3. \A i \in DOMAIN to_ui : to_ui[i] \in U
        BY <2>1, <3>2 DEF Types, All
      <3>4. Len(to_ui) \in Nat /\ DOMAIN to_ui = 1 .. Len(to_ui) /\ to_ui \in Seq(AnyUi)
        BY <2>1, LenProperties DEF Types
      <3>5. to_ui \in Seq(U)
        BY <3>3, <3>4
      <3> QED
        BY <3>1, <3>5
    <2> QED
      BY <2>1, <2>3, <2>4 DEF Types, TypeOK
  <1> QED
    BY Invariance, <1>1, PTL

\* The view is at every moment one opened chat as it was, never two mixed.
THEOREM OneChatCorrect == Spec => []ViewIsOneChat
  <1>1. Inv => ViewIsOneChat
    BY DEF Inv, Types, OneChat, ViewIsOneChat
  <1> QED
    BY Invariance, <1>1, PTL

\* When the threads are done with each other there is nothing to come.
LEMMA AtRest ==
    ASSUME Inv, Settled
    PROVE  /\ \A A : ~ Has(to_ui, A)
           /\ "messages" \notin read_failed
                => \A name : Coming(name) => current_messages = Fetched(name)
           /\ "contacts" \notin read_failed => \A p : Listed(p) => p \in contacts
  BY QueueEmpty DEF Settled, Coming, Shown, Listed

\* No refresh comes too early: at rest the view has all that was saved of a chat,
\* unless the fetch failed or the name is empty.
THEOREM FreshCorrect == Spec => []SettledViewIsFresh
  <1>1. Inv => SettledViewIsFresh
    BY AtRest DEF Inv, Fresh, SettledViewIsFresh
  <1> QED
    BY Invariance, <1>1, PTL

\* A user who only reads sees, at rest, the chat named in the header, unless the
\* fetch of it failed.
THEOREM ReaderCorrect == Spec => []ReaderSeesActiveChat
  <1>1. Inv => ReaderSeesActiveChat
    <2> SUFFICES ASSUME Inv, Settled, wrote = 0, "messages" \notin read_failed
                 PROVE  current_messages = Fetched(current_peer_id)
      BY DEF ReaderSeesActiveChat
    <2>1. CASE Opened = {}
      BY <2>1 DEF Inv, Types, OneChat, Fetched
    <2>2. CASE Opened # {}
      BY <2>2, AtRest DEF Inv, Current
    <2> QED
      BY <2>1, <2>2
  <1> QED
    BY Invariance, <1>1, PTL

\* At rest whoever sent a message that was saved is in the list of contacts,
\* unless the fetch of them failed.
THEOREM ListedCorrect == Spec => []SenderIsListed
  <1>1. Inv => SenderIsListed
    BY AtRest DEF Inv, AllListed, SenderIsListed
  <1> QED
    BY Invariance, <1>1, PTL
-----------------------------------------------------------------------------
(***************************************************************************)
(* The spellings of an id.                                                 *)
(***************************************************************************)

\* A digit that is written reads as its own value.
LEMMA HexDigits ==
    ASSUME NEW n \in 0 .. 15
    PROVE  Digit(hex_chars[n + 1]) = Nibble(n)
  <1>1. \A m \in 0 .. 15 : hex_chars[m + 1] = hex_chars[n + 1] => m = n
    BY DEF hex_chars
  <1>2. \A m \in 10 .. 15 : lower_chars[m - 9] # hex_chars[n + 1]
    BY DEF hex_chars, lower_chars
  <1>3. {m \in 0 .. 15 : hex_chars[n + 1] = hex_chars[m + 1]
            \/ (m > 9 /\ hex_chars[n + 1] = lower_chars[m - 9])} = {n}
    BY <1>1, <1>2
  <1> QED
    BY <1>3 DEF Digit

\* There is a digit for every four bits.
LEMMA NibbleOf ==
    ASSUME NEW s \in SUBSET (0 .. 3)
    PROVE  \E n \in 0 .. 15 : Nibble(n) = s
  <1> DEFINE w(j) == IF j \in s THEN <<1, 2, 4, 8>>[j + 1] ELSE 0
             n == w(0) + w(1) + w(2) + w(3)
  <1>1. n \in 0 .. 15
    OBVIOUS
  <1>2. \A j \in 0 .. 3 : j \in s <=> (n \div <<1, 2, 4, 8>>[j + 1]) % 2 = 1
    OBVIOUS
  <1>3. Nibble(n) = s
    <2> HIDE DEF n
    <2> QED
      BY <1>2 DEF Nibble
  <1> QED
    BY <1>1, <1>3

\* A set of numbers has a least one.
LEMMA LeastNat ==
    ASSUME NEW T \in SUBSET Nat, T # {}
    PROVE  \E x \in T : \A y \in T : ~ (y < x)
  <1> DEFINE R == OpToRel(<, Nat)
  <1>1. PICK x \in T : \A y \in T : ~ (<<y, x>> \in R)
    BY NatLessThanWellFounded, WFMin
  <1> QED
    BY <1>1 DEF OpToRel

\* Ids are whole hexadecimal digits: 32 of them, kNodeIdSize is 128.
WholeDigits == kNodeIdSize % 4 = 0 /\ kNodeIdSize > 0

\* A character stands for four bits.
LEMMA DigitTypes == \A c : Digit(c) \subseteq 0 .. 3
  BY DEF Digit, Nibble

\* What the loop of hexToBitset has read is, after every round, the value of the
\* characters so far.
LEMMA HexReads ==
    ASSUME WholeDigits, NEW hex_str, Len(hex_str) \in Nat
    PROVE  hexToBitset(hex_str) = HexValue(hex_str)
  <1> DEFINE len == Len(hex_str)
             V(k) == {i \in Bits : i \div 4 < k /\ i % 4 \in Digit(hex_str[k - i \div 4])}
             Step(f, k) == IF k = 0 THEN {}
                           ELSE ({i + 4 : i \in f[k - 1]} \cap Bits) \cup Digit(hex_str[k])
             Loop(f) == f = [k \in 0 .. len |-> Step(f, k)]
  <1>1. ASSUME NEW k \in 1 .. len
        PROVE  V(k) = ({i + 4 : i \in V(k - 1)} \cap Bits) \cup Digit(hex_str[k])
    <2>1. ASSUME NEW i \in V(k)
          PROVE  i \in ({j + 4 : j \in V(k - 1)} \cap Bits) \cup Digit(hex_str[k])
      <3>1. CASE i < 4
        <4>1. i \div 4 = 0 /\ i % 4 = i
          BY <3>1, NodeIdAssumption DEF Bits, NodeIdAssumption
        <4> QED
          BY <4>1
      <3>2. CASE i >= 4
        <4>1. /\ i - 4 \in Bits /\ (i - 4) \div 4 = i \div 4 - 1 /\ (i - 4) % 4 = i % 4
              /\ i = (i - 4) + 4 /\ i \div 4 \in Nat
          BY <3>2, NodeIdAssumption DEF Bits, NodeIdAssumption
        <4>2. k - 1 - (i - 4) \div 4 = k - i \div 4
          BY <4>1
        <4>3. i - 4 \in V(k - 1)
          BY <4>1, <4>2
        <4> QED
          BY <4>1, <4>3
      <3> QED
        BY <3>1, <3>2, NodeIdAssumption DEF Bits, NodeIdAssumption
    <2>2. ASSUME NEW j \in V(k - 1), j + 4 \in Bits
          PROVE  j + 4 \in V(k)
      <3>1. /\ (j + 4) \div 4 = j \div 4 + 1 /\ (j + 4) % 4 = j % 4 /\ j \div 4 \in Nat
        BY NodeIdAssumption DEF Bits, NodeIdAssumption
      <3>2. k - (j + 4) \div 4 = k - 1 - j \div 4
        BY <3>1
      <3> QED
        BY <2>2, <3>1, <3>2
    <2>3. ASSUME NEW d \in Digit(hex_str[k])
          PROVE  d \in V(k)
      <3>1. d \in 0 .. 3
        BY DigitTypes
      <3>2. d \in Bits /\ d \div 4 = 0 /\ d % 4 = d
        BY <3>1, NodeIdAssumption DEF Bits, NodeIdAssumption, WholeDigits
      <3> QED
        BY <3>2
    <2> HIDE DEF V
    <2> QED
      BY <2>1, <2>2, <2>3
  <1>2. V(0) = {}
    BY NodeIdAssumption DEF Bits, NodeIdAssumption
  <1>3. Loop([k \in 0 .. len |-> V(k)])
    <2> DEFINE f == [k \in 0 .. len |-> V(k)]
    <2>1. ASSUME NEW k \in 0 .. len
          PROVE  V(k) = Step(f, k)
      <3>1. CASE k = 0
        BY <1>2, <3>1
      <3>2. CASE k # 0
        <4>1. k \in 1 .. len /\ k - 1 \in 0 .. len
          BY <3>2
        <4>2. f[k - 1] = V(k - 1)
          BY <4>1
        <4> HIDE DEF V, f
        <4> QED
          BY <1>1, <3>2, <4>1, <4>2
      <3> QED
        BY <3>1, <3>2
    <2> HIDE DEF V, Step
    <2> QED
      BY <2>1
  <1>4. ASSUME NEW f, Loop(f)
        PROVE  f[len] = V(len)
    <2> DEFINE bad == {k \in 0 .. len : f[k] # V(k)}
    <2>1. ASSUME bad # {}
          PROVE  FALSE
      <3>1. PICK k \in bad : \A j \in bad : ~ (j < k)
        <4>1. bad \in SUBSET Nat
          OBVIOUS
        <4> HIDE DEF bad
        <4> QED
          BY <2>1, <4>1, LeastNat
      <3>2. k \in 0 .. len /\ f[k] = Step(f, k)
        BY <1>4, <3>1
      <3>3. CASE k = 0
        BY <1>2, <3>1, <3>2, <3>3
      <3>4. CASE k # 0
        <4>1. k \in 1 .. len /\ k - 1 \in 0 .. len /\ k - 1 < k
          BY <3>2, <3>4
        <4>2. f[k - 1] = V(k - 1)
          <5> HIDE DEF V
          <5> QED
            BY <3>1, <4>1
        <4> HIDE DEF V
        <4> QED
          BY <1>1, <3>1, <3>2, <3>4, <4>1, <4>2
      <3> QED
        BY <3>3, <3>4
    <2> HIDE DEF V
    <2> QED
      BY <2>1
  <1>5. hexToBitset(hex_str) = (CHOOSE f : Loop(f))[len]
    BY DEF hexToBitset
  <1>6. HexValue(hex_str) = V(len)
    BY DEF HexValue
  <1> HIDE DEF V, Loop
  <1> QED
    BY <1>3, <1>4, <1>5, <1>6

\* What bitsetToHex writes.
Digits == {hex_chars[m + 1] : m \in 0 .. 15}

\* Of what is written, each digit has the value of its four bits.
LEMMA HexWrites ==
    ASSUME WholeDigits, NEW b \in Id
    PROVE  bitsetToHex(b) \in Seq(Digits) /\ HexValue(bitsetToHex(b)) = b
  <1> DEFINE len == kNodeIdSize \div 4
             At(k) == {j \in 0 .. 3 : kNodeIdSize - 4 * k + j \in b}
             n(k) == CHOOSE m \in 0 .. 15 : Nibble(m) = At(k)
             hex_str == bitsetToHex(b)
  <1>1. len \in Nat /\ kNodeIdSize = 4 * len
    BY NodeIdAssumption DEF NodeIdAssumption, WholeDigits
  <1>2. ASSUME NEW k \in 1 .. len
        PROVE  n(k) \in 0 .. 15 /\ Nibble(n(k)) = At(k)
    <2>1. At(k) \in SUBSET (0 .. 3)
      OBVIOUS
    <2> HIDE DEF At
    <2> QED
      BY <2>1, NibbleOf
  <1>3. hex_str = [k \in 1 .. len |-> hex_chars[1 + n(k)]]
    BY DEF bitsetToHex
  <1>4. \A m \in 0 .. 15 : hex_chars[1 + m] \in Digits /\ 1 + m = m + 1
    BY DEF Digits
  <1>5. hex_str \in Seq(Digits) /\ Len(hex_str) = len
    <2> HIDE DEF hex_str, n, len
    <2> QED
      BY <1>1, <1>2, <1>3, <1>4
  <1>6. ASSUME NEW k \in 1 .. len
        PROVE  Digit(hex_str[k]) = At(k)
    <2> HIDE DEF hex_str, n, len, At
    <2> QED
      BY <1>2, <1>3, <1>4, HexDigits
  <1>7. ASSUME NEW i \in Bits
        PROVE  i \div 4 < len /\ (i % 4 \in Digit(hex_str[len - i \div 4]) <=> i \in b)
    <2>1. PICK q, j : q = i \div 4 /\ j = i % 4
      OBVIOUS
    <2>2. q \in Nat /\ j \in 0 .. 3 /\ i = 4 * q + j /\ i \in Nat /\ i < kNodeIdSize
      BY <2>1, NodeIdAssumption DEF Bits, NodeIdAssumption
    <2>3. q < len /\ len - q \in 1 .. len /\ kNodeIdSize - 4 * (len - q) + j = i
      <3> HIDE DEF len
      <3> QED
        BY <1>1, <2>2
    <2>4. Digit(hex_str[len - q]) = At(len - q)
      BY <1>6, <2>3
    <2>5. j \in At(len - q) <=> i \in b
      <3> HIDE DEF len
      <3> QED
        BY <2>2, <2>3
    <2> HIDE DEF hex_str, len, At
    <2> QED
      BY <2>1, <2>3, <2>4, <2>5
  <1>8. HexValue(hex_str) = {i \in Bits : i \in b}
    <2> HIDE DEF hex_str, len
    <2> QED
      BY <1>5, <1>7 DEF HexValue
  <1>9. {i \in Bits : i \in b} = b
    BY DEF Id
  <1> QED
    BY <1>5, <1>8, <1>9

(***************************************************************************)
(* An id survives being written and read (peerIds, conf.json), and any     *)
(* text that is read is worth its last characters, for every width of the  *)
(* ids in whole digits and every length of the text.                       *)
(***************************************************************************)
THEOREM CodecCorrect ==
    ASSUME WholeDigits, NEW b \in Id, NEW hex_str, Len(hex_str) \in Nat
    PROVE  RoundTrip(b, hex_str)
  <1>1. hexToBitset(hex_str) = HexValue(hex_str) /\ HexValue(hex_str) \in Id
    BY HexReads DEF HexValue, Id
  <1>2. ASSUME NEW a \in Id
        PROVE  hexToBitset(bitsetToHex(a)) = a
    BY HexReads, HexWrites
  <1> QED
    BY <1>1, <1>2 DEF RoundTrip

(***************************************************************************)
(* What ChatAssumption takes for granted of PeerOf holds of the code: the  *)
(* spelling that bitsetToHex gives to a peer is its own PeerOf, and two    *)
(* texts name the same peer exactly if they have the same value.           *)
(***************************************************************************)
THEOREM SpellingsFold ==
    ASSUME WholeDigits, NEW names, \A name \in names : Len(name) \in Nat,
           NEW f, f = [name \in names |-> bitsetToHex(hexToBitset(name))]
    PROVE  /\ \A name \in names : f[name] \in names => f[f[name]] = f[name]
           /\ \A a, b \in names : f[a] = f[b] <=> HexValue(a) = HexValue(b)
  <1>1. ASSUME NEW name \in names
        PROVE  /\ f[name] = bitsetToHex(HexValue(name)) /\ HexValue(name) \in Id
               /\ hexToBitset(f[name]) = HexValue(name)
    <2>1. RoundTrip({}, name) /\ HexValue(name) \in Id
      BY CodecCorrect DEF HexValue, Id
    <2> QED
      BY <2>1 DEF RoundTrip
  <1> QED
    BY <1>1
=============================================================================
