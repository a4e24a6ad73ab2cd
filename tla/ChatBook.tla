----------------------------- MODULE ChatBook -----------------------------
(***************************************************************************)
(* What DBController promises of its tables Contacts and Messages: a book  *)
(* with at most one chat per peer, in which a text is only ever in the     *)
(* chat of its peer, enters once, and leaves when it or its chat is        *)
(* deleted.  Row ids do not occur here.                                    *)
(***************************************************************************)
EXTENDS Naturals, Functions

CONSTANTS
    Text,              \* the texts saved
    PeerOf,            \* the peer each belongs to
    Status             \* the values of column "status"; a text starts with 0

VARIABLE
    chats              \* of each peer that has one: the set of [text, status]

Init == chats = [p \in {} |-> {}]

OpenChat(p) ==
    /\ p \notin DOMAIN chats
    /\ chats' = [q \in DOMAIN chats \cup {p} |-> IF q = p THEN {} ELSE chats[q]]

DropChat(p) ==
    /\ p \in DOMAIN chats
    /\ chats' = Restrict(chats, DOMAIN chats \ {p})

Change(t, removed, added) ==
    /\ PeerOf[t] \in DOMAIN chats
    /\ chats' = [chats EXCEPT ![PeerOf[t]] = (@ \ removed) \cup added]

Entries(t) == [text : {t}, status : Status]

AddText(t) ==
    /\ \A p \in DOMAIN chats : chats[p] \cap Entries(t) = {}
    /\ Change(t, {}, {[text |-> t, status |-> 0]})

SetStatus(t, s) ==
    /\ PeerOf[t] \in DOMAIN chats /\ chats[PeerOf[t]] \cap Entries(t) # {}
    /\ Change(t, Entries(t), {[text |-> t, status |-> s]})

DropText(t) == Change(t, Entries(t), {})

Next ==
    \/ \E p \in Range(PeerOf) : OpenChat(p) \/ DropChat(p)
    \/ \E t \in Text : AddText(t) \/ DropText(t) \/ \E s \in Status : SetStatus(t, s)

Spec == Init /\ [][Next]_chats
=============================================================================
