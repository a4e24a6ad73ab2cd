---------------------------- MODULE LookupSpec ----------------------------
(***************************************************************************)
(* What a lookup promises, whatever it looks for and however its peers     *)
(* answer: it asks every peer at most once and never itself, waits for no  *)
(* more than kParallelismLimit answers at a time, and is done exactly when *)
(* it waits for nobody, which happens in the end.                          *)
(***************************************************************************)
EXTENDS Naturals, FiniteSets

CONSTANTS Peer, Owner, kParallelismLimit

VARIABLES asked, waiting, done

vars == <<asked, waiting, done>>

Others == Peer \ {Owner}

Init ==
    \E B \in SUBSET Others :
        /\ Cardinality(B) <= kParallelismLimit
        /\ asked = B
        /\ waiting = B
        /\ done = (B = {})

\* One request is answered or given up, and more peers may be asked in its place.
Settle ==
    \E p \in waiting : \E B \in SUBSET (Others \ asked) :
        /\ waiting' = (waiting \ {p}) \cup B
        /\ Cardinality(waiting') <= kParallelismLimit
        /\ asked' = asked \cup B
        /\ done' = (waiting' = {})

Spec == Init /\ [][Settle]_vars /\ WF_vars(Settle)
============================================================================
