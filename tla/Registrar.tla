----------------------------- MODULE Registrar ------------------------------
(***************************************************************************)
(* What CSessionMgr promises to the directory, without sessions, threads   *)
(* or locks: an id is published at most once, under a guid that nobody     *)
(* else holds; the guid is given back when the session closes and the id   *)
(* is deleted after that.  An id that is used up without being published   *)
(* (that of a CLIENT) is never published later, so that a delete of it     *)
(* cannot hit another session.                                             *)
(***************************************************************************)

CONSTANTS
    Ids,        \* session ids
    Guids       \* client identities

VARIABLES
    holds,      \* pairs of an id that is published and the guid it holds
    closing,    \* ids that have given their guid back and are to be deleted
    spent       \* ids that will not be published (again)

vars == <<holds, closing, spent>>

Init == holds = {} /\ closing = {} /\ spent = {}

MayAdd(i, g) == i \notin spent /\ \A h \in holds : h[2] # g

Add(i, g) ==
    /\ MayAdd(i, g)
    /\ holds' = holds \cup {<<i, g>>}
    /\ spent' = spent \cup {i}
    /\ UNCHANGED closing

Release(i, g) ==
    /\ <<i, g>> \in holds
    /\ holds' = holds \ {<<i, g>>}
    /\ closing' = closing \cup {i}
    /\ UNCHANGED spent

Del(i) ==
    /\ i \in closing
    /\ closing' = closing \ {i}
    /\ UNCHANGED <<holds, spent>>

\* The id is used up unpublished.
Retire(i) ==
    /\ i \notin spent
    /\ spent' = spent \cup {i}
    /\ UNCHANGED <<holds, closing>>

Next ==
    \/ \E i \in Ids, g \in Guids : Add(i, g) \/ Release(i, g)
    \/ \E i \in Ids : Del(i) \/ Retire(i)

Spec == Init /\ [][Next]_vars
=============================================================================
