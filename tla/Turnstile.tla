------------------------------ MODULE Turnstile ------------------------------
(***************************************************************************)
(* What the NPU queue of the web server promises: one request at a time is *)
(* inside, the others wait in a queue of bounded length, and the one that  *)
(* leaves admits the one that has waited longest.  A push that nobody      *)
(* leaves with (a request answered twice) admits one request too many.     *)
(***************************************************************************)
EXTENDS Naturals, Sequences, FiniteSets

CONSTANTS Requests, Limit

VARIABLES
    inside,     \* the requests admitted to the NPU
    waiting,    \* the queue
    surplus     \* pushes that nobody left with

tvars == <<inside, waiting, surplus>>

Init == inside = {} /\ waiting = <<>> /\ surplus = 0

Room == Cardinality(inside) <= surplus

Enter(r) ==
    /\ r \notin inside /\ Room
    /\ inside' = inside \cup {r}
    /\ UNCHANGED <<waiting, surplus>>

Join(r) ==
    /\ r \notin inside
    /\ Len(waiting) < Limit
    /\ waiting' = Append(waiting, r)
    /\ UNCHANGED <<inside, surplus>>

Leave(r) ==
    /\ r \in inside /\ waiting = <<>>
    /\ inside' = inside \ {r}
    /\ UNCHANGED <<waiting, surplus>>

HandOn(r) ==
    /\ r \in inside /\ waiting # <<>>
    /\ inside' = (inside \ {r}) \cup {Head(waiting)} /\ waiting' = Tail(waiting)
    /\ UNCHANGED surplus

\* Somebody is admitted from the queue although nobody leaves.
Admit ==
    /\ waiting # <<>> /\ Room
    /\ inside' = inside \cup {Head(waiting)} /\ waiting' = Tail(waiting)
    /\ UNCHANGED surplus

Push ==
    /\ surplus' = surplus + 1
    /\ UNCHANGED <<inside, waiting>>

Next == Admit \/ Push \/ \E r \in Requests : Enter(r) \/ Join(r) \/ Leave(r) \/ HandOn(r)

Spec == Init /\ [][Next]_tvars
==============================================================================
