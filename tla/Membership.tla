----------------------------- MODULE Membership -----------------------------
(***************************************************************************)
(* What peer discovery promises the rest of a mesh node: each node has a   *)
(* list of the peers it knows, and the list follows what the node hears.   *)
(* Nothing is said here of beacons, timers or the network; PeerRegistry is *)
(* shown to implement this.                                                *)
(***************************************************************************)
EXTENDS Naturals

CONSTANTS
    Nodes,
    Ttl,        \* a peer heard within Ttl is not forgotten
    Grace       \* a peer not heard for longer than Grace is not listed

VARIABLES
    known,      \* known[n]: the peers n lists
    silence     \* silence[n][p]: the time since n last heard of a listed p

mvars == <<known, silence>>

Init ==
    /\ known   = [n \in Nodes |-> {}]
    /\ silence = [n \in Nodes |-> [p \in Nodes |-> 0]]

(* n hears of another node.                                                *)
Hear(n, p) ==
    /\ p # n
    /\ known'   = [known EXCEPT ![n] = @ \cup {p}]
    /\ silence' = [silence EXCEPT ![n][p] = 0]

(* n drops peers it has not heard of for more than Ttl.                    *)
Forget(n, gone) ==
    /\ \A p \in gone : silence[n][p] > Ttl
    /\ known'   = [known EXCEPT ![n] = @ \ gone]
    /\ silence' = [silence EXCEPT ![n] = [p \in Nodes |-> IF p \in gone THEN 0 ELSE @[p]]]

(* n stops; its list is gone with it.                                      *)
Stop(n) ==
    /\ known'   = [known EXCEPT ![n] = {}]
    /\ silence' = [silence EXCEPT ![n] = [p \in Nodes |-> 0]]

(* Time may pass only while every listed peer is still within Grace.       *)
Pass ==
    /\ \A n \in Nodes : \A p \in known[n] : silence[n][p] < Grace
    /\ silence' = [n \in Nodes |-> [p \in Nodes |->
                      IF p \in known[n] THEN silence[n][p] + 1 ELSE 0]]
    /\ UNCHANGED known

Next ==
    \/ Pass
    \/ \E n \in Nodes :
          \/ Stop(n)
          \/ \E p \in Nodes : Hear(n, p)
          \/ \E gone \in SUBSET known[n] : Forget(n, gone)

Spec == Init /\ [][Next]_mvars
=============================================================================
