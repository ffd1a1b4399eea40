--------------------------- MODULE OnebitdProofs ---------------------------
(***************************************************************************)
(* Proofs about the daemon: its types, that it leaves no backend behind    *)
(* and that it serves nobody before a backend was ready, for any number of *)
(* requests and any time limits.                                           *)
(***************************************************************************)
EXTENDS Onebitd, TLAPS

(* The loop counter stays within the limit of the loop it belongs to.      *)
Counted ==
    /\ d = "spawn" => n = 0
    /\ d = "wait" => n \in 0 .. HealthTimeout
    /\ d = "probe" => n \in 0 .. HealthTimeout /\ n < HealthTimeout
    /\ d \in {"term", "poll"} => n \in 0 .. Polls

(* g_child_pid is set exactly as long as there may be a child to signal.   *)
Owned ==
    /\ pid => child # "none"
    /\ ~pid => child \in {"none", "gone"}
    /\ d = "spawn" => ~pid /\ child = "none" /\ listener = "off"
    /\ d = "exited" => ~pid
    /\ port = "child" => child = "up"

(* What a successful probe leaves behind.                                  *)
Probed ==
    /\ port = "other" => stolen
    /\ d \in {"wait", "probe"} => listener = "off"
    /\ d = "serve" => child \in {"up", "zombie", "gone"} \/ stolen
    /\ ReadyFirst

IInv == TypeOK /\ Counted /\ Owned /\ Probed

(* The daemon's initial state.                                             *)
LEMMA InitHolds == Init => IInv
<1> SUFFICES ASSUME Init PROVE IInv
  OBVIOUS
<1>1. 0 \in 0 .. HealthTimeout /\ 0 \in 0 .. Polls
  BY DaemonAssumption
<1>2. TypeOK
  BY <1>1, Zenon DEF Init, TypeOK
<1>3. Counted /\ Owned /\ Probed
  BY <1>1 DEF Init, Counted, Owned, Probed, ReadyFirst
<1> QED
  BY <1>2, <1>3 DEF IInv

(* Every step of every process preserves the invariant.                    *)
LEMMA StepHolds == IInv /\ [Next]_vars => IInv'
<1> USE DaemonAssumption DEF IInv, TypeOK, Counted, Owned, Probed, ReadyFirst,
        service, history
<1> SUFFICES ASSUME IInv, [Next]_vars PROVE IInv'
  OBVIOUS
<1>1. CASE Spawn
  <2>1. CASE d' = "exited" /\ UNCHANGED <<pid, child>>
    BY <1>1, <2>1 DEF Spawn
  <2>2. CASE d' = "wait" /\ pid' = TRUE /\ child' = "loading"
    <3>1. pid' /\ pid' \in BOOLEAN
      BY <2>2, Zenon
    <3> QED
      BY <1>1, <2>2, <3>1 DEF Spawn
  <2> QED
    BY <1>1, <2>1, <2>2 DEF Spawn
<1>2. CASE WaitRound
  <2>1. CASE child' = "gone" /\ pid' = FALSE /\ GiveUp
    <3>1. ~pid' /\ pid' \in BOOLEAN
      BY <2>1, Zenon
    <3> QED
      BY <1>2, <2>1, <3>1 DEF WaitRound, GiveUp
  <2>2. CASE UNCHANGED <<pid, child>>
    BY <1>2, <2>2 DEF WaitRound, GiveUp
  <2> QED
    BY <1>2, <2>1, <2>2, Zenon DEF WaitRound
<1>3. CASE Probe
  BY <1>3 DEF Probe
<1>4. CASE Serve
  BY <1>4 DEF Serve
<1>5. CASE LoopRound
  BY <1>5 DEF LoopRound
<1>6. CASE StopServer
  BY <1>6 DEF StopServer
<1>7. CASE Join
  BY <1>7 DEF Join, GiveUp
<1>8. CASE Term
  BY <1>8 DEF Term, Hits
<1>9. CASE Poll
  BY <1>9 DEF Poll
<1>10. CASE Kill
  BY <1>10 DEF Kill, Hits, Dies, Alive
<1>11. CASE Reap
  BY <1>11 DEF Reap
<1>12. CASE Listen
  BY <1>12 DEF Listen
<1>13. CASE Drained
  BY <1>13 DEF Drained
<1>14. ASSUME NEW r \in Requests, Proxy(r) PROVE IInv'
  BY <1>14 DEF Proxy
<1>15. ASSUME NEW r \in Requests, Arrive(r) PROVE IInv'
  BY <1>15 DEF Arrive
<1>16. CASE ChildListens
  BY <1>16 DEF ChildListens, Dies
<1>17. CASE ChildExits
  BY <1>17 DEF ChildExits, Dies, Alive
<1>18. CASE PortTaken
  BY <1>18 DEF PortTaken
<1>19. CASE Signal
  BY <1>19 DEF Signal
<1>20. CASE UNCHANGED vars
  BY <1>20 DEF vars
<1> QED
  BY <1>1, <1>2, <1>3, <1>4, <1>5, <1>6, <1>7, <1>8, <1>9, <1>10, <1>11, <1>12,
     <1>13, <1>14, <1>15, <1>16, <1>17, <1>18, <1>19, <1>20 DEF Next, Main, Server

(* Every variable of the daemon keeps its type; the counter of a loop its  *)
(* bound.                                                                  *)
THEOREM TypeCorrect == Spec => []TypeOK
<1>1. IInv => TypeOK
  BY DEF IInv
<1> QED
  BY <1>1, InitHolds, StepHolds, PTL DEF Spec

(* On every way out of main() the child was reaped: g_child_pid is cleared *)
(* only together with the child.                                           *)
THEOREM ChildReaped == Spec => []NoOrphan
<1>1. IInv => NoOrphan
  BY DEF IInv, Owned, NoOrphan
<1> QED
  BY <1>1, InitHolds, StepHolds, PTL DEF Spec

(* The server thread is started only after a probe was answered.           *)
THEOREM ServesReadyBackend == Spec => []ReadyFirst
<1>1. IInv => ReadyFirst
  BY DEF IInv, Probed
<1> QED
  BY <1>1, InitHolds, StepHolds, PTL DEF Spec
=============================================================================
