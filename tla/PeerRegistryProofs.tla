------------------------- MODULE PeerRegistryProofs -------------------------
(***************************************************************************)
(* Proofs about peer discovery for any number of nodes and any lifetime,   *)
(* announce interval and drift: the registry implements Membership, and a  *)
(* running peer is dropped only after a lifetime of lost beacons.          *)
(***************************************************************************)
EXTENDS PeerRegistry, TLAPS

(* Who can be listed, and what is known of a listed peer that is down.     *)
Listed ==
    /\ \A n \in Nodes \ up : registry[n] = {}
    /\ \A n \in Nodes : n \notin registry[n]
    /\ \A n \in up : \A p \in registry[n] : p \notin up => missed[n][p] = Enough
    /\ \A p, n \in Nodes : <<p, n>> \in net => p # n

(* The threads' sleeps are bounded.                                        *)
Timers ==
    /\ \A n \in Nodes : sweepIn[n] <= Ttl + Drift
    /\ \A n \in Nodes : announceIn[n] <= Period

(* A record does not outlive the second sweep after it was heard of.       *)
SweepBound ==
    \A n \in up : \A p \in registry[n] : age[n][p] + sweepIn[n] <= 2 * Ttl + Drift

(* A running peer's next beacon is due within a period of the last one     *)
(* that is not accounted for as missed.                                    *)
Due(n, p) ==
    IF <<p, n>> \in net
    THEN age[n][p] <= (missed[n][p] + 1) * Period
    ELSE age[n][p] + announceIn[p] <= (missed[n][p] + 1) * Period

BeaconBound ==
    \A n \in up : \A p \in registry[n] :
        p \in up /\ missed[n][p] < Enough => Due(n, p)

IInv == TypeOK /\ Listed /\ Timers /\ SweepBound /\ BeaconBound

-----------------------------------------------------------------------------
(* Multiplication by a natural number is monotone.                         *)
LEMMA MultMonotone ==
    ASSUME NEW a \in Nat, NEW b \in Nat, NEW c \in Nat, a <= b
    PROVE  a * c <= b * c
  OBVIOUS

(* One more period.                                                        *)
LEMMA MultNext ==
    ASSUME NEW a \in Nat, NEW c \in Nat
    PROVE  /\ a * c \in Nat
           /\ (a + 1) * c = a * c + c
  OBVIOUS

(* The constants derived from the assumption.                              *)
LEMMA Constants ==
    /\ Period \in Nat \ {0} /\ Enough \in Nat
    /\ Enough * Period <= Ttl
<1>1. Period \in Nat \ {0}
  BY MeshAssumption DEF Period
<1>2. Enough \in Nat
  BY <1>1, MeshAssumption DEF Enough
<1>3. ASSUME NEW t \in Nat, NEW q \in Nat \ {0} PROVE (t \div q) * q <= t
  OBVIOUS
<1> QED
  BY <1>1, <1>2, <1>3, MeshAssumption DEF Enough

-----------------------------------------------------------------------------
(* Nothing is listed and nothing is due when no node runs.                 *)
LEMMA InitHolds == Init => IInv
<1> SUFFICES ASSUME Init PROVE IInv
  OBVIOUS
<1>1. TypeOK
  BY Constants DEF Init, TypeOK, Zero
<1>2. Listed /\ Timers /\ SweepBound /\ BeaconBound
  BY Constants, MeshAssumption
     DEF Init, Zero, Listed, Timers, SweepBound, BeaconBound
<1> QED
  BY <1>1, <1>2 DEF IInv

(* A node that starts lists nobody; whoever lists it knows it as missed.   *)
LEMMA StartHolds == ASSUME IInv, NEW n \in Nodes, Start(n) PROVE IInv'
<1> USE DEF IInv
<1>1. PICK dr \in 0 .. Drift : sweepIn' = [sweepIn EXCEPT ![n] = Ttl + dr]
  BY DEF Start
<1>2. TypeOK'
  BY <1>1, MeshAssumption DEF Start, TypeOK
<1>3. Listed'
  BY DEF Start, Listed, TypeOK
<1>4. Timers'
  BY <1>1, MeshAssumption, Constants DEF Start, Timers, TypeOK
<1>5. SweepBound'
  BY <1>1 DEF Start, SweepBound, Listed, TypeOK
<1>6. BeaconBound'
  BY DEF Start, BeaconBound, Due, Listed, TypeOK
<1> QED
  BY <1>2, <1>3, <1>4, <1>5, <1>6

(* A node that stops forgets everybody and is missed by everybody.         *)
LEMMA StopHolds == ASSUME IInv, NEW n \in Nodes, Stop(n) PROVE IInv'
<1> USE DEF IInv
<1>1. TypeOK'
  BY Constants DEF Stop, TypeOK, Zero
<1>2. Listed'
  BY DEF Stop, Listed, TypeOK
<1>3. Timers'
  BY MeshAssumption, Constants DEF Stop, Timers, TypeOK
<1>4. SweepBound'
  BY DEF Stop, SweepBound, TypeOK
<1>5. BeaconBound'
  BY DEF Stop, BeaconBound, Due, TypeOK
<1> QED
  BY <1>1, <1>2, <1>3, <1>4, <1>5

(* A beacon that is sent is due no later than a period from now.           *)
LEMMA AnnounceHolds == ASSUME IInv, NEW n \in Nodes, Announce(n) PROVE IInv'
<1> USE DEF IInv
<1>1. PICK dr \in 0 .. Drift : announceIn' = [announceIn EXCEPT ![n] = Interval + dr]
  BY DEF Announce
<1>2. TypeOK'
  BY <1>1, MeshAssumption DEF Announce, TypeOK
<1>3. Listed'
  BY DEF Announce, Listed, TypeOK
<1>4. Timers'
  BY <1>1, MeshAssumption, Constants DEF Announce, Timers, TypeOK, Period
<1>5. SweepBound'
  BY DEF Announce, SweepBound, TypeOK
<1>6. BeaconBound'
  <2> SUFFICES ASSUME NEW m \in up', NEW p \in registry'[m],
                      p \in up', missed'[m][p] < Enough
               PROVE  Due(m, p)'
    BY DEF BeaconBound
  <2>1. /\ m \in up /\ m \in Nodes /\ p \in registry[m] /\ p \in up /\ p \in Nodes
        /\ missed[m][p] < Enough /\ Due(m, p)
    BY DEF Announce, BeaconBound, TypeOK
  <2>2. CASE p # n
    BY <1>1, <2>1, <2>2 DEF Announce, Due, TypeOK
  <2>3. CASE p = n /\ m # n
    BY <1>1, <2>1, <2>3 DEF Announce, Due, TypeOK
  <2>4. CASE p = n /\ m = n
    BY <2>1, <2>4 DEF Listed
  <2> QED
    BY <2>2, <2>3, <2>4
<1> QED
  BY <1>2, <1>3, <1>4, <1>5, <1>6

(* A peer that was heard of starts a new lifetime, whether a beacon of it  *)
(* is still on the wire or not.                                            *)
LEMMA HeardHolds ==
    ASSUME IInv, NEW n \in up, NEW p \in Nodes, p # n, UpsertPeer(n, p),
           net' \in {net, net \ {<<p, n>>}},
           UNCHANGED <<up, sweepIn, announceIn>>
    PROVE  IInv'
<1> USE DEF IInv
<1>0. n \in Nodes
  BY DEF TypeOK
<1>1. TypeOK'
  BY <1>0, Constants DEF UpsertPeer, TypeOK
<1>2. Listed'
  BY <1>0 DEF UpsertPeer, Listed, TypeOK
<1>3. Timers'
  BY DEF Timers
<1>4. SweepBound'
  BY <1>0, MeshAssumption DEF UpsertPeer, SweepBound, Timers, TypeOK
<1>5. BeaconBound'
  <2> SUFFICES ASSUME NEW m \in up', NEW q \in registry'[m],
                      q \in up', missed'[m][q] < Enough
               PROVE  Due(m, q)'
    BY DEF BeaconBound
  <2>1. m \in up /\ m \in Nodes /\ q \in up /\ q \in Nodes
    BY DEF TypeOK
  <2>2. CASE m = n /\ q = p
    <3>1. age'[m][q] = 0 /\ missed'[m][q] = 0
      BY <1>0, <2>1, <2>2 DEF UpsertPeer, TypeOK
    <3>2. announceIn'[q] \in Nat /\ announceIn'[q] <= Period
      BY <2>1 DEF Timers, TypeOK
    <3> QED
      BY <3>1, <3>2, Constants DEF Due
  <2>3. CASE ~(m = n /\ q = p)
    <3>1. /\ q \in registry[m] /\ age'[m][q] = age[m][q]
          /\ missed'[m][q] = missed[m][q]
      BY <1>0, <2>1, <2>3 DEF UpsertPeer, TypeOK
    <3>2. <<q, m>> \in net' <=> <<q, m>> \in net
      BY <2>3
    <3> QED
      BY <2>1, <3>1, <3>2 DEF BeaconBound, Due
  <2> QED
    BY <2>2, <2>3
<1> QED
  BY <1>1, <1>2, <1>3, <1>4, <1>5

(* A beacon that is lost is accounted for.                                 *)
LEMMA LoseHolds == ASSUME IInv, NEW p \in Nodes, NEW n \in Nodes, Lose(p, n) PROVE IInv'
<1> USE DEF IInv
<1>1. TypeOK'
  BY Constants DEF Lose, TypeOK
<1>2. Listed'
  BY Constants DEF Lose, Listed, TypeOK
<1>3. Timers'
  BY DEF Lose, Timers
<1>4. SweepBound'
  BY DEF Lose, SweepBound
<1>5. BeaconBound'
  <2> SUFFICES ASSUME NEW m \in up', NEW q \in registry'[m],
                      q \in up', missed'[m][q] < Enough
               PROVE  Due(m, q)'
    BY DEF BeaconBound
  <2>1. m \in up /\ m \in Nodes /\ q \in up /\ q \in Nodes /\ q \in registry[m]
    BY DEF Lose, TypeOK
  <2>2. CASE m = n /\ q = p
    <3>1. /\ missed[m][q] \in Nat /\ missed[m][q] < Enough
          /\ missed'[m][q] = missed[m][q] + 1
      BY <2>1, <2>2, Constants DEF Lose, TypeOK
    <3>2. age[m][q] <= (missed[m][q] + 1) * Period
      BY <2>1, <2>2, <3>1 DEF Lose, BeaconBound, Due
    <3>3. announceIn[q] \in Nat /\ announceIn[q] <= Period /\ age[m][q] \in Nat
      BY <2>1 DEF Timers, TypeOK
    <3>4. /\ (missed[m][q] + 1) * Period \in Nat
          /\ (missed'[m][q] + 1) * Period = (missed[m][q] + 1) * Period + Period
      BY <3>1, MultNext, Constants
    <3>5. age[m][q] + announceIn[q] <= (missed'[m][q] + 1) * Period
      BY <3>2, <3>3, <3>4, Constants
    <3> QED
      BY <2>2, <3>5 DEF Lose, Due
  <2>3. CASE ~(m = n /\ q = p)
    <3>1. missed'[m][q] = missed[m][q]
      BY <2>1, <2>3 DEF Lose, TypeOK
    <3> QED
      BY <2>1, <2>3, <3>1 DEF Lose, BeaconBound, Due
  <2> QED
    BY <2>2, <2>3
<1> QED
  BY <1>1, <1>2, <1>3, <1>4, <1>5

(* What a sweep leaves is no older than a lifetime.                        *)
LEMMA SweepHolds == ASSUME IInv, NEW n \in Nodes, Sweep(n) PROVE IInv'
<1> USE DEF IInv
<1>1. PICK dr \in 0 .. Drift : sweepIn' = [sweepIn EXCEPT ![n] = Ttl + dr]
  BY DEF Sweep
<1>2. TypeOK'
  BY <1>1, MeshAssumption DEF Sweep, TypeOK
<1>3. /\ \A m \in Nodes : registry'[m] \subseteq registry[m]
      /\ \A m \in Nodes : \A p \in registry'[m] : age'[m][p] = age[m][p]
  BY DEF Sweep, TypeOK
<1>4. Listed'
  BY <1>3 DEF Sweep, Listed, TypeOK
<1>5. Timers'
  BY <1>1, MeshAssumption DEF Sweep, Timers, TypeOK
<1>6. SweepBound'
  <2> SUFFICES ASSUME NEW m \in up', NEW p \in registry'[m]
               PROVE  age'[m][p] + sweepIn'[m] <= 2 * Ttl + Drift
    BY DEF SweepBound
  <2>1. m \in up /\ m \in Nodes /\ p \in registry[m] /\ p \in Nodes /\ age'[m][p] = age[m][p]
    BY <1>3 DEF Sweep, TypeOK
  <2>2. CASE m = n
    <3>1. age[m][p] \in Nat /\ age[m][p] <= Ttl
      BY <2>1, <2>2, MeshAssumption DEF Sweep, Expired, TypeOK
    <3>2. sweepIn'[m] = Ttl + dr
      BY <1>1, <2>1, <2>2 DEF TypeOK
    <3> QED
      BY <2>1, <3>1, <3>2, MeshAssumption
  <2>3. CASE m # n
    BY <1>1, <2>1, <2>3 DEF SweepBound, TypeOK
  <2> QED
    BY <2>2, <2>3
<1>7. BeaconBound'
  BY <1>3 DEF Sweep, BeaconBound, Due, TypeOK
<1> QED
  BY <1>2, <1>4, <1>5, <1>6, <1>7

(* A unit of time moves from the sleeps to the ages.                       *)
LEMMA TickHolds == ASSUME IInv, Tick PROVE IInv'
<1> USE DEF IInv
<1>1. \A m \in up : m \in Nodes /\ sweepIn[m] \in Nat \ {0} /\ announceIn[m] \in Nat \ {0}
                   /\ sweepIn'[m] = sweepIn[m] - 1 /\ announceIn'[m] = announceIn[m] - 1
  BY DEF Tick, TypeOK
<1>2. \A m \in up : \A p \in registry[m] :
         p \in Nodes /\ age[m][p] \in Nat /\ age'[m][p] = age[m][p] + 1
  BY DEF Tick, TypeOK
<1>3. TypeOK'
  <2>1. age' \in [Nodes -> [Nodes -> Nat]]
    BY DEF Tick, TypeOK
  <2>2. sweepIn' \in [Nodes -> Nat] /\ announceIn' \in [Nodes -> Nat]
    BY <1>1 DEF Tick, TypeOK
  <2> QED
    BY <2>1, <2>2 DEF Tick, TypeOK
<1>4. Listed'
  BY DEF Tick, Listed
<1>5. Timers'
  <2>1. \A m \in Nodes \ up : sweepIn'[m] = sweepIn[m] /\ announceIn'[m] = announceIn[m]
    BY DEF Tick, TypeOK
  <2>2. \A m \in Nodes : sweepIn[m] \in Nat /\ announceIn[m] \in Nat
    BY DEF TypeOK
  <2> QED
    BY <1>1, <2>1, <2>2, MeshAssumption, Constants DEF Timers
<1>6. SweepBound'
  <2> SUFFICES ASSUME NEW m \in up', NEW p \in registry'[m]
               PROVE  age'[m][p] + sweepIn'[m] <= 2 * Ttl + Drift
    BY DEF SweepBound
  <2>1. m \in up /\ p \in registry[m]
    BY DEF Tick
  <2>2. age'[m][p] + sweepIn'[m] = age[m][p] + sweepIn[m]
    BY <1>1, <1>2, <2>1
  <2> QED
    BY <2>1, <2>2 DEF SweepBound
<1>7. BeaconBound'
  <2> SUFFICES ASSUME NEW m \in up', NEW q \in registry'[m],
                      q \in up', missed'[m][q] < Enough
               PROVE  Due(m, q)'
    BY DEF BeaconBound
  <2>1. m \in up /\ q \in up /\ q \in registry[m] /\ missed[m][q] < Enough
        /\ <<q, m>> \notin net /\ <<q, m>> \notin net' /\ missed' = missed
    BY DEF Tick
  <2>2. age[m][q] + announceIn[q] <= (missed[m][q] + 1) * Period
    BY <2>1 DEF BeaconBound, Due
  <2>3. age'[m][q] + announceIn'[q] = age[m][q] + announceIn[q]
    BY <1>1, <1>2, <2>1
  <2> QED
    BY <2>1, <2>2, <2>3 DEF Due
<1> QED
  BY <1>3, <1>4, <1>5, <1>6, <1>7

(* Every step preserves the invariant.                                     *)
LEMMA StepHolds == IInv /\ [Next]_vars => IInv'
<1> SUFFICES ASSUME IInv, [Next]_vars PROVE IInv'
  OBVIOUS
<1>1. CASE Tick
  BY <1>1, TickHolds
<1>2. ASSUME NEW n \in Nodes, Start(n) \/ Stop(n) \/ Announce(n) \/ Sweep(n) PROVE IInv'
  BY <1>2, StartHolds, StopHolds, AnnounceHolds, SweepHolds
<1>3. ASSUME NEW p \in Nodes, NEW n \in Nodes, Deliver(p, n) PROVE IInv'
  <2>1. n \in up /\ p # n
    BY <1>3 DEF Deliver, IInv, Listed
  <2> QED
    BY <1>3, <2>1, HeardHolds DEF Deliver
<1>4. ASSUME NEW p \in Nodes, NEW n \in Nodes, Contact(p, n) PROVE IInv'
  BY <1>4, HeardHolds DEF Contact
<1>5. ASSUME NEW p \in Nodes, NEW n \in Nodes, Lose(p, n) PROVE IInv'
  BY <1>5, LoseHolds
<1>6. CASE UNCHANGED vars
  BY <1>6 DEF vars, IInv, TypeOK, Listed, Timers, SweepBound, BeaconBound, Due
<1> QED
  BY <1>1, <1>2, <1>3, <1>4, <1>5, <1>6 DEF Next

(* The invariant holds in every reachable state.                           *)
THEOREM Invariance == Spec => []IInv
  BY InitHolds, StepHolds, PTL DEF Spec

-----------------------------------------------------------------------------
(* Every variable of discovery keeps its type.                             *)
THEOREM TypeCorrect == Spec => []TypeOK
<1>1. IInv => TypeOK
  BY DEF IInv
<1> QED
  BY <1>1, Invariance, PTL

(* The bound of a record's age by the sweeper's sleep and by the beacons   *)
(* that were missed.                                                       *)
THEOREM AgesBounded == Spec => []AgeBound
<1>1. ASSUME IInv PROVE AgeBound
  <2> USE <1>1 DEF IInv
  <2> SUFFICES ASSUME NEW n \in up, NEW p \in registry[n],
                      p \in up, missed[n][p] < Enough
               PROVE  age[n][p] + announceIn[p]
                        <= (missed[n][p] + (IF <<p, n>> \in net THEN 2 ELSE 1)) * Period
    BY DEF AgeBound, SweepBound
  <2>1. /\ missed[n][p] \in Nat /\ age[n][p] \in Nat /\ announceIn[p] \in Nat
        /\ announceIn[p] <= Period /\ Due(n, p)
    BY Constants DEF TypeOK, Timers, BeaconBound
  <2>2. CASE <<p, n>> \notin net
    BY <2>1, <2>2 DEF Due
  <2>3. CASE <<p, n>> \in net
    <3>1. /\ (missed[n][p] + 1) * Period \in Nat
          /\ (missed[n][p] + 2) * Period = (missed[n][p] + 1) * Period + Period
      <4>1. missed[n][p] + 1 \in Nat /\ (missed[n][p] + 1) + 1 = missed[n][p] + 2
        BY <2>1
      <4> QED
        BY <4>1, MultNext, Constants
    <3>2. age[n][p] <= (missed[n][p] + 1) * Period
      BY <2>1, <2>3 DEF Due
    <3>3. age[n][p] + announceIn[p] <= (missed[n][p] + 2) * Period
      BY <2>1, <3>1, <3>2, Constants
    <3> QED
      BY <2>3, <3>3
  <2> QED
    BY <2>2, <2>3
<1> QED
  BY <1>1, Invariance, PTL

(* A peer that the sweeper of a running node drops had a lifetime's worth  *)
(* of beacons lost, or was down.                                           *)
THEOREM SilentForgotten == Spec => OnlySilentForgotten
<1>1. ASSUME IInv, [Next]_vars
      PROVE  [\A n \in up : \A p \in registry[n] \ registry'[n] :
                 n \in up' => missed[n][p] = Enough]_vars
  <2> SUFFICES ASSUME Next, NEW n \in up, NEW p \in registry[n] \ registry'[n], n \in up'
               PROVE  missed[n][p] = Enough
    BY <1>1
  <2> USE <1>1 DEF IInv
  <2>0. n \in Nodes /\ p \in Nodes
    BY DEF TypeOK
  <2>1. Sweep(n)
    <3>1. ~Tick
      BY DEF Tick
    <3>2. ASSUME NEW m \in Nodes PROVE ~Start(m) /\ ~Announce(m)
      BY DEF Start, Announce
    <3>3. ASSUME NEW m \in Nodes, NEW q \in Nodes
          PROVE  ~Deliver(m, q) /\ ~Lose(m, q) /\ ~Contact(m, q)
      <4>1. ASSUME UpsertPeer(q, m) PROVE registry[n] \subseteq registry'[n]
        BY <2>0, <4>1 DEF UpsertPeer, TypeOK
      <4> QED
        BY <4>1 DEF Deliver, Lose, Contact
    <3>4. ASSUME NEW m \in Nodes, Stop(m) PROVE FALSE
      BY <2>0, <3>4 DEF Stop, TypeOK
    <3>5. ASSUME NEW m \in Nodes, Sweep(m) PROVE m = n
      BY <2>0, <3>5 DEF Sweep, TypeOK
    <3> QED
      BY <3>1, <3>2, <3>3, <3>4, <3>5 DEF Next
  <2>2. age[n][p] \in Nat /\ age[n][p] > Ttl
    BY <2>0, <2>1 DEF Sweep, Expired, TypeOK
  <2>3. CASE p \notin up
    BY <2>3 DEF Listed
  <2>4. CASE p \in up
    <3>0. missed[n][p] \in 0 .. Enough
      BY <2>0 DEF TypeOK
    <3> SUFFICES ASSUME missed[n][p] < Enough PROVE FALSE
      BY <3>0, Constants
    <3>1. missed[n][p] \in Nat /\ announceIn[p] \in Nat
      BY <2>0, Constants DEF TypeOK
    <3>2. age[n][p] <= (missed[n][p] + 1) * Period
      <4>1. Due(n, p)
        BY <2>4 DEF BeaconBound
      <4>2. (missed[n][p] + 1) * Period \in Nat
        BY <3>1, MultNext, Constants
      <4> QED
        BY <4>1, <4>2, <3>1, <2>2 DEF Due
    <3>3. (missed[n][p] + 1) * Period <= Enough * Period
      <4>1. missed[n][p] + 1 \in Nat /\ missed[n][p] + 1 <= Enough
        BY <3>1, Constants
      <4> QED
        BY <4>1, MultMonotone, Constants
    <3>4. (missed[n][p] + 1) * Period \in Nat /\ Enough * Period \in Nat
      BY <3>1, MultNext, Constants
    <3> QED
      BY <2>2, <3>2, <3>3, <3>4, Constants, MeshAssumption
  <2> QED
    BY <2>3, <2>4
<1> QED
  BY <1>1, Invariance, PTL DEF Spec, OnlySilentForgotten

(* The registry is the membership list that discovery promises: a step of  *)
(* the registry is a step of Membership or leaves it alone.                *)
THEOREM Refinement == Spec => Implements
<1>1. Init => Promise!Init
  BY DEF Init, Promise!Init, Zero
<1>2. ASSUME IInv, [Next]_vars PROVE [Promise!Next]_(Promise!mvars)
  <2> USE <1>2 DEF IInv
  <2>1. CASE Tick
    <3>1. \A n \in Nodes : \A p \in registry[n] : age[n][p] < 2 * Ttl + Drift
      <4> SUFFICES ASSUME NEW n \in Nodes, NEW p \in registry[n]
                   PROVE  age[n][p] < 2 * Ttl + Drift
        OBVIOUS
      <4>1. n \in up /\ p \in Nodes
        BY DEF Listed, TypeOK
      <4>2. age[n][p] \in Nat /\ sweepIn[n] \in Nat \ {0}
        BY <2>1, <4>1 DEF Tick, TypeOK
      <4> QED
        BY <4>1, <4>2, MeshAssumption DEF SweepBound
    <3> QED
      BY <2>1, <3>1 DEF Tick, Promise!Next, Promise!Pass
  <2>2. ASSUME NEW n \in Nodes, Stop(n) PROVE Promise!Next
    BY <2>2 DEF Stop, Zero, Promise!Next, Promise!Stop
  <2>3. ASSUME NEW n \in Nodes, Sweep(n) PROVE Promise!Next
    <3>1. Expired(n) \in SUBSET registry[n] /\ \A p \in Expired(n) : age[n][p] > Ttl
      BY DEF Expired
    <3>2. Promise!Forget(n, Expired(n))
      BY <2>3, <3>1 DEF Sweep, Promise!Forget
    <3> QED
      BY <3>1, <3>2 DEF Promise!Next
  <2>4. ASSUME NEW p \in Nodes, NEW n \in Nodes, Deliver(p, n) PROVE Promise!Next
    <3>1. Promise!Hear(n, p)
      BY <2>4 DEF Deliver, UpsertPeer, Listed, Promise!Hear
    <3> QED
      BY <3>1 DEF Promise!Next
  <2>5. ASSUME NEW p \in Nodes, NEW n \in Nodes, Contact(p, n) PROVE Promise!Next
    <3>1. Promise!Hear(n, p)
      BY <2>5 DEF Contact, UpsertPeer, Promise!Hear
    <3> QED
      BY <3>1 DEF Promise!Next
  <2>6. ASSUME UNCHANGED <<registry, age>> PROVE UNCHANGED Promise!mvars
    BY <2>6 DEF Promise!mvars
  <2>7. \/ Tick \/ UNCHANGED <<registry, age>>
        \/ \E n \in Nodes : Stop(n) \/ Sweep(n)
        \/ \E p, n \in Nodes : Deliver(p, n) \/ Contact(p, n)
    BY DEF Next, vars, Start, Announce, Lose
  <2> QED
    BY <2>1, <2>2, <2>3, <2>4, <2>5, <2>6, <2>7
<1> QED
  BY <1>1, <1>2, Invariance, PTL DEF Spec, Implements, Promise!Spec
=============================================================================
