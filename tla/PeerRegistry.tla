---------------------------- MODULE PeerRegistry ----------------------------
(***************************************************************************)
(* Peer discovery of the mesh (src/mesh/peer_discovery.cpp): every node    *)
(* multicasts a beacon when it starts and every announce_interval_s, puts  *)
(* the senders of the beacons it hears into its registry and, once per     *)
(* peer_ttl_s, sweeps out the ones it has not heard for peer_ttl_s.        *)
(*                                                                         *)
(* Time is discrete and relative: `age` is now_ms() - last_seen_ms, and    *)
(* the two timers are what is left of the threads' sleeps.  A sleep may    *)
(* overrun by up to Drift.  A beacon is received within one unit of time   *)
(* or not at all; every copy of it may be lost on its own.                 *)
(***************************************************************************)
EXTENDS Naturals

CONSTANTS
    Nodes,
    Ttl,        \* peer_ttl_s
    Interval,   \* announce_interval_s
    Drift       \* how far a thread's sleep may overrun

ASSUME MeshAssumption ==
    Ttl \in Nat \ {0} /\ Interval \in Nat \ {0} /\ Drift \in Nat

VARIABLES
    up,          \* the running nodes
    registry,    \* registry_: the peers each node lists
    age,         \* time since last_seen_ms of a listed peer
    sweepIn,     \* what is left of the sweeper thread's sleep
    announceIn,  \* what is left of the announce thread's sleep
    net,         \* beacons on the wire, one copy per receiver
    missed       \* history: beacons of a running peer that did not arrive
                 \* since it was heard last, up to Enough; Enough, too, when
                 \* the peer went down since

vars == <<up, registry, age, sweepIn, announceIn, net, missed>>

Period == Interval + Drift       \* most time between two beacons of a node
Enough == Ttl \div Period        \* beacons that fit into a lifetime

Zero == [p \in Nodes |-> 0]

TypeOK ==
    /\ up \subseteq Nodes
    /\ registry \in [Nodes -> SUBSET Nodes]
    /\ age \in [Nodes -> [Nodes -> Nat]]
    /\ sweepIn \in [Nodes -> Nat]
    /\ announceIn \in [Nodes -> Nat]
    /\ net \subseteq (Nodes \X Nodes)
    /\ missed \in [Nodes -> [Nodes -> 0 .. Enough]]

Init ==
    /\ up = {} /\ net = {}
    /\ registry = [n \in Nodes |-> {}]
    /\ age = [n \in Nodes |-> Zero]
    /\ sweepIn = Zero /\ announceIn = Zero
    /\ missed = [n \in Nodes |-> Zero]

-----------------------------------------------------------------------------
(* start(): the announce thread sends at once, the sweeper sleeps first.   *)
Start(n) ==
    /\ n \notin up
    /\ up' = up \cup {n}
    /\ announceIn' = [announceIn EXCEPT ![n] = 0]
    /\ \E d \in 0 .. Drift : sweepIn' = [sweepIn EXCEPT ![n] = Ttl + d]
    /\ UNCHANGED <<registry, age, net, missed>>

(* stop(), or the process dies: the registry was in memory, and nobody is  *)
(* told.                                                                   *)
Stop(n) ==
    /\ n \in up
    /\ up' = up \ {n}
    /\ registry' = [registry EXCEPT ![n] = {}]
    /\ age' = [age EXCEPT ![n] = Zero]
    /\ sweepIn' = [sweepIn EXCEPT ![n] = 0]
    /\ announceIn' = [announceIn EXCEPT ![n] = 0]
    /\ missed' = [m \in Nodes |-> IF m = n THEN Zero ELSE [missed[m] EXCEPT ![n] = Enough]]
    /\ UNCHANGED net

(* Mutant: the next sleep is twice the interval.                           *)
MutAnnounce(n) ==
    /\ n \in up /\ announceIn[n] = 0
    /\ net' = net \cup {<<n, p>> : p \in Nodes \ {n}}
    /\ \E d \in 0 .. Drift :
          announceIn' = [announceIn EXCEPT ![n] = 2 * Interval + d]
    /\ UNCHANGED <<up, registry, age, sweepIn, missed>>

(* announce_loop(): one beacon to the group, then the next sleep.          *)
Announce(n) ==
    /\ n \in up /\ announceIn[n] = 0
    /\ net' = net \cup {<<n, p>> : p \in Nodes \ {n}}
    /\ \E d \in 0 .. Drift : announceIn' = [announceIn EXCEPT ![n] = Interval + d]
    /\ UNCHANGED <<up, registry, age, sweepIn, missed>>

(* upsert_peer(): a new record, or a fresh last_seen_ms.                   *)
UpsertPeer(n, p) ==
    /\ registry' = [registry EXCEPT ![n] = @ \cup {p}]
    /\ age' = [age EXCEPT ![n][p] = 0]
    /\ missed' = [missed EXCEPT ![n][p] = IF p \in up THEN 0 ELSE Enough]

(* listen_loop(): a beacon arrives (never the node's own).                 *)
Deliver(p, n) ==
    /\ <<p, n>> \in net /\ n \in up
    /\ net' = net \ {<<p, n>>}
    /\ UpsertPeer(n, p)
    /\ UNCHANGED <<up, sweepIn, announceIn>>

(* The datagram is dropped, or nobody listens.                             *)
Lose(p, n) ==
    /\ <<p, n>> \in net
    /\ net' = net \ {<<p, n>>}
    /\ missed' = [missed EXCEPT ![n][p] = IF n \in up /\ @ < Enough THEN @ + 1 ELSE @]
    /\ UNCHANGED <<up, registry, age, sweepIn, announceIn>>

(* /v1/mesh/ask: the card of the asker rides along and is upserted.        *)
Contact(p, n) ==
    /\ p # n /\ p \in up /\ n \in up /\ n \in registry[p]
    /\ UpsertPeer(n, p)
    /\ UNCHANGED <<up, sweepIn, announceIn, net>>

(* Mutant: one lifetime of sleep, but the cutoff lies two lifetimes back.  *)
MutExpired(n) == {p \in registry[n] : age[n][p] > 2 * Ttl}

(* last_seen_ms < now_ms() - ttl_ms                                        *)
Expired(n) == {p \in registry[n] : age[n][p] > Ttl}

(* sweeper_loop(): drop what is expired, then sleep for peer_ttl_s.        *)
Sweep(n) ==
    /\ n \in up /\ sweepIn[n] = 0
    /\ registry' = [registry EXCEPT ![n] = @ \ Expired(n)]
    /\ age' = [age EXCEPT ![n] =
                  [p \in Nodes |-> IF p \in Expired(n) THEN 0 ELSE @[p]]]
    /\ \E d \in 0 .. Drift : sweepIn' = [sweepIn EXCEPT ![n] = Ttl + d]
    /\ UNCHANGED <<up, announceIn, net, missed>>

(* Mutant: the sweeper oversleeps without bound.                           *)
MutTick ==
    /\ net = {}
    /\ \A n \in up : announceIn[n] > 0
    /\ age' = [n \in Nodes |-> [p \in Nodes |->
                  IF p \in registry[n] THEN age[n][p] + 1 ELSE 0]]
    /\ sweepIn'    = [n \in Nodes |-> IF n \in up THEN sweepIn[n] - 1 ELSE sweepIn[n]]
    /\ announceIn' = [n \in Nodes |-> IF n \in up THEN announceIn[n] - 1 ELSE announceIn[n]]
    /\ UNCHANGED <<up, registry, net, missed>>

(* One unit of time passes, once nothing is due any more.                  *)
Tick ==
    /\ net = {}
    /\ \A n \in up : sweepIn[n] > 0 /\ announceIn[n] > 0
    /\ age' = [n \in Nodes |-> [p \in Nodes |->
                  IF p \in registry[n] THEN age[n][p] + 1 ELSE 0]]
    /\ sweepIn'    = [n \in Nodes |-> IF n \in up THEN sweepIn[n] - 1 ELSE sweepIn[n]]
    /\ announceIn' = [n \in Nodes |-> IF n \in up THEN announceIn[n] - 1 ELSE announceIn[n]]
    /\ UNCHANGED <<up, registry, net, missed>>

Next ==
    \/ Tick
    \/ \E n \in Nodes : Start(n) \/ Stop(n) \/ Announce(n) \/ Sweep(n)
    \/ \E p, n \in Nodes : Deliver(p, n) \/ Lose(p, n) \/ Contact(p, n)

Spec == Init /\ [][Next]_vars

-----------------------------------------------------------------------------
(* The registry does what discovery promises (peer_discovery.cpp 166-204): *)
(* nobody heard within peer_ttl_s is dropped, and nobody stays listed, and *)
(* so a candidate for asks and dispatch, for longer than two lifetimes     *)
(* after it was heard last, whatever the losses and restarts.              *)
Promise == INSTANCE Membership WITH
    known <- registry, silence <- age, Grace <- 2 * Ttl + Drift

Implements == Promise!Spec

(* A sweep drops a running peer only when as many of its beacons in a row  *)
(* were lost as fit into peer_ttl_s ("15 s = 3 beacons").                  *)
OnlySilentForgotten ==
    [][\A n \in up : \A p \in registry[n] \ registry'[n] :
          n \in up' => missed[n][p] = Enough]_vars

(* The strengthening both rest on: a listed peer's age and the sweeper's   *)
(* remaining sleep together never exceed what a record can live, and a     *)
(* running peer's age is bounded by the beacons of it that were missed.    *)
AgeBound ==
    \A n \in up : \A p \in registry[n] :
        /\ age[n][p] + sweepIn[n] <= 2 * Ttl + Drift
        /\ p \in up /\ missed[n][p] < Enough =>
              age[n][p] + announceIn[p]
                 <= (missed[n][p] + (IF <<p, n>> \in net THEN 2 ELSE 1)) * Period
=============================================================================
