---------------------------- MODULE ServerProofs ----------------------------
(***************************************************************************)
(* Proofs about the request handlers of unified_server on the manager and  *)
(* the batch scheduler, for any requests, models, order of backends,       *)
(* number of slots and number of failing calls.                            *)
(***************************************************************************)
EXTENDS UnifiedServer, SequenceTheorems, FiniteSetTheorems, WellFoundedInduction,
        NaturalsInduction, TLAPS

(* The steps of a handler that holds g_inference_mutex.                    *)
Held == Steps \ {"idle", "lock", "done"}

(* The manager: a backend the router has an entry for is loaded.           *)
Mgr ==
    /\ inst \in [Backends -> Models \cup {None}]
    /\ functional \subseteq Backends /\ routed \subseteq Backends
    /\ active \in Backends /\ cfg \in Models
    /\ kv \in [Backends -> SUBSET Items]
    /\ fails \in 0 .. MaxFail
    /\ \A b \in routed : inst[b] # None

Uses == [items : SUBSET Items, weights : SUBSET Models, backends : SUBSET Backends]
SlotStates == [state : {"idle", "prefilling", "decoding"}, owner : Owners \cup {None},
               pos : 0 .. Len(Prompt), n : 0 .. MaxTokens]
Names == [model : Models \cup {None}, spelled : {"name", "file"}]
Results == {"none", "ok", "short", "error", "timeout", "refused"}

Types ==
    /\ used \in [Owners -> Uses]
    /\ pending \in Seq(Owners) /\ slots \in [Slots -> SlotStates]
    /\ admitted \in BOOLEAN /\ answered \subseteq Owners /\ unreset \subseteq Owners
    /\ inferLock \in Owners \cup {None}
    /\ current_cfg \in Models /\ pc \in [Threads -> Steps]
    /\ want \in [Threads -> Names] /\ res \in [Threads -> Results]
    /\ pos \in 1 .. 3 /\ n \in 0 .. MaxTokens
    /\ pick \in Backends \cup {None} /\ skip \subseteq Backends \cup {None}
    /\ since \in 0 .. MaxFail /\ since <= fails

(* One handler holds the mutex.                                            *)
Mutex == \A t \in Threads : pc[t] \in Held <=> inferLock = t

(* The locals of the handler that holds it.                                *)
Locals ==
    \A t \in Threads : pc[t] \in Held =>
        /\ n < MaxTokens
        /\ pc[t] \notin {"decode", "fallback", "retry"} => pos = 1
        /\ pc[t] \in {"init", "join"} => want[t].model \in Models

(* Before it gives up, a backend call has failed or there was nothing left *)
(* to ask.                                                                 *)
Health ==
    \A t \in Threads :
        /\ pc[t] = "select" => Requests[t].kind = "select"
        /\ pc[t] = "text" => Requests[t].raw
        /\ pc[t] \in {"prefill", "decode"} =>
              fails > since \/ routed # {} \/ Usable(active) \/ Requests[t].raw
        /\ pc[t] \in {"fallback", "retry"} =>
              fails > since \/ (Requests[t].raw /\ routed = {})

(* What the scheduler has: nothing, the request of the handler that waits  *)
(* for its future, or one slot that serves it.                             *)
AllIdle == \A i \in Slots : slots[i].state = "idle"
Empty == pending = <<>> /\ AllIdle
Queued(o) == pending = <<o>> /\ AllIdle
Seated(o, k) ==
    /\ pending = <<>>
    /\ \A i \in Slots : i # k => slots[i].state = "idle"
    /\ slots[k].state \in {"prefilling", "decoding"} /\ slots[k].owner = o
    /\ slots[k].n < MaxTokens
    /\ slots[k].state = "prefilling" => slots[k].pos \in 1 .. 2

Sched ==
    /\ \A o \in answered : pc[o] \in {"await", "done"}
    /\ \/ Empty
       \/ \E o \in Owners : /\ pc[o] = "await" /\ o \notin answered
                            /\ Queued(o) \/ \E k \in Slots : Seated(o, k)

(* Without the scheduler nothing feeds BOS.                                *)
CleanCaches == \A b \in Backends : \A o \in Owners : <<o, "bos">> \notin kv[b]

NoBos ==
    /\ \A t \in Threads : pc[t] \notin {"submit", "await"}
    /\ CleanCaches /\ BosSkipped

IInv == Mgr /\ Types /\ Mutex /\ Locals /\ Health /\ Sched /\ (Batch \/ NoBos)

-----------------------------------------------------------------------------
(* Lemmas about the order of the backends.                                 *)

LEMMA BackendsFinite ==
    /\ IsFiniteSet(Backends) /\ Backends # {}
    /\ \A S \in SUBSET Backends : IsFiniteSet(S) /\ Cardinality(S) \in Nat
<1> DEFINE D == 1 .. Len(Order)
           f == [i \in D |-> Order[i]]
<1>1. Len(Order) \in Nat /\ DOMAIN Order = D
  BY OrderAssumption
<1>2. IsFiniteSet(D)
  BY <1>1, FS_Interval
<1>3. f \in Surjection(D, Backends)
  BY <1>1 DEF Surjection, Backends
<1>4. IsFiniteSet(Backends)
  <2> HIDE DEF D, f
  <2> QED BY <1>2, <1>3, FS_Surjection
<1> QED BY <1>4, OrderAssumption, FS_Subset, FS_CardinalityType

LEMMA PositionType ==
    ASSUME NEW b \in Backends
    PROVE  Position(b) \in 1 .. Len(Order) /\ Len(Order) \in Nat
<1>1. Len(Order) \in Nat /\ DOMAIN Order = 1 .. Len(Order)
  BY OrderAssumption
<1>2. \E i \in DOMAIN Order : Order[i] = b
  BY DEF Backends
<1>3. Position(b) \in DOMAIN Order
  BY <1>2, Zenon DEF Position
<1> QED BY <1>1, <1>3

(* A set of naturals that is not empty has a least member.                 *)
LEMMA LeastNatural ==
    ASSUME NEW S \in SUBSET Nat, S # {}
    PROVE  \E x \in S : \A y \in S : x <= y
<1>1. PICK x \in S : \A y \in S : ~(<<y, x>> \in OpToRel(<, Nat))
  BY NatLessThanWellFounded, WFMin, Zenon
<1> DEFINE R == {q \in Nat \X Nat : q[1] < q[2]}
<1>2. OpToRel(<, Nat) = R
  BY Zenon DEF OpToRel
<1>3. \A y \in S : <<y, x>> \notin R
  BY <1>1, <1>2, Zenon
<1>4. ASSUME NEW y \in S, y < x PROVE FALSE
  <2> DEFINE q == <<y, x>>
  <2>1. q \in Nat \X Nat /\ q[1] = y /\ q[2] = x
    OBVIOUS
  <2> HIDE DEF q
  <2>2. q \in R
    BY <1>4, <2>1
  <2> QED BY <2>2, <1>3 DEF q
<1> QED BY <1>4

(* The first and the last backend of a set.                                *)
LEMMA FirstBackend ==
    ASSUME NEW S \in SUBSET Backends, S # {}
    PROVE  (CHOOSE b \in S : \A d \in S : Position(b) =< Position(d)) \in S
<1> DEFINE P == {Position(b) : b \in S}
<1>1. P \in SUBSET Nat /\ P # {}
  BY PositionType
<1>2. PICK x \in P : \A y \in P : x <= y
  <2> HIDE DEF P
  <2> QED BY <1>1, LeastNatural
<1>3. \E b \in S : \A d \in S : Position(b) =< Position(d)
  BY <1>2
<1> QED BY <1>3, Zenon

LEMMA LastBackend ==
    ASSUME NEW S \in SUBSET Backends, S # {}
    PROVE  (CHOOSE b \in S : \A d \in S : Position(d) =< Position(b)) \in S
<1> DEFINE P == {Len(Order) - Position(b) : b \in S}
<1>1. P \in SUBSET Nat /\ P # {}
  BY PositionType
<1>2. PICK x \in P : \A y \in P : x <= y
  <2> HIDE DEF P
  <2> QED BY <1>1, LeastNatural
<1>3. PICK b \in S : x = Len(Order) - Position(b)
  OBVIOUS
<1>4. ASSUME NEW d \in S PROVE Position(d) =< Position(b)
  <2>1. x <= Len(Order) - Position(d)
    BY <1>2
  <2>2. Position(b) \in Nat /\ Position(d) \in Nat /\ Len(Order) \in Nat
    BY PositionType
  <2> QED BY <1>3, <2>1, <2>2
<1> QED BY <1>4, Zenon

-----------------------------------------------------------------------------
(* What the operations of the manager keep.                                *)

(* An operation that feeds `item`, if anything.                            *)
Feeds(item) == \A b \in Backends : kv'[b] \subseteq kv[b] \cup {item}

(* A cache may only shrink.                                                *)
Clears == \A b \in Backends : kv'[b] \subseteq kv[b]

LEMMA FedType ==
    ASSUME Mgr, NEW item \in Items, NEW b \in Backends
    PROVE  /\ Fed(b, item) \in [Backends -> SUBSET Items]
           /\ \A d \in Backends : Fed(b, item)[d] \subseteq kv[d] \cup {item}
  BY DEF Mgr, Fed

LEMMA InitFailsType ==
    ASSUME NEW c PROVE InitFails(c) \in Nat
<1>1. {d \in Passed(c) : inst[d] = None} \in SUBSET Backends
  BY DEF Passed
<1> QED BY <1>1, BackendsFinite DEF InitFails

LEMMA FailoverKeeps ==
    ASSUME Mgr, NEW c \in Backends \cup {None}, Failover(c)
    PROVE  /\ inst' \in [Backends -> Models \cup {None}] /\ active' \in Backends
           /\ \A b \in Backends : inst[b] # None => inst'[b] # None
           /\ c # None => inst'[c] \in Models /\ inst'[c] # None
<1> USE NoneAssumption, OrderAssumption
<1>1. CASE c = None
  BY <1>1 DEF Failover, Mgr
<1>2. CASE c # None /\ inst[c] = None
  BY <1>2 DEF Failover, Mgr
<1>3. CASE c # None /\ inst[c] # None
  BY <1>3 DEF Failover, Mgr
<1> QED BY <1>1, <1>2, <1>3

LEMMA GenerateKeeps ==
    ASSUME Mgr, NEW item \in Items, NEW by \in Backends \cup {None}, generate(item, by)
    PROVE  /\ Mgr' /\ fails <= fails' /\ Feeds(item)
           /\ by # None => by \in Backends /\ inst'[by] \in Models
<1> USE NoneAssumption, OrderAssumption, FailAssumption
<1>1. CASE RouterServes(item, by)
  <2>1. by \in Backends /\ kv' = Fed(by, item) /\ UNCHANGED <<inst, functional, routed, active, cfg, fails>>
    BY <1>1 DEF RouterServes, Mgr
  <2>2. inst[by] \in Models
    BY <1>1, <2>1 DEF RouterServes, Mgr
  <2> QED BY <2>1, <2>2, FedType DEF Mgr, Feeds
<1>2. CASE ActiveServes(item, by)
  <2>1. /\ by \in Backends /\ kv' = Fed(by, item) /\ UNCHANGED <<inst, functional, active, cfg>>
        /\ routed' = {} /\ inst[by] # None
    BY <1>2 DEF ActiveServes, Usable, Mgr
  <2>2. fails' \in 0 .. MaxFail /\ fails <= fails'
    BY <1>2 DEF ActiveServes, Fail, Exhausted, Mgr
  <2>3. kv' \in [Backends -> SUBSET Items] /\ Feeds(item)
    BY <2>1, FedType DEF Feeds
  <2>4. inst[by] \in Models
    BY <2>1 DEF Mgr
  <2> QED BY <2>1, <2>2, <2>3, <2>4 DEF Mgr
<1>3. CASE FailoverServes(item, by)
  <2>1. PICK c \in Backends \cup {None}, kept \in {0, 1} :
           LET failed == Exhausted + (IF Usable(active) THEN 1 ELSE 0) + InitFails(c) + kept
           IN  /\ Failover(c)
               /\ \/ /\ c # None /\ by = c
                     /\ Fail(failed)
                     /\ functional' = (functional \ {active}) \cup {c}
                     /\ kv' = [kv EXCEPT ![c] = Left(c, kept) \cup {item}]
                  \/ /\ c # None /\ by = None
                     /\ Fail(failed + 1)
                     /\ functional' = functional \ {active, c}
                     /\ kv' = [kv EXCEPT ![c] = Left(c, kept)]
                  \/ /\ c = None /\ by = None /\ kept = 0
                     /\ Fail(failed)
                     /\ functional' = functional \ {active}
                     /\ UNCHANGED kv
               /\ routed' = {}
               /\ UNCHANGED cfg
    BY <1>3, Zenon DEF FailoverServes
  <2> DEFINE failed == Exhausted + (IF Usable(active) THEN 1 ELSE 0) + InitFails(c) + kept
  <2>2. failed \in Nat
    BY InitFailsType DEF Exhausted
  <2> HIDE DEF failed
  <2>3. Fail(failed) \/ Fail(failed + 1)
    BY <2>1 DEF failed
  <2>4. fails' \in 0 .. MaxFail /\ fails <= fails'
    BY <2>2, <2>3 DEF Fail, Mgr
  <2>5. /\ inst' \in [Backends -> Models \cup {None}] /\ active' \in Backends
        /\ c # None => inst'[c] \in Models
    BY <2>1, FailoverKeeps
  <2>6. /\ functional' \subseteq Backends /\ routed' = {} /\ cfg' = cfg /\ (by # None => by = c)
    BY <2>1 DEF Mgr
  <2>7. c # None => Left(c, kept) \subseteq kv[c] /\ Left(c, kept) \in SUBSET Items
    BY DEF Left, Mgr
  <2>8. kv' \in [Backends -> SUBSET Items] /\ Feeds(item)
    <3>1. \/ UNCHANGED kv
          \/ c # None /\ (\/ kv' = [kv EXCEPT ![c] = Left(c, kept)]
                         \/ kv' = [kv EXCEPT ![c] = Left(c, kept) \cup {item}])
      BY <2>1
    <3> HIDE DEF Left
    <3> QED BY <2>7, <3>1 DEF Mgr, Feeds
  <2> QED BY <2>4, <2>5, <2>6, <2>8 DEF Mgr
<1> QED BY <1>1, <1>2, <1>3 DEF generate

(* A call of generate() that comes back empty has failed somewhere, unless *)
(* there was neither a router nor a usable active backend.                 *)
LEMMA GenerateFails ==
    ASSUME Mgr, NEW item \in Items, NEW by \in Backends \cup {None}, generate(item, by)
    PROVE  /\ by = None /\ (routed # {} \/ Usable(active)) => fails' > fails
           /\ fails' = fails /\ (routed # {} \/ Usable(active)) => routed' # {} \/ Usable(active)'
           /\ routed = {} => routed' = {}
<1> USE NoneAssumption, OrderAssumption, FailAssumption
<1>0. fails \in Nat
  BY DEF Mgr
<1>1. CASE RouterServes(item, by)
  BY <1>1 DEF RouterServes, Mgr, Usable
<1>2. CASE ActiveServes(item, by)
  BY <1>2 DEF ActiveServes, Usable, Mgr
<1>3. CASE FailoverServes(item, by)
  <2>1. PICK c \in Backends \cup {None}, kept \in {0, 1} :
           /\ \/ Fail(Exhausted + (IF Usable(active) THEN 1 ELSE 0) + InitFails(c) + kept)
              \/ Fail(Exhausted + (IF Usable(active) THEN 1 ELSE 0) + InitFails(c) + kept + 1)
           /\ routed' = {}
    BY <1>3, Zenon DEF FailoverServes
  <2>2. InitFails(c) \in Nat
    BY InitFailsType
  <2>3. routed # {} \/ Usable(active) => fails' > fails
    <3>1. SUFFICES ASSUME routed # {} \/ Usable(active) PROVE fails' > fails
      OBVIOUS
    <3>2. kept \in Nat /\ Exhausted \in Nat
      BY DEF Exhausted
    <3> DEFINE one == IF Usable(active) THEN 1 ELSE 0
    <3>3. one \in Nat /\ Exhausted + one > 0
      BY <3>1 DEF Exhausted
    <3>4. fails' = fails + (Exhausted + one + InitFails(c) + kept)
          \/ fails' = fails + (Exhausted + one + InitFails(c) + kept + 1)
      BY <2>1 DEF Fail
    <3> HIDE DEF one
    <3> QED BY <1>0, <2>2, <3>2, <3>3, <3>4
  <2> QED BY <1>0, <2>1, <2>3
<1> QED BY <1>1, <1>2, <1>3 DEF generate

LEMMA ForwardKeeps ==
    ASSUME Mgr, NEW item \in Items, NEW by \in Backends \cup {None}, forward(item, by)
    PROVE  /\ Mgr' /\ fails <= fails' /\ Feeds(item)
           /\ by # None => by \in Backends /\ inst'[by] \in Models
           /\ by = None /\ (routed # {} \/ Usable(active)) => fails' > fails
           /\ UNCHANGED <<inst, functional, routed, active>>
<1> USE NoneAssumption, OrderAssumption, FailAssumption
<1> DEFINE from == IF routed # {} THEN routed ELSE {b \in {active} : inst[b] # None}
<1>1. /\ from \subseteq Backends /\ (routed # {} \/ Usable(active) => from # {})
      /\ \A b \in from : inst[b] \in Models
  BY DEF Mgr, Usable
<1>2. UNCHANGED <<inst, functional, routed, active, cfg>>
  BY DEF forward
<1>3. \/ by \in from /\ kv' = Fed(by, item) /\ UNCHANGED fails
      \/ by = None /\ from # {} /\ Fail(1) /\ kv' \in {kv} \cup {Fed(b, item) : b \in from}
      \/ by = None /\ from = {} /\ UNCHANGED <<kv, fails>>
  BY Zenon DEF forward
<1> HIDE DEF from
<1>4. kv' = kv \/ \E b \in Backends : kv' = Fed(b, item)
  BY <1>1, <1>3
<1>5. kv' \in [Backends -> SUBSET Items] /\ Feeds(item)
  <2>1. CASE kv' = kv
    BY <2>1 DEF Mgr, Feeds
  <2>2. ASSUME NEW b \in Backends, kv' = Fed(b, item) PROVE kv' \in [Backends -> SUBSET Items] /\ Feeds(item)
    BY <2>2, FedType DEF Feeds
  <2> QED BY <1>4, <2>1, <2>2
<1>6. fails' \in 0 .. MaxFail /\ fails <= fails' /\ (by = None /\ from # {} => fails' > fails)
  BY <1>1, <1>3 DEF Fail, Mgr
<1>7. by # None => by \in Backends /\ inst'[by] \in Models
  BY <1>1, <1>2, <1>3
<1> QED BY <1>1, <1>2, <1>5, <1>6, <1>7 DEF Mgr

LEMMA GenerateTextKeeps ==
    ASSUME Mgr, generate_text
    PROVE  Mgr' /\ fails <= fails' /\ Clears
<1> USE NoneAssumption, OrderAssumption, FailAssumption
<1>1. CASE routed # {}
  BY <1>1 DEF generate_text, mgrVars, Mgr, Clears
<1>2. CASE routed = {}
  <2>1. PICK c \in Backends \cup {None}, kept \in {0, 1} :
             /\ Failover(c)
             /\ Fail(InitFails(c) + kept)
             /\ functional' = (functional \ {active}) \cup ({c} \ {None})
             /\ kv' = IF c = None THEN kv ELSE [kv EXCEPT ![c] = Left(c, kept)]
             /\ UNCHANGED <<routed, cfg>>
    BY <1>2, Zenon DEF generate_text
  <2>2. /\ inst' \in [Backends -> Models \cup {None}] /\ active' \in Backends
    BY <2>1, FailoverKeeps
  <2>3. fails' \in 0 .. MaxFail /\ fails <= fails'
    BY <2>1, InitFailsType DEF Fail, Mgr
  <2>4. functional' \subseteq Backends /\ kv' \in [Backends -> SUBSET Items] /\ Clears
    BY <2>1 DEF Mgr, Clears, Left
  <2> QED BY <1>2, <2>1, <2>2, <2>3, <2>4 DEF Mgr
<1> QED BY <1>1, <1>2

LEMMA EmbedKeeps ==
    ASSUME Mgr, NEW item \in Items, forward_embed(item)
    PROVE  Mgr' /\ fails <= fails' /\ Feeds(item)
<1>1. active \in Backends
  BY DEF Mgr
<1>2. kv' \in [Backends -> SUBSET Items] /\ Feeds(item)
  BY <1>1, FedType DEF forward_embed, Mgr, Feeds
<1> QED BY <1>2 DEF forward_embed, Mgr

(* reset(): it fails only with a call that fails or with nothing to reset, *)
(* and leaves something to ask.                                            *)
LEMMA ResetKeeps ==
    ASSUME Mgr, NEW ok \in BOOLEAN, reset(ok)
    PROVE  /\ Mgr' /\ fails <= fails' /\ Clears /\ UNCHANGED <<routed, active, inst>>
           /\ ~ok /\ fails' = fails => routed = {} /\ inst[active] = None
           /\ ok => routed' # {} \/ Usable(active)'
<1> USE FailAssumption
<1> DEFINE all == IF routed # {} THEN routed ELSE {b \in {active} : inst[b] # None}
<1>1. PICK bad \in SUBSET all :
            /\ Fail(Cardinality(bad))
            /\ ok = (all # {} /\ bad = {})
            /\ kv' = [b \in Backends |-> IF b \in all \ bad THEN {} ELSE kv[b]]
            /\ functional' = IF routed = {} /\ ok THEN functional \cup {active} ELSE functional
            /\ UNCHANGED <<inst, routed, active, cfg>>
  BY Zenon DEF reset
<1>2. all \subseteq Backends
  BY DEF Mgr
<1>3. bad \in SUBSET Backends /\ Cardinality(bad) \in Nat /\ IsFiniteSet(bad)
  BY <1>2, BackendsFinite
<1>4. Cardinality(bad) = 0 => bad = {}
  BY <1>3, FS_EmptySet
<1>5. fails' \in 0 .. MaxFail /\ fails <= fails' /\ (fails' = fails => bad = {})
  BY <1>1, <1>3, <1>4 DEF Fail, Mgr
<1>6. kv' \in [Backends -> SUBSET Items] /\ Clears /\ functional' \subseteq Backends
  BY <1>1 DEF Mgr, Clears
<1>7. ~ok /\ fails' = fails => routed = {} /\ inst[active] = None
  BY <1>1, <1>5
<1>8. ok => routed' # {} \/ Usable(active)'
  BY <1>1 DEF Usable
<1> QED BY <1>1, <1>5, <1>6, <1>7, <1>8 DEF Mgr

LEMMA ResetSlotKeeps ==
    ASSUME Mgr, NEW ok, reset_slot(ok) PROVE Mgr' /\ fails <= fails'
  BY FailAssumption DEF Mgr, reset_slot, Fail

LEMMA SelectKeeps ==
    ASSUME Mgr, NEW b, select_backend(b) PROVE Mgr' /\ fails <= fails' /\ Clears /\ UNCHANGED <<routed, fails>>
  BY DEF Mgr, select_backend, Clears

LEMMA StrategyKeeps ==
    ASSUME Mgr, NEW s, set_strategy(s) PROVE Mgr' /\ fails <= fails' /\ Clears
  BY DEF Mgr, set_strategy, re_evaluate, mgrVars, Clears

LEMMA LoadKeeps ==
    ASSUME Mgr, NEW m \in Models, init_in_order(m)
    PROVE  Mgr' /\ fails <= fails' /\ Clears
<1> USE NoneAssumption, FailAssumption
<1>1. PICK good \in SUBSET Backends, stuck \in SUBSET Backends, spare \in SUBSET Backends :
        LET bad == Backends \ (good \cup stuck \cup spare)
        IN  /\ Fail(Cardinality(bad \cup stuck))
            /\ inst' = [b \in Backends |-> IF b \in good THEN m
                                           ELSE IF b \in stuck THEN inst[b] ELSE None]
            /\ functional' = functional \cup good
            /\ routed' = good
            /\ active' = IF good = {} THEN active
                         ELSE CHOOSE b \in good : \A d \in good :
                                 Position(d) =< Position(b)
            /\ cfg' = m
            /\ kv' = [b \in Backends |-> IF b \in stuck THEN kv[b] ELSE {}]
  BY Zenon DEF init_in_order
<1> DEFINE lost == (Backends \ (good \cup stuck \cup spare)) \cup stuck
<1>2. Fail(Cardinality(lost))
  BY <1>1
<1>3. Cardinality(lost) \in Nat
  BY BackendsFinite
<1>4. fails' \in 0 .. MaxFail /\ fails <= fails'
  <2> HIDE DEF lost
  <2> QED BY <1>2, <1>3 DEF Fail, Mgr
<1>5. active' \in Backends
  <2>1. CASE good = {}
    BY <1>1, <2>1 DEF Mgr
  <2>2. CASE good # {}
    BY <1>1, <2>2, LastBackend
  <2> QED BY <2>1, <2>2
<1>6. inst' \in [Backends -> Models \cup {None}] /\ \A b \in good : inst'[b] # None
  BY <1>1 DEF Mgr
<1>7. kv' \in [Backends -> SUBSET Items] /\ Clears
  BY <1>1 DEF Mgr, Clears
<1> QED BY <1>1, <1>4, <1>5, <1>6, <1>7 DEF Mgr

-----------------------------------------------------------------------------
(* The tokens of an answer, and BOS.                                       *)

LEMMA CreditKeeps ==
    ASSUME Types, Mgr', NEW o \in Owners, NEW by \in Backends, inst'[by] \in Models, Credit(o, by)
    PROVE  /\ used' \in [Owners -> Uses]
           /\ BosSkipped /\ CleanCaches' => BosSkipped'
<1> DEFINE e == [items    |-> used[o].items \cup kv'[by],
                 weights  |-> used[o].weights \cup {inst'[by]},
                 backends |-> used[o].backends \cup {by}]
<1>1. used' = [used EXCEPT ![o] = e]
  BY DEF Credit
<1>2. used[o] \in Uses /\ kv'[by] \subseteq Items
  BY DEF Types, Mgr
<1>3. e \in Uses /\ e.items = used[o].items \cup kv'[by]
  BY <1>2 DEF Uses
<1> HIDE DEF e
<1>4. used' \in [Owners -> Uses] /\ used'[o] = e /\ \A q \in Owners : q # o => used'[q] = used[q]
  BY <1>1, <1>3 DEF Types
<1>5. ASSUME BosSkipped, CleanCaches' PROVE BosSkipped'
  <2>1. <<o, "bos">> \notin kv'[by]
    BY <1>5 DEF CleanCaches
  <2>2. \A q \in Threads : <<q, "bos">> \notin used[q].items
    BY <1>5 DEF BosSkipped
  <2> QED BY <1>3, <1>4, <2>1, <2>2, RequestAssumption DEF BosSkipped
<1> QED BY <1>4, <1>5

LEMMA FeedsClean ==
    ASSUME CleanCaches, NEW t, NEW kind \in {"text", "image"}, Feeds(<<t, kind>>)
    PROVE  CleanCaches'
  BY DEF CleanCaches, Feeds

LEMMA ClearsClean ==
    ASSUME CleanCaches, Clears PROVE CleanCaches'
  BY DEF CleanCaches, Clears

-----------------------------------------------------------------------------
(* A step of the handler that holds the mutex and does not wait for the    *)
(* scheduler: where it goes, and what it may do to the shared state.       *)
Goes(u, step) ==
    /\ step \in Held \ {"await"} /\ Goto(u, step) /\ UNCHANGED <<inferLock, res>>
    /\ n' < MaxTokens
    /\ step \notin {"decode", "fallback", "retry"} => pos' = 1
    /\ step \in {"init", "join"} => want[u].model \in Models
    /\ step \in {"prefill", "decode"} =>
          fails' > since \/ routed' # {} \/ Usable(active)' \/ Requests[u].raw
    /\ step \in {"fallback", "retry"} =>
          fails' > since \/ (Requests[u].raw /\ routed' = {})
    /\ step = "text" => Requests[u].raw
    /\ step = "select" => Requests[u].kind = "select"
    /\ Batch \/ step # "submit"

Works(u) ==
    /\ Mgr' /\ fails <= fails' /\ used' \in [Owners -> Uses]
    /\ UNCHANGED <<schedVars, want, since>>
    /\ current_cfg' \in Models /\ n' \in 0 .. MaxTokens /\ pos' \in 1 .. 3
    /\ pick' \in Backends \cup {None} /\ skip' \subseteq Backends \cup {None}
    /\ (\E step \in Held : Goes(u, step)) \/ \E r \in Results : Finish(u, r)
    /\ Batch \/ (CleanCaches' /\ BosSkipped')

(* While such a handler runs the scheduler has nothing.                    *)
LEMMA HolderAlone ==
    ASSUME Mutex, Sched, Types, NEW u \in Threads, pc[u] \in Held \ {"await"}
    PROVE  Empty /\ inferLock = u /\ u \notin answered /\ \A t \in Threads : t # u => pc[t] \notin Held
<1>1. inferLock = u /\ \A t \in Threads : t # u => pc[t] \notin Held
  BY DEF Mutex
<1>2. ASSUME NEW o \in Owners, pc[o] = "await" PROVE FALSE
  BY <1>1, <1>2, RequestAssumption DEF Held, Steps
<1>3. Empty
  BY <1>2 DEF Sched
<1>4. u \notin answered
  BY DEF Sched, Held
<1> QED BY <1>1, <1>3, <1>4

LEMMA WorksKeeps ==
    ASSUME IInv, NEW u \in Threads, pc[u] \in Held \ {"await"}, Works(u)
    PROVE  IInv'
<1> USE RequestAssumption, NoneAssumption
<1>0. Mgr /\ Types /\ Mutex /\ Locals /\ Health /\ Sched /\ (Batch \/ NoBos)
  BY DEF IInv
<1>1. Empty /\ inferLock = u /\ u \notin answered /\ \A t \in Threads : t # u => pc[t] \notin Held
  BY <1>0, HolderAlone
<1>2. PICK step \in Held \cup {"done"} :
         /\ step # "await" /\ Goto(u, step)
         /\ step # "done" => Goes(u, step)
         /\ step = "done" => inferLock' = None /\ \E r \in Results : res' = [res EXCEPT ![u] = r]
  <2>1. CASE \E r \in Results : Finish(u, r)
    BY <2>1 DEF Finish
  <2>2. ASSUME NEW step \in Held, Goes(u, step) PROVE step # "await" /\ Goto(u, step) /\ step # "done"
    BY <2>2 DEF Goes, Held
  <2> QED BY <2>1, <2>2 DEF Works
<1>3. /\ pc' \in [Threads -> Steps] /\ pc'[u] = step
      /\ \A t \in Threads : t # u => pc'[t] = pc[t]
  BY <1>0, <1>2 DEF Goto, Types, Held, Steps
<1>4. inferLock' = IF step = "done" THEN None ELSE u
  BY <1>1, <1>2 DEF Goes
<1>5. res' \in [Threads -> Results]
  BY <1>0, <1>2 DEF Goes, Types
<1>6. Types'
  <2>1. since' \in 0 .. MaxFail /\ since' <= fails'
    BY <1>0, FailAssumption DEF Works, Types, Mgr
  <2>2. inferLock' \in Owners \cup {None}
    BY <1>4
  <2> QED BY <1>0, <1>3, <1>5, <2>1, <2>2 DEF Types, Works, schedVars
<1>7. Mutex'
  BY <1>1, <1>2, <1>3, <1>4 DEF Mutex, Held
<1>8. Locals' /\ Health'
  <2>1. want' = want /\ since' = since
    BY DEF Works
  <2>2. ASSUME NEW t \in Threads, pc'[t] \in Held PROVE t = u /\ Goes(u, step) /\ pc'[u] = step
    BY <1>1, <1>2, <1>3, <2>2 DEF Held
  <2>3. Locals'
    BY <2>1, <2>2 DEF Locals, Goes
  <2>4. {"select", "text", "prefill", "decode", "fallback", "retry"} \subseteq Held
    BY DEF Held, Steps
  <2>5. Health'
    <3>1. SUFFICES ASSUME NEW t \in Threads, pc'[t] \in {"select", "text", "prefill", "decode", "fallback", "retry"}
                   PROVE  /\ pc'[t] = "select" => Requests[t].kind = "select"
                          /\ pc'[t] = "text" => Requests[t].raw
                          /\ pc'[t] \in {"prefill", "decode"} =>
                               fails' > since' \/ routed' # {} \/ Usable(active)' \/ Requests[t].raw
                          /\ pc'[t] \in {"fallback", "retry"} =>
                               fails' > since' \/ (Requests[t].raw /\ routed' = {})
      BY DEF Health
    <3> QED BY <2>1, <2>2, <2>4, <3>1 DEF Goes
  <2> QED BY <2>3, <2>5
<1>9. Sched'
  <2>1. Empty' /\ answered' = answered
    BY <1>1 DEF Works, schedVars, Empty, AllIdle
  <2> QED BY <1>0, <1>1, <1>3, <2>1 DEF Sched, Types
<1>10. Batch \/ NoBos'
  BY <1>0, <1>2, <1>3 DEF NoBos, Works, Goes
<1> QED BY <1>6, <1>7, <1>8, <1>9, <1>10 DEF IInv, Works

-----------------------------------------------------------------------------
(* Every step of a handler that holds the mutex is such a step.            *)

LEMMA QuietWorks ==
    ASSUME IInv, NEW u \in Threads, pc[u] \in Held \ {"await"},
           Mgr', fails <= fails', Clears, UNCHANGED <<used, schedVars, want, locals, since>>,
           current_cfg' \in Models,
           (\E step \in Held : Goes(u, step)) \/ \E r \in Results : Finish(u, r)
    PROVE  Works(u)
<1>1. Batch \/ (CleanCaches' /\ BosSkipped')
  BY ClearsClean DEF IInv, NoBos, BosSkipped
<1> QED BY <1>1 DEF Works, IInv, Types, locals

LEMMA SelectWorks ==
    ASSUME IInv, NEW u \in Threads, SelectHandler(u) PROVE pc[u] \in Held \ {"await"} /\ Works(u)
<1>1. pc[u] \in Held \ {"await"}
  BY DEF SelectHandler, Held, Steps
<1>2. Mgr' /\ fails <= fails' /\ Clears
  BY SelectKeeps DEF SelectHandler, IInv
<1>3. \E r \in Results : Finish(u, r)
  BY DEF SelectHandler, Results
<1>4. UNCHANGED <<used, schedVars, want, locals, since>> /\ current_cfg' \in Models
  BY DEF SelectHandler, IInv, Types
<1> QED BY <1>1, <1>2, <1>3, <1>4, QuietWorks

LEMMA StrategyWorks ==
    ASSUME IInv, NEW u \in Threads, Strategy(u) PROVE pc[u] \in Held \ {"await"} /\ Works(u)
<1>1. pc[u] = "strategy" /\ pc[u] \in Held \ {"await"} /\ "switch" \in Held
  BY DEF Strategy, Held, Steps
<1>2. Mgr' /\ fails <= fails' /\ Clears
  BY StrategyKeeps DEF Strategy, IInv
<1>3. UNCHANGED <<used, schedVars, want, locals, since, inferLock, res>> /\ current_cfg' \in Models
  BY DEF Strategy, IInv, Types
<1>4. Goes(u, "switch")
  BY <1>1, <1>3 DEF Goes, Strategy, IInv, Locals, locals
<1> QED BY <1>1, <1>2, <1>3, <1>4, QuietWorks

(* Where a handler goes once its model is there.                           *)
LEMMA LoadedGoes ==
    ASSUME IInv, NEW u \in Threads, pc[u] \in {"switch", "init", "join"},
           Goto(u, Loaded(u)), UNCHANGED <<inferLock, res, locals>>
    PROVE  \E step \in Held : Goes(u, step)
<1>1. Loaded(u) \in {"submit", "vision", "pick"} /\ (Batch \/ Loaded(u) # "submit")
  BY DEF Loaded
<1>2. pc[u] \in Held /\ {"submit", "vision", "pick"} \subseteq Held
  BY DEF Held, Steps
<1>3. n' < MaxTokens /\ pos' = 1
  BY <1>2 DEF IInv, Locals, locals
<1>4. Goes(u, Loaded(u))
  BY <1>1, <1>2, <1>3 DEF Goes
<1> QED BY <1>1, <1>2, <1>4

LEMMA SwitchWorks ==
    ASSUME IInv, NEW u \in Threads, Switch(u) PROVE pc[u] \in Held \ {"await"} /\ Works(u)
<1>1. pc[u] = "switch" /\ pc[u] \in Held \ {"await"} /\ "init" \in Held
  BY DEF Switch, Held, Steps
<1>2. UNCHANGED <<mgrVars, used, schedVars, want, locals, since>>
  BY DEF Switch
<1>3. Mgr' /\ fails <= fails' /\ Clears
  BY <1>2 DEF mgrVars, Mgr, IInv, Clears
<1>4. \/ /\ want[u].model \in Models /\ current_cfg' = want[u].model
         /\ Goto(u, "init") /\ UNCHANGED <<inferLock, res>>
      \/ /\ UNCHANGED current_cfg /\ Finish(u, "refused")
      \/ /\ UNCHANGED current_cfg /\ Goto(u, Loaded(u)) /\ UNCHANGED <<inferLock, res>>
  BY ModelAssumption DEF Switch
<1>5. CASE want[u].model \in Models /\ current_cfg' = want[u].model
           /\ Goto(u, "init") /\ UNCHANGED <<inferLock, res>>
  <2>1. Goes(u, "init")
    BY <1>1, <1>2, <1>5 DEF Goes, IInv, Locals, locals
  <2> QED BY <1>1, <1>2, <1>3, <1>5, <2>1, QuietWorks
<1>6. CASE UNCHANGED current_cfg /\ Finish(u, "refused")
  <2>1. current_cfg' \in Models /\ "refused" \in Results
    BY <1>6 DEF IInv, Types, Results
  <2> QED BY <1>1, <1>2, <1>3, <1>6, <2>1, QuietWorks
<1>7. CASE UNCHANGED current_cfg /\ Goto(u, Loaded(u)) /\ UNCHANGED <<inferLock, res>>
  <2>1. current_cfg' \in Models
    BY <1>7 DEF IInv, Types
  <2>2. \E step \in Held : Goes(u, step)
    BY <1>1, <1>2, <1>7, LoadedGoes
  <2> QED BY <1>1, <1>2, <1>3, <2>1, <2>2, QuietWorks
<1> QED BY <1>4, <1>5, <1>6, <1>7

LEMMA LoadWorks ==
    ASSUME IInv, NEW u \in Threads, LoadModel(u) \/ Join(u) PROVE pc[u] \in Held \ {"await"} /\ Works(u)
<1>1. pc[u] \in {"init", "join"} /\ pc[u] \in Held \ {"await"}
  BY DEF LoadModel, Join, Held, Steps
<1>2. want[u].model \in Models
  BY <1>1 DEF IInv, Locals
<1>3. init_in_order(want[u].model)
  BY DEF LoadModel, Join
<1>4. Mgr' /\ fails <= fails' /\ Clears
  BY <1>2, <1>3, LoadKeeps DEF IInv
<1>5. /\ UNCHANGED <<used, schedVars, inferLock, current_cfg, want, res, locals, since>>
      /\ Goto(u, Loaded(u))
  BY DEF LoadModel, Join
<1>6. current_cfg' \in Models
  BY <1>5 DEF IInv, Types
<1>7. \E step \in Held : Goes(u, step)
  BY <1>1, <1>5, LoadedGoes
<1> QED BY <1>1, <1>4, <1>5, <1>6, <1>7, QuietWorks

LEMMA HangWorks ==
    ASSUME IInv, NEW u \in Threads, Hang(u) PROVE pc[u] \in Held \ {"await"} /\ Works(u)
<1>1. pc[u] = "init" /\ pc[u] \in Held \ {"await"} /\ "join" \in Held
  BY DEF Hang, Held, Steps
<1>2. UNCHANGED <<mgrVars, used, schedVars, inferLock, current_cfg, want, res, locals, since>>
  BY DEF Hang
<1>3. Mgr' /\ fails <= fails' /\ Clears /\ current_cfg' \in Models
  BY <1>2 DEF mgrVars, Mgr, IInv, Clears, Types
<1>4. Goes(u, "join")
  BY <1>1, <1>2 DEF Goes, Hang, IInv, Locals, locals
<1> QED BY <1>1, <1>2, <1>3, <1>4, QuietWorks

LEMMA VisionWorks ==
    ASSUME IInv, NEW u \in Threads, Vision(u) PROVE pc[u] \in Held \ {"await"} /\ Works(u)
<1> DEFINE item == <<u, "image">>
<1>0. item \in Items
  BY RequestAssumption DEF Items
<1>1. pc[u] \in {"vision", "embed", "vision_end"} /\ pc[u] \in Held \ {"await"}
  BY DEF Vision, Held, Steps
<1>2. UNCHANGED <<used, schedVars, inferLock, current_cfg, want, res, locals, since>>
  BY DEF Vision
<1>3. (\E by \in Backends \cup {None} : generate(item, by)) \/ forward_embed(item)
  BY DEF Vision
<1>4. PICK step \in {"embed", "vision_end", "pick"} : Goto(u, step)
  BY DEF Vision
<1>5. Mgr' /\ fails <= fails' /\ Feeds(item)
  <2> HIDE DEF item
  <2> QED BY <1>0, <1>3, GenerateKeeps, EmbedKeeps DEF IInv
<1>6. Batch \/ (CleanCaches' /\ BosSkipped')
  BY <1>2, <1>5, FeedsClean DEF IInv, NoBos, BosSkipped
<1>7. step \in Held /\ Goes(u, step)
  BY <1>1, <1>2, <1>4 DEF Goes, IInv, Locals, locals, Held, Steps
<1> QED BY <1>1, <1>2, <1>5, <1>6, <1>7 DEF Works, IInv, Types, locals

LEMMA PickWorks ==
    ASSUME IInv, NEW u \in Threads, Pick(u) PROVE pc[u] \in Held \ {"await"} /\ Works(u)
<1>1. pc[u] = "pick" /\ pc[u] \in Held \ {"await"} /\ "reset" \in Held
  BY DEF Pick, Held, Steps
<1>2. UNCHANGED <<used, schedVars, inferLock, current_cfg, want, res, locals, since>>
  BY DEF Pick
<1>3. Mgr' /\ fails <= fails' /\ Clears
  <2>1. CASE UNCHANGED mgrVars
    BY <2>1 DEF mgrVars, Mgr, IInv, Clears
  <2>2. CASE select_backend(pick)
    BY <2>2, SelectKeeps DEF IInv
  <2> QED BY <2>1, <2>2 DEF Pick
<1>4. Goes(u, "reset") /\ current_cfg' \in Models
  BY <1>1, <1>2 DEF Goes, Pick, IInv, Locals, locals, Types
<1> QED BY <1>1, <1>2, <1>3, <1>4, QuietWorks

LEMMA ResetWorks ==
    ASSUME IInv, NEW u \in Threads, ResetSequence(u) PROVE pc[u] \in Held \ {"await"} /\ Works(u)
<1>1. pc[u] = "reset" /\ pc[u] \in Held \ {"await"} /\ {"text", "prefill"} \subseteq Held
  BY DEF ResetSequence, Held, Steps
<1>2. UNCHANGED <<used, schedVars, current_cfg, want, locals, since>>
  BY DEF ResetSequence
<1>3. PICK ok \in BOOLEAN :
         /\ reset(ok)
         /\ IF ok THEN /\ Goto(u, IF Requests[u].raw THEN "text" ELSE "prefill")
                       /\ UNCHANGED <<inferLock, res>>
            ELSE Finish(u, "error")
  BY DEF ResetSequence
<1>4. Mgr' /\ fails <= fails' /\ Clears /\ (ok => routed' # {} \/ Usable(active)')
  BY <1>3, ResetKeeps DEF IInv
<1>5. current_cfg' \in Models
  BY <1>2 DEF IInv, Types
<1>6. CASE ok
  <2>1. n' < MaxTokens /\ pos' = 1
    BY <1>1, <1>2 DEF IInv, Locals, locals
  <2>2. PICK step \in {"text", "prefill"} :
           Goto(u, step) /\ (step = "text" => Requests[u].raw) /\ UNCHANGED <<inferLock, res>>
    BY <1>3, <1>6
  <2>3. step \in Held /\ Goes(u, step)
    BY <1>1, <1>4, <1>6, <2>1, <2>2 DEF Goes
  <2> QED BY <1>1, <1>2, <1>4, <1>5, <2>3, QuietWorks
<1>7. CASE ~ok
  <2>1. Finish(u, "error") /\ "error" \in Results
    BY <1>3, <1>7 DEF Results
  <2> QED BY <1>1, <1>2, <1>4, <1>5, <2>1, QuietWorks
<1> QED BY <1>6, <1>7

LEMMA TextWorks ==
    ASSUME IInv, NEW u \in Threads, TryText(u) PROVE pc[u] \in Held \ {"await"} /\ Works(u)
<1>1. pc[u] = "text" /\ pc[u] \in Held \ {"await"} /\ "prefill" \in Held
  BY DEF TryText, Held, Steps
<1>2. UNCHANGED <<used, schedVars, inferLock, current_cfg, want, res, locals, since>>
  BY DEF TryText
<1>3. Mgr' /\ fails <= fails' /\ Clears
  <2>1. CASE UNCHANGED mgrVars
    BY <2>1 DEF mgrVars, Mgr, IInv, Clears
  <2>2. CASE generate_text
    BY <2>2, GenerateTextKeeps DEF IInv
  <2> QED BY <2>1, <2>2 DEF TryText
<1>4. Requests[u].raw
  BY <1>1 DEF IInv, Health
<1>5. Goes(u, "prefill") /\ current_cfg' \in Models
  BY <1>1, <1>2, <1>4 DEF Goes, TryText, IInv, Locals, locals, Types
<1> QED BY <1>1, <1>2, <1>3, <1>5, QuietWorks

LEMMA PrefillWorks ==
    ASSUME IInv, NEW u \in Threads, PrefillToken(u) PROVE pc[u] \in Held \ {"await"} /\ Works(u)
<1> DEFINE item == <<u, "text">>
<1>0. item \in Items
  BY RequestAssumption DEF Items
<1>1. pc[u] = "prefill" /\ pc[u] \in Held \ {"await"} /\ "decode" \in Held
  BY DEF PrefillToken, Held, Steps
<1>2. pos = 1 /\ n < MaxTokens
  BY <1>1 DEF IInv, Locals
<1>3. Prompt[1] = "bos" /\ Prompt[2] = "text" /\ Len(Prompt) = 3
  BY DEF Prompt
<1>4. PICK by \in Backends \cup {None} :
         /\ generate(item, by)
         /\ IF by = None THEN Finish(u, "error")
            ELSE Goto(u, "decode") /\ UNCHANGED <<inferLock, res>>
  BY <1>2, <1>3 DEF PrefillToken
<1>5. pos' = 3 /\ UNCHANGED <<used, schedVars, current_cfg, want, n, pick, skip, since>>
  BY <1>2, <1>3 DEF PrefillToken
<1>6. Mgr' /\ fails <= fails' /\ Feeds(item)
  <2> HIDE DEF item
  <2> QED BY <1>0, <1>4, GenerateKeeps DEF IInv
<1>7. Batch \/ (CleanCaches' /\ BosSkipped')
  BY <1>5, <1>6, FeedsClean DEF IInv, NoBos, BosSkipped
<1>8. (\E step \in Held : Goes(u, step)) \/ \E r \in Results : Finish(u, r)
  <2>1. CASE by = None
    BY <1>4, <2>1 DEF Results
  <2>2. CASE by # None
    <3>1. fails' > since \/ routed' # {} \/ Usable(active)' \/ Requests[u].raw
      <4>1. fails > since \/ routed # {} \/ Usable(active) \/ Requests[u].raw
        BY <1>1 DEF IInv, Health
      <4>2. fails' = fails /\ (routed # {} \/ Usable(active)) => routed' # {} \/ Usable(active)'
        <5> HIDE DEF item
        <5> QED BY <1>0, <1>4, GenerateFails DEF IInv
      <4>3. since <= fails /\ fails <= fails' /\ fails \in Nat /\ fails' \in Nat /\ since \in Nat
        BY <1>6, FailAssumption DEF IInv, Types, Mgr
      <4> QED BY <4>1, <4>2, <4>3
    <3>2. n' < MaxTokens
      BY <1>2, <1>5
    <3>3. Goes(u, "decode")
      BY <1>1, <1>4, <2>2, <3>1, <3>2 DEF Goes
    <3> QED BY <1>1, <3>3
  <2> QED BY <2>1, <2>2
<1> QED BY <1>1, <1>5, <1>6, <1>7, <1>8 DEF Works, IInv, Types

(* A token of the answer.                                                  *)
LEMMA AcceptWorks ==
    ASSUME IInv, NEW u \in Threads, pc[u] \in {"decode", "retry"}, NEW by \in Backends,
           Mgr', fails <= fails', Feeds(<<u, "text">>), inst'[by] \in Models, Accept(u, by),
           UNCHANGED <<schedVars, current_cfg, want, pos, pick, skip, since>>,
           fails' > since \/ routed' # {} \/ Usable(active)' \/ Requests[u].raw
    PROVE  Works(u)
<1>1. u \in Owners /\ n < MaxTokens /\ n \in Nat /\ MaxTokens \in Nat /\ "decode" \in Held
  <2>1. pc[u] \in Held /\ "decode" \in Held
    BY DEF Held, Steps
  <2>2. n < MaxTokens
    BY <2>1 DEF IInv, Locals
  <2>3. n \in Nat /\ MaxTokens \in Nat
    BY SlotAssumption DEF IInv, Types
  <2> QED BY <2>1, <2>2, <2>3, RequestAssumption
<1>2. /\ used' \in [Owners -> Uses]
      /\ BosSkipped /\ CleanCaches' => BosSkipped'
  BY <1>1, CreditKeeps DEF Accept, IInv
<1>3. Batch \/ (CleanCaches' /\ BosSkipped')
  BY <1>2, FeedsClean DEF IInv, NoBos
<1>4. n' = n + 1 /\ n' \in 0 .. MaxTokens
  BY <1>1 DEF Accept
<1>5. (\E step \in Held : Goes(u, step)) \/ \E r \in Results : Finish(u, r)
  <2>1. CASE Finish(u, "ok")
    BY <2>1 DEF Results
  <2>2. CASE n + 1 < MaxTokens /\ Goto(u, "decode") /\ UNCHANGED <<inferLock, res>>
    <3>1. Goes(u, "decode")
      BY <1>1, <1>4, <2>2 DEF Goes
    <3> QED BY <1>1, <3>1
  <2> QED BY <2>1, <2>2 DEF Accept
<1> QED BY <1>2, <1>3, <1>4, <1>5 DEF Works, IInv, Types

(* The handler turns to the fallback loop.                                 *)
LEMMA FallsBack ==
    ASSUME IInv, NEW u \in Threads, pc[u] \in {"decode", "retry"},
           Mgr', fails <= fails', Feeds(<<u, "text">>), Goto(u, "fallback"),
           UNCHANGED <<used, inferLock, res, n, schedVars, current_cfg, want, pos, pick, since>>,
           skip' = skip \/ skip' = {pick},
           fails' > since \/ (Requests[u].raw /\ routed' = {})
    PROVE  Works(u)
<1>1. pc[u] \in Held /\ "fallback" \in Held \ {"await"}
  BY DEF Held, Steps
<1>2. n' < MaxTokens
  BY <1>1 DEF IInv, Locals
<1>3. Batch \/ (CleanCaches' /\ BosSkipped')
  BY FeedsClean DEF IInv, NoBos, BosSkipped
<1>4. Goes(u, "fallback")
  BY <1>1, <1>2 DEF Goes
<1> QED BY <1>1, <1>3, <1>4 DEF Works, IInv, Types

LEMMA DecodeWorks ==
    ASSUME IInv, NEW u \in Threads, DecodeToken(u) PROVE pc[u] \in Held \ {"await"} /\ Works(u)
<1> DEFINE item == <<u, "text">>
<1>0. item \in Items
  BY RequestAssumption DEF Items
<1>1. pc[u] = "decode" /\ pc[u] \in Held \ {"await"} /\ "decode" \in Held
  BY DEF DecodeToken, Held, Steps
<1>2. PICK by \in Backends \cup {None} :
         /\ forward(item, by) \/ generate(item, by)
         /\ IF by # None THEN Accept(u, by) /\ UNCHANGED skip
            ELSE /\ Goto(u, "fallback")
                 /\ skip' = {pick}
                 /\ UNCHANGED <<used, inferLock, res, n>>
  BY DEF DecodeToken
<1>3. UNCHANGED <<schedVars, current_cfg, want, pos, pick, since>>
  BY DEF DecodeToken
<1>4. fails > since \/ routed # {} \/ Usable(active) \/ Requests[u].raw
  BY <1>1 DEF IInv, Health
<1>5. /\ Mgr' /\ fails <= fails' /\ Feeds(item)
      /\ by # None => by \in Backends /\ inst'[by] \in Models
      /\ by = None /\ (routed # {} \/ Usable(active)) => fails' > fails
      /\ fails' = fails /\ (routed # {} \/ Usable(active)) => routed' # {} \/ Usable(active)'
      /\ routed = {} => routed' = {}
  <2> HIDE DEF item
  <2>1. CASE forward(item, by)
    BY <1>0, <2>1, ForwardKeeps DEF IInv, Usable
  <2>2. CASE generate(item, by)
    BY <1>0, <2>2, GenerateKeeps, GenerateFails DEF IInv
  <2> QED BY <1>2, <2>1, <2>2
<1>6. since <= fails /\ fails <= fails' /\ fails \in Nat /\ fails' \in Nat /\ since \in Nat
  BY <1>5, FailAssumption DEF IInv, Types, Mgr
<1>7. CASE by # None
  <2>1. fails' > since \/ routed' # {} \/ Usable(active)' \/ Requests[u].raw
    BY <1>4, <1>5, <1>6
  <2> QED BY <1>1, <1>2, <1>3, <1>5, <1>7, <2>1, AcceptWorks
<1>8. CASE by = None
  <2>1. fails' > since \/ (Requests[u].raw /\ routed' = {})
    BY <1>4, <1>5, <1>6, <1>8
  <2> QED BY <1>1, <1>2, <1>3, <1>5, <1>8, <2>1, FallsBack
<1> QED BY <1>7, <1>8

LEMMA RetryWorks ==
    ASSUME IInv, NEW u \in Threads, Retry(u) PROVE pc[u] \in Held \ {"await"} /\ Works(u)
<1> DEFINE item == <<u, "text">>
<1>0. item \in Items
  BY RequestAssumption DEF Items
<1>1. pc[u] = "retry" /\ pc[u] \in Held \ {"await"} /\ "decode" \in Held
  BY DEF Retry, Held, Steps
<1>2. PICK by \in Backends \cup {None} :
         /\ generate(item, by)
         /\ IF by # None THEN Accept(u, by)
            ELSE Goto(u, "fallback") /\ UNCHANGED <<used, inferLock, res, n>>
  BY DEF Retry
<1>3. UNCHANGED <<schedVars, current_cfg, want, pos, pick, skip, since>>
  BY DEF Retry
<1>4. fails > since \/ (Requests[u].raw /\ routed = {})
  BY <1>1 DEF IInv, Health
<1>5. /\ Mgr' /\ fails <= fails' /\ Feeds(item)
      /\ by # None => by \in Backends /\ inst'[by] \in Models
      /\ routed = {} => routed' = {}
  <2> HIDE DEF item
  <2> QED BY <1>0, <1>2, GenerateKeeps, GenerateFails DEF IInv
<1>6. since <= fails /\ fails <= fails' /\ fails \in Nat /\ fails' \in Nat /\ since \in Nat
  BY <1>5, FailAssumption DEF IInv, Types, Mgr
<1>7. fails' > since \/ (Requests[u].raw /\ routed' = {})
  BY <1>4, <1>5, <1>6
<1>8. CASE by # None
  BY <1>1, <1>2, <1>3, <1>5, <1>7, <1>8, AcceptWorks
<1>9. CASE by = None
  BY <1>1, <1>2, <1>3, <1>5, <1>7, <1>9, FallsBack
<1> QED BY <1>8, <1>9

LEMMA FallbackWorks ==
    ASSUME IInv, NEW u \in Threads, Fallback(u) PROVE pc[u] \in Held \ {"await"} /\ Works(u)
<1> DEFINE left == {b \in Backends \ skip : Usable(b) /\ Cardinality(Backends) > 1}
           c == CHOOSE b \in left : \A d \in left : Position(b) =< Position(d)
<1>1. pc[u] = "fallback" /\ pc[u] \in Held \ {"await"} /\ "retry" \in Held
  BY DEF Fallback, Held, Steps
<1>2. UNCHANGED <<used, schedVars, current_cfg, want, pos, n, since>>
  BY DEF Fallback
<1>3. \/ left = {} /\ Finish(u, "short") /\ UNCHANGED <<mgrVars, pick, skip>>
      \/ /\ left # {} /\ select_backend(c) /\ pick' = c
         /\ skip' = skip \cup {b \in Backends : Position(b) =< Position(c)}
         /\ Goto(u, "retry") /\ UNCHANGED <<inferLock, res>>
  BY Zenon DEF Fallback
<1>4. left \in SUBSET Backends
  OBVIOUS
<1>5. fails > since \/ (Requests[u].raw /\ routed = {})
  BY <1>1 DEF IInv, Health
<1>6. n' < MaxTokens
  BY <1>1, <1>2 DEF IInv, Locals
<1>7. CASE left = {} /\ Finish(u, "short") /\ UNCHANGED <<mgrVars, pick, skip>>
  <2>1. Mgr' /\ fails <= fails' /\ Clears
    BY <1>7 DEF mgrVars, Mgr, IInv, Clears
  <2>2. UNCHANGED <<used, schedVars, want, locals, since>> /\ current_cfg' \in Models
    BY <1>2, <1>7 DEF locals, IInv, Types
  <2>3. "short" \in Results
    BY DEF Results
  <2> QED BY <1>1, <1>7, <2>1, <2>2, <2>3, QuietWorks
<1>8. CASE left # {} /\ select_backend(c) /\ pick' = c
           /\ skip' = skip \cup {b \in Backends : Position(b) =< Position(c)}
           /\ Goto(u, "retry") /\ UNCHANGED <<inferLock, res>>
  <2> HIDE DEF left
  <2>1. c \in left
    BY <1>4, <1>8, FirstBackend
  <2> HIDE DEF c
  <2>2. Mgr' /\ fails <= fails' /\ Clears /\ UNCHANGED <<routed, fails>>
    BY <1>8, SelectKeeps DEF IInv
  <2>3. Goes(u, "retry")
    BY <1>1, <1>2, <1>5, <1>6, <1>8, <2>2 DEF Goes
  <2>4. Batch \/ (CleanCaches' /\ BosSkipped')
    BY <1>2, <2>2, ClearsClean DEF IInv, NoBos, BosSkipped
  <2>5. pick' \in Backends \cup {None} /\ skip' \subseteq Backends \cup {None}
    BY <1>4, <1>8, <2>1 DEF IInv, Types
  <2> QED BY <1>1, <1>2, <2>2, <2>3, <2>4, <2>5 DEF Works, IInv, Types
<1> QED BY <1>3, <1>7, <1>8

LEMMA TimeOutWorks ==
    ASSUME IInv, NEW u \in Threads, TimeOut(u) PROVE pc[u] \in Held \ {"await"} /\ Works(u)
<1>1. pc[u] \in Held \ {"await"}
  BY DEF TimeOut, Held, Steps
<1>2. UNCHANGED <<mgrVars, used, schedVars, current_cfg, want, locals, since>> /\ Finish(u, "timeout")
  BY DEF TimeOut
<1>3. Mgr' /\ fails <= fails' /\ Clears /\ current_cfg' \in Models /\ "timeout" \in Results
  BY <1>2 DEF mgrVars, Mgr, IInv, Clears, Types, Results
<1> QED BY <1>1, <1>2, <1>3, QuietWorks

-----------------------------------------------------------------------------
(* The other steps of a handler.                                           *)

(* Only the handler's own place changes, outside the mutex.                *)
LEMMA ArriveKeeps ==
    ASSUME IInv, NEW u \in Threads, Arrive(u) PROVE IInv'
<1> USE RequestAssumption, NoneAssumption
<1>1. /\ pc[u] = "idle" /\ pc' = [pc EXCEPT ![u] = "lock"]
      /\ UNCHANGED <<mgrVars, used, schedVars, inferLock, current_cfg, res, locals, since>>
  BY DEF Arrive, Goto
<1>2. /\ pc' \in [Threads -> Steps] /\ pc'[u] = "lock" /\ \A t \in Threads : t # u => pc'[t] = pc[t]
  BY <1>1 DEF IInv, Types, Steps
<1>3. want' \in [Threads -> Names] /\ \A t \in Threads : t # u => want'[t] = want[t]
  <2> DEFINE w == IF Requests[u].model # None THEN Name(Requests[u].model, Requests[u].spelled)
                  ELSE IF Requests[u].kind = "chat" THEN Name(current_cfg, "name")
                  ELSE NoName
  <2>1. w \in Names
    BY DEF Name, NoName, Names, IInv, Types
  <2>2. want' = [want EXCEPT ![u] = w]
    BY DEF Arrive
  <2> HIDE DEF w
  <2> QED BY <2>1, <2>2 DEF IInv, Types
<1>4. Mgr' /\ (Usable(active)' <=> Usable(active)) /\ (CleanCaches' <=> CleanCaches) /\ (BosSkipped' <=> BosSkipped)
  BY <1>1 DEF mgrVars, IInv, Mgr, Usable, CleanCaches, BosSkipped
<1>5. Types'
  BY <1>1, <1>2, <1>3 DEF IInv, Types, schedVars, locals, mgrVars
<1>6. Mutex'
  BY <1>1, <1>2 DEF IInv, Mutex, Held
<1>7. Locals'
  BY <1>1, <1>2, <1>3 DEF IInv, Locals, locals, Held
<1>8. Health'
  BY <1>1, <1>2, <1>4 DEF IInv, Health, mgrVars
<1>9. Sched'
  <2>1. Empty' = Empty /\ \A o \in Owners : Queued(o)' = Queued(o) /\ \A k \in Slots : Seated(o, k)' = Seated(o, k)
    BY <1>1 DEF Empty, Queued, AllIdle, Seated, schedVars
  <2>2. answered' = answered
    BY <1>1 DEF schedVars
  <2>3. \A o \in Owners : pc[o] \in {"await", "done"} => pc'[o] = pc[o]
    BY <1>1, <1>2
  <2> QED BY <2>1, <2>2, <2>3 DEF IInv, Sched, Types
<1>10. Batch \/ NoBos'
  BY <1>2, <1>4 DEF IInv, NoBos
<1> QED BY <1>4, <1>5, <1>6, <1>7, <1>8, <1>9, <1>10 DEF IInv

LEMMA LockKeeps ==
    ASSUME IInv, NEW u \in Threads, Lock(u) PROVE IInv'
<1> USE RequestAssumption, NoneAssumption, SlotAssumption
<1>1. PICK step \in {"select", "strategy"} :
      /\ step = "select" => Requests[u].kind = "select"
      /\ pc[u] = "lock" /\ inferLock = None /\ inferLock' = u /\ pc' = [pc EXCEPT ![u] = step]
      /\ pos' = 1 /\ n' = 0 /\ pick' = Requests[u].backend /\ skip' = {} /\ since' = fails
      /\ UNCHANGED <<mgrVars, used, schedVars, current_cfg, want, res>>
  BY DEF Lock, Goto
<1>2. /\ pc' \in [Threads -> Steps] /\ pc'[u] = step /\ \A t \in Threads : t # u => pc'[t] = pc[t]
  BY <1>1 DEF IInv, Types, Steps
<1>3. \A t \in Threads : pc[t] \notin Held
  BY <1>1 DEF IInv, Mutex
<1>4. Mgr' /\ (CleanCaches' <=> CleanCaches) /\ (BosSkipped' <=> BosSkipped)
  BY <1>1 DEF mgrVars, IInv, Mgr, CleanCaches, BosSkipped
<1>5. Types'
  BY <1>1, <1>2 DEF IInv, Types, Mgr, schedVars, mgrVars
<1>6. Mutex'
  BY <1>1, <1>2, <1>3 DEF Mutex, Held, Steps
<1>7. Locals'
  BY <1>1, <1>2, <1>3 DEF Locals
<1>8. Health'
  <2>1. \A t \in Threads : pc'[t] \notin {"text", "prefill", "decode", "fallback", "retry"}
    BY <1>1, <1>2, <1>3 DEF Held, Steps
  <2>2. \A t \in Threads : pc'[t] = "select" => Requests[t].kind = "select"
    BY <1>1, <1>2, <1>3 DEF Held, Steps
  <2> QED BY <2>1, <2>2 DEF Health
<1>9. Sched'
  <2>1. Empty
    <3>1. \A o \in Owners : pc[o] # "await"
      BY <1>3 DEF Held, Steps
    <3> QED BY <3>1 DEF IInv, Sched
  <2>2. Empty' /\ answered' = answered
    BY <1>1, <2>1 DEF Empty, AllIdle, schedVars
  <2> QED BY <1>1, <1>2, <2>2 DEF IInv, Sched, Types
<1>10. Batch \/ NoBos'
  BY <1>1, <1>2, <1>4 DEF IInv, NoBos
<1> QED BY <1>4, <1>5, <1>6, <1>7, <1>8, <1>9, <1>10 DEF IInv

LEMMA SubmitKeeps ==
    ASSUME IInv, NEW u \in Threads, Submit(u) PROVE IInv'
<1> USE RequestAssumption, NoneAssumption
<1>1. /\ pc[u] = "submit" /\ pc[u] \in Held \ {"await"} /\ pc' = [pc EXCEPT ![u] = "await"]
      /\ pending' = Append(pending, u)
      /\ UNCHANGED <<mgrVars, used, slots, admitted, answered, unreset, inferLock, current_cfg, want, res,
                     locals, since>>
  BY DEF Submit, submit, Goto, Held, Steps
<1>2. /\ pc' \in [Threads -> Steps] /\ pc'[u] = "await" /\ \A t \in Threads : t # u => pc'[t] = pc[t]
  BY <1>1 DEF IInv, Types, Steps
<1>3. Empty /\ inferLock = u /\ u \notin answered /\ \A t \in Threads : t # u => pc[t] \notin Held
  BY <1>1, HolderAlone DEF IInv
<1>4. pending' = <<u>> /\ pending' \in Seq(Owners)
  BY <1>1, <1>3 DEF Empty
<1>5. Mgr'
  BY <1>1 DEF mgrVars, IInv, Mgr
<1>6. Types'
  BY <1>1, <1>2, <1>4 DEF IInv, Types, mgrVars, locals
<1>7. Mutex'
  BY <1>1, <1>2, <1>3 DEF IInv, Mutex, Held, Steps
<1>8. Locals'
  BY <1>1, <1>2, <1>3 DEF IInv, Locals, locals
<1>9. Health'
  <2>1. \A t \in Threads : pc'[t] \notin {"select", "text", "prefill", "decode", "fallback", "retry"}
    BY <1>2, <1>3 DEF Held, Steps
  <2> QED BY <2>1 DEF Health
<1>10. Sched'
  <2>1. Queued(u)'
    BY <1>1, <1>3, <1>4 DEF Queued, AllIdle, Empty
  <2>2. \A o \in answered' : pc'[o] \in {"await", "done"}
    BY <1>1, <1>2, <1>3 DEF IInv, Sched, Types
  <2>3. pc'[u] = "await" /\ u \notin answered' /\ u \in Owners
    BY <1>1, <1>2, <1>3
  <2> QED BY <2>1, <2>2, <2>3 DEF Sched
<1>11. Batch
  BY <1>1 DEF IInv, NoBos
<1> QED BY <1>5, <1>6, <1>7, <1>8, <1>9, <1>10, <1>11 DEF IInv

LEMMA FutGetKeeps ==
    ASSUME IInv, NEW u \in Threads, FutGet(u) PROVE IInv'
<1> USE RequestAssumption, NoneAssumption
<1>1. /\ pc[u] = "await" /\ u \in answered /\ pc' = [pc EXCEPT ![u] = "done"] /\ inferLock' = None
      /\ res' = [res EXCEPT ![u] = "ok"] /\ pc[u] \in Held
      /\ UNCHANGED <<mgrVars, used, schedVars, current_cfg, want, locals, since>>
  BY DEF FutGet, Finish, Goto, Held, Steps
<1>2. /\ pc' \in [Threads -> Steps] /\ pc'[u] = "done" /\ \A t \in Threads : t # u => pc'[t] = pc[t]
  BY <1>1 DEF IInv, Types, Steps
<1>3. inferLock = u /\ \A t \in Threads : t # u => pc[t] \notin Held
  BY <1>1 DEF IInv, Mutex
<1>4. \A t \in Threads : pc'[t] \notin Held
  BY <1>2, <1>3 DEF Held
<1>5. Mgr'
  BY <1>1 DEF mgrVars, IInv, Mgr
<1>6. Types'
  <2>1. res' \in [Threads -> Results]
    BY <1>1 DEF IInv, Types, Results
  <2> QED BY <1>1, <1>2, <2>1 DEF IInv, Types, mgrVars, locals, schedVars
<1>7. Mutex'
  BY <1>1, <1>4 DEF Mutex
<1>8. Locals'
  BY <1>4 DEF Locals
<1>9. Health'
  BY <1>4 DEF Health, Held, Steps
<1>10. Sched'
  <2>1. Empty
    <3>1. ASSUME NEW o \in Owners, pc[o] = "await", o \notin answered PROVE FALSE
      BY <1>1, <1>3, <3>1 DEF Held, Steps
    <3> QED BY <3>1 DEF IInv, Sched
  <2>2. Empty' /\ answered' = answered
    BY <1>1, <2>1 DEF Empty, AllIdle, schedVars
  <2> QED BY <1>2, <2>2 DEF IInv, Sched, Types
<1>11. Batch
  BY <1>1 DEF IInv, NoBos
<1> QED BY <1>5, <1>6, <1>7, <1>8, <1>9, <1>10, <1>11 DEF IInv

-----------------------------------------------------------------------------
(* The decode thread, which works for the handler that waits.              *)

LEMMA ServedKeeps ==
    ASSUME IInv, NEW o \in Owners, pc[o] = "await", o \notin answered,
           Mgr', fails <= fails', used' \in [Owners -> Uses],
           slots' \in [Slots -> SlotStates], admitted' \in BOOLEAN, unreset' \subseteq Owners,
           UNCHANGED <<inferLock, current_cfg, pc, want, res, locals, since>>,
           \/ Empty' /\ answered' = answered \cup {o}
           \/ answered' = answered /\ \E k \in Slots : Seated(o, k)'
    PROVE  IInv'
<1> USE RequestAssumption, NoneAssumption
<1>1. /\ pc[o] \in Held /\ inferLock = o /\ Batch
      /\ \A t \in Threads : t # o => pc[t] \notin Held
  BY DEF IInv, Mutex, NoBos, Held, Steps
<1>2. pending' = <<>> /\ pending' \in Seq(Owners) /\ answered' \subseteq Owners
  <2>1. <<>> \in Seq(Owners)
    OBVIOUS
  <2> QED BY <2>1 DEF Empty, Seated, IInv, Types
<1>3. since' \in 0 .. MaxFail /\ since' <= fails'
  BY FailAssumption DEF IInv, Types, Mgr
<1>4. Types'
  BY <1>2, <1>3 DEF IInv, Types, locals
<1>5. Mutex'
  BY DEF IInv, Mutex
<1>6. Locals'
  BY DEF IInv, Locals, locals
<1>7. Health'
  <2>1. \A t \in Threads : pc'[t] \notin {"select", "text", "prefill", "decode", "fallback", "retry"}
    BY <1>1 DEF Held, Steps
  <2> QED BY <2>1 DEF Health
<1>8. Sched'
  <2>1. \A q \in answered' : pc'[q] \in {"await", "done"}
    BY DEF IInv, Sched
  <2>2. CASE Empty'
    BY <2>1, <2>2 DEF Sched
  <2>3. ASSUME NEW k \in Slots, Seated(o, k)', answered' = answered PROVE Sched'
    BY <2>1, <2>3 DEF Sched
  <2> QED BY <2>2, <2>3
<1> QED BY <1>1, <1>4, <1>5, <1>6, <1>7, <1>8 DEF IInv

(* With everything idle and one request pending, the first slot takes it.  *)
LEMMA AdmitQueued ==
    ASSUME IInv, NEW o \in Owners, Queued(o), admit_pending
    PROVE  /\ slots' \in [Slots -> SlotStates] /\ Seated(o, 1)' /\ 1 \in Slots
           /\ unreset' \subseteq Owners
           /\ \E ok \in BOOLEAN : reset_slot(ok) /\ (ok \/ o \in unreset')
<1> DEFINE idle == InState("idle")
           rank(i) == Cardinality({h \in idle : h =< i})
           taken == {i \in idle : rank(i) =< Len(pending)}
           seat == [state |-> "prefilling", owner |-> o, pos |-> 1, n |-> 0]
<1>1. MaxSlots \in Nat /\ 1 \in Slots /\ MaxTokens \in Nat /\ 0 < MaxTokens
  BY SlotAssumption DEF Slots
<1>2. pending = <<o>> /\ Len(pending) = 1 /\ pending[1] = o
  BY DEF Queued
<1>3. idle = Slots
  BY DEF InState, Queued, AllIdle
<1>4. ASSUME NEW i \in Slots PROVE rank(i) = i
  <2>1. {h \in idle : h =< i} = 1 .. i
    BY <1>1, <1>3 DEF Slots
  <2>2. i \in Int /\ 1 <= i
    BY <1>1 DEF Slots
  <2>3. Cardinality(1 .. i) = i
    BY <2>2, FS_Interval
  <2> QED BY <2>1, <2>3
<1>5. taken = {1}
  <2> HIDE DEF rank
  <2> QED BY <1>1, <1>2, <1>3, <1>4 DEF Slots
<1>6. slots' = [i \in Slots |-> IF i \in taken
                               THEN [state |-> "prefilling", owner |-> pending[rank(i)], pos |-> 1, n |-> 0]
                               ELSE slots[i]]
  BY DEF admit_pending
<1>7. pending' = SubSeq(pending, Cardinality(taken) + 1, Len(pending))
  BY DEF admit_pending
<1>8. taken # {} => \E ok \in BOOLEAN :
                       /\ reset_slot(ok)
                       /\ unreset' = IF ok THEN unreset ELSE unreset \cup {pending[rank(i)] : i \in taken}
  BY Zenon DEF admit_pending
<1> HIDE DEF taken, rank
<1>9. slots'[1] = seat /\ \A i \in Slots : i # 1 => slots'[i] = slots[i]
  BY <1>1, <1>2, <1>4, <1>5, <1>6
<1>10. seat \in SlotStates /\ seat.state = "prefilling" /\ seat.owner = o /\ seat.n = 0 /\ seat.pos = 1
  BY <1>1 DEF SlotStates, Prompt
<1> HIDE DEF seat
<1>11. slots' \in [Slots -> SlotStates]
  <2>1. \A i \in Slots : slots'[i] \in SlotStates
    BY <1>9, <1>10 DEF IInv, Types
  <2> QED BY <1>6, <2>1
<1>12. pending' = <<>>
  <2>1. Cardinality({1}) = 1
    BY FS_Singleton
  <2>2. pending' = SubSeq(<<o>>, 2, 1)
    BY <1>2, <1>5, <1>7, <2>1
  <2> QED BY <2>2
<1>13. Seated(o, 1)'
  <2>1. \A i \in Slots : i # 1 => slots'[i].state = "idle"
    BY <1>9 DEF Queued, AllIdle
  <2> QED BY <1>1, <1>9, <1>10, <1>12, <2>1 DEF Seated
<1>14. {pending[rank(i)] : i \in taken} = {o}
  BY <1>1, <1>2, <1>4, <1>5
<1>15. unreset \subseteq Owners
  BY DEF IInv, Types
<1> QED BY <1>1, <1>5, <1>8, <1>11, <1>13, <1>14, <1>15

(* With nothing pending, nothing is admitted.                              *)
LEMMA AdmitSeated ==
    ASSUME IInv, NEW o \in Owners, NEW k \in Slots, Seated(o, k), admit_pending
    PROVE  UNCHANGED <<mgrVars, slots, pending, unreset>>
<1> DEFINE idle == InState("idle")
           rank(i) == Cardinality({h \in idle : h =< i})
           taken == {i \in idle : rank(i) =< Len(pending)}
<1>1. pending = <<>> /\ Len(pending) = 0
  BY DEF Seated
<1>2. ASSUME NEW i \in idle PROVE rank(i) \in Nat /\ rank(i) # 0
  <2> DEFINE below == {h \in idle : h =< i}
  <2>1. MaxSlots \in Int /\ IsFiniteSet(1 .. MaxSlots)
    BY SlotAssumption, FS_Interval
  <2>2. below \subseteq 1 .. MaxSlots /\ i \in below
    BY <1>2, SlotAssumption DEF InState, Slots
  <2> HIDE DEF below
  <2>3. IsFiniteSet(below)
    BY <2>1, <2>2, FS_Subset
  <2>4. Cardinality(below) \in Nat /\ Cardinality(below) # 0
    BY <2>2, <2>3, FS_CardinalityType, FS_EmptySet
  <2> QED BY <2>4 DEF below
<1>3. taken = {}
  <2> HIDE DEF rank
  <2> QED BY <1>1, <1>2
<1>4. slots' = [i \in Slots |-> IF i \in taken
                               THEN [state |-> "prefilling", owner |-> pending[rank(i)], pos |-> 1, n |-> 0]
                               ELSE slots[i]]
  BY DEF admit_pending
<1>5. pending' = SubSeq(pending, Cardinality(taken) + 1, Len(pending))
  BY DEF admit_pending
<1>6. taken = {} => UNCHANGED <<mgrVars, unreset>>
  BY Zenon DEF admit_pending
<1> HIDE DEF taken, rank
<1>7. slots' = slots
  BY <1>3, <1>4 DEF IInv, Types
<1>8. pending' = <<>>
  <2>1. Cardinality({}) = 0
    BY FS_EmptySet
  <2>2. pending' = SubSeq(<<>>, 1, 0)
    BY <1>1, <1>3, <1>5, <2>1
  <2> QED BY <2>2
<1> QED BY <1>1, <1>3, <1>6, <1>7, <1>8

(* One token of the prompt of the seated request.                          *)
LEMMA PrefillSeated ==
    ASSUME IInv, NEW o \in Owners, NEW k \in Slots, Seated(o, k), Prefill
    PROVE  /\ Mgr' /\ fails <= fails'
           /\ slots' \in [Slots -> SlotStates] /\ Seated(o, k)'
           /\ \E kind \in {"bos", "text"}, by \in Backends \cup {None} : generate(<<o, kind>>, by)
<1> DEFINE i == CHOOSE i \in InState("prefilling") : \A h \in InState("prefilling") : i =< h
           item == <<slots[i].owner, Prompt[slots[i].pos]>>
<1>1. InState("prefilling") # {} /\ k \in Nat
  BY SlotAssumption DEF Prefill, Slots
<1>2. InState("prefilling") = {k}
  BY <1>1 DEF InState, Seated
<1>3. i = k
  <2>1. \E x \in InState("prefilling") : \A h \in InState("prefilling") : x =< h
    BY <1>1, <1>2
  <2>2. i \in InState("prefilling")
    BY <2>1, Zenon
  <2> QED BY <1>2, <2>2
<1>4. slots' = [slots EXCEPT ![i].pos = @ + 1,
                             ![i].state = IF slots[i].pos + 1 = Len(Prompt) THEN "decoding" ELSE @]
  BY DEF Prefill
<1>5. \E by \in Backends \cup {None} : generate(item, by)
  BY DEF Prefill
<1> HIDE DEF i
<1>6. slots[k].state = "prefilling" /\ slots[k].owner = o /\ slots[k].pos \in 1 .. 2 /\ slots[k].n < MaxTokens
  BY <1>2 DEF InState, Seated
<1>7. item \in Items
  <2>1. Prompt[1] = "bos" /\ Prompt[2] = "text"
    BY DEF Prompt
  <2>2. Prompt[slots[k].pos] \in {"bos", "text", "image"}
    BY <1>6, <2>1
  <2> QED BY <1>3, <1>6, <2>2 DEF Items
<1>8. Mgr' /\ fails <= fails'
  <2> HIDE DEF item
  <2> QED BY <1>5, <1>7, GenerateKeeps DEF IInv
<1>8a. \E kind \in {"bos", "text"}, by \in Backends \cup {None} : generate(<<o, kind>>, by)
  <2>1. Prompt[1] = "bos" /\ Prompt[2] = "text"
    BY DEF Prompt
  <2> QED BY <1>3, <1>5, <1>6, <2>1
<1>9. pending' = <<>>
  BY DEF Prefill, Seated
<1>10. Len(Prompt) = 3
  BY DEF Prompt
<1> DEFINE seat == [slots[k] EXCEPT !.pos = slots[k].pos + 1,
                                    !.state = IF slots[k].pos + 1 = 3 THEN "decoding" ELSE "prefilling"]
<1>11. slots' = [slots EXCEPT ![k] = seat]
  BY <1>3, <1>4, <1>6, <1>10 DEF IInv, Types, SlotStates
<1>12. /\ seat \in SlotStates /\ seat.owner = o /\ seat.n < MaxTokens
       /\ seat.state \in {"prefilling", "decoding"} /\ (seat.state = "prefilling" => seat.pos \in 1 .. 2)
  <2>1. slots[k] \in SlotStates
    BY DEF IInv, Types
  <2> DEFINE at == slots[k].pos + 1
             next == IF slots[k].pos + 1 = 3 THEN "decoding" ELSE "prefilling"
  <2>2. at \in 0 .. Len(Prompt) /\ next \in {"prefilling", "decoding"} /\ (next = "prefilling" => at \in 1 .. 2)
    BY <1>6, <1>10
  <2> HIDE DEF at, next
  <2>3. seat = [slots[k] EXCEPT !.pos = at, !.state = next]
    BY DEF at, next
  <2>4. seat \in SlotStates /\ seat.owner = slots[k].owner /\ seat.n = slots[k].n /\ seat.state = next /\ seat.pos = at
    <3> HIDE DEF seat
    <3> QED BY <2>1, <2>2, <2>3 DEF SlotStates
  <2> QED BY <1>6, <2>2, <2>4
<1> HIDE DEF seat
<1>13. slots' \in [Slots -> SlotStates] /\ slots'[k] = seat /\ \A j \in Slots : j # k => slots'[j] = slots[j]
  BY <1>11, <1>12 DEF IInv, Types
<1>14. Seated(o, k)'
  BY <1>9, <1>12, <1>13 DEF Seated
<1> QED BY <1>8, <1>13, <1>14, <1>8a

(* One token of its answer, after which it may be done.                    *)
LEMMA DecodeSeated ==
    ASSUME IInv, NEW o \in Owners, NEW k \in Slots, Seated(o, k), Decode
    PROVE  /\ Mgr' /\ fails <= fails' /\ used' \in [Owners -> Uses]
           /\ slots' \in [Slots -> SlotStates]
           /\ \/ Empty' /\ answered' = answered \cup {o}
              \/ answered' = answered /\ Seated(o, k)'
           /\ \E by \in Backends \cup {None} :
                 generate(<<o, "text">>, by) /\ IF by = None THEN UNCHANGED used ELSE Credit(o, by)
<1> DEFINE batch == InState("decoding")
           i == CHOOSE i \in batch : \A h \in batch : i =< h
           item == <<slots[i].owner, "text">>
           done(eos) == {j \in batch : eos \/ slots[j].n + 1 >= MaxTokens}
<1>1. batch # {} /\ k \in Nat
  BY SlotAssumption DEF Decode, Slots
<1>2. batch = {k}
  BY <1>1 DEF InState, Seated
<1>3. i = k
  <2>1. \E x \in batch : \A h \in batch : x =< h
    BY <1>1, <1>2
  <2>2. i \in batch
    BY <2>1, Zenon
  <2> QED BY <1>2, <2>2
<1>4. PICK by \in Backends \cup {None}, eos \in BOOLEAN :
         /\ generate(item, by)
         /\ IF by = None THEN UNCHANGED used ELSE Credit(slots[i].owner, by)
         /\ slots' = [j \in Slots |-> IF j \in done(eos) THEN IdleSlot
                                      ELSE IF j \in batch THEN [slots[j] EXCEPT !.n = @ + 1]
                                      ELSE slots[j]]
         /\ answered' = answered \cup {slots[j].owner : j \in done(eos)}
  BY Zenon DEF Decode
<1> HIDE DEF i, batch
<1>5. slots[k].state = "decoding" /\ slots[k].owner = o /\ slots[k].n < MaxTokens
  BY <1>2 DEF batch, InState, Seated
<1>6. item \in Items
  BY <1>3, <1>5 DEF Items
<1>7. Mgr' /\ fails <= fails' /\ (by # None => by \in Backends /\ inst'[by] \in Models)
  <2> HIDE DEF item
  <2> QED BY <1>4, <1>6, GenerateKeeps DEF IInv
<1>8. used' \in [Owners -> Uses]
  <2>1. CASE by = None
    BY <1>4, <2>1 DEF IInv, Types
  <2>2. CASE by # None
    BY <1>3, <1>4, <1>5, <1>7, <2>2, CreditKeeps DEF IInv
  <2> QED BY <2>1, <2>2
<1>8a. \E b \in Backends \cup {None} :
          generate(<<o, "text">>, b) /\ IF b = None THEN UNCHANGED used ELSE Credit(o, b)
  BY <1>3, <1>4, <1>5
<1>9. pending' = <<>> /\ MaxTokens \in Nat
  BY SlotAssumption DEF Decode, Seated
<1> DEFINE seat == [slots[k] EXCEPT !.n = slots[k].n + 1]
<1>10. slots[k] \in SlotStates /\ IdleSlot \in SlotStates /\ IdleSlot.state = "idle"
  BY <1>9 DEF IInv, Types, IdleSlot, SlotStates
<1>11. CASE eos \/ slots[k].n + 1 >= MaxTokens
  <2>1. done(eos) = {k}
    BY <1>2, <1>11
  <2> HIDE DEF done
  <2>2. /\ slots' = [j \in Slots |-> IF j = k THEN IdleSlot ELSE slots[j]]
        /\ answered' = answered \cup {o}
    BY <1>2, <1>4, <1>5, <2>1
  <2>3. slots' \in [Slots -> SlotStates]
    BY <1>10, <2>2 DEF IInv, Types
  <2>4. Empty'
    BY <1>9, <1>10, <2>2 DEF Empty, AllIdle, Seated
  <2> QED BY <1>7, <1>8, <1>8a, <2>2, <2>3, <2>4
<1>12. CASE ~(eos \/ slots[k].n + 1 >= MaxTokens)
  <2>1. done(eos) = {}
    BY <1>2, <1>12
  <2> HIDE DEF done
  <2>2. /\ slots' = [j \in Slots |-> IF j = k THEN seat ELSE slots[j]]
        /\ answered' = answered
    BY <1>2, <1>4, <2>1
  <2>3. slots[k].n \in Nat /\ slots[k].n + 1 < MaxTokens
    BY <1>9, <1>10, <1>12 DEF SlotStates
  <2>4. seat \in SlotStates /\ seat.state = "decoding" /\ seat.owner = o /\ seat.n < MaxTokens
    BY <1>5, <1>9, <1>10, <2>3 DEF SlotStates
  <2> HIDE DEF seat
  <2>5. slots' \in [Slots -> SlotStates]
    BY <2>2, <2>4 DEF IInv, Types
  <2>6. Seated(o, k)'
    BY <1>9, <2>2, <2>4 DEF Seated
  <2> QED BY <1>7, <1>8, <1>8a, <2>2, <2>5, <2>6
<1> QED BY <1>11, <1>12

(* The decode thread sleeps until something is pending or a slot is taken. *)
LEMMA SchedulerBusy ==
    ASSUME Scheduler PROVE ~Empty
<1>1. SUFFICES ASSUME pending = <<>>, AllIdle PROVE FALSE
  BY DEF Empty
<1>2. InState("idle") = Slots /\ InState("prefilling") = {} /\ InState("decoding") = {}
  BY <1>1 DEF AllIdle, InState
<1> QED BY <1>1, <1>2 DEF Scheduler, DecodeThread, admit_pending, Prefill, Decode

LEMMA SchedulerKeeps ==
    ASSUME IInv, Scheduler PROVE IInv'
<1>1. UNCHANGED <<current_cfg, pc, want, res, locals, since, inferLock>> /\ DecodeThread
  BY DEF Scheduler, DecodeThread, admit_pending, Prefill, Decode
<1>2. ~Empty
  BY SchedulerBusy
<1>3. PICK o \in Owners : pc[o] = "await" /\ o \notin answered /\ (Queued(o) \/ \E k \in Slots : Seated(o, k))
  BY <1>2 DEF IInv, Sched
<1>4. Mgr /\ used \in [Owners -> Uses]
  BY DEF IInv, Types
<1>5. CASE Queued(o)
  <2>1. admit_pending
    <3>1. InState("prefilling") = {} /\ InState("decoding") = {}
      BY <1>5 DEF Queued, AllIdle, InState
    <3> QED BY <1>1, <3>1 DEF DecodeThread, Prefill, Decode
  <2>2. UNCHANGED <<used, answered>> /\ admitted' \in BOOLEAN
    BY <2>1 DEF admit_pending
  <2>3. /\ slots' \in [Slots -> SlotStates] /\ Seated(o, 1)' /\ 1 \in Slots
        /\ Mgr' /\ fails <= fails' /\ unreset' \subseteq Owners
    BY <1>4, <1>5, <2>1, AdmitQueued, ResetSlotKeeps
  <2> QED BY <1>1, <1>3, <1>4, <2>2, <2>3, ServedKeeps
<1>6. ASSUME NEW k \in Slots, Seated(o, k) PROVE IInv'
  <2>1. CASE admit_pending
    <3>1. UNCHANGED <<used, answered, mgrVars, slots, pending, unreset>> /\ admitted' \in BOOLEAN
      BY <1>6, <2>1, AdmitSeated DEF admit_pending
    <3>2. /\ Mgr' /\ fails <= fails' /\ slots' \in [Slots -> SlotStates] /\ Seated(o, k)'
          /\ unreset' \subseteq Owners
      BY <1>4, <1>6, <3>1 DEF mgrVars, Mgr, Seated, IInv, Types
    <3> QED BY <1>1, <1>3, <1>4, <3>1, <3>2, ServedKeeps
  <2>2. CASE Prefill
    <3>1. UNCHANGED <<used, answered, admitted, unreset>>
      BY <2>2 DEF Prefill
    <3>2. admitted' \in BOOLEAN /\ unreset' \subseteq Owners
      BY <3>1 DEF IInv, Types
    <3>3. Mgr' /\ fails <= fails' /\ slots' \in [Slots -> SlotStates] /\ Seated(o, k)'
      BY <1>6, <2>2, PrefillSeated
    <3> QED BY <1>1, <1>3, <1>4, <3>1, <3>2, <3>3, ServedKeeps
  <2>3. CASE Decode
    <3>1. admitted' \in BOOLEAN /\ unreset' \subseteq Owners
      BY <2>3 DEF Decode, IInv, Types
    <3>2. /\ Mgr' /\ fails <= fails' /\ used' \in [Owners -> Uses]
          /\ slots' \in [Slots -> SlotStates]
          /\ \/ Empty' /\ answered' = answered \cup {o}
             \/ answered' = answered /\ Seated(o, k)'
      BY <1>6, <2>3, DecodeSeated
    <3> QED BY <1>1, <1>3, <1>4, <3>1, <3>2, ServedKeeps
  <2> QED BY <1>1, <2>1, <2>2, <2>3 DEF DecodeThread
<1> QED BY <1>3, <1>5, <1>6

-----------------------------------------------------------------------------
(* The invariant is inductive.                                             *)

LEMMA InitKeeps ==
    Init => IInv
<1> SUFFICES ASSUME Init PROVE IInv
  OBVIOUS
<1> USE RequestAssumption, NoneAssumption, OrderAssumption, ModelAssumption, FailAssumption, SlotAssumption
<1>1. Mgr
  <2>1. Order[1] \in Backends
    <3>1. Len(Order) \in Nat /\ DOMAIN Order = 1 .. Len(Order)
      OBVIOUS
    <3>2. PICK i \in DOMAIN Order : Order[i] = Cpu
      BY DEF Backends
    <3>3. 1 \in DOMAIN Order
      BY <3>1, <3>2
    <3> QED BY <3>3 DEF Backends
  <2> QED BY <2>1 DEF Init, MgrInit, Mgr
<1>2. AllIdle /\ pending = <<>> /\ slots \in [Slots -> SlotStates]
  <2>1. IdleSlot \in SlotStates /\ IdleSlot.state = "idle"
    BY DEF IdleSlot, SlotStates
  <2> QED BY <2>1 DEF Init, SchedInit, AllIdle
<1>3. used \in [Owners -> Uses] /\ BosSkipped /\ CleanCaches
  <2> DEFINE e == [items |-> {}, weights |-> {}, backends |-> {}]
  <2>1. e \in Uses /\ e.items = {}
    BY DEF Uses
  <2>2. used = [o \in Owners |-> e] /\ kv = [b \in Backends |-> {}]
    BY DEF Init, MgrInit
  <2> HIDE DEF e
  <2> QED BY <2>1, <2>2 DEF BosSkipped, CleanCaches
<1>4. Types
  <2>1. NoName \in Names
    BY DEF NoName, Name, Names
  <2>2. <<>> \in Seq(Owners)
    OBVIOUS
  <2>3. /\ admitted = FALSE /\ answered = {} /\ unreset = {} /\ inferLock = None /\ current_cfg = Start /\ fails = 0
        /\ pos = 1 /\ n = 0 /\ pick = None /\ skip = {} /\ since = 0
    BY DEF Init, SchedInit, MgrInit
  <2>4. pc \in [Threads -> Steps] /\ want \in [Threads -> Names] /\ res \in [Threads -> Results]
    BY <2>1 DEF Init, Steps, Results
  <2>5. /\ admitted \in BOOLEAN /\ answered \subseteq Owners /\ unreset \subseteq Owners
        /\ inferLock \in Owners \cup {None}
        /\ current_cfg \in Models /\ pick \in Backends \cup {None} /\ skip \subseteq Backends \cup {None}
    BY <2>3
  <2>6. pos \in 1 .. 3 /\ n \in 0 .. MaxTokens /\ since \in 0 .. MaxFail /\ since <= fails
    BY <2>3
  <2>7. pending \in Seq(Owners)
    BY <1>2, <2>2
  <2> QED BY <1>2, <1>3, <2>4, <2>5, <2>6, <2>7 DEF Types
<1>5. \A t \in Threads : pc[t] = "idle" /\ pc[t] \notin Held
  BY DEF Init, Held
<1>6. Mutex /\ Locals /\ Health
  BY <1>5 DEF Init, SchedInit, Mutex, Locals, Health
<1>7. Sched
  BY <1>2 DEF Init, SchedInit, Sched, Empty
<1> QED BY <1>1, <1>3, <1>4, <1>5, <1>6, <1>7 DEF IInv, NoBos

LEMMA StutterKeeps ==
    ASSUME IInv, UNCHANGED vars PROVE IInv'
<1> USE DEF vars, mgrVars, schedVars, locals
<1>1. Mgr' /\ Types'
  BY DEF IInv, Mgr, Types
<1>2. Mutex' /\ Locals'
  BY DEF IInv, Mutex, Locals
<1>3. Health'
  BY DEF IInv, Health, Usable
<1>4. Sched'
  <2>1. Empty' = Empty /\ \A o \in Owners : Queued(o)' = Queued(o) /\ \A k \in Slots : Seated(o, k)' = Seated(o, k)
    BY DEF Empty, Queued, AllIdle, Seated
  <2> QED BY <2>1 DEF IInv, Sched
<1>5. NoBos => NoBos'
  BY DEF NoBos, CleanCaches, BosSkipped
<1> QED BY <1>1, <1>2, <1>3, <1>4, <1>5 DEF IInv

LEMMA NextKeeps ==
    IInv /\ [Next]_vars => IInv'
<1> SUFFICES ASSUME IInv, [Next]_vars PROVE IInv'
  OBVIOUS
<1>1. ASSUME NEW u \in Threads, Handler(u) \/ Hang(u) \/ Join(u) PROVE IInv'
  <2>1. CASE Arrive(u)
    BY <2>1, ArriveKeeps
  <2>2. CASE Lock(u)
    BY <2>2, LockKeeps
  <2>3. CASE Submit(u)
    BY <2>3, SubmitKeeps
  <2>4. CASE FutGet(u)
    BY <2>4, FutGetKeeps
  <2>5. CASE SelectHandler(u)
    BY <2>5, SelectWorks, WorksKeeps
  <2>6. CASE Strategy(u)
    BY <2>6, StrategyWorks, WorksKeeps
  <2>7. CASE Switch(u)
    BY <2>7, SwitchWorks, WorksKeeps
  <2>8. CASE LoadModel(u) \/ Join(u)
    BY <2>8, LoadWorks, WorksKeeps
  <2>9. CASE Hang(u)
    BY <2>9, HangWorks, WorksKeeps
  <2>10. CASE Vision(u)
    BY <2>10, VisionWorks, WorksKeeps
  <2>11. CASE Pick(u)
    BY <2>11, PickWorks, WorksKeeps
  <2>12. CASE ResetSequence(u)
    BY <2>12, ResetWorks, WorksKeeps
  <2>13. CASE TryText(u)
    BY <2>13, TextWorks, WorksKeeps
  <2>14. CASE PrefillToken(u)
    BY <2>14, PrefillWorks, WorksKeeps
  <2>15. CASE DecodeToken(u)
    BY <2>15, DecodeWorks, WorksKeeps
  <2>16. CASE Fallback(u)
    BY <2>16, FallbackWorks, WorksKeeps
  <2>17. CASE Retry(u)
    BY <2>17, RetryWorks, WorksKeeps
  <2>18. CASE TimeOut(u)
    BY <2>18, TimeOutWorks, WorksKeeps
  <2> QED BY <1>1, <2>1, <2>2, <2>3, <2>4, <2>5, <2>6, <2>7, <2>8, <2>9, <2>10, <2>11,
             <2>12, <2>13, <2>14, <2>15, <2>16, <2>17, <2>18 DEF Handler
<1>2. CASE Scheduler
  BY <1>2, SchedulerKeeps
<1>3. CASE UNCHANGED vars
  BY <1>3, StutterKeeps
<1> QED BY <1>1, <1>2, <1>3 DEF Next, Quiet

LEMMA Inductive ==
    Spec => []IInv
  BY InitKeeps, NextKeeps, PTL DEF Spec

-----------------------------------------------------------------------------
(* Every variable keeps its type: the index into the prompt stays inside   *)
(* it, and no slot or handler counts past max_tokens.                      *)
THEOREM TypeCorrect == Spec => []TypeOK
<1>1. IInv => TypeOK
  <2> SUFFICES ASSUME IInv PROVE TypeOK
    OBVIOUS
  <2>1. Len(Prompt) = 3
    BY DEF Prompt
  <2>2. MgrTypeOK /\ SchedTypeOK
    BY DEF IInv, Mgr, Types, MgrTypeOK, SchedTypeOK, Uses, SlotStates
  <2> QED BY <2>1, <2>2 DEF IInv, Types, TypeOK, Names, Results
<1> QED BY <1>1, Inductive, PTL

(* The scheduler never has more than one request, whatever -B says: the    *)
(* handler that submits it keeps g_inference_mutex until its future is     *)
(* ready, so gen_batch_(), which takes that mutex, is never called.        *)
THEOREM OneRequestAtATime == Spec => []SingleOccupancy
<1>1. IInv => SingleOccupancy
  <2> SUFFICES ASSUME IInv PROVE SingleOccupancy
    OBVIOUS
  <2> DEFINE busy == Slots \ InState("idle")
  <2>1. CASE AllIdle /\ (pending = <<>> \/ \E o \in Owners : pending = <<o>>)
    <3>1. busy = {} /\ Cardinality({}) = 0
      BY <2>1, FS_EmptySet DEF AllIdle, InState
    <3>2. Len(pending) = 0 \/ Len(pending) = 1
      <4>1. CASE pending = <<>>
        BY <4>1
      <4>2. ASSUME NEW o \in Owners, pending = <<o>> PROVE Len(pending) = 1
        BY <4>2
      <4> QED BY <2>1, <4>1, <4>2
    <3> HIDE DEF busy
    <3>3. Len(pending) + Cardinality(busy) =< 1
      BY <3>1, <3>2
    <3> QED BY <3>3 DEF SingleOccupancy, busy
  <2>2. ASSUME NEW o \in Owners, NEW k \in Slots, Seated(o, k) PROVE SingleOccupancy
    <3>1. busy = {k}
      BY <2>2 DEF Seated, InState
    <3>2. Cardinality({k}) = 1
      BY FS_Singleton
    <3>3. Len(pending) = 0
      BY <2>2 DEF Seated
    <3> HIDE DEF busy
    <3>4. Len(pending) + Cardinality(busy) =< 1
      BY <3>1, <3>2, <3>3
    <3> QED BY <3>4 DEF SingleOccupancy, busy
  <2> QED BY <2>1, <2>2 DEF IInv, Sched, Empty, Queued
<1> QED BY <1>1, Inductive, PTL

(* Without the scheduler no answer comes from a cache that was fed BOS:    *)
(* generate_completion skips it, and nothing else feeds the prompt.        *)
THEOREM BosSkippedWithoutBatch ==
    ASSUME ~Batch PROVE Spec => []BosSkipped
<1>1. IInv => BosSkipped
  BY DEF IInv, NoBos
<1> QED BY <1>1, Inductive, PTL

LEMMA GivesUp ==
    ASSUME IInv, NEW u \in Threads, Handler(u) \/ Hang(u) \/ Join(u),
           NEW t \in Threads, Requests[t].kind # "select",
           res[t] = "none", res'[t] \in {"error", "short"}
    PROVE  fails' > since \/ (routed = {} /\ (inst[active] = None \/ Requests[t].raw))
<1>0. since <= fails /\ fails \in Nat /\ since \in Nat
  BY FailAssumption DEF IInv, Types, Mgr
<1>1. res' # res
  OBVIOUS
<1>2. ASSUME NEW r, Finish(u, r) PROVE t = u /\ r \in {"error", "short"}
  <2>1. res' = [res EXCEPT ![u] = r] /\ res \in [Threads -> Results]
    BY <1>2 DEF Finish, IInv, Types
  <2> QED BY <2>1
<1>3. CASE SelectHandler(u)
  <2>1. t = u /\ pc[u] = "select"
    BY <1>2, <1>3 DEF SelectHandler
  <2> QED BY <2>1 DEF IInv, Health
<1>4. CASE Switch(u)
  BY <1>1, <1>2, <1>4 DEF Switch
<1>5. CASE ResetSequence(u)
  <2>1. PICK ok \in BOOLEAN : reset(ok) /\ (ok => res' = res)
    BY <1>5 DEF ResetSequence
  <2>2. ~ok /\ fails' \in Nat /\ fails <= fails'
    BY <1>1, <2>1, ResetKeeps, FailAssumption DEF IInv, Mgr
  <2>3. fails' = fails => routed = {} /\ inst[active] = None
    BY <2>1, <2>2, ResetKeeps DEF IInv
  <2> QED BY <1>0, <2>2, <2>3
<1>6. CASE PrefillToken(u)
  <2> DEFINE item == <<u, "text">>
  <2>1. pc[u] = "prefill" /\ pc[u] \in Held /\ item \in Items
    BY <1>6, RequestAssumption DEF PrefillToken, Held, Steps, Items
  <2>2. pos = 1 /\ Prompt[1] = "bos" /\ Prompt[2] = "text"
    BY <2>1 DEF IInv, Locals, Prompt
  <2>3. PICK by \in Backends \cup {None} :
           generate(item, by) /\ (by # None => res' = res) /\ (by = None => Finish(u, "error"))
    BY <1>6, <2>2 DEF PrefillToken
  <2>4. by = None /\ t = u
    BY <1>1, <1>2, <2>3
  <2>5. /\ fails <= fails' /\ fails' \in Nat
        /\ routed # {} \/ Usable(active) => fails' > fails
    <3> HIDE DEF item
    <3> QED BY <2>1, <2>3, <2>4, GenerateKeeps, GenerateFails, FailAssumption DEF IInv, Mgr
  <2>6. fails > since \/ routed # {} \/ Usable(active) \/ Requests[u].raw
    BY <2>1 DEF IInv, Health
  <2> QED BY <1>0, <2>4, <2>5, <2>6
<1>7. CASE DecodeToken(u)
  BY <1>1, <1>2, <1>7 DEF DecodeToken, Accept
<1>8. CASE Retry(u)
  BY <1>1, <1>2, <1>8 DEF Retry, Accept
<1>9. CASE Fallback(u)
  <2>1. pc[u] = "fallback"
    BY <1>9 DEF Fallback
  <2>2. Finish(u, "short") /\ fails' = fails
    BY <1>1, <1>9 DEF Fallback, mgrVars
  <2>3. fails > since \/ (Requests[u].raw /\ routed = {})
    BY <2>1 DEF IInv, Health
  <2> QED BY <1>0, <1>2, <2>2, <2>3
<1>10. CASE TimeOut(u)
  BY <1>2, <1>10 DEF TimeOut
<1>11. CASE FutGet(u)
  BY <1>2, <1>11 DEF FutGet
<1>12. CASE Arrive(u) \/ Lock(u) \/ Strategy(u) \/ LoadModel(u) \/ Hang(u) \/ Join(u)
            \/ Vision(u) \/ Pick(u) \/ TryText(u) \/ Submit(u)
  BY <1>1, <1>12 DEF Arrive, Lock, Strategy, LoadModel, Hang, Join, Vision, Pick, TryText, Submit
<1> QED BY <1>3, <1>4, <1>5, <1>6, <1>7, <1>8, <1>9, <1>10, <1>11, <1>12 DEF Handler

(* A handler gives up on a request (its reset fails, a prompt token comes  *)
(* back as -1, the fallback loop runs out) only when a backend call failed *)
(* while it held g_inference_mutex, or an earlier failure left neither a   *)
(* router nor an instance, or no router for a raw prompt.                  *)
THEOREM GivesUpOnlyOnFailure == Spec => HealthyAnswered
<1>1. IInv /\ [Next]_vars =>
        [\A t \in Threads :
            /\ Requests[t].kind # "select"
            /\ res[t] = "none" /\ res'[t] \in {"error", "short"}
            => \/ fails' > since
               \/ routed = {} /\ (inst[active] = None \/ Requests[t].raw)]_vars
  <2> SUFFICES ASSUME IInv, Next, NEW t \in Threads, Requests[t].kind # "select",
                      res[t] = "none", res'[t] \in {"error", "short"}
               PROVE  fails' > since \/ (routed = {} /\ (inst[active] = None \/ Requests[t].raw))
    OBVIOUS
  <2>1. ASSUME NEW u \in Threads, Handler(u) \/ Hang(u) \/ Join(u)
        PROVE  fails' > since \/ (routed = {} /\ (inst[active] = None \/ Requests[t].raw))
    BY <2>1, GivesUp
  <2>2. res' # res
    OBVIOUS
  <2>3. ~Scheduler /\ ~Quiet
    BY <2>2 DEF Scheduler, Quiet, vars
  <2> QED BY <2>1, <2>3 DEF Next
<1> QED BY <1>1, Inductive, PTL DEF Spec, HealthyAnswered
-----------------------------------------------------------------------------
(* The tokens of an answer are the request's own.                          *)

Mine(o) == {item \in Items : item[1] = o}

(* Where a handler computes, after the reset that its sequence began with. *)
Reading == {"text", "prefill", "decode", "fallback", "retry"}

LEMMA CreditMine ==
    ASSUME Types, OwnContext, NEW o \in Owners, NEW by \in Backends, Credit(o, by), kv'[by] \subseteq Mine(o)
    PROVE  OwnContext'
<1> DEFINE e == [items    |-> used[o].items \cup kv'[by],
                 weights  |-> used[o].weights \cup {inst'[by]},
                 backends |-> used[o].backends \cup {by}]
<1>1. used' = [used EXCEPT ![o] = e]
  BY DEF Credit
<1>2. e.items = used[o].items \cup kv'[by]
  OBVIOUS
<1> HIDE DEF e
<1>3. used'[o] = e /\ \A q \in Owners : q # o => used'[q] = used[q]
  BY <1>1 DEF Types
<1>4. \A item \in used'[o].items : item[1] = o
  BY <1>2, <1>3, RequestAssumption DEF OwnContext, Mine
<1> QED BY <1>3, <1>4, RequestAssumption DEF OwnContext

(* What the handler that holds the mutex does to the others.               *)
LEMMA OthersWait ==
    ASSUME IInv, NEW u \in Threads, Handler(u) \/ Hang(u) \/ Join(u)
    PROVE  /\ \A t \in Threads : t # u => pc'[t] = pc[t]
           /\ \/ pc[u] \in Held /\ \A t \in Threads : t # u => pc[t] \notin Held
              \/ (Arrive(u) \/ Lock(u)) /\ UNCHANGED <<mgrVars, used>> /\ pc'[u] \notin Reading
<1>1. pc \in [Threads -> Steps]
  BY DEF IInv, Types
<1>2. \E step : Goto(u, step)
  BY DEF Handler, Arrive, Lock, SelectHandler, Strategy, Switch, LoadModel, Hang, Join, Vision, Pick,
         ResetSequence, TryText, PrefillToken, DecodeToken, Accept, Fallback, Retry, TimeOut, Submit, FutGet, Finish
<1>3. \A t \in Threads : t # u => pc'[t] = pc[t]
  BY <1>1, <1>2 DEF Goto
<1>4. CASE Arrive(u) \/ Lock(u)
  <2>1. pc'[u] \in {"lock", "select", "strategy"}
    BY <1>1, <1>4 DEF Arrive, Lock, Goto
  <2> QED BY <1>3, <1>4, <2>1 DEF Arrive, Lock, Reading
<1>5. CASE ~(Arrive(u) \/ Lock(u))
  <2>1. pc[u] \in Held
    BY <1>5 DEF Handler, SelectHandler, Strategy, Switch, LoadModel, Hang, Join, Vision, Pick,
         ResetSequence, TryText, PrefillToken, DecodeToken, Fallback, Retry, TimeOut, Submit, FutGet, Held, Steps
  <2> QED BY <1>3, <2>1 DEF IInv, Mutex
<1> QED BY <1>4, <1>5

-----------------------------------------------------------------------------
(* One failing call at most.  Until it comes every backend that is loaded  *)
(* has an entry in the router, so the reset at the start of a sequence     *)
(* reaches every cache that a call may be served from, failover included.  *)

OneFault == MaxFail < 2

Spared ==
    fails = 0 => /\ routed # {} /\ functional = Backends
                 /\ \A b \in Backends : inst[b] # None => b \in routed

(* The caches that a call may be served from hold nothing of another       *)
(* request.                                                                *)
Reached(o) ==
    /\ \A b \in routed : kv[b] \subseteq Mine(o)
    /\ routed = {} /\ inst[active] # None => kv[active] \subseteq Mine(o)

TurnAt(t) ==
    /\ pc[t] \in Reading => Reached(t)
    /\ pc[t] = "decode" => routed # {} \/ Usable(active)
    /\ pc[t] \in {"fallback", "retry"} => routed # {}

Turn == \A t \in Threads : TurnAt(t)

LEMMA SumBelowTwo ==
    ASSUME NEW a \in Nat, NEW b \in Nat, a + b < 2
    PROVE  /\ a \in {0, 1} /\ a + b \in {0, 1}
           /\ b = 0 \/ (b = 1 /\ a = 0)
<1>1. (a = 0 \/ a = 1 \/ a > 1) /\ (b = 0 \/ b = 1 \/ b > 1)
  OBVIOUS
<1>2. a <= 1 /\ b <= 1
  OBVIOUS
<1>3. a \in {0, 1} /\ b \in {0, 1}
  BY <1>1, <1>2
<1> QED BY <1>3

(* What a failing call says about the failures before it.                  *)
LEMMA OneFails ==
    ASSUME OneFault, Mgr, NEW k \in Nat, Fail(k)
    PROVE  /\ k = 0 \/ (k = 1 /\ fails = 0)
           /\ fails' = fails + k /\ fails \in {0, 1} /\ fails' \in {0, 1}
<1>1. MaxFail \in Nat /\ MaxFail < 2 /\ fails \in Nat
  BY FailAssumption DEF OneFault, Mgr
<1>2. fails + k <= MaxFail /\ fails' = fails + k
  BY DEF Fail
<1>3. fails + k < 2
  BY <1>1, <1>2
<1> QED BY <1>1, <1>2, <1>3, SumBelowTwo

LEMMA GenerateOne ==
    ASSUME OneFault, Mgr, Spared, NEW item \in Items, NEW by \in Backends \cup {None}, generate(item, by)
    PROVE  /\ Spared'
           /\ by = None => routed = {} /\ ~Usable(active)
           /\ by # None => routed' # {} \/ Usable(active)'
           /\ \A o : Reached(o) /\ item \in Mine(o)
                     => Reached(o)' /\ (by # None => kv'[by] \subseteq Mine(o))
<1> USE NoneAssumption, OrderAssumption
<1>1. CASE RouterServes(item, by)
  <2>1. /\ by \in routed /\ by \in Backends /\ kv' = Fed(by, item)
        /\ UNCHANGED <<inst, functional, routed, active, cfg, fails>>
    BY <1>1 DEF RouterServes, Mgr
  <2>2. \A b \in Backends : kv'[b] \subseteq kv[b] \cup {item}
    BY <2>1, FedType
  <2>3. Spared'
    BY <2>1 DEF Spared
  <2>4. ASSUME NEW o, Reached(o), item \in Mine(o)
        PROVE  Reached(o)' /\ kv'[by] \subseteq Mine(o)
    BY <2>1, <2>2, <2>4 DEF Reached, Mgr
  <2> QED BY <2>1, <2>3, <2>4
<1>2. CASE ActiveServes(item, by)
  <2>1. /\ Usable(active) /\ by = active /\ active \in Backends /\ inst[active] # None
        /\ Fail(Exhausted) /\ routed' = {} /\ kv' = Fed(by, item)
        /\ UNCHANGED <<inst, functional, active, cfg>>
    BY <1>2 DEF ActiveServes, Mgr, Usable
  <2>2. fails' # 0 /\ (routed # {} => fails = 0)
    <3>1. Exhausted \in Nat /\ (routed # {} => Exhausted = 1) /\ (routed = {} => Exhausted = 0)
      BY DEF Exhausted
    <3>2. routed = {} => fails # 0
      BY DEF Spared
    <3> QED BY <2>1, <3>1, <3>2, OneFails
  <2>3. kv'[active] \subseteq kv[active] \cup {item}
    BY <2>1, FedType
  <2>4. ASSUME NEW o, Reached(o), item \in Mine(o)
        PROVE  Reached(o)' /\ kv'[by] \subseteq Mine(o)
    <3>1. kv[active] \subseteq Mine(o)
      BY <2>1, <2>2, <2>4 DEF Reached, Spared
    <3> QED BY <2>1, <2>3, <2>4, <3>1 DEF Reached
  <2>5. Usable(active)'
    BY <2>1 DEF Usable
  <2>6. Spared'
    BY <2>2 DEF Spared
  <2> QED BY <2>1, <2>4, <2>5, <2>6
<1>3. CASE FailoverServes(item, by)
  <2> DEFINE failed(c, kept) == Exhausted + (IF Usable(active) THEN 1 ELSE 0) + InitFails(c) + kept
  <2>1. PICK c \in Backends \cup {None}, kept \in {0, 1} :
            /\ Failover(c)
            /\ \/ /\ c # None /\ by = c
                  /\ Fail(failed(c, kept))
                  /\ functional' = (functional \ {active}) \cup {c}
                  /\ kv' = [kv EXCEPT ![c] = Left(c, kept) \cup {item}]
               \/ /\ c # None /\ by = None
                  /\ Fail(failed(c, kept) + 1)
                  /\ functional' = functional \ {active, c}
                  /\ kv' = [kv EXCEPT ![c] = Left(c, kept)]
               \/ /\ c = None /\ by = None /\ kept = 0
                  /\ Fail(failed(c, kept))
                  /\ functional' = functional \ {active}
                  /\ UNCHANGED kv
            /\ routed' = {}
            /\ UNCHANGED cfg
    BY <1>3, Zenon DEF FailoverServes
  <2>2. InitFails(c) \in Nat
    BY InitFailsType
  <2>3. PICK k \in Nat : /\ Fail(k) /\ k >= failed(c, kept)
                         /\ c # None /\ by = None => k >= failed(c, kept) + 1
    <3> DEFINE f == failed(c, kept)
    <3>1. f \in Nat
      BY <2>2 DEF Exhausted
    <3> HIDE DEF failed
    <3>2. CASE c # None /\ by = None
      <4>1. Fail(f + 1)
        BY <2>1, <3>2
      <4> HIDE DEF f
      <4>2. f + 1 \in Nat /\ f + 1 >= f
        BY <3>1
      <4> QED BY <4>1, <4>2 DEF f
    <3>3. CASE ~(c # None /\ by = None)
      <4>1. Fail(f)
        BY <2>1, <3>3
      <4> HIDE DEF f
      <4> QED BY <3>1, <3>3, <4>1 DEF f
    <3> QED BY <3>2, <3>3
  <2>4. /\ routed # {} => fails = 0 /\ k = 1 /\ ~Usable(active) /\ ~(c # None /\ by = None)
        /\ routed = {} => fails # 0 /\ k = 0 /\ ~Usable(active) /\ ~(c # None /\ by = None)
        /\ fails' # 0 /\ kept = 0
    <3>1. routed = {} => fails # 0
      BY DEF Spared
    <3>2. k = 0 \/ (k = 1 /\ fails = 0)
      BY <2>3, OneFails
    <3>3. fails' = fails + k /\ fails \in {0, 1}
      BY <2>3, OneFails
    <3> QED BY <2>2, <2>3, <3>1, <3>2, <3>3 DEF Exhausted
  <2>5. c = None => routed = {}
    <3>1. SUFFICES ASSUME c = None, routed # {} PROVE FALSE
      OBVIOUS
    <3>2. PICK b \in routed : b \in Backends /\ inst[b] # None
      BY <3>1 DEF Mgr
    <3>3. functional = Backends
      BY <2>4, <3>1 DEF Spared
    <3>4. b # active
      BY <2>4, <3>1, <3>2, <3>3 DEF Usable
    <3>5. b \in Passed(c)
      BY <3>1, <3>2, <3>4 DEF Passed
    <3> QED BY <2>1, <3>2, <3>3, <3>5 DEF Failover, Lands
  <2>6. by = None => routed = {} /\ ~Usable(active)
    BY <2>1, <2>4, <2>5
  <2>7. ASSUME NEW o, Reached(o), item \in Mine(o)
        PROVE  Reached(o)' /\ (by # None => kv'[by] \subseteq Mine(o))
    <3>1. CASE c = None
      <4>1. active' = active /\ kv' = kv /\ inst' = inst /\ routed = {} /\ by = None
        BY <2>1, <2>5, <3>1 DEF Failover
      <4> QED BY <2>1, <2>7, <4>1 DEF Reached
    <3>2. CASE c # None
      <4>1. active' = c /\ by = c /\ c \in Backends /\ kv' = [kv EXCEPT ![c] = {item}]
        BY <2>1, <2>4, <3>2 DEF Failover, Left
      <4>2. kv'[c] = {item}
        BY <4>1 DEF Mgr
      <4> QED BY <2>1, <2>7, <4>1, <4>2 DEF Reached
    <3> QED BY <3>1, <3>2
  <2>8. by # None => Usable(active)'
    <3> SUFFICES ASSUME by # None PROVE Usable(active)'
      OBVIOUS
    <3>1. c # None /\ by = c /\ active' = c /\ c \in functional'
      BY <2>1 DEF Failover
    <3>2. inst'[c] # None
      BY <2>1, <3>1, FailoverKeeps
    <3> QED BY <3>1, <3>2 DEF Usable
  <2>9. Spared'
    BY <2>4 DEF Spared
  <2> QED BY <2>6, <2>7, <2>8, <2>9
<1> QED BY <1>1, <1>2, <1>3 DEF generate

LEMMA ForwardOne ==
    ASSUME OneFault, Mgr, Spared, NEW item \in Items, NEW by \in Backends \cup {None}, forward(item, by)
    PROVE  /\ Spared'
           /\ UNCHANGED <<inst, functional, routed, active>>
           /\ by = None /\ (routed # {} \/ Usable(active)) => routed # {}
           /\ \A o : Reached(o) /\ item \in Mine(o)
                     => Reached(o)' /\ (by # None => kv'[by] \subseteq Mine(o))
<1> USE NoneAssumption, OrderAssumption
<1> DEFINE from == IF routed # {} THEN routed ELSE {b \in {active} : inst[b] # None}
<1>1. /\ from \subseteq Backends /\ (routed # {} \/ Usable(active) => from # {})
      /\ \A b \in from : b \in routed \/ (routed = {} /\ b = active /\ inst[active] # None)
  BY DEF Mgr, Usable
<1>2. UNCHANGED <<inst, functional, routed, active, cfg>>
  BY DEF forward
<1>3. \/ by \in from /\ kv' = Fed(by, item) /\ UNCHANGED fails
      \/ by = None /\ from # {} /\ Fail(1) /\ kv' \in {kv} \cup {Fed(b, item) : b \in from}
      \/ by = None /\ from = {} /\ UNCHANGED <<kv, fails>>
  BY Zenon DEF forward
<1> HIDE DEF from
<1>4. kv' = kv \/ \E b \in Backends : kv' = Fed(b, item)
  BY <1>1, <1>3
<1>5. \A d \in Backends : kv'[d] \subseteq kv[d] \cup {item}
  BY <1>4, FedType DEF Mgr
<1>6. \/ fails' = fails
      \/ by = None /\ fails = 0 /\ fails' # 0
  BY <1>3, OneFails
<1>7. Spared'
  BY <1>2, <1>6 DEF Spared
<1>8. by = None /\ (routed # {} \/ Usable(active)) => routed # {}
  <2>1. SUFFICES ASSUME by = None, from # {} PROVE routed # {}
    BY <1>1
  <2>2. Fail(1)
    BY <1>1, <1>3, <2>1
  <2>3. fails = 0
    BY <2>2, OneFails
  <2> QED BY <2>3 DEF Spared
<1>9. ASSUME NEW o, Reached(o), item \in Mine(o)
      PROVE  Reached(o)' /\ (by # None => kv'[by] \subseteq Mine(o))
  <2>1. Reached(o)'
    BY <1>2, <1>5, <1>9 DEF Reached, Mgr
  <2>2. by # None => by \in from /\ by \in Backends
    BY <1>1, <1>3
  <2>3. by # None => kv[by] \subseteq Mine(o)
    BY <1>1, <1>9, <2>2 DEF Reached
  <2> QED BY <1>5, <1>9, <2>1, <2>2, <2>3
<1> QED BY <1>2, <1>7, <1>8, <1>9

LEMMA TextOne ==
    ASSUME OneFault, Mgr, Spared, generate_text
    PROVE  Spared' /\ \A o : Reached(o) => Reached(o)'
<1> USE NoneAssumption, OrderAssumption
<1>1. CASE routed # {}
  BY <1>1 DEF generate_text, mgrVars, Spared, Reached
<1>2. CASE routed = {}
  <2>1. PICK c \in Backends \cup {None}, kept \in {0, 1} :
             /\ Failover(c)
             /\ Fail(InitFails(c) + kept)
             /\ kv' = IF c = None THEN kv ELSE [kv EXCEPT ![c] = Left(c, kept)]
             /\ UNCHANGED routed
    BY <1>2, Zenon DEF generate_text
  <2>2. fails # 0
    BY <1>2 DEF Spared
  <2>3. fails' # 0 /\ kept = 0
    <3>1. InitFails(c) \in Nat
      BY InitFailsType
    <3> DEFINE k == InitFails(c) + kept
    <3>2. k \in Nat /\ k >= kept
      BY <3>1
    <3> HIDE DEF k
    <3>3. Fail(k)
      BY <2>1 DEF k
    <3>4. k = 0 /\ fails' = fails + k /\ fails \in {0, 1}
      BY <2>2, <3>2, <3>3, OneFails
    <3> QED BY <2>2, <3>2, <3>4
  <2>4. Spared'
    BY <2>3 DEF Spared
  <2>5. CASE c = None
    <3>1. UNCHANGED <<inst, active, kv, routed>>
      BY <2>1, <2>5 DEF Failover
    <3> QED BY <2>4, <3>1 DEF Reached
  <2>6. CASE c # None
    <3>1. active' = c /\ kv'[c] = {}
      BY <2>1, <2>3, <2>6 DEF Failover, Mgr, Left
    <3> QED BY <1>2, <2>1, <2>4, <3>1 DEF Reached
  <2> QED BY <2>5, <2>6
<1> QED BY <1>1, <1>2

(* A reset that succeeds has cleared whatever may serve the next token.    *)
LEMMA ResetOne ==
    ASSUME OneFault, Mgr, Spared, NEW ok \in BOOLEAN, reset(ok)
    PROVE  Spared' /\ (ok => \A o : Reached(o)')
<1> DEFINE all == IF routed # {} THEN routed ELSE {b \in {active} : inst[b] # None}
<1>1. PICK bad \in SUBSET all :
            /\ Fail(Cardinality(bad))
            /\ ok = (all # {} /\ bad = {})
            /\ kv' = [b \in Backends |-> IF b \in all \ bad THEN {} ELSE kv[b]]
            /\ functional' = IF routed = {} /\ ok THEN functional \cup {active} ELSE functional
            /\ UNCHANGED <<inst, routed, active, cfg>>
  BY Zenon DEF reset
<1>2. all \subseteq Backends
  BY DEF Mgr
<1>3. fails' = 0 => fails = 0
  <2>1. bad \in SUBSET Backends
    BY <1>2
  <2>2. Cardinality(bad) \in Nat
    BY <2>1, BackendsFinite
  <2>3. fails' = fails + Cardinality(bad) /\ fails \in {0, 1}
    BY <1>1, <2>2, OneFails
  <2> QED BY <2>2, <2>3
<1>4. Spared'
  BY <1>1, <1>3 DEF Spared
<1>5. ASSUME ok, NEW o PROVE Reached(o)'
  <2>1. \A b \in all : kv'[b] = {}
    BY <1>1, <1>2, <1>5
  <2> QED BY <1>1, <2>1 DEF Reached
<1> QED BY <1>4, <1>5

(* Loading a model gives a router entry to every backend that is loaded,   *)
(* unless one fails.                                                       *)
LEMMA LoadOne ==
    ASSUME OneFault, Mgr, Spared, NEW m \in Models, init_in_order(m)
    PROVE  Spared'
<1> USE NoneAssumption
<1>1. PICK good \in SUBSET Backends, stuck \in SUBSET Backends, spare \in SUBSET Backends :
        LET bad == Backends \ (good \cup stuck \cup spare)
        IN  /\ spare # {} => good \ {Cpu} # {}
            /\ Fail(Cardinality(bad \cup stuck))
            /\ inst' = [b \in Backends |-> IF b \in good THEN m
                                           ELSE IF b \in stuck THEN inst[b] ELSE None]
            /\ functional' = functional \cup good
            /\ routed' = good
  BY Zenon DEF init_in_order
<1> DEFINE lost == (Backends \ (good \cup stuck \cup spare)) \cup stuck
<1>2. IsFiniteSet(lost) /\ Cardinality(lost) \in Nat
  BY BackendsFinite
<1>3. Fail(Cardinality(lost))
  BY <1>1
<1>4. fails' = 0 => fails = 0 /\ lost = {}
  <2>1. Cardinality(lost) = 0 => lost = {}
    BY <1>2, FS_EmptySet
  <2> HIDE DEF lost
  <2>2. fails' = fails + Cardinality(lost) /\ fails \in {0, 1}
    BY <1>2, <1>3, OneFails
  <2> QED BY <1>2, <2>1, <2>2
<1>5. SUFFICES ASSUME fails' = 0
               PROVE  /\ routed' # {} /\ functional' = Backends
                      /\ \A b \in Backends : inst'[b] # None => b \in routed'
  BY DEF Spared
<1>6. fails = 0 /\ stuck = {} /\ Backends = good \cup spare
  BY <1>4, <1>5
<1>7. good # {}
  BY <1>1, <1>6, BackendsFinite
<1>8. functional = Backends
  BY <1>6 DEF Spared
<1> QED BY <1>1, <1>6, <1>7, <1>8

LEMMA OtherOne ==
    ASSUME Mgr, Spared
    PROVE  /\ \A b : select_backend(b) => Spared' /\ UNCHANGED <<routed, kv>>
           /\ \A s : set_strategy(s) => Spared'
           /\ \A item : forward_embed(item) => Spared'
           /\ UNCHANGED mgrVars => Spared' /\ \A o : Reached(o) => Reached(o)'
  BY DEF Spared, select_backend, set_strategy, re_evaluate, forward_embed, mgrVars, Reached

Context == Spared /\ Turn /\ OwnContext

(* What a step of handler u has to leave behind.                           *)
Leaves(u) == Spared' /\ TurnAt(u)' /\ OwnContext'

LEMMA LeavesReading ==
    ASSUME NEW u \in Threads, Spared', OwnContext, UNCHANGED used, pc'[u] \notin Reading
    PROVE  Leaves(u)
  BY DEF Leaves, TurnAt, Reading, OwnContext

(* The steps before a sequence begins and after it ends.                   *)
LEMMA OutsideLeaves ==
    ASSUME OneFault, IInv, Context, NEW u \in Threads,
           \/ Arrive(u) \/ Lock(u) \/ Switch(u) \/ Hang(u) \/ TimeOut(u) \/ Submit(u) \/ FutGet(u)
           \/ SelectHandler(u) \/ Strategy(u) \/ LoadModel(u) \/ Join(u) \/ Vision(u) \/ Pick(u)
    PROVE  Leaves(u)
<1>0. pc \in [Threads -> Steps] /\ Mgr /\ Spared /\ OwnContext
  BY DEF IInv, Types, Context
<1>1. CASE Arrive(u) \/ Lock(u) \/ Switch(u) \/ Hang(u) \/ TimeOut(u) \/ Submit(u) \/ FutGet(u)
  <2>1. UNCHANGED mgrVars /\ UNCHANGED used
    BY <1>1 DEF Arrive, Lock, Switch, Hang, TimeOut, Submit, FutGet
  <2>2. pc'[u] \notin Reading
    BY <1>0, <1>1 DEF Arrive, Lock, Switch, Hang, TimeOut, Submit, FutGet, Finish, Goto, Loaded, Reading
  <2> QED BY <1>0, <2>1, <2>2, OtherOne, LeavesReading
<1>2. CASE SelectHandler(u) \/ Strategy(u) \/ Pick(u)
  <2>1. UNCHANGED used /\ pc'[u] \notin Reading
    BY <1>0, <1>2 DEF SelectHandler, Strategy, Pick, Finish, Goto, Reading
  <2>2. Spared'
    BY <1>0, <1>2, OtherOne DEF SelectHandler, Strategy, Pick
  <2> QED BY <1>0, <2>1, <2>2, LeavesReading
<1>3. CASE LoadModel(u) \/ Join(u)
  <2>1. UNCHANGED used /\ pc'[u] \notin Reading
    BY <1>0, <1>3 DEF LoadModel, Join, Goto, Loaded, Reading
  <2>2. want[u].model \in Models /\ init_in_order(want[u].model)
    BY <1>3 DEF LoadModel, Join, IInv, Locals, Held, Steps
  <2> QED BY <1>0, <2>1, <2>2, LoadOne, LeavesReading
<1>4. CASE Vision(u)
  <2> DEFINE item == <<u, "image">>
  <2>1. UNCHANGED used /\ pc'[u] \notin Reading
    BY <1>0, <1>4 DEF Vision, Goto, Reading
  <2>2. item \in Items
    BY RequestAssumption DEF Items
  <2>3. forward_embed(item) \/ \E by \in Backends \cup {None} : generate(item, by)
    BY <1>4 DEF Vision
  <2> HIDE DEF item
  <2>4. Spared'
    BY <1>0, <2>2, <2>3, GenerateOne, OtherOne
  <2> QED BY <1>0, <2>1, <2>4, LeavesReading
<1> QED BY <1>1, <1>2, <1>3, <1>4

LEMMA StartLeaves ==
    ASSUME OneFault, IInv, Context, NEW u \in Threads, ResetSequence(u) \/ TryText(u)
    PROVE  Leaves(u)
<1>0. pc \in [Threads -> Steps] /\ Mgr /\ Spared /\ OwnContext
  BY DEF IInv, Types, Context
<1>1. CASE ResetSequence(u)
  <2>1. PICK ok \in BOOLEAN : /\ reset(ok) /\ UNCHANGED used
                              /\ ok => pc'[u] \in {"text", "prefill"}
                              /\ ~ok => pc'[u] = "done"
    BY <1>0, <1>1 DEF ResetSequence, Finish, Goto
  <2>2. Spared' /\ (ok => Reached(u)')
    BY <1>0, <2>1, ResetOne
  <2> QED BY <1>0, <2>1, <2>2 DEF Leaves, TurnAt, Reading, OwnContext
<1>2. CASE TryText(u)
  <2>1. UNCHANGED used /\ pc'[u] = "prefill" /\ pc[u] = "text" /\ (UNCHANGED mgrVars \/ generate_text)
    BY <1>0, <1>2 DEF TryText, Goto
  <2>2. Reached(u)
    BY <2>1 DEF Context, Turn, TurnAt, Reading
  <2>3. Spared' /\ Reached(u)'
    BY <1>0, <2>1, <2>2, TextOne, OtherOne
  <2> QED BY <1>0, <2>1, <2>3 DEF Leaves, TurnAt, OwnContext
<1> QED BY <1>1, <1>2

LEMMA PrefillLeaves ==
    ASSUME OneFault, IInv, Context, NEW u \in Threads, PrefillToken(u)
    PROVE  Leaves(u)
<1> DEFINE item == <<u, "text">>
<1>0. pc \in [Threads -> Steps] /\ Mgr /\ Spared /\ OwnContext
  BY DEF IInv, Types, Context
<1>1. pc[u] = "prefill" /\ pc[u] \in Held /\ item \in Items /\ item \in Mine(u)
  BY RequestAssumption DEF PrefillToken, Held, Steps, Items, Mine
<1>2. pos = 1 /\ Prompt[1] = "bos" /\ Prompt[2] = "text" /\ Len(Prompt) = 3
  BY <1>1 DEF IInv, Locals, Prompt
<1>3. PICK by \in Backends \cup {None} :
         /\ generate(item, by) /\ UNCHANGED used
         /\ by = None => pc'[u] = "done"
         /\ by # None => pc'[u] = "decode"
  BY <1>0, <1>2 DEF PrefillToken, Finish, Goto
<1>4. Reached(u)
  BY <1>1 DEF Context, Turn, TurnAt, Reading
<1> HIDE DEF item
<1>5. Spared' /\ Reached(u)' /\ (by # None => routed' # {} \/ Usable(active)')
  BY <1>0, <1>1, <1>3, <1>4, GenerateOne
<1> QED BY <1>0, <1>3, <1>5 DEF Leaves, TurnAt, Reading, OwnContext

(* A token of the answer: what has been read is credited to the request.   *)
LEMMA AcceptLeaves ==
    ASSUME IInv, OwnContext, NEW u \in Threads, NEW by \in Backends, Accept(u, by),
           Spared', Reached(u)', kv'[by] \subseteq Mine(u), routed' # {} \/ Usable(active)'
    PROVE  Leaves(u)
<1>1. pc \in [Threads -> Steps] /\ Types
  BY DEF IInv, Types
<1>2. Credit(u, by) /\ pc'[u] \in {"done", "decode"}
  BY <1>1 DEF Accept, Finish, Goto
<1>3. OwnContext'
  BY <1>1, <1>2, CreditMine, RequestAssumption
<1> QED BY <1>2, <1>3 DEF Leaves, TurnAt, Reading

LEMMA DecodeLeaves ==
    ASSUME OneFault, IInv, Context, NEW u \in Threads, DecodeToken(u)
    PROVE  Leaves(u)
<1> DEFINE item == <<u, "text">>
<1>0. pc \in [Threads -> Steps] /\ Mgr /\ Spared /\ OwnContext
  BY DEF IInv, Types, Context
<1>1. pc[u] = "decode" /\ item \in Items /\ item \in Mine(u)
  BY RequestAssumption DEF DecodeToken, Items, Mine
<1>2. PICK by \in Backends \cup {None} :
         /\ forward(item, by) \/ generate(item, by)
         /\ by # None => Accept(u, by)
         /\ by = None => Goto(u, "fallback") /\ UNCHANGED used
  BY DEF DecodeToken
<1>3. Reached(u) /\ (routed # {} \/ Usable(active))
  BY <1>1 DEF Context, Turn, TurnAt, Reading
<1> HIDE DEF item
<1>4. /\ Spared' /\ Reached(u)' /\ (routed' # {} \/ Usable(active)')
      /\ by # None => kv'[by] \subseteq Mine(u)
      /\ by = None => routed' # {}
  <2>1. CASE forward(item, by)
    <3>1. /\ Spared' /\ Reached(u)' /\ (by # None => kv'[by] \subseteq Mine(u))
          /\ UNCHANGED <<inst, functional, routed, active>>
          /\ by = None => routed # {}
      BY <1>0, <1>1, <1>3, <2>1, ForwardOne
    <3> QED BY <1>3, <3>1 DEF Usable
  <2>2. CASE generate(item, by)
    BY <1>0, <1>1, <1>3, <2>2, GenerateOne
  <2> QED BY <1>2, <2>1, <2>2
<1>5. CASE by = None
  <2>1. pc'[u] = "fallback" /\ UNCHANGED used
    BY <1>0, <1>2, <1>5 DEF Goto
  <2> QED BY <1>0, <1>4, <1>5, <2>1 DEF Leaves, TurnAt, OwnContext
<1>6. CASE by # None
  BY <1>0, <1>2, <1>4, <1>6, AcceptLeaves
<1> QED BY <1>5, <1>6

(* The loop over fallback_order() starts only after a call that failed     *)
(* without a change of the router, and its first request is answered.      *)
LEMMA FallbackLeaves ==
    ASSUME OneFault, IInv, Context, NEW u \in Threads, Fallback(u) \/ Retry(u)
    PROVE  Leaves(u)
<1> DEFINE item == <<u, "text">>
<1>0. pc \in [Threads -> Steps] /\ Mgr /\ Spared /\ OwnContext
  BY DEF IInv, Types, Context
<1>1. pc[u] \in {"fallback", "retry"} /\ item \in Items /\ item \in Mine(u)
  BY RequestAssumption DEF Fallback, Retry, Items, Mine
<1>2. Reached(u) /\ routed # {}
  BY <1>1 DEF Context, Turn, TurnAt, Reading
<1> HIDE DEF item
<1>3. CASE Fallback(u)
  <2>1. \/ pc'[u] = "done" /\ UNCHANGED mgrVars
        \/ pc'[u] = "retry" /\ \E c : select_backend(c)
    BY <1>0, <1>3 DEF Fallback, Finish, Goto
  <2>2. UNCHANGED used
    BY <1>3 DEF Fallback
  <2>3. CASE pc'[u] = "done" /\ UNCHANGED mgrVars
    BY <1>0, <2>2, <2>3, OtherOne, LeavesReading DEF Reading
  <2>4. CASE pc'[u] = "retry" /\ \E c : select_backend(c)
    <3>1. Spared' /\ UNCHANGED <<routed, kv>>
      BY <1>0, <2>4, OtherOne
    <3>2. Reached(u)'
      BY <1>2, <3>1 DEF Reached
    <3> QED BY <1>0, <1>2, <2>2, <2>4, <3>1, <3>2 DEF Leaves, TurnAt, OwnContext
  <2> QED BY <2>1, <2>3, <2>4
<1>4. CASE Retry(u)
  <2>1. PICK by \in Backends \cup {None} : generate(item, by) /\ (by # None => Accept(u, by))
    BY <1>4 DEF Retry, item
  <2>2. by # None /\ Spared' /\ Reached(u)' /\ kv'[by] \subseteq Mine(u) /\ (routed' # {} \/ Usable(active)')
    BY <1>0, <1>1, <1>2, <2>1, GenerateOne
  <2> QED BY <1>0, <2>1, <2>2, AcceptLeaves
<1> QED BY <1>3, <1>4

LEMMA StepLeaves ==
    ASSUME OneFault, IInv, Context, NEW u \in Threads, Handler(u) \/ Hang(u) \/ Join(u)
    PROVE  Leaves(u)
  BY OutsideLeaves, StartLeaves, PrefillLeaves, DecodeLeaves, FallbackLeaves DEF Handler

(* Without the scheduler a request is answered from its own tokens however *)
(* its calls are served, as long as no more than one call of a backend     *)
(* fails: by an entry of the router, by the active backend or by the one   *)
(* failover() lands on, all of which the reset at the start of             *)
(* generate_completion has reached.                                        *)
THEOREM OwnTokensOneFault ==
    ASSUME ~Batch, OneFault PROVE Spec => []OwnContext
<1>1. Init => Context
  <2> SUFFICES ASSUME Init PROVE Context
    OBVIOUS
  <2>1. Spared
    BY NoneAssumption, OrderAssumption, RequestAssumption, ModelAssumption DEF Init, MgrInit, Spared, Backends
  <2>2. Turn
    BY DEF Init, Turn, TurnAt, Reading
  <2>3. OwnContext
    BY RequestAssumption DEF Init, MgrInit, OwnContext
  <2> QED BY <2>1, <2>2, <2>3 DEF Context
<1>2. IInv /\ Context /\ [Next]_vars => Context'
  <2> SUFFICES ASSUME IInv, Context, [Next]_vars PROVE Context'
    OBVIOUS
  <2>1. ASSUME NEW u \in Threads, Handler(u) \/ Hang(u) \/ Join(u) PROVE Context'
    <3>1. Leaves(u)
      BY <2>1, StepLeaves
    <3>2. ASSUME NEW t \in Threads, t # u PROVE TurnAt(t)'
      <4>1. pc'[t] = pc[t] /\ TurnAt(t)
        BY <2>1, <3>2, OthersWait DEF Context, Turn
      <4>2. CASE pc[t] \notin Held
        BY <4>1, <4>2 DEF TurnAt, Reading, Held, Steps
      <4>3. CASE UNCHANGED mgrVars
        BY <4>1, <4>3 DEF TurnAt, Reached, Usable, mgrVars
      <4> QED BY <2>1, <3>2, <4>2, <4>3, OthersWait
    <3> QED BY <3>1, <3>2 DEF Leaves, Context, Turn
  <2>2. ~Scheduler
    <3>1. Empty
      BY RequestAssumption DEF IInv, NoBos, Sched
    <3> QED BY <3>1, SchedulerBusy
  <2>3. CASE UNCHANGED vars
    BY <2>3 DEF vars, mgrVars, Context, Spared, Turn, TurnAt, Reached, Usable, OwnContext
  <2> QED BY <2>1, <2>2, <2>3 DEF Next, Quiet
<1>3. Context => OwnContext
  BY DEF Context
<1> QED BY <1>1, <1>2, <1>3, Inductive, PTL DEF Spec
-----------------------------------------------------------------------------
(* One backend.  A reset that succeeds reaches its cache, and so does a    *)
(* reset_slot() that succeeds.                                             *)

Alone(o) == \A b \in Backends : kv[b] \subseteq Mine(o)

Single ==
    /\ \A t \in Threads : pc[t] \in Reading => Alone(t)
    /\ \A o \in Owners \ unreset : (\E k \in Slots : Seated(o, k)) => Alone(o)
    /\ OwnContextIfReset
    /\ ~Batch => unreset = {}

LEMMA FeedsAlone ==
    ASSUME NEW o, Alone(o), NEW item \in Mine(o), Feeds(item) \/ Clears
    PROVE  Alone(o)'
  BY DEF Alone, Mine, Feeds, Clears

LEMMA ResetAlone ==
    ASSUME Backends = {Cpu}, Mgr, NEW ok \in BOOLEAN, reset(ok), ok, NEW o
    PROVE  Alone(o)'
<1> DEFINE all == IF routed # {} THEN routed ELSE {b \in {active} : inst[b] # None}
<1>1. PICK bad \in SUBSET all :
            /\ ok = (all # {} /\ bad = {})
            /\ kv' = [b \in Backends |-> IF b \in all \ bad THEN {} ELSE kv[b]]
  BY Zenon DEF reset
<1>2. all \subseteq {Cpu}
  BY DEF Mgr
<1>3. all = Backends /\ bad = {}
  BY <1>1, <1>2
<1>4. \A b \in Backends : kv'[b] = {}
  BY <1>1, <1>3
<1> QED BY <1>4 DEF Alone

LEMMA CreditIfReset ==
    ASSUME Types, OwnContextIfReset, NEW o \in Owners, NEW by \in Backends, Credit(o, by), UNCHANGED unreset,
           o \in unreset \/ kv'[by] \subseteq Mine(o)
    PROVE  OwnContextIfReset'
<1> DEFINE e == [items    |-> used[o].items \cup kv'[by],
                 weights  |-> used[o].weights \cup {inst'[by]},
                 backends |-> used[o].backends \cup {by}]
<1>1. used' = [used EXCEPT ![o] = e]
  BY DEF Credit
<1>2. e.items = used[o].items \cup kv'[by]
  OBVIOUS
<1> HIDE DEF e
<1>3. used'[o] = e /\ \A q \in Owners : q # o => used'[q] = used[q]
  BY <1>1 DEF Types
<1>4. o \notin unreset => \A item \in used'[o].items : item[1] = o
  BY <1>2, <1>3, RequestAssumption DEF OwnContextIfReset, Mine
<1> QED BY <1>3, <1>4, RequestAssumption DEF OwnContextIfReset

LEMMA AcceptAlone ==
    ASSUME IInv, OwnContextIfReset, NEW u \in Threads, NEW by \in Backends, Accept(u, by), UNCHANGED unreset,
           Alone(u)'
    PROVE  OwnContextIfReset'
<1>1. Types /\ Credit(u, by) /\ kv'[by] \subseteq Mine(u)
  BY DEF IInv, Accept, Alone
<1> QED BY <1>1, CreditIfReset, RequestAssumption

(* What a handler has read, with one backend.                              *)
LEMMA HandlerAlone ==
    ASSUME Backends = {Cpu}, IInv, Single, NEW u \in Threads, Handler(u) \/ Hang(u) \/ Join(u)
    PROVE  (pc'[u] \in Reading => Alone(u)') /\ OwnContextIfReset' /\ UNCHANGED unreset
<1> DEFINE item == <<u, "text">>
<1>0. pc \in [Threads -> Steps] /\ Mgr /\ OwnContextIfReset /\ item \in Items /\ item \in Mine(u)
  BY RequestAssumption DEF IInv, Types, Single, Items, Mine
<1>a. UNCHANGED unreset
  <2>1. UNCHANGED schedVars \/ Submit(u)
    BY DEF Handler, Arrive, Lock, SelectHandler, Strategy, Switch, LoadModel, Hang, Join, Vision, Pick,
         ResetSequence, TryText, PrefillToken, DecodeToken, Fallback, Retry, TimeOut, FutGet
  <2> QED BY <2>1 DEF schedVars, Submit, submit
<1>1. CASE \/ Arrive(u) \/ Lock(u) \/ Switch(u) \/ Hang(u) \/ TimeOut(u) \/ Submit(u) \/ FutGet(u)
           \/ SelectHandler(u) \/ Strategy(u) \/ LoadModel(u) \/ Join(u) \/ Vision(u) \/ Pick(u)
  <2>1. UNCHANGED used
    BY <1>1 DEF Arrive, Lock, Switch, Hang, TimeOut, Submit, FutGet, SelectHandler, Strategy, LoadModel,
         Join, Vision, Pick
  <2>2. CASE Arrive(u) \/ Lock(u) \/ Switch(u) \/ Hang(u) \/ TimeOut(u) \/ Submit(u) \/ FutGet(u)
    BY <1>0, <1>a, <2>1, <2>2 DEF Arrive, Lock, Switch, Hang, TimeOut, Submit, FutGet, Finish, Goto, Loaded,
         Reading, OwnContextIfReset
  <2>3. CASE SelectHandler(u) \/ Strategy(u) \/ LoadModel(u) \/ Join(u) \/ Vision(u) \/ Pick(u)
    BY <1>0, <1>a, <2>1, <2>3 DEF SelectHandler, Strategy, LoadModel, Join, Vision, Pick, Finish, Goto, Loaded,
         Reading, OwnContextIfReset
  <2> QED BY <1>1, <1>a, <2>2, <2>3
<1>2. CASE ResetSequence(u)
  <2>1. PICK ok \in BOOLEAN : reset(ok) /\ UNCHANGED used /\ (~ok => pc'[u] = "done")
    BY <1>0, <1>2 DEF ResetSequence, Finish, Goto
  <2> QED BY <1>0, <1>a, <2>1, ResetAlone DEF Reading, OwnContextIfReset
<1>3. CASE TryText(u) \/ Fallback(u)
  <2>1. UNCHANGED used /\ pc[u] \in Reading
    BY <1>3 DEF TryText, Fallback, Reading
  <2>2. UNCHANGED kv \/ generate_text
    BY <1>3 DEF TryText, Fallback, select_backend, mgrVars
  <2>3. Clears
    BY <1>0, <2>2, GenerateTextKeeps DEF Clears
  <2> HIDE DEF item
  <2> QED BY <1>0, <1>a, <2>1, <2>3, FeedsAlone DEF Single, OwnContextIfReset
<1>4. CASE PrefillToken(u) \/ DecodeToken(u) \/ Retry(u)
  <2>1. pc[u] \in Reading
    BY <1>4 DEF PrefillToken, DecodeToken, Retry, Reading
  <2>2. PICK by \in Backends \cup {None} :
           /\ forward(item, by) \/ generate(item, by)
           /\ UNCHANGED used \/ (by # None /\ Accept(u, by))
    <3>1. CASE PrefillToken(u)
      <4>1. pc[u] = "prefill" /\ pc[u] \in Held
        BY <3>1 DEF PrefillToken, Held, Steps
      <4>2. pos = 1 /\ Prompt[1] = "bos" /\ Prompt[2] = "text"
        BY <4>1 DEF IInv, Locals, Prompt
      <4> QED BY <3>1, <4>2 DEF PrefillToken
    <3>2. CASE DecodeToken(u)
      BY <3>2 DEF DecodeToken
    <3>3. CASE Retry(u)
      BY <3>3 DEF Retry
    <3> QED BY <1>4, <3>1, <3>2, <3>3
  <2> HIDE DEF item
  <2>3. Feeds(item)
    BY <1>0, <2>2, GenerateKeeps, ForwardKeeps
  <2>4. Alone(u)'
    BY <1>0, <2>1, <2>3, FeedsAlone DEF Single
  <2>5. OwnContextIfReset'
    <3>1. CASE UNCHANGED used
      BY <1>0, <1>a, <3>1 DEF OwnContextIfReset
    <3>2. CASE by # None /\ Accept(u, by)
      BY <1>0, <1>a, <2>4, <3>2, AcceptAlone
    <3> QED BY <2>2, <3>1, <3>2
  <2> QED BY <1>a, <2>4, <2>5
<1> QED BY <1>1, <1>2, <1>3, <1>4 DEF Handler

(* A handler that touches the manager does so while no slot is taken.      *)
LEMMA HandlerSeats ==
    ASSUME IInv, NEW u \in Threads, Handler(u) \/ Hang(u) \/ Join(u)
    PROVE  \/ UNCHANGED mgrVars /\ UNCHANGED schedVars
           \/ \A o \in Owners, k \in Slots : ~Seated(o, k)'
<1>1. CASE Arrive(u) \/ Lock(u) \/ FutGet(u)
  BY <1>1 DEF Arrive, Lock, FutGet
<1>2. CASE Submit(u)
  <2>1. pending' = Append(pending, u) /\ pending \in Seq(Owners) /\ u \in Owners
    BY <1>2, RequestAssumption DEF Submit, submit, IInv, Types
  <2>2. pending' # <<>>
    BY <2>1
  <2> QED BY <2>2 DEF Seated
<1>3. CASE \/ SelectHandler(u) \/ Strategy(u) \/ Switch(u) \/ LoadModel(u) \/ Hang(u) \/ Join(u)
           \/ Vision(u) \/ Pick(u) \/ ResetSequence(u) \/ TryText(u) \/ PrefillToken(u)
           \/ DecodeToken(u) \/ Fallback(u) \/ Retry(u) \/ TimeOut(u)
  <2>1. pc[u] \in Held \ {"await"} /\ UNCHANGED schedVars
    BY <1>3 DEF SelectHandler, Strategy, Switch, LoadModel, Hang, Join, Vision, Pick, ResetSequence,
         TryText, PrefillToken, DecodeToken, Fallback, Retry, TimeOut, Held, Steps
  <2>2. Empty
    BY <2>1, HolderAlone DEF IInv
  <2>3. \A i \in Slots : slots'[i].state = "idle"
    BY <2>1, <2>2 DEF Empty, AllIdle, schedVars
  <2> QED BY <2>3 DEF Seated
<1> QED BY <1>1, <1>2, <1>3 DEF Handler

(* The decode thread: reset_slot() before a request's first token, and     *)
(* then only its tokens.                                                   *)
LEMMA AdmitNotes ==
    ASSUME admit_pending PROVE unreset \subseteq unreset'
<1> DEFINE idle == InState("idle")
           rank(i) == Cardinality({h \in idle : h =< i})
           taken == {i \in idle : rank(i) =< Len(pending)}
<1>1. \/ UNCHANGED unreset
      \/ \E ok \in BOOLEAN : unreset' = IF ok THEN unreset ELSE unreset \cup {pending[rank(i)] : i \in taken}
  BY Zenon DEF admit_pending
<1> HIDE DEF taken, rank
<1> QED BY <1>1

LEMMA SchedulerAlone ==
    ASSUME Backends = {Cpu}, IInv, Single, Scheduler
    PROVE  Single'
<1>0. Mgr /\ Types /\ OwnContextIfReset
  BY DEF IInv, Single
<1>1. UNCHANGED pc /\ DecodeThread
  BY DEF Scheduler
<1>2. ~Empty
  BY SchedulerBusy
<1>3. PICK o \in Owners : pc[o] = "await" /\ o \notin answered /\ (Queued(o) \/ \E k \in Slots : Seated(o, k))
  BY <1>2 DEF IInv, Sched
<1>4. \A t \in Threads : pc'[t] \notin Reading
  BY <1>1, <1>3, RequestAssumption DEF IInv, Mutex, Reading, Held, Steps
<1>a. Batch
  BY <1>3, RequestAssumption DEF IInv, NoBos
<1>5. ASSUME NEW k \in Slots, Seated(o, k)', o \in unreset' \/ Alone(o)', OwnContextIfReset' PROVE Single'
  <2>1. ASSUME NEW q \in Owners, NEW j \in Slots, Seated(q, j)' PROVE q = o
    BY <1>5, <2>1 DEF Seated
  <2> QED BY <1>4, <1>5, <1>a, <2>1 DEF Single
<1>6. CASE Queued(o)
  <2>1. admit_pending
    <3>1. InState("prefilling") = {} /\ InState("decoding") = {}
      BY <1>6 DEF Queued, AllIdle, InState
    <3> QED BY <1>1, <3>1 DEF DecodeThread, Prefill, Decode
  <2>2. Seated(o, 1)' /\ 1 \in Slots /\ UNCHANGED used
    BY <1>0, <1>6, <2>1, AdmitQueued DEF admit_pending
  <2>3. PICK ok \in BOOLEAN : reset_slot(ok) /\ (ok \/ o \in unreset')
    BY <1>6, <2>1, AdmitQueued
  <2>4. ok => Alone(o)'
    <3>1. SUFFICES ASSUME ok PROVE Alone(o)'
      OBVIOUS
    <3>2. kv' = [kv EXCEPT ![active] = {}] /\ active = Cpu
      BY <1>0, <2>3, <3>1 DEF reset_slot, Mgr
    <3> QED BY <1>0, <3>2 DEF Mgr, Alone
  <2>5. unreset \subseteq unreset'
    BY <2>1, AdmitNotes
  <2> QED BY <1>0, <1>5, <2>2, <2>3, <2>4, <2>5 DEF OwnContextIfReset
<1>7. ASSUME NEW k \in Slots, Seated(o, k) PROVE Single'
  <2>0. o \in unreset \/ Alone(o)
    BY <1>7 DEF Single
  <2>1. CASE admit_pending
    <3>1. UNCHANGED <<used, mgrVars, slots, pending, unreset>>
      BY <1>7, <2>1, AdmitSeated DEF admit_pending
    <3>2. Seated(o, k)' /\ (o \in unreset' \/ Alone(o)') /\ OwnContextIfReset'
      BY <1>0, <1>7, <2>0, <3>1 DEF mgrVars, Seated, Alone, OwnContextIfReset
    <3> QED BY <1>5, <3>2
  <2>2. CASE Prefill
    <3>1. PICK kind \in {"bos", "text"}, by \in Backends \cup {None} : generate(<<o, kind>>, by)
      BY <1>7, <2>2, PrefillSeated
    <3> DEFINE item == <<o, kind>>
    <3>2. item \in Items /\ item \in Mine(o) /\ generate(item, by)
      BY <3>1 DEF Items, Mine
    <3> HIDE DEF item
    <3>3. Alone(o) => Alone(o)'
      BY <1>0, <3>2, GenerateKeeps, FeedsAlone
    <3>4. Seated(o, k)' /\ UNCHANGED <<used, unreset>>
      BY <1>7, <2>2, PrefillSeated DEF Prefill
    <3> QED BY <1>0, <1>5, <2>0, <3>3, <3>4 DEF OwnContextIfReset
  <2>3. CASE Decode
    <3>1. PICK by \in Backends \cup {None} :
             generate(<<o, "text">>, by) /\ IF by = None THEN UNCHANGED used ELSE Credit(o, by)
      BY <1>7, <2>3, DecodeSeated
    <3> DEFINE item == <<o, "text">>
    <3>2. item \in Items /\ item \in Mine(o) /\ generate(item, by)
      BY <3>1 DEF Items, Mine
    <3> HIDE DEF item
    <3>0. UNCHANGED unreset
      BY <2>3 DEF Decode
    <3>3. Alone(o) => Alone(o)'
      BY <1>0, <3>2, GenerateKeeps, FeedsAlone
    <3>4. OwnContextIfReset'
      <4>1. CASE by = None
        BY <1>0, <3>0, <3>1, <4>1 DEF OwnContextIfReset
      <4>2. CASE by # None
        <5>1. o \in unreset \/ kv'[by] \subseteq Mine(o)
          BY <2>0, <3>3, <4>2 DEF Alone
        <5> QED BY <1>0, <3>0, <3>1, <4>2, <5>1, CreditIfReset
      <4> QED BY <4>1, <4>2
    <3>5. CASE Seated(o, k)'
      BY <1>5, <2>0, <3>0, <3>3, <3>4, <3>5
    <3>6. CASE Empty'
      BY <1>4, <1>a, <3>4, <3>6 DEF Single, Empty, AllIdle, Seated
    <3> QED BY <1>7, <2>3, <3>5, <3>6, DecodeSeated
  <2> QED BY <1>1, <2>1, <2>2, <2>3 DEF DecodeThread
<1> QED BY <1>3, <1>6, <1>7

(* With one backend a request is answered from its own tokens whatever     *)
(* fails, as long as it was given a clean cache to begin with: a handler   *)
(* gives up when the reset at the start of its sequence fails, and so      *)
(* without the scheduler no other request's tokens are ever used; with it  *)
(* only a request whose reset_slot() failed, which admit_pending() takes   *)
(* no notice of, can be answered from what the cache still has.            *)
THEOREM OwnTokensOneBackend ==
    ASSUME Backends = {Cpu} PROVE Spec => [](OwnContextIfReset /\ (~Batch => OwnContext))
<1>1. Init => Single
  BY RequestAssumption DEF Init, MgrInit, SchedInit, IdleSlot, Single, Reading, Alone, OwnContextIfReset
<1>2. IInv /\ Single /\ [Next]_vars => Single'
  <2> SUFFICES ASSUME IInv, Single, [Next]_vars PROVE Single'
    OBVIOUS
  <2>1. ASSUME NEW u \in Threads, Handler(u) \/ Hang(u) \/ Join(u) PROVE Single'
    <3>1. (pc'[u] \in Reading => Alone(u)') /\ OwnContextIfReset' /\ UNCHANGED unreset
      BY <2>1, HandlerAlone
    <3>2. ASSUME NEW t \in Threads, t # u, pc'[t] \in Reading PROVE Alone(t)'
      <4>1. pc[t] \in Reading /\ pc[t] \in Held /\ Alone(t)
        BY <2>1, <3>2, OthersWait DEF Single, Reading, Held, Steps
      <4>2. UNCHANGED mgrVars
        BY <2>1, <3>2, <4>1, OthersWait
      <4> QED BY <4>1, <4>2 DEF mgrVars, Alone
    <3>3. ASSUME NEW o \in Owners \ unreset, NEW k \in Slots, Seated(o, k)' PROVE Alone(o)'
      <4>1. UNCHANGED mgrVars /\ UNCHANGED schedVars
        BY <2>1, <3>3, HandlerSeats
      <4>2. Seated(o, k)
        BY <3>3, <4>1 DEF Seated, schedVars
      <4> QED BY <3>3, <4>1, <4>2 DEF Single, mgrVars, Alone
    <3> QED BY <3>1, <3>2, <3>3 DEF Single
  <2>2. CASE Scheduler
    BY <2>2, SchedulerAlone
  <2>3. CASE UNCHANGED vars
    BY <2>3 DEF vars, mgrVars, schedVars, Single, Alone, Seated, OwnContextIfReset
  <2> QED BY <2>1, <2>2, <2>3 DEF Next, Quiet
<1>3. Single => OwnContextIfReset /\ (~Batch => OwnContext)
  BY DEF Single, OwnContextIfReset, OwnContext
<1> QED BY <1>1, <1>2, <1>3, Inductive, PTL DEF Spec
-----------------------------------------------------------------------------
(* Which weights compute an answer.                                        *)

SeveralBackends == Cardinality(Backends) > 1

(* A model that only the scan of the directory finds is told from the      *)
(* others by its dimensions.                                               *)
DistinctDims == \A m \in Discovered \ Registered : \A l \in Models : Dims[l] = Dims[m] => l = m

(* Every backend that may be asked holds the manager's model: the entries  *)
(* of the router while there are any, and every instance once there are    *)
(* none.                                                                   *)
Weights ==
    /\ \A b \in routed : inst[b] = cfg
    /\ routed = {} => \A b \in Backends : inst[b] \in {None, cfg}

LEMMA GenerateWeights ==
    ASSUME OneFault, Mgr, Spared, Weights, NEW item \in Items, NEW by \in Backends \cup {None},
           generate(item, by)
    PROVE  Spared' /\ Weights' /\ UNCHANGED cfg /\ (by # None => inst'[by] = cfg)
<1> USE NoneAssumption, OrderAssumption
<1>1. Spared'
  BY GenerateOne
<1>2. CASE RouterServes(item, by)
  BY <1>1, <1>2 DEF RouterServes, Weights
<1>3. CASE ~RouterServes(item, by)
  <2>1. fails = 0 \/ routed = {}
    <3>1. SUFFICES ASSUME routed # {} PROVE fails = 0
      OBVIOUS
    <3>2. fails' > fails
      <4>1. CASE ActiveServes(item, by)
        BY <3>1, <4>1, FailAssumption DEF ActiveServes, Exhausted, Fail, Mgr
      <4>2. CASE FailoverServes(item, by)
        <5>1. PICK c \in Backends \cup {None}, kept \in {0, 1} :
                 \/ Fail(Exhausted + (IF Usable(active) THEN 1 ELSE 0) + InitFails(c) + kept)
                 \/ Fail(Exhausted + (IF Usable(active) THEN 1 ELSE 0) + InitFails(c) + kept + 1)
          BY <4>2, Zenon DEF FailoverServes
        <5> QED BY <3>1, <5>1, InitFailsType, FailAssumption DEF Exhausted, Fail, Mgr
      <4> QED BY <1>3, <4>1, <4>2 DEF generate
    <3>3. fails \in Nat /\ fails' \in 0 .. MaxFail /\ MaxFail \in Nat /\ MaxFail < 2
      BY GenerateKeeps, FailAssumption DEF Mgr, OneFault
    <3> QED BY <3>2, <3>3
  <2>2. \A b \in Backends : inst[b] \in {None, cfg}
    BY <2>1 DEF Spared, Weights
  <2>3. CASE ActiveServes(item, by)
    BY <1>1, <2>2, <2>3 DEF ActiveServes, Usable, Weights, Mgr
  <2>4. CASE FailoverServes(item, by)
    <3>1. PICK c \in Backends \cup {None} :
             Failover(c) /\ (by = c \/ by = None) /\ routed' = {} /\ UNCHANGED cfg
      BY <2>4, Zenon DEF FailoverServes
    <3>2. \A b \in Backends : inst'[b] \in {None, cfg}
      BY <2>2, <3>1 DEF Failover, Mgr
    <3>3. by # None => inst'[by] # None
      BY <3>1, FailoverKeeps
    <3> QED BY <1>1, <3>1, <3>2, <3>3 DEF Weights
  <2> QED BY <1>3, <2>3, <2>4 DEF generate
<1> QED BY <1>2, <1>3

LEMMA ForwardWeights ==
    ASSUME OneFault, Mgr, Spared, Weights, NEW item \in Items, NEW by \in Backends \cup {None},
           forward(item, by)
    PROVE  Spared' /\ Weights' /\ UNCHANGED cfg /\ (by # None => inst'[by] = cfg)
<1> DEFINE from == IF routed # {} THEN routed ELSE {b \in {active} : inst[b] # None}
<1>1. Spared' /\ UNCHANGED <<inst, routed, cfg>>
  BY ForwardOne DEF forward
<1>2. by # None => by \in from
  BY Zenon DEF forward
<1>3. \A b \in from : inst[b] = cfg
  BY DEF Weights, Mgr
<1> QED BY <1>1, <1>2, <1>3 DEF Weights

LEMMA TextWeights ==
    ASSUME OneFault, Mgr, Spared, Weights, generate_text
    PROVE  Spared' /\ Weights' /\ UNCHANGED cfg
<1> USE NoneAssumption, OrderAssumption
<1>1. Spared'
  BY TextOne
<1>2. CASE routed # {}
  BY <1>1, <1>2 DEF generate_text, mgrVars, Weights
<1>3. CASE routed = {}
  <2>1. PICK c \in Backends \cup {None} : Failover(c) /\ UNCHANGED <<routed, cfg>>
    BY <1>3, Zenon DEF generate_text
  <2> QED BY <1>1, <1>3, <2>1 DEF Failover, Weights, Mgr
<1> QED BY <1>2, <1>3

LEMMA LoadWeights ==
    ASSUME OneFault, SeveralBackends, Mgr, Spared, NEW m \in Models, init_in_order(m)
    PROVE  Spared' /\ Weights' /\ cfg' = m
<1>1. Spared'
  BY LoadOne
<1>2. PICK good \in SUBSET Backends, stuck \in SUBSET Backends, spare \in SUBSET Backends :
        LET bad == Backends \ (good \cup stuck \cup spare)
        IN  /\ spare # {} => good \ {Cpu} # {}
            /\ Fail(Cardinality(bad \cup stuck))
            /\ inst' = [b \in Backends |-> IF b \in good THEN m
                                           ELSE IF b \in stuck THEN inst[b] ELSE None]
            /\ routed' = good
            /\ cfg' = m
  BY Zenon DEF init_in_order
<1>3. good # {}
  <2>1. SUFFICES ASSUME good = {} PROVE FALSE
    OBVIOUS
  <2>2. (Backends \ (good \cup stuck \cup spare)) \cup stuck = Backends
    BY <1>2, <2>1
  <2>3. Fail(Cardinality(Backends)) /\ Cardinality(Backends) \in Nat
    BY <1>2, <2>2, BackendsFinite
  <2> QED BY <2>3, OneFails DEF SeveralBackends
<1> QED BY <1>1, <1>2, <1>3 DEF Weights

LEMMA OtherWeights ==
    ASSUME Mgr, Spared, Weights
    PROVE  /\ \A b : select_backend(b) => Spared' /\ Weights' /\ UNCHANGED cfg
           /\ \A s : set_strategy(s) => Spared' /\ Weights' /\ UNCHANGED cfg
           /\ \A item : forward_embed(item) => Spared' /\ Weights' /\ UNCHANGED cfg
           /\ \A ok : reset_slot(ok) => Spared' /\ Weights' /\ UNCHANGED cfg
           /\ UNCHANGED mgrVars => Spared' /\ Weights' /\ UNCHANGED cfg
<1>1. ASSUME NEW ok, reset_slot(ok) PROVE Spared' /\ Weights' /\ UNCHANGED cfg
  <2>1. fails \in Nat /\ (fails' = fails \/ fails' = fails + 1)
    BY <1>1, FailAssumption DEF reset_slot, Fail, Mgr
  <2>2. fails' = 0 => fails = 0
    BY <2>1
  <2>3. UNCHANGED <<inst, functional, routed, active, cfg>>
    BY <1>1 DEF reset_slot
  <2> QED BY <2>2, <2>3 DEF Spared, Weights
<1> QED
  BY <1>1, OtherOne DEF Spared, Weights, select_backend, set_strategy, re_evaluate, forward_embed, mgrVars

(* What the name in a request, current_cfg and the manager's model have to *)
(* do with each other.                                                     *)
Loading == {"init", "join"}

NamedAt(t) ==
    /\ pc[t] \in Loading => want[t].model = current_cfg
    /\ pc[t] # "idle" /\ Requests[t].model # None
          => want[t] = Name(Requests[t].model, Requests[t].spelled)
    /\ pc[t] \in Held \ {"strategy", "select", "switch"} /\ Requests[t].model # None
          => current_cfg = Requests[t].model

Named ==
    /\ (\A t \in Threads : pc[t] \notin Loading) => cfg = current_cfg
    /\ \A t \in Threads : NamedAt(t)

Matched == Spared /\ Weights /\ Named /\ AnswerMatchesModel

LEMMA CreditMatches ==
    ASSUME Types, AnswerMatchesModel, NEW o \in Owners, NEW by \in Backends, Credit(o, by),
           Requests[o].model # None => inst'[by] = Requests[o].model
    PROVE  AnswerMatchesModel'
<1> DEFINE e == [items    |-> used[o].items \cup kv'[by],
                 weights  |-> used[o].weights \cup {inst'[by]},
                 backends |-> used[o].backends \cup {by}]
<1>1. used' = [used EXCEPT ![o] = e]
  BY DEF Credit
<1>2. e.weights = used[o].weights \cup {inst'[by]}
  OBVIOUS
<1> HIDE DEF e
<1>3. used'[o] = e /\ \A q \in Owners : q # o => used'[q] = used[q]
  BY <1>1 DEF Types
<1>4. Requests[o].model # None => used'[o].weights \subseteq {Requests[o].model}
  BY <1>2, <1>3, RequestAssumption DEF AnswerMatchesModel
<1> QED BY <1>3, <1>4, RequestAssumption DEF AnswerMatchesModel

(* What a handler does to the manager, and whose prediction it takes.      *)
LEMMA HandlerWeights ==
    ASSUME OneFault, SeveralBackends, IInv, Spared, Weights,
           NEW u \in Threads, Handler(u) \/ Hang(u) \/ Join(u)
    PROVE  /\ Spared' /\ Weights'
           /\ \/ (LoadModel(u) \/ Join(u)) /\ cfg' = want[u].model
              \/ ~(LoadModel(u) \/ Join(u)) /\ UNCHANGED cfg
           /\ \/ UNCHANGED used
              \/ /\ pc[u] \in {"decode", "retry"}
                 /\ \E by \in Backends : Credit(u, by) /\ inst'[by] = cfg
<1> DEFINE item(kind) == <<u, kind>>
<1>0. Mgr
  BY DEF IInv
<1>1. \A kind \in {"text", "image"} : item(kind) \in Items
  BY RequestAssumption DEF Items
<1>2. CASE LoadModel(u) \/ Join(u)
  <2>1. want[u].model \in Models /\ init_in_order(want[u].model) /\ UNCHANGED used
    BY <1>2 DEF LoadModel, Join, IInv, Locals, Held, Steps
  <2> QED BY <1>0, <1>2, <2>1, LoadWeights
<1>3. ASSUME ~(LoadModel(u) \/ Join(u)), UNCHANGED used,
             \/ UNCHANGED mgrVars \/ generate_text
             \/ \E b : select_backend(b) \/ \E s : set_strategy(s) \/ \E ok \in BOOLEAN : reset(ok)
             \/ \E kind \in {"text", "image"} :
                   forward_embed(item(kind)) \/ \E by \in Backends \cup {None} : generate(item(kind), by)
      PROVE  Spared' /\ Weights' /\ UNCHANGED cfg
  <2>1. ASSUME NEW ok \in BOOLEAN, reset(ok) PROVE Spared' /\ Weights' /\ UNCHANGED cfg
    <3>1. Spared' /\ UNCHANGED <<inst, routed, cfg>>
      BY <1>0, <2>1, ResetOne DEF reset
    <3> QED BY <3>1 DEF Weights
  <2>2. ASSUME NEW kind \in {"text", "image"}, NEW by \in Backends \cup {None}, generate(item(kind), by)
        PROVE  Spared' /\ Weights' /\ UNCHANGED cfg
    <3> DEFINE it == item(kind)
    <3>1. it \in Items /\ generate(it, by)
      BY <1>1, <2>2
    <3> HIDE DEF it
    <3> QED BY <1>0, <3>1, GenerateWeights
  <2> HIDE DEF item
  <2> QED BY <1>0, <1>3, <2>1, <2>2, TextWeights, OtherWeights
<1>4. CASE \/ Arrive(u) \/ Lock(u) \/ Switch(u) \/ Hang(u) \/ TimeOut(u) \/ Submit(u) \/ FutGet(u)
  <2>1. ~(LoadModel(u) \/ Join(u)) /\ UNCHANGED used /\ UNCHANGED mgrVars
    <3>1. UNCHANGED used /\ UNCHANGED mgrVars
      BY <1>4 DEF Arrive, Lock, Switch, Hang, TimeOut, Submit, FutGet
    <3>2. Hang(u) => ~LoadModel(u) /\ ~Join(u)
      BY DEF Hang, LoadModel, Join, Goto, Loaded, IInv, Types
    <3>3. ~Hang(u) => ~LoadModel(u) /\ ~Join(u)
      BY <1>4 DEF Arrive, Lock, Switch, TimeOut, Submit, FutGet, LoadModel, Join
    <3> QED BY <3>1, <3>2, <3>3
  <2> QED BY <1>0, <2>1, OtherWeights
<1>5. CASE SelectHandler(u) \/ Strategy(u) \/ Pick(u) \/ TryText(u) \/ Fallback(u)
  <2>1. /\ ~(LoadModel(u) \/ Join(u)) /\ UNCHANGED used
        /\ \/ UNCHANGED mgrVars \/ generate_text
           \/ \E b : select_backend(b) \/ \E s : set_strategy(s)
    BY <1>5, Zenon DEF SelectHandler, Strategy, Pick, TryText, Fallback, LoadModel, Join
  <2> QED BY <1>0, <2>1, TextWeights, OtherWeights
<1>6. CASE Vision(u)
  <2>1. ~(LoadModel(u) \/ Join(u)) /\ UNCHANGED used
    BY <1>6 DEF Vision, LoadModel, Join
  <2>2. forward_embed(item("image")) \/ \E by \in Backends \cup {None} : generate(item("image"), by)
    BY <1>6 DEF Vision
  <2> QED BY <1>3, <2>1, <2>2
<1>7. CASE ResetSequence(u)
  <2>1. ~(LoadModel(u) \/ Join(u)) /\ UNCHANGED used /\ \E ok \in BOOLEAN : reset(ok)
    BY <1>7 DEF ResetSequence, LoadModel, Join
  <2> QED BY <1>3, <2>1
<1>8. CASE PrefillToken(u)
  <2>1. pc[u] = "prefill" /\ pc[u] \in Held
    BY <1>8 DEF PrefillToken, Held, Steps
  <2>2. pos = 1 /\ Prompt[1] = "bos" /\ Prompt[2] = "text"
    BY <2>1 DEF IInv, Locals, Prompt
  <2>3. UNCHANGED used /\ ~(LoadModel(u) \/ Join(u)) /\ \E by \in Backends \cup {None} : generate(item("text"), by)
    BY <1>8, <2>2 DEF PrefillToken, LoadModel, Join
  <2> QED BY <1>3, <2>3
<1>9. CASE DecodeToken(u) \/ Retry(u)
  <2> DEFINE it == item("text")
  <2>1. /\ ~(LoadModel(u) \/ Join(u)) /\ pc[u] \in {"decode", "retry"} /\ it \in Items
        /\ \E by \in Backends \cup {None} :
              /\ forward(it, by) \/ generate(it, by)
              /\ UNCHANGED used \/ (by # None /\ Credit(u, by))
    BY <1>1, <1>9 DEF DecodeToken, Retry, Accept, LoadModel, Join
  <2> HIDE DEF it
  <2>2. PICK by \in Backends \cup {None} :
              /\ forward(it, by) \/ generate(it, by)
              /\ UNCHANGED used \/ (by # None /\ Credit(u, by))
    BY <2>1
  <2>3. Spared' /\ Weights' /\ UNCHANGED cfg /\ (by # None => inst'[by] = cfg)
    BY <1>0, <2>1, <2>2, GenerateWeights, ForwardWeights
  <2> QED BY <2>1, <2>2, <2>3
<1> QED BY <1>2, <1>4, <1>5, <1>6, <1>7, <1>8, <1>9 DEF Handler

(* The model switch: what is loaded, or was, is what the request names.    *)
LEMMA SwitchNamed ==
    ASSUME DistinctDims, IInv, NEW u \in Threads, NamedAt(u), Switch(u)
    PROVE  NamedAt(u)' /\ (pc'[u] \notin Loading => UNCHANGED current_cfg)
<1> USE NoneAssumption
<1> DEFINE w == want[u]
           m == w.model
           other == w # NoName /\ w # Name(current_cfg, "name")
           byRegistry == other /\ m \in Registered
           found == w.spelled = "name" /\ m \in Discovered
           byScan == found /\ Dims[m] # Dims[IF byRegistry THEN m ELSE current_cfg]
<1>0. pc \in [Threads -> Steps] /\ pc[u] = "switch" /\ UNCHANGED want /\ current_cfg \in Models
  BY DEF IInv, Types, Switch
<1>1. Requests[u].model # None => w = Name(Requests[u].model, Requests[u].spelled)
  BY <1>0 DEF NamedAt
<1>2. CASE byRegistry \/ byScan
  <2>1. current_cfg' = m /\ pc'[u] = "init"
    BY <1>0, <1>2 DEF Switch, Goto
  <2>2. want'[u].model = m
    BY <1>0
  <2>3. Requests[u].model # None => m = Requests[u].model /\ w = Name(Requests[u].model, Requests[u].spelled)
    BY <1>1 DEF Name
  <2> HIDE DEF m, byRegistry, byScan
  <2>4. NamedAt(u)'
    BY <1>0, <2>1, <2>2, <2>3 DEF NamedAt
  <2> QED BY <2>1, <2>4 DEF Loading
<1>3. CASE ~(byRegistry \/ byScan)
  <2>1. /\ current_cfg' = current_cfg
        /\ IF other /\ ~(other /\ m = current_cfg) /\ ~found THEN pc'[u] = "done" ELSE pc'[u] = Loaded(u)
    BY <1>0, <1>3 DEF Switch, Finish, Goto
  <2>2. pc'[u] \in {"done", "submit", "vision", "pick"}
    BY <2>1 DEF Loaded
  <2>3. ASSUME Requests[u].model # None, pc'[u] # "done" PROVE current_cfg = Requests[u].model
    <3>1. m = Requests[u].model /\ m # None /\ w # NoName
      BY <1>1, <2>3 DEF Name, NoName
    <3>2. CASE ~other
      BY <3>1, <3>2 DEF Name
    <3>3. CASE other /\ m = current_cfg
      BY <3>1, <3>3
    <3>4. CASE other /\ found
      <4>1. m \in Discovered \ Registered /\ Dims[current_cfg] = Dims[m]
        BY <1>3, <3>4
      <4> QED BY <1>0, <3>1, <4>1 DEF DistinctDims
    <3> QED BY <2>1, <2>3, <3>2, <3>3, <3>4
  <2> HIDE DEF m, w, other, byRegistry, found, byScan
  <2> QED BY <1>0, <1>1, <2>1, <2>2, <2>3 DEF NamedAt, Loading, Held, w
<1> QED BY <1>2, <1>3

(* A step of a handler keeps the names.                                    *)
LEMMA HandlerNamed ==
    ASSUME OneFault, SeveralBackends, DistinctDims, IInv, Matched,
           NEW u \in Threads, Handler(u) \/ Hang(u) \/ Join(u)
    PROVE  Named'
<1>0. /\ pc \in [Threads -> Steps] /\ want \in [Threads -> Names]
      /\ Named /\ NamedAt(u) /\ Spared /\ Weights
  BY DEF IInv, Types, Matched, Named
<1>1. \A t \in Threads : t # u => pc'[t] = pc[t]
  BY OthersWait
<1>2. CASE Arrive(u)
  <2>1. /\ pc[u] = "idle" /\ pc'[u] = "lock" /\ UNCHANGED <<cfg, current_cfg>>
        /\ \A t \in Threads : t # u => want'[t] = want[t]
        /\ Requests[u].model # None => want'[u] = Name(Requests[u].model, Requests[u].spelled)
    BY <1>0, <1>2 DEF Arrive, Goto, mgrVars
  <2>2. \A t \in Threads : t # u => NamedAt(t)'
    BY <1>0, <1>1, <2>1 DEF NamedAt, Named
  <2>3. NamedAt(u)'
    BY <2>1 DEF NamedAt, Loading, Held
  <2>4. (\A t \in Threads : pc'[t] \notin Loading) => \A t \in Threads : pc[t] \notin Loading
    BY <1>1, <2>1 DEF Loading
  <2> QED BY <1>0, <2>1, <2>2, <2>3, <2>4 DEF Named
<1>3. CASE Lock(u)
  <2>1. pc[u] = "lock" /\ pc'[u] \in {"select", "strategy"} /\ UNCHANGED <<cfg, current_cfg, want>>
    BY <1>0, <1>3 DEF Lock, Goto, mgrVars
  <2>2. \A t \in Threads : t # u => NamedAt(t)'
    BY <1>0, <1>1, <2>1 DEF NamedAt, Named
  <2>3. NamedAt(u)'
    BY <1>0, <2>1 DEF NamedAt, Loading, Held
  <2>4. (\A t \in Threads : pc'[t] \notin Loading) => \A t \in Threads : pc[t] \notin Loading
    BY <1>1, <2>1 DEF Loading
  <2> QED BY <1>0, <2>1, <2>2, <2>3, <2>4 DEF Named
<1>4. CASE ~Arrive(u) /\ ~Lock(u)
  <2>1. pc[u] \in Held /\ UNCHANGED want /\ \A t \in Threads : t # u => pc[t] \notin Held /\ pc[t] \notin Loading
    <3>1. pc[u] \in Held /\ \A t \in Threads : t # u => pc[t] \notin Held
      BY <1>4, OthersWait
    <3>2. UNCHANGED want
      BY <1>4 DEF Handler, SelectHandler, Strategy, Switch, LoadModel, Hang, Join, Vision, Pick,
         ResetSequence, TryText, PrefillToken, DecodeToken, Fallback, Retry, TimeOut, Submit, FutGet
    <3> QED BY <3>1, <3>2 DEF Loading, Held, Steps
  <2>2. \A t \in Threads : t # u => NamedAt(t)'
    BY <1>0, <1>1, <2>1 DEF NamedAt, Named
  <2>3. pc[u] \notin Loading => cfg = current_cfg
    BY <1>0, <2>1 DEF Named
  <2>4. SUFFICES NamedAt(u)' /\ (pc'[u] \notin Loading => cfg' = current_cfg')
    BY <2>2 DEF Named
  <2>5. CASE Switch(u)
    <3>1. pc[u] = "switch" /\ UNCHANGED cfg
      BY <2>5 DEF Switch, mgrVars
    <3> QED BY <1>0, <2>3, <2>5, <3>1, SwitchNamed DEF Loading
  <2>6. CASE LoadModel(u) \/ Join(u)
    <3>1. /\ pc[u] \in Loading /\ pc[u] \in Held \ {"strategy", "select", "switch"}
          /\ pc'[u] \in {"submit", "vision", "pick"} /\ UNCHANGED current_cfg
      BY <1>0, <2>6 DEF LoadModel, Join, Loading, Goto, Loaded, Held, Steps
    <3>2. cfg' = current_cfg
      BY <1>0, <2>6, <3>1, HandlerWeights DEF NamedAt
    <3> QED BY <1>0, <2>1, <3>1, <3>2 DEF NamedAt, Loading
  <2>7. CASE Hang(u)
    <3>1. pc[u] = "init" /\ pc'[u] = "join" /\ UNCHANGED current_cfg
      BY <1>0, <2>7 DEF Hang, Goto
    <3> QED BY <1>0, <2>1, <3>1 DEF NamedAt, Loading, Held, Steps
  <2>8. CASE ~Switch(u) /\ ~LoadModel(u) /\ ~Join(u) /\ ~Hang(u)
    <3>1. UNCHANGED current_cfg /\ UNCHANGED cfg
      <4>1. UNCHANGED cfg
        BY <1>0, <2>8, HandlerWeights
      <4>2. UNCHANGED current_cfg
        BY <1>4, <2>8 DEF Handler, SelectHandler, Strategy, Vision, Pick,
           ResetSequence, TryText, PrefillToken, DecodeToken, Fallback, Retry, TimeOut, Submit, FutGet
      <4> QED BY <4>1, <4>2
    <3>2. /\ pc[u] \notin Loading /\ pc'[u] \notin Loading /\ pc[u] # "switch"
          /\ pc[u] \in {"strategy", "select"} => pc'[u] \in {"switch", "done"}
      BY <1>0, <1>4, <2>8 DEF Handler, SelectHandler, Strategy, Vision, Pick, Loading,
         ResetSequence, TryText, PrefillToken, DecodeToken, Accept, Fallback, Retry, TimeOut, Submit, FutGet,
         Finish, Goto
    <3>3. pc[u] # "idle"
      BY <2>1 DEF Held
    <3> QED BY <1>0, <2>1, <2>3, <3>1, <3>2, <3>3 DEF NamedAt, Held
  <2> QED BY <2>5, <2>6, <2>7, <2>8
<1> QED BY <1>2, <1>3, <1>4

(* The decode thread computes for the handler that waits, whose model is   *)
(* the one loaded.                                                         *)
LEMMA SchedulerMatched ==
    ASSUME OneFault, SeveralBackends, IInv, Matched, Scheduler
    PROVE  Matched'
<1>0. Mgr /\ Types /\ Spared /\ Weights /\ Named /\ AnswerMatchesModel
  BY DEF IInv, Matched
<1>1. UNCHANGED <<pc, want, current_cfg>> /\ DecodeThread
  BY DEF Scheduler
<1>2. ~Empty
  BY SchedulerBusy
<1>3. PICK o \in Owners : pc[o] = "await" /\ (Queued(o) \/ \E k \in Slots : Seated(o, k))
  BY <1>2 DEF IInv, Sched
<1>4. Requests[o].model # None => cfg = Requests[o].model
  <2>1. \A t \in Threads : pc[t] \notin Loading
    BY <1>3, RequestAssumption DEF IInv, Mutex, Loading, Held, Steps
  <2>2. NamedAt(o) /\ cfg = current_cfg
    BY <1>0, <2>1, RequestAssumption DEF Named
  <2> QED BY <1>3, <2>2 DEF NamedAt, Held, Steps
<1>5. ASSUME Spared', Weights', UNCHANGED cfg, AnswerMatchesModel' PROVE Matched'
  BY <1>0, <1>1, <1>5 DEF Matched, Named, NamedAt
<1>6. CASE admit_pending
  <2>1. UNCHANGED used /\ (UNCHANGED mgrVars \/ \E ok : reset_slot(ok))
    BY <1>6 DEF admit_pending
  <2> QED BY <1>0, <1>5, <2>1, OtherWeights DEF AnswerMatchesModel
<1>7. CASE ~admit_pending
  <2>1. PICK k \in Slots : Seated(o, k)
    <3>1. CASE Queued(o)
      <4>1. InState("prefilling") = {} /\ InState("decoding") = {}
        BY <3>1 DEF Queued, AllIdle, InState
      <4> QED BY <1>1, <1>7, <4>1 DEF DecodeThread, Prefill, Decode
    <3> QED BY <1>3, <3>1
  <2>2. PICK kind \in {"bos", "text"}, by \in Backends \cup {None} :
           generate(<<o, kind>>, by) /\ (UNCHANGED used \/ (by # None /\ Credit(o, by)))
    <3>1. CASE Prefill
      <4>1. UNCHANGED used
        BY <3>1 DEF Prefill
      <4> QED BY <2>1, <3>1, <4>1, PrefillSeated
    <3>2. CASE Decode
      <4>1. \E by \in Backends \cup {None} :
               generate(<<o, "text">>, by) /\ IF by = None THEN UNCHANGED used ELSE Credit(o, by)
        BY <2>1, <3>2, DecodeSeated
      <4> QED BY <4>1
    <3> QED BY <1>1, <1>7, <3>1, <3>2 DEF DecodeThread
  <2> DEFINE item == <<o, kind>>
  <2>3. item \in Items /\ generate(item, by)
    BY <2>2 DEF Items
  <2> HIDE DEF item
  <2>4. Spared' /\ Weights' /\ UNCHANGED cfg /\ (by # None => inst'[by] = cfg)
    BY <1>0, <2>3, GenerateWeights
  <2>5. AnswerMatchesModel'
    <3>1. CASE UNCHANGED used
      BY <1>0, <3>1 DEF AnswerMatchesModel
    <3>2. CASE by # None /\ Credit(o, by)
      BY <1>0, <1>4, <2>4, <3>2, CreditMatches
    <3> QED BY <2>2, <3>1, <3>2
  <2> QED BY <1>5, <2>4, <2>5
<1> QED BY <1>6, <1>7

(* "Never answer a request for model X with model Y": whichever backend    *)
(* predicts a token, also after the failover of generate() or the fallback *)
(* loop, it holds the weights of the model the request names.  At most one *)
(* call of a backend fails, there is more than one backend, and the scan   *)
(* tells an artifact that the registry does not have by its dimensions.    *)
THEOREM NeverTheWrongModel ==
    ASSUME OneFault, SeveralBackends, DistinctDims PROVE Spec => []AnswerMatchesModel
<1>1. Init => Matched
  <2> SUFFICES ASSUME Init PROVE Matched
    OBVIOUS
  <2>1. Spared /\ Weights
    BY NoneAssumption, OrderAssumption, ModelAssumption DEF Init, MgrInit, Spared, Weights
  <2>2. Named
    BY DEF Init, MgrInit, Named, NamedAt, Loading, Held
  <2>3. AnswerMatchesModel
    BY RequestAssumption DEF Init, MgrInit, AnswerMatchesModel
  <2> QED BY <2>1, <2>2, <2>3 DEF Matched
<1>2. IInv /\ Matched /\ [Next]_vars => Matched'
  <2> SUFFICES ASSUME IInv, Matched, [Next]_vars PROVE Matched'
    OBVIOUS
  <2>1. ASSUME NEW u \in Threads, Handler(u) \/ Hang(u) \/ Join(u) PROVE Matched'
    <3>1. Spared /\ Weights /\ Named /\ AnswerMatchesModel /\ Types
      BY DEF Matched, IInv
    <3>2. Spared' /\ Weights' /\ Named'
      BY <2>1, <3>1, HandlerWeights, HandlerNamed
    <3>3. AnswerMatchesModel'
      <4>1. CASE UNCHANGED used
        BY <3>1, <4>1 DEF AnswerMatchesModel
      <4>2. CASE ~UNCHANGED used
        <5>1. PICK by \in Backends : Credit(u, by) /\ inst'[by] = cfg /\ pc[u] \in {"decode", "retry"}
          BY <2>1, <3>1, <4>2, HandlerWeights
        <5>2. pc[u] \in Held \ {"strategy", "select", "switch"} /\ \A t \in Threads : pc[t] \notin Loading
          BY <5>1 DEF IInv, Mutex, Loading, Held, Steps
        <5>3. Requests[u].model # None => cfg = Requests[u].model
          BY <3>1, <5>2 DEF Named, NamedAt
        <5> QED BY <3>1, <5>1, <5>3, CreditMatches, RequestAssumption
      <4> QED BY <4>1, <4>2
    <3> QED BY <3>2, <3>3 DEF Matched
  <2>2. CASE Scheduler
    BY <2>2, SchedulerMatched
  <2>3. CASE UNCHANGED vars
    BY <2>3 DEF vars, mgrVars, Matched, Spared, Weights, Named, NamedAt, AnswerMatchesModel
  <2> QED BY <2>1, <2>2, <2>3 DEF Next, Quiet
<1>3. Matched => AnswerMatchesModel
  BY DEF Matched
<1> QED BY <1>1, <1>2, <1>3, Inductive, PTL DEF Spec
=============================================================================
