--------------------------- MODULE BackendManager ---------------------------
(***************************************************************************)
(* BackendManager (src/src/backend_manager.cpp) as a caller that holds     *)
(* unified_server's g_inference_mutex sees it: every operation is one      *)
(* action, because no other caller runs.  The per-token router inside it   *)
(* is specified in DynamicRouter; here it serves a token on one of its     *)
(* entries or is exhausted.                                                *)
(*                                                                         *)
(* A cache is the set of what was fed into it: whose request it was and    *)
(* whether it was the BOS token, text, or an image.  The order and the     *)
(* number of the tokens do not matter to the properties.  Backends are     *)
(* token-level: their generate_text() is Backend's default, which returns  *)
(* the empty string (src/src/backend.h:88).                                *)
(***************************************************************************)
EXTENDS Naturals, FiniteSets, Sequences

CONSTANTS
    Order,     \* fallback_order(): the discovered backends, preferred first
    Cpu,       \* the backend of tier T3_CPU
    Models,    \* the models that can be loaded
    Owners,    \* the requests
    MaxFail,   \* bound: calls of a backend that fail
    None       \* no backend, no instance

Backends == {Order[i] : i \in DOMAIN Order}

ASSUME OrderAssumption ==
    /\ Order \in Seq(Backends)
    /\ \A i, j \in DOMAIN Order : Order[i] = Order[j] => i = j
    /\ Cpu \in Backends /\ None \notin Backends

ASSUME NoneAssumption == None \notin Models \cup Owners

ASSUME FailAssumption == MaxFail \in Nat

Position(b) == CHOOSE i \in DOMAIN Order : Order[i] = b

VARIABLES
    inst,        \* BackendInfo::instance: the model whose weights it holds
    functional,  \* BackendInfo::functional
    routed,      \* the entries of router_
    active,      \* active_idx_
    cfg,         \* cfg_
    kv,          \* the cache of each instance
    fails,       \* calls of a backend that failed so far
    used         \* what the tokens of each request's answer came from

mgrVars == <<inst, functional, routed, active, cfg, kv, fails>>

Items == Owners \X {"bos", "text", "image"}

MgrTypeOK ==
    /\ inst \in [Backends -> Models \cup {None}]
    /\ functional \subseteq Backends
    /\ routed \subseteq Backends
    /\ active \in Backends
    /\ cfg \in Models
    /\ kv \in [Backends -> SUBSET Items]
    /\ fails \in 0 .. MaxFail
    /\ used \in [Owners -> [items : SUBSET Items, weights : SUBSET Models,
                            backends : SUBSET Backends]]

\* The manager after start-up loaded m: every backend of Order initialised,
\* and one of them selected from the route's order.
MgrInit(m) ==
    /\ inst = [b \in Backends |-> m]
    /\ functional = Backends
    /\ routed = Backends
    /\ active = Order[1]
    /\ cfg = m
    /\ kv = [b \in Backends |-> {}]
    /\ fails = 0
    /\ used = [o \in Owners |-> [items |-> {}, weights |-> {}, backends |-> {}]]

\* info.functional && info.instance
Usable(b) == b \in functional /\ inst[b] # None

\* n backend calls fail in this step; MaxFail bounds them.
Fail(n) == /\ fails + n =< MaxFail
           /\ fails' = fails + n

Fed(b, item) == [kv EXCEPT ![b] = @ \cup {item}]

\* Backend `by` predicted a token of o's answer.
Credit(o, by) ==
    used' = [used EXCEPT ![o] =
                [items    |-> @.items \cup kv'[by],
                 weights  |-> @.weights \cup {inst'[by]},
                 backends |-> @.backends \cup {by}]]

-----------------------------------------------------------------------------
(* Selection *)

\* A request for a backend by id; it takes effect only if it is functional.
select_backend(b) ==
    /\ active' = IF b \in functional THEN b ELSE active
    /\ UNCHANGED <<inst, functional, routed, cfg, kv, fails>>

\* set_strategy() with every strategy but MANUAL re-evaluates: the backends
\* are sorted again and the best functional one becomes active.  With no
\* functional one active_idx_ stays, and so names whatever was sorted there.
re_evaluate ==
    /\ active' \in IF functional = {} THEN Backends ELSE functional
    /\ UNCHANGED <<inst, functional, routed, cfg, kv, fails>>

set_strategy(strategy) ==
    IF strategy = "manual" THEN UNCHANGED mgrVars ELSE re_evaluate

-----------------------------------------------------------------------------
(* Failover.  c is the backend it lands on, None when it finds none.  The  *)
(* backends it passes over on the way are not functional, or have no       *)
(* instance and fail the on-demand init.                                   *)

Passed(c) == {d \in Backends \ {active, c} :
                 c = None \/ Position(d) < Position(c)}

InitFails(c) == Cardinality({d \in Passed(c) : inst[d] = None})

Lands(c) ==
    /\ c \in (Backends \ {active}) \cup {None}
    /\ c # None => inst[c] = None \/ c \in functional
    /\ \A d \in Passed(c) : inst[d] = None \/ d \notin functional

Failover(c) ==
    /\ Lands(c)
    /\ inst' = IF c # None /\ inst[c] = None THEN [inst EXCEPT ![c] = cfg] ELSE inst
    /\ active' = IF c = None THEN active ELSE c

-----------------------------------------------------------------------------
(* Inference.  `by` is the backend whose prediction the call returns, None *)
(* when it returns -1.                                                     *)

RouterServes(item, by) ==
    /\ by \in routed
    /\ kv' = Fed(by, item)
    /\ UNCHANGED <<inst, functional, routed, active, cfg, fails>>

\* Getting past a router that has entries takes a failed call.
Exhausted == IF routed = {} THEN 0 ELSE 1

ActiveServes(item, by) ==
    /\ Usable(active)
    /\ by = active
    /\ Fail(Exhausted)
    /\ routed' = {}
    /\ kv' = Fed(by, item)
    /\ UNCHANGED <<inst, functional, active, cfg>>

\* What failover()'s reset leaves in the cache of the backend it lands on.
\* Its result is not looked at; `kept` is 1 when it fails.
Left(c, kept) == IF kept = 1 THEN kv[c] ELSE {}

\* The active backend failed or is not usable.
FailoverServes(item, by) ==
    \E c \in Backends \cup {None}, kept \in {0, 1} :
        LET failed == Exhausted + (IF Usable(active) THEN 1 ELSE 0) + InitFails(c) + kept
        IN  /\ Failover(c)
            /\ \/ /\ c # None /\ by = c
                  /\ Fail(failed)
                  /\ functional' = (functional \ {active}) \cup {c}
                  /\ kv' = [kv EXCEPT ![c] = Left(c, kept) \cup {item}]
               \/ /\ c # None /\ by = None
                  /\ Fail(failed + 1)
                  /\ functional' = functional \ {active, c}
                  /\ kv' = [kv EXCEPT ![c] = Left(c, kept)]
               \/ /\ c = None /\ by = None /\ kept = 0
                  /\ Fail(failed)
                  /\ functional' = functional \ {active}
                  /\ UNCHANGED kv
            /\ routed' = {}
            /\ UNCHANGED cfg

generate(item, by) ==
    \/ RouterServes(item, by)
    \/ ActiveServes(item, by)
    \/ FailoverServes(item, by)

\* forward() followed by lm_head(): no failover, and the active backend is
\* used whether or not it is marked functional.  When lm_head() is the call
\* that fails the cache has the token already.
forward(item, by) ==
    /\ LET from == IF routed # {} THEN routed ELSE {b \in {active} : inst[b] # None}
       IN  \/ by \in from /\ kv' = Fed(by, item) /\ UNCHANGED fails
           \/ by = None /\ from # {} /\ Fail(1)
              /\ kv' \in {kv} \cup {Fed(b, item) : b \in from}
           \/ by = None /\ from = {} /\ UNCHANGED <<kv, fails>>
    /\ UNCHANGED <<inst, functional, routed, active, cfg>>

\* Whole-prompt generation, which no token-level backend implements.  With
\* no router the empty string counts as a failure of the active backend and
\* of the one failover() lands on; the caller gets the empty string.
generate_text ==
    IF routed # {}
    THEN UNCHANGED mgrVars
    ELSE \E c \in Backends \cup {None}, kept \in {0, 1} :
             /\ Failover(c)
             /\ c = None => kept = 0
             /\ Fail(InitFails(c) + kept)
             /\ functional' = (functional \ {active}) \cup ({c} \ {None})
             /\ kv' = IF c = None THEN kv ELSE [kv EXCEPT ![c] = Left(c, kept)]
             /\ UNCHANGED <<routed, cfg>>

\* Backend::forward_embed() on the active instance.
forward_embed(item) ==
    /\ kv' = IF inst[active] = None THEN kv ELSE Fed(active, item)
    /\ UNCHANGED <<inst, functional, routed, active, cfg, fails>>

-----------------------------------------------------------------------------
(* Reset.  `ok` is its result. *)

\* Mutant: with no router entries the active backend is not looked at.
MutReset(ok) ==
    \E bad \in SUBSET (IF routed # {} THEN routed ELSE {b \in {active} : inst[b] # None}) :
        LET all == IF routed # {} THEN routed ELSE {b \in {active} : inst[b] # None}
        IN  /\ Fail(Cardinality(bad))
            /\ ok = (routed # {} /\ bad = {})
            /\ kv' = [b \in Backends |-> IF b \in all \ bad THEN {} ELSE kv[b]]
            /\ functional' = IF routed = {} /\ ok THEN functional \cup {active} ELSE functional
            /\ UNCHANGED <<inst, routed, active, cfg>>

reset(ok) ==
    \E bad \in SUBSET (IF routed # {} THEN routed ELSE {b \in {active} : inst[b] # None}) :
        LET all == IF routed # {} THEN routed ELSE {b \in {active} : inst[b] # None}
        IN  /\ Fail(Cardinality(bad))
            /\ ok = (all # {} /\ bad = {})
            /\ kv' = [b \in Backends |-> IF b \in all \ bad THEN {} ELSE kv[b]]
            /\ functional' = IF routed = {} /\ ok THEN functional \cup {active} ELSE functional
            /\ UNCHANGED <<inst, routed, active, cfg>>

\* The scheduler's reset_slot lambda: the active instance only, whose
\* reset() may fail.
reset_slot(ok) ==
    /\ \/ /\ ok /\ inst[active] # None
          /\ kv' = [kv EXCEPT ![active] = {}] /\ UNCHANGED fails
       \/ /\ ~ok /\ UNCHANGED kv
          /\ IF inst[active] = None THEN UNCHANGED fails ELSE Fail(1)
    /\ UNCHANGED <<inst, functional, routed, active, cfg>>

-----------------------------------------------------------------------------
(* Loading a model.  `good` initialise for m, `stuck` cannot be created    *)
(* again and keep the instance they had, `spare` initialise but are not    *)
(* needed; the others fail and lose their instance.  A backend that fails  *)
(* keeps its functional mark.  Stubs (can_infer() is false) are not        *)
(* modelled.                                                               *)

init_in_order(m) ==
    \E good, stuck, spare \in SUBSET Backends :
        LET bad == Backends \ (good \cup stuck \cup spare)
        IN  /\ good \cap stuck = {} /\ good \cap spare = {} /\ stuck \cap spare = {}
            /\ Cardinality(good \ {Cpu}) =< 1
            /\ spare # {} => Cpu \notin spare /\ good \ {Cpu} # {}
            /\ Fail(Cardinality(bad \cup stuck))
            /\ inst' = [b \in Backends |-> IF b \in good THEN m
                                           ELSE IF b \in stuck THEN inst[b] ELSE None]
            /\ functional' = functional \cup good
            /\ routed' = good
            /\ active' = IF good = {} THEN active
                         ELSE CHOOSE b \in good : \A d \in good :
                                 Position(d) =< Position(b)
            /\ cfg' = m
            /\ kv' = [b \in Backends |-> IF b \in stuck THEN kv[b] ELSE {}]
=============================================================================
