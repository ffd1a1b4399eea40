---------------------------- MODULE UnifiedServer ----------------------------
(***************************************************************************)
(* The HTTP handlers of src/tools/unified_server.cpp that compute:         *)
(* POST /v1/chat/completions, POST /v1/completions and POST                *)
(* /v1/backend/select, each request on a thread of its own, on the shared  *)
(* BackendManager and the decode thread of the BatchScheduler.             *)
(*                                                                         *)
(* g_inference_mutex is a variable.  The sections under g_config_mutex and *)
(* g_strategy_mutex do not block and nothing is held when they are         *)
(* entered but g_inference_mutex, so each is one action; reading           *)
(* current_cfg without the mutex is an action of its own.  No strategy     *)
(* engine and no draft model are configured (SpecDecode has the latter).   *)
(***************************************************************************)
EXTENDS BatchScheduler

CONSTANTS
    Requests,     \* the requests, in no particular order of arrival
    Batch,        \* -B with more than one slot: there is a scheduler
    Discovered,   \* the models the flat scan of the weights directory found
    Registered,   \* the models the registry can resolve to a single file
    Dims,         \* hidden size and layers of each model, as one value
    Start,        \* the model loaded at start-up
    Hangs         \* an init() may take longer than its cap, or for ever

Threads == DOMAIN Requests

\* kind, model (None: no "model" in the body), spelled (metadata name or
\* file name), raw (a prompt string, not a token array), image, sampled
\* (temperature or top_k), backend (X-Backend, None: "auto"), strategy.
Kinds == {"chat", "completions", "select"}

ASSUME RequestAssumption ==
    /\ Owners = Threads
    /\ \A t \in Threads :
          /\ Requests[t].kind \in Kinds
          /\ Requests[t].model \in Models \cup {None}
          /\ Requests[t].spelled \in {"name", "file"}
          /\ Requests[t].backend \in Backends \cup {None}
          /\ Requests[t].image => Requests[t].kind = "chat"

ASSUME ModelAssumption ==
    /\ Discovered \subseteq Models /\ Registered \subseteq Models
    /\ Start \in Models /\ DOMAIN Dims = Models

VARIABLES
    current_cfg,  \* the model the server says is loaded
    pc,           \* where each handler is
    want,         \* req_model
    res,          \* the response
    pos, n, pick, skip,  \* locals of the handler that holds g_inference_mutex
    since         \* `fails` when it took the mutex

locals == <<pos, n, pick, skip>>
vars == <<mgrVars, used, schedVars, inferLock, current_cfg, pc, want, res, locals, since>>

Name(m, spelled) == [model |-> m, spelled |-> spelled]
NoName == Name(None, "name")

Steps == {"idle", "lock", "strategy", "select", "switch", "init", "join", "vision",
          "embed", "vision_end", "pick", "reset", "text", "prefill", "decode",
          "fallback", "retry", "submit", "await", "done"}

TypeOK ==
    /\ MgrTypeOK /\ SchedTypeOK
    /\ current_cfg \in Models
    /\ pc \in [Threads -> Steps]
    /\ want \in [Threads -> [model : Models \cup {None}, spelled : {"name", "file"}]]
    /\ res \in [Threads -> {"none", "ok", "short", "error", "timeout", "refused"}]
    /\ pos \in 1 .. Len(Prompt) /\ n \in 0 .. MaxTokens
    /\ pick \in Backends \cup {None} /\ skip \subseteq Backends \cup {None}
    /\ since \in 0 .. MaxFail

Init ==
    /\ MgrInit(Start) /\ SchedInit
    /\ current_cfg = Start
    /\ pc = [t \in Threads |-> "idle"]
    /\ want = [t \in Threads |-> NoName]
    /\ res = [t \in Threads |-> "none"]
    /\ pos = 1 /\ n = 0 /\ pick = None /\ skip = {} /\ since = 0

Goto(t, step) == pc' = [pc EXCEPT ![t] = step]

\* The handler returns: its response is set and its lock_guard unlocks.
Finish(t, r) ==
    /\ res' = [res EXCEPT ![t] = r]
    /\ Goto(t, "done")
    /\ inferLock' = None

-----------------------------------------------------------------------------
(* Arrival, the inference mutex, backend selection *)

\* Parsing the request.  The chat handler replaces a missing model by the
\* name in current_cfg before it holds any mutex.
Arrive(t) ==
    /\ pc[t] = "idle"
    /\ want' = [want EXCEPT ![t] =
                   IF Requests[t].model # None THEN Name(Requests[t].model, Requests[t].spelled)
                   ELSE IF Requests[t].kind = "chat" THEN Name(current_cfg, "name")
                   ELSE NoName]
    /\ Goto(t, "lock")
    /\ UNCHANGED <<mgrVars, used, schedVars, inferLock, current_cfg, res, locals, since>>

Lock(t) ==
    /\ pc[t] = "lock"
    /\ inferLock = None
    /\ inferLock' = t
    /\ pos' = 1 /\ n' = 0 /\ pick' = Requests[t].backend /\ skip' = {}
    /\ since' = fails
    /\ Goto(t, IF Requests[t].kind = "select" THEN "select" ELSE "strategy")
    /\ UNCHANGED <<mgrVars, used, schedVars, current_cfg, want, res>>

SelectHandler(t) ==
    /\ pc[t] = "select"
    /\ select_backend(Requests[t].backend)
    /\ Finish(t, IF Requests[t].backend \in functional THEN "ok" ELSE "error")
    /\ UNCHANGED <<used, schedVars, current_cfg, want, locals, since>>

Strategy(t) ==
    /\ pc[t] = "strategy"
    /\ set_strategy(Requests[t].strategy)
    /\ Goto(t, "switch")
    /\ UNCHANGED <<used, schedVars, inferLock, current_cfg, want, res, locals, since>>

-----------------------------------------------------------------------------
(* The model switch *)

\* Where a handler goes once its model is there.
Loaded(t) ==
    IF Batch /\ Requests[t].kind = "completions" THEN "submit"
    ELSE IF Requests[t].image THEN "vision" ELSE "pick"

\* Mutant: /v1/completions ignores the model of the request.
MutSwitch(t) ==
    LET w          == want[t]
        m          == w.model
        other      == Requests[t].kind = "chat" /\ w # NoName /\ w # Name(current_cfg, "name")
        satisfied  == other /\ m = current_cfg
        byRegistry == other /\ m \in Registered
        found      == Requests[t].kind = "chat" /\ w.spelled = "name" /\ m \in Discovered
        now        == IF byRegistry THEN m ELSE current_cfg
        byScan     == found /\ Dims[m] # Dims[now]
    IN  /\ pc[t] = "switch"
        /\ IF byRegistry \/ byScan
           THEN /\ current_cfg' = m
                /\ Goto(t, "init")
                /\ UNCHANGED <<inferLock, res>>
           ELSE /\ UNCHANGED current_cfg
                /\ IF other /\ ~satisfied /\ ~found
                   THEN Finish(t, "refused")
                   ELSE Goto(t, Loaded(t)) /\ UNCHANGED <<inferLock, res>>
        /\ UNCHANGED <<mgrVars, used, schedVars, want, locals, since>>

\* The section under g_config_mutex and g_strategy_mutex.  The request may
\* name the loaded artifact by another spelling; a registered model is
\* switched to whenever its name is not the current name; a discovered one
\* only when its dimensions differ.
Switch(t) ==
    LET w          == want[t]
        m          == w.model
        other      == w # NoName /\ w # Name(current_cfg, "name")
        satisfied  == other /\ m = current_cfg
        byRegistry == other /\ m \in Registered
        found      == w.spelled = "name" /\ m \in Discovered
        now        == IF byRegistry THEN m ELSE current_cfg
        byScan     == found /\ Dims[m] # Dims[now]
    IN  /\ pc[t] = "switch"
        /\ IF byRegistry \/ byScan
           THEN /\ current_cfg' = m
                /\ Goto(t, "init")
                /\ UNCHANGED <<inferLock, res>>
           ELSE /\ UNCHANGED current_cfg
                /\ IF other /\ ~satisfied /\ ~found
                   THEN Finish(t, "refused")
                   ELSE Goto(t, Loaded(t)) /\ UNCHANGED <<inferLock, res>>
        /\ UNCHANGED <<mgrVars, used, schedVars, want, locals, since>>

\* The switch's I/O.  What mgr.init() returns is not looked at.
LoadModel(t) ==
    /\ pc[t] = "init"
    /\ init_in_order(want[t].model)
    /\ Goto(t, Loaded(t))
    /\ UNCHANGED <<used, schedVars, inferLock, current_cfg, want, res, locals, since>>

\* A backend's init() exceeds its cap.  The timeout branch leaves the loop
\* body, where the destructor of the std::async future waits for init().
Hang(t) ==
    /\ Hangs /\ fails < MaxFail
    /\ pc[t] = "init"
    /\ Goto(t, "join")
    /\ UNCHANGED <<mgrVars, used, schedVars, inferLock, current_cfg, want, res, locals, since>>

Join(t) ==
    /\ pc[t] = "join"
    /\ init_in_order(want[t].model)
    /\ fails' > fails
    /\ Goto(t, Loaded(t))
    /\ UNCHANGED <<used, schedVars, inferLock, current_cfg, want, res, locals, since>>

-----------------------------------------------------------------------------
(* Vision *)

\* VISION_START, the embeddings on the active instance, VISION_END; the
\* results are not looked at.
Vision(t) ==
    /\ \/ /\ pc[t] = "vision"
          /\ \E by \in Backends \cup {None} : generate(<<t, "image">>, by)
          /\ Goto(t, "embed")
       \/ /\ pc[t] = "embed"
          /\ forward_embed(<<t, "image">>)
          /\ Goto(t, "vision_end")
       \/ /\ pc[t] = "vision_end"
          /\ \E by \in Backends \cup {None} : generate(<<t, "image">>, by)
          /\ Goto(t, "pick")
    /\ UNCHANGED <<used, schedVars, inferLock, current_cfg, want, res, locals, since>>

-----------------------------------------------------------------------------
(* generate_completion *)

\* The fixed backend of the request, if it names one.
Pick(t) ==
    /\ pc[t] = "pick"
    /\ IF pick = None THEN UNCHANGED mgrVars ELSE select_backend(pick)
    /\ Goto(t, "reset")
    /\ UNCHANGED <<used, schedVars, inferLock, current_cfg, want, res, locals, since>>

\* Mutant: a new sequence starts without a reset.
MutResetSequence(t) ==
    /\ pc[t] = "reset"
    /\ \E ok \in BOOLEAN :
          /\ ok /\ UNCHANGED mgrVars
          /\ IF ok THEN /\ Goto(t, IF Requests[t].raw THEN "text" ELSE "prefill")
                        /\ UNCHANGED <<inferLock, res>>
             ELSE Finish(t, "error")
    /\ UNCHANGED <<used, schedVars, current_cfg, want, locals, since>>

ResetSequence(t) ==
    /\ pc[t] = "reset"
    /\ \E ok \in BOOLEAN :
          /\ reset(ok)
          /\ IF ok THEN /\ Goto(t, IF Requests[t].raw THEN "text" ELSE "prefill")
                        /\ UNCHANGED <<inferLock, res>>
             ELSE Finish(t, "error")
    /\ UNCHANGED <<used, schedVars, current_cfg, want, locals, since>>

\* The text-level attempt: nothing comes back from a token-level backend.
TryText(t) ==
    /\ pc[t] = "text"
    /\ IF inst[active] = None THEN UNCHANGED mgrVars ELSE generate_text
    /\ Goto(t, "prefill")
    /\ UNCHANGED <<used, schedVars, inferLock, current_cfg, want, res, locals, since>>

\* Mutant: BOS is fed like any token.
MutPrefillToken(t) ==
    LET at == pos
    IN  /\ pc[t] = "prefill"
        /\ \E by \in Backends \cup {None} :
              /\ generate(<<t, Prompt[at]>>, by)
              /\ IF by = None THEN Finish(t, "error")
                 ELSE /\ Goto(t, IF at + 1 = Len(Prompt) THEN "decode" ELSE "prefill")
                      /\ UNCHANGED <<inferLock, res>>
        /\ pos' = at + 1
        /\ UNCHANGED <<used, schedVars, current_cfg, want, n, pick, skip, since>>

\* The prompt but its last token, without BOS.
PrefillToken(t) ==
    LET at == IF Prompt[pos] = "bos" THEN pos + 1 ELSE pos
    IN  /\ pc[t] = "prefill"
        /\ \E by \in Backends \cup {None} :
              /\ generate(<<t, Prompt[at]>>, by)
              /\ IF by = None THEN Finish(t, "error")
                 ELSE /\ Goto(t, IF at + 1 = Len(Prompt) THEN "decode" ELSE "prefill")
                      /\ UNCHANGED <<inferLock, res>>
        /\ pos' = at + 1
        /\ UNCHANGED <<used, schedVars, current_cfg, want, n, pick, skip, since>>

\* Mutant: one token too many.
MutAcceptOneMore(t, by) ==
    /\ Credit(t, by)
    /\ n' = n + 1
    /\ \/ Finish(t, "ok")
       \/ n < MaxTokens /\ Goto(t, "decode") /\ UNCHANGED <<inferLock, res>>

\* Mutant: the loop is not left at max_tokens.
MutAcceptEndless(t, by) ==
    /\ Credit(t, by)
    /\ n' = (n + 1) % (MaxTokens + 1)
    /\ \/ Finish(t, "ok")
       \/ Goto(t, "decode") /\ UNCHANGED <<inferLock, res>>

\* A token of the answer: the loop ends at EOS or at max_tokens.
Accept(t, by) ==
    /\ Credit(t, by)
    /\ n' = n + 1
    /\ \/ Finish(t, "ok")
       \/ n + 1 < MaxTokens /\ Goto(t, "decode") /\ UNCHANGED <<inferLock, res>>

DecodeToken(t) ==
    /\ pc[t] = "decode"
    /\ \E by \in Backends \cup {None} :
          /\ IF Requests[t].sampled THEN forward(<<t, "text">>, by) ELSE generate(<<t, "text">>, by)
          /\ IF by # None THEN Accept(t, by) /\ UNCHANGED skip
             ELSE /\ Goto(t, "fallback")
                  /\ skip' = {pick}
                  /\ UNCHANGED <<used, inferLock, res, n>>
    /\ UNCHANGED <<schedVars, current_cfg, want, pos, pick, since>>

\* The fallback loop over fallback_order(): the next usable backend is made
\* active and asked for the token; it is not reset.
Fallback(t) ==
    LET left == {b \in Backends \ skip : Usable(b) /\ Cardinality(Backends) > 1}
        c    == CHOOSE b \in left : \A d \in left : Position(b) =< Position(d)
    IN  /\ pc[t] = "fallback"
        /\ IF left = {}
           THEN Finish(t, "short") /\ UNCHANGED <<mgrVars, pick, skip>>
           ELSE /\ select_backend(c)
                /\ pick' = c
                /\ skip' = skip \cup {b \in Backends : Position(b) =< Position(c)}
                /\ Goto(t, "retry")
                /\ UNCHANGED <<inferLock, res>>
        /\ UNCHANGED <<used, schedVars, current_cfg, want, pos, n, since>>

Retry(t) ==
    /\ pc[t] = "retry"
    /\ \E by \in Backends \cup {None} :
          /\ generate(<<t, "text">>, by)
          /\ IF by # None THEN Accept(t, by)
             ELSE Goto(t, "fallback") /\ UNCHANGED <<used, inferLock, res, n>>
    /\ UNCHANGED <<schedVars, current_cfg, want, pos, pick, skip, since>>

\* g_generation_timeout_ms, looked at before each token of the prompt and of
\* the answer.
TimeOut(t) ==
    /\ pc[t] \in {"prefill", "decode"}
    /\ Finish(t, "timeout")
    /\ UNCHANGED <<mgrVars, used, schedVars, current_cfg, want, locals, since>>

-----------------------------------------------------------------------------
(* /v1/completions with a scheduler: submit and wait, under the mutex *)

\* Mutant: the mutex is released before the future is ready.
MutSubmit(t) ==
    /\ pc[t] = "submit"
    /\ submit(t)
    /\ Goto(t, "await")
    /\ inferLock' = None
    /\ UNCHANGED <<mgrVars, used, current_cfg, want, res, locals, since>>

Submit(t) ==
    /\ pc[t] = "submit"
    /\ submit(t)
    /\ Goto(t, "await")
    /\ UNCHANGED <<mgrVars, used, inferLock, current_cfg, want, res, locals, since>>

FutGet(t) ==
    /\ pc[t] = "await"
    /\ t \in answered
    /\ Finish(t, "ok")
    /\ UNCHANGED <<mgrVars, used, schedVars, current_cfg, want, locals, since>>

-----------------------------------------------------------------------------
Handler(t) ==
    \/ Arrive(t) \/ Lock(t) \/ SelectHandler(t) \/ Strategy(t) \/ Switch(t)
    \/ LoadModel(t) \/ Vision(t) \/ Pick(t) \/ ResetSequence(t) \/ TryText(t)
    \/ PrefillToken(t) \/ DecodeToken(t) \/ Fallback(t) \/ Retry(t) \/ TimeOut(t)
    \/ Submit(t) \/ FutGet(t)

Scheduler == DecodeThread /\ UNCHANGED <<current_cfg, pc, want, res, locals, since>>

\* Every request is answered and the server waits for the next one.
Quiet == (\A t \in Threads : pc[t] = "done") /\ UNCHANGED vars

Next == (\E t \in Threads : Handler(t) \/ Hang(t) \/ Join(t)) \/ Scheduler \/ Quiet

Spec == Init /\ [][Next]_vars

\* Threads are scheduled and every mutex is released by its holder.  Nothing
\* makes an init() that hangs return.
FairSpec == /\ Spec
            /\ \A t \in Threads : WF_vars(Handler(t))
            /\ WF_vars(Scheduler)
-----------------------------------------------------------------------------
(* Properties *)

\* The tokens of an answer are computed from that request's own tokens: no
\* cache still holds another request's when a backend is asked (the reset at
\* the start of generate_completion, reset_slot in the scheduler, the reset
\* in failover()).
OwnContext ==
    \A t \in Threads : \A item \in used[t].items : item[1] = t

\* The same but for the requests whose slot reset_slot() could not reset:
\* batch_scheduler.h takes no notice, and decodes on what the cache has.
OwnContextIfReset ==
    \A t \in Threads \ unreset : \A item \in used[t].items : item[1] = t

\* "Never answer a request for model X with model Y": the weights that
\* produced the tokens are those of the model the request names.
AnswerMatchesModel ==
    \A t \in Threads : Requests[t].model # None => used[t].weights \subseteq {Requests[t].model}

\* The scheduler has one request at a time, because its submitter keeps
\* g_inference_mutex until the future is ready.  With two, gen_batch_() would
\* wait for that mutex and the submitter for gen_batch_().
SingleOccupancy ==
    Len(pending) + Cardinality(Slots \ InState("idle")) =< 1

\* A handler gives up on a request only if some backend call failed, or
\* could not be initialised, while it held g_inference_mutex.  The exception
\* is what earlier failures leave behind: no router, and no instance that is
\* active or a prompt that goes to generate_text() first.
HealthyAnswered ==
    [][\A t \in Threads :
          /\ Requests[t].kind # "select"
          /\ res[t] = "none" /\ res'[t] \in {"error", "short"}
          => \/ fails' > since
             \/ routed = {} /\ (inst[active] = None \/ Requests[t].raw)]_vars

\* Every request that waits for g_inference_mutex is answered.
RequestAnswered ==
    \A t \in Threads : pc[t] = "lock" ~> pc[t] = "done"

\* A request that names no model is not refused for naming a wrong one.
DefaultNeverRefused ==
    \A t \in Threads : Requests[t].model = None => res[t] # "refused"

\* The image of a chat request is in the cache its answer is computed from.
ImageInContext ==
    \A t \in Threads : Requests[t].image /\ used[t].backends # {} => <<t, "image">> \in used[t].items

\* BOS is not fed as a regular token.
BosSkipped ==
    \A t \in Threads : <<t, "bos">> \notin used[t].items

\* The backend a request fixes serves it, when no backend fails.
FixedBackendServes ==
    \A t \in Threads :
        fails = 0 /\ Requests[t].backend # None => used[t].backends \subseteq {Requests[t].backend}

\* A request that names the loaded artifact is no switch: nothing is loaded.
SatisfiedNotReloaded ==
    [][\A t \in Threads : pc[t] = "switch" /\ pc'[t] = "init" => want[t].model # current_cfg]_vars
=============================================================================
