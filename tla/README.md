# TLA+ specifications of the 1bit-MONSTER inference server

1bit-MONSTER is a C++ engine that serves language models over an
OpenAI-compatible HTTP API on one machine with several accelerators (HIP and
Vulkan GPUs, an XDNA NPU behind a worker process, the CPU). The specifications
in this directory describe the part of it where several things happen at the
same time and share state: request handlers, the inference mutex, the backend
manager with its failover, the per-token router with its compute locks, the
batch scheduler, speculative decoding with its two caches, the pipe protocol
with the NPU worker, the mesh of nodes that discover and greet each other, the
web server with its NPU queue, and the daemon with its child process. They are
translated from the sources; `PROJECT.json` gives for every definition the
lines it stands for.

Paths below are relative to the repository.

## 1. Inventory

| Component | State it keeps | Operations | Talks to |
|---|---|---|---|
| `tools/unified_server.cpp` | `current_cfg`, the tokenizer, `g_inference_mutex`, `g_config_mutex`, `g_strategy_mutex` | chat, completions, select and the informational endpoints; model switch; `generate_completion`; `run_spec_decode` | BackendManager, BatchScheduler, model registry and discovery |
| `include/batch_scheduler.h` | `pending_`, `slots_`, one promise per request, a decode thread | `submit`, `admit_pending`, prefill, batched decode, stop | three lambdas of the server, which reach BackendManager |
| `src/backend_manager.cpp` | `backends_` (instance, functional, latency), `active_idx_`, `cfg_`, the router, `mtx_`, a `compute_mtx` per backend | `init_in_order`, `select_backend`, `set_strategy`, `generate`, `forward`, `lm_head`, `generate_text`, `failover`, `reset`, `health_check`, `benchmark_all` | DynamicRouter, Backend objects, BackendMonitor |
| `src/dynamic_router.cpp` | `entries_`, `strategy_`, the 4:1 cycle counter, latency windows, `last_failed_id_`, `mtx_`, a compute mutex per entry | add, remove, clear, `generate_with_failover`, `forward`, `lm_head`, `reset_all`, `set_strategy` | Backend objects |
| `src/backend_npu.cpp`, `engine/npu/src/npu_engine_universal.cpp` | `ready`, two pipes, the worker's cache and pending resets | spawn, `generate`, `reset`, `reset_slot`, idle release; the worker's command loop | each other, over pipes |
| `run_spec_decode` | the caches of target and draft, `kv_base`, the previous logits | propose, verify, accept or reject, roll back | two decoder contexts |
| `src/mesh/peer_discovery.cpp` | peer registry with times, conversation log, three threads, the ask counter | announce, listen, sweep, upsert, mark, record an ask or an answer | other nodes, over UDP; the mesh handlers |
| `src/mesh/mesh_agent.cpp`, `peer_api.cpp`, `dispatch.cpp`, `tools/mesh_peer.cpp` | the agent's snapshot; persisted node id | greet, ask, answer, handshake, dispatch | other nodes, over HTTP |
| `src/server/*` | `g_npu_in_use`, a queue of deferred requests, the connection count, timers, I/O threads | accept, read, run or queue, hand the NPU on, write | REST handler (no target of CMakeLists.txt compiles it) |
| `tools/onebitd.cpp` | `g_child_pid`, `g_shutdown`, a server thread | spawn, health check, proxy, shut down, kill the child | the backend process, HTTP clients, signals |
| `tools/unified_router.cpp` | – | classify and forward | two upstream servers |
| `src/strategy_engine.cpp`, `src/agent_watchdog.cpp` | `AgentState`: load share, disabled flags, thresholds | adapt every 10 s | BackendManager, monitor (not started by the server at this commit) |
| `include/pilot.h` | a bounded queue of preloads, predictions, a worker thread | predict, prefetch, reset, stop | a preload callback |
| registry, discovery, loaders, tokenizers, LoRA, pool | tables and files | lookups, parsing | – |
| numeric engines and kernels | weights, activations, caches | forward passes | – |

What makes the running system correct, per component:

* **Server**: an answer is computed from the request's own tokens and by the
  model it names; a request that waits for the mutex is answered; a handler
  gives up only when something failed.
* **Scheduler**: it never waits for a mutex that its own submitter holds.
* **Manager**: failover leaves no cache with a part of another sequence, and a
  healthy backend is not taken out of service.
* **Router**: two threads never execute inside one Backend object, no call
  waits for itself, and a reset means all.
* **Speculative decoding**: both caches describe the same sequence at every
  round and the output is what the target alone would have produced.
* **NPU worker**: an answer belongs to the call that reads it, and the cache
  holds exactly the current sequence.
* **Mesh discovery**: a peer that is heard stays listed, and one that has gone
  leaves the registry within a known time.
* **Mesh conversation**: any two nodes end up integrated with each other, and
  both logs show an ask as answered.
* **WebServer queue**: one request at a time has the NPU, a queued request is
  started by whoever releases it, and every way out of a handler releases it.
* **onebitd**: it goes down with its child or on a signal, never leaves the
  child behind, and accepts requests only once a backend answers.

The hard behaviours are the interleavings of handlers around the inference
mutex (values read before it and used after it), locks nested in different
orders, failover in the middle of a sequence, resets that reach only some of
the caches, late answers on a pipe, a process that dies between two writes,
beacons that are lost, messages that cross, and a wake-up that comes before the
sleeper sleeps.
`PROJECT.json` lists them as hazards, each at its line.

## 2. Modules

`DynamicRouter` stands alone; `MCRouter` instantiates it and
`DynamicRouterProofs` proves theorems about it. `SpecDecode` (instantiated by
`MCSpecDecode`, proved about in `SpecDecodeProofs`) and `NpuWorker`
(`NpuWorkerProofs`) stand alone. `UnifiedServer` EXTENDS `BatchScheduler`,
which EXTENDS `BackendManager`: the manager's operations are action operators
that the scheduler and the handlers use as conjuncts of their own steps.
`MCServer` gives the requests of the runs, and `ServerProofs` is about all
three modules. Three pairs of modules are a
specification and its abstraction or its proof: `PeerRegistry` implements
`Membership` (proved in `PeerRegistryProofs`), `WebServer` implements
`Turnstile` (proved in `WebServerProofs`), and `OnebitdProofs` is about
`Onebitd`. `Mesh` is the conversation on top of a registry of which it only
uses that peers come and go, which is what `Membership` says of it;
`MeshProofs` is about it.

**DynamicRouter** keeps every lock as state. `mtx_` is a variable only because
`reset_all` holds it while it blocks on compute mutexes; all other critical
sections of it block on nothing inside and are one step with the guard `mtx =
Free`. `generate_with_failover` is a sequence of steps (pick, lock, compute,
record, decide, the unlocked write of `last_failed_id_`, retry), with both
frames of its recursion in `snap[t][0..1]`. The write to `last_failed_id_`
without a lock takes two steps, and overlapping writes leave an arbitrary
value. `RegistersAs` is the strategy that `init_in_order` passes to
`add_backend` with a backend, and `LaneFree` its rule of one accelerator and
one CPU backend; since the entry added last decides, the router may have a 4:1
cycle without anybody choosing one. `Chosen` is what a call of `set_strategy`
might set. Backend objects and mutex objects are separate from ids, so that a
reload in the middle of a call can be expressed. A latency is a number of a
small set, and the window average is compared exactly.

**BackendManager** describes the manager as a caller that holds
`g_inference_mutex` sees it. A cache is the *set* of what was fed into it
(whose request, and whether BOS, text or image); the properties do not depend
on order or number. Backends are token-level, as all but the FLM ones are, so
`generate_text` returns the empty string. `fails` counts failing backend calls
and `MaxFail` bounds them. A reset may fail and then leaves the cache as it was,
the one in `failover()` (`Left`) and `reset_slot` included, whose results nobody
looks at. `used` is a history variable: the cache contents,
weights and backends behind the tokens of each answer.

**BatchScheduler** has the queue, the slots and one action per part of the
decode thread's loop. `inferLock` is the server's mutex, which the `gen_batch`
lambda takes. `unreset` is a history variable: the requests whose slot was not
reset.

**UnifiedServer** has one `pc` per handler thread. `want` is the model name
fixed at arrival, `pos`, `n`, `pick` and `skip` are locals of
`generate_completion` for the thread that holds the mutex. A model is named by
its name or by its file, because the code treats the two differently. `since`
is the number of failures when the mutex was taken.

**SpecDecode** keeps both caches as token sequences, which is what rolling back
is about. The target is an operator from contexts to tokens; the draft may
propose anything. `Fail` is any decode, verify or rollback that returns an
error at any point.

**NpuWorker** keeps the pipes as sequences of 32-bit words, so that a read
given up in the middle of an answer leaves the rest behind. A token crosses the
pipe as a float and is reread as an integer when the framing is off; its value
is therefore one of three classes (0, 1, or beyond `MAX_SAFE_OUT_DIM`). `late`
is a history variable: a read of this worker's answers was given up. `Cache` is
the context that the next decode step starts from. For a model with GDN layers
(`Recurrent`) there is a recurrent state beside the key/value cache, which op 34
fills with zeros and op 31 only resizes; what it holds from before is the mark
`Old` at the head of the context (`AfterOp31`), and a decode step that throws may
leave its token there (`Marked`). `whole` is a history variable: no op 31 came
since the last decode step before this sequence.

**Membership** says what discovery promises, without beacons or threads: who
hears of whom, that nobody heard within `Ttl` is dropped, and that time does
not pass a silence of `Grace` for a listed peer. **PeerRegistry** has the
threads of `peer_discovery.cpp`: `announceIn` and `sweepIn` are what is left of
their sleeps, `age` is `now_ms() - last_seen_ms`, and a beacon is a datagram
per receiver that is delivered or lost before the next unit of time. A sleep
may overrun by `Drift`. `missed` is a history variable that counts the lost
beacons of a peer since it was heard last. The refinement maps `registry` to
`known`, `age` to `silence`, and `Grace` to `2 * Ttl + Drift`.

**Mesh** keeps for every node what its handlers and its agent share: the ids in
the registry, the `greeted` and `integrated` marks, the log and the ask
counter. `calls` holds the exchanges under way: an ask, the answer that the
peer posts while it handles the ask, and the reply. A restart keeps the node's
id and starts the counter again; `epoch` tells the asks of two lives apart,
which the code cannot.

**Turnstile** admits one request at a time and the others in order, and one
more for each `Push`, an answer that nobody leaves with. **WebServer** has one
state per connection, from the accept to the close, and steps where the code
touches the flag, the queue under its mutex, the connection counter or an I/O
thread. A handler's work after its answer is inside a `try` whose `catch`
answers again (`rest_handler.cpp:854`); `TailFails` is that second answer, with
the second hand-on that comes with it, and a `Push` of the turnstile. A
deferred response is written before that work (`WriteDeferred`). A request
holds the NPU from its acquisition, or from being posted by the holder before
it, until its hand-on; the refinement maps those requests to `inside`. `active`
has the wrap-around of a `size_t`. What differs between requests (NPU endpoint,
stream, body that does not parse, `request_id` that is not a string) is a
constant.

**Onebitd** has the main thread with one step per system call, the thread of
`svr.listen()` with its handlers, the child, and the rest of the machine, which
may take a port or a process id that was given back. `stolen`, `missed` and
`stray` are history variables for what the daemon cannot see. That
`svr.stop()` does nothing to a server that does not listen yet is the
behaviour of the vendored cpp-httplib.

## 3. Runs

A run that is expected to pass shows its properties on the instance of its
`.cfg`. The run that is expected to be violated shows that the code does not do
what a comment of the repository says; the finding in `PROJECT.json` quotes
the line.

| Run | Checks | Result |
|---|---|---|
| `router_shared` | `TypeOK`, `InstanceExclusive` with two callers and reloads underneath | holds |
| `router_serial` | `NoWaitCycle`, `LogitsOnForwardBackend`, `ResetMeansAll`, `CallReturns` with the one caller that the inference mutex admits, the backends and strategies that `init_in_order` registers, and resets that fail or throw | holds |
| `npu_worker` | `AnswerIsOwn`, `ContextComplete`, `CallReturns` for a worker that may be late, hang or die, and a model with GDN layers | holds |
| `spec_rounds` | `CachesAgree`, `GreedyTokens`, `Finishes` | holds |
| `server_mixed` | `OwnContext`, `AnswerMatchesModel`, `RequestAnswered` with three racing requests and a failing call | holds |
| `server_tokens` | `OwnContext`, `BosSkipped`, `HealthyAnswered` with completions, a selection and an init beyond its cap | holds |
| `server_batch` | `SingleOccupancy`, `OwnContextIfReset`, `RequestAnswered` through the scheduler, with slot resets that fail | holds |
| `mesh_registry` | `Implements` (refinement of `Membership`), `OnlySilentForgotten` with starts, stops and losses | holds |
| `mesh_talk` | `EventuallyIntegrated`, `GreetedHasAsk`, `AnswerVisible`, `NoRepeatedAsk` with one fault anywhere | holds |
| `npu_queue` | `Implements` (refinement of `Turnstile`), `QueueDrains`, `NpuFreed`, `ConnectionsCounted`, with handlers that fail before or after their answer | holds |
| `daemon` | `NoOrphan`, `ReadyFirst`, `GoesDown` with a child, a signal and a thief of ports at any time | holds |
| `server_batch_leak` | `OwnContext`: a new sequence starts from clean caches | violated with two routed backends |

Some properties have an exception in their statement, each of them a place
where the code does not do what one would want, and each recorded by a history
variable so that the exception is exactly that place: `late` and `broken` in
`NpuWorker`, `upset` and the state `lost` in `WebServer`, `missed` and `stolen`
in `Onebitd`, `raced` in `Mesh`. Others have a state that the program can be in
as their exception: `LastChance` (the strategy is `FASTEST` and an entry is
retired) in `NoWaitCycle` and `CallReturns` of the router, `AtSeam` (the 4:1
cycle has just turned) in `LogitsOnForwardBackend`, a retired entry in
`ResetMeansAll`, the recurrent state after an op 31 in `ContextComplete`, a slot
that was not reset in `OwnContextIfReset`, and one admission per second answer
in the turnstile. `HealthyAnswered` excepts what earlier
failures leave behind: no router entry, and then no instance that is active or
a raw prompt, which goes to `generate_text` first. The statement without the
exception is in the second table.

### Other sentences of the repository that the code does not keep

These have a property in their module too. Each is violated under the
configuration that the third column names, with the property added to it and
after the change it names (with `Owners` the numbers of the requests); they are
not runs of their own.

| Property | Sentence and what the code does | Configuration |
|---|---|---|
| `NoWaitCycle` | `reset_all` holds `mtx_` and takes a compute lock (`dynamic_router.cpp:41`), `generate` the other way round (221): two callers wait for each other | `RouterShared` without `Symm` and reloads (`QuietReload = TRUE`) |
| `LastFailedGuarded` | "Guarded by mtx_." (`dynamic_router.h:143`): `last_failed_id_` is written after the unlock (`dynamic_router.cpp:234`) | the same |
| `NeverStuck` | "must not stall the request" (`dynamic_router.cpp:231`): after a `reset()` that threw, the last-chance pick (184) is the backend whose lock the thread holds | `RouterSerial` |
| `LogitsAlwaysMatch` | "the logits path must see the same KV cache" (`backend_manager.cpp:1109`): with a CPU backend first in the route, the accelerator that initialises second leaves a BACKFILL strategy (741-745), and forward and lm_head each advance the 4:1 cycle | `RouterSerial` |
| `EveryBackendReset` | "Reset all backends for new sequence." (`dynamic_router.h:85`): a `reset()` that throws leaves `ok` true (`dynamic_router.cpp:43`), and the BACKFILL and ONLY picks never look at `alive` | `RouterSerial` |
| `LateAnswerIsOwn` | "Send a GEMM operation, read back result." (`backend_npu.cpp:305`): after a timeout the late answer is read as the next one's | `Npu` |
| `ContextComplete` with the release not excepted (`Finish(tok, FALSE)` in `ReadData`) | "release the NPU worker subprocess between requests" (`backend_npu.cpp:369`): the idle check (744) can only fire inside a sequence | `Npu` |
| `OwnSequenceOnly` | "Reset ALL KV caches + GDN state (new conversation)" (`npu_engine_universal.cpp:3963`): the recurrent states are resized (4030-4036), and an already sized vector keeps its values | `Npu` |
| `CrashedIsRespawned` | "or crashed, respawn it" (`backend_npu.cpp:703`): `ready` stays true | `Npu` with `BusySpec` |
| `Lossless` | "Lossless vs greedy" (`unified_server.cpp:900`): an EOS accepted from the draft does not end the output (683) | `SpecRounds` with `MaxTokens = 3` |
| `GreedyTokens` | "Lossless vs greedy" (`unified_server.cpp:900`): a prompt that is BOS alone leaves no logits (604) | `SpecRounds` with `Prompts <- MCBosOnly` |
| `AnswerMatchesModel` | "Never answer a request for model X with model Y." (`unified_server.cpp:2719`): a discovered model with equal dimensions is not switched to (2708) | `ServerMixed` with `NamedRequests`, `Registered = {}`, `SameDims` |
| `AnswerMatchesModel` | the same: the result of `mgr.init()` is not looked at (2750), and a backend that could not be created again keeps its instance | `ServerMixed` with `NamedRequests`, `OneBackend`, `Cpu = "acc"` |
| `ImageInContext` | "splicing the image into the KV cache before the text prompt" (`unified_server.cpp:2775`): the reset (747) comes after it | `ServerMixed` with `ImageRequests` |
| `DefaultNeverRefused` | "default model" (`unified_server.cpp:2598`): the name is read before the mutex and refused after another request's switch (2724) | `ServerMixed` with `DefaultRequests`, `Registered = Discovered = {B}` |
| `OwnContext` | "Reset backend state for new sequence" (`unified_server.cpp:746`): with the router retired only the active cache is cleared, and the fallback loop (1109) moves to another | `ServerTokens` with `SampledRequests`, `MaxFail = 2` |
| `OwnContext` | "Reset a single slot's KV cache" (`backend.h:131`): `admit_pending` does not look at the result (`batch_scheduler.h:109`) and decodes on what an earlier request left | `ServerBatch` |
| `BosSkipped` | "Skip BOS token" (`unified_server.cpp:892`): the scheduler compares with EOS (`batch_scheduler.h:138`) | `ServerBatch` |
| `FixedBackendServes` | "overrides strategy routing" (`unified_server.cpp:704`): the router does not look at `active_idx_` (`backend_manager.cpp:907`) | `ServerTokens` with `FixedRequests`, `MaxFail = 0` |
| `SatisfiedNotReloaded` | "neither a switch nor a refusal" (`unified_server.cpp:2686`): a registered model named by its file is loaded again (2695) | `ServerTokens` with `FileRequests` |
| `HealthyAnswered` without `Requests[t].raw` in the exception | "Empty return = this backend has no text-level path" (`backend.h:85`): it counts as a failure (`backend_manager.cpp:1087`) | `ServerTokens` with `ChatRequests` |
| `NoMadeUpRecord` | "The ask was sent by an external brain" (`peer_discovery.cpp:298`): the answer to an ask of the node's own agent arrives before the ask is recorded (`mesh_agent.cpp:54`) | `MeshTalk` |
| `EventuallyIntegrated` | "completes the handshake (`integrated = true` on both sides)" (`docs/mesh-protocol.md`, section 5): two lost answers, one in each direction, are never made up for | `MeshTalk` with `MaxFaults = 2` |
| `OneUserAtATime` | "restricted to one user at a time" (`server.cpp:182`): a handler that throws after its answer answers again (`rest_handler.cpp:854-857`), and `process_next_npu_request` (`server.cpp:793-795`) hands on the NPU that the next request has | `NpuQueue` |
| `EveryQueuedStarts` | "Handles one queued NPU task at a time" (`server.cpp:634`): a request queued after the NPU was freed waits for the next NPU request | `NpuQueue` |
| `SignalEnds` | "so we can monitor shutdown signal" (`onebitd.cpp:403`): `svr.stop()` before `svr.listen()` has bound is lost and `join()` waits | `Daemon` |
| `OnlyItsChild` | "Force kill if still alive" (`onebitd.cpp:53`): SIGKILL goes to a child that was reaped already | `Daemon` |
| `RequestAnswered` | "a hung init can't block forever" (`backend_manager.cpp:678`): the destructor of the future waits (695) | `ServerMixed` with `NamedRequests`, `Hangs = TRUE` |

### Bounds

* Router: `router_serial` has the ids of a HIP GPU, of a Vulkan GPU and of a
  CPU backend, in any order that initialises one accelerator and one CPU
  backend: `FASTEST` and the 4:1 cycle both come up, and a reload replaces one
  accelerator by the other. Nobody calls `set_strategy` at this commit, so
  `Chosen` is empty there; `router_shared` sets `GPU_ONLY`. Two entries are the
  smallest number with failover and with a fall back to `entries_[0]`; three
  Backend objects and three mutex objects allow a reload to replace an entry
  while the old object is still in use. Windows of one or two samples and
  latencies 1 and 2 reach a tie, a change of order and a full window.
  `router_shared` identifies states that differ by a permutation of threads,
  objects or mutexes; none of its properties names one. Resets may fail or
  throw in both runs.
* NPU: calls are numbered modulo `NIds`, which exceeds the number of answers
  that can be under way (`MaxBacklog`, `MaxUnread`), so an old answer is never
  taken for a new one by its number. One death of the worker can come at any
  point of an answer; three unread words hold a header and the start of the
  data. `Recurrent` is true: a model with GDN layers, which is the harder case
  (without them the mark `Old` never appears).
* Speculative decoding: `NDraft = 2` has all of reject at once, partial accept
  and accept all; `MaxTokens = 4` ends inside an accepted prefix and after one.
  The 81 targets are all those that depend on the last token and the parity of
  the length, over three tokens, with two entries fixed.
* Server: two backends, two models, three or four requests that race for the
  mutex, a prompt of BOS and two tokens and answers of up to two tokens. One
  failing call puts a failure at every point of every request. Two failing
  calls violate `OwnContext` (the retired router, in the second table above),
  which is why the passing runs with two backends have one. The batch run has one
  backend for the same reason (`server_batch_leak`), two failing calls, so
  that a slot reset and a decode can both fail, and two slots so that
  `SingleOccupancy` is not implied by their number.
* Mesh: two nodes, since every action is about a pair. A lifetime of 6 with an
  interval of 2 and a drift of 1 has room for two beacons, where the docs' 15 s
  and 5 s have three; one lost beacon and two are different cases, which is
  what the number is for (`PeerRegistryProofs` has any lifetime, interval and
  drift), and a sweep can come right before and right after a lifetime is over.
  `MeshTalk` has one fault, at any point of any exchange; with two
  `EventuallyIntegrated` is violated (second table).
* Web server: two threads, so that one can run out of them; a queue of one and
  three NPU requests, so that it is empty, full and overfull; three connections
  for four clients. The one whose handler may fail after its answer hands on
  twice while each of the others may have the NPU. `Width = 16` lets the
  counter wrap.
* Daemon: two probes and two polls have a first, a last and an exceeded one.

### Fairness

* `DynamicRouter!FairSpec`: strong fairness of the steps of a thread that is
  inside a call. A runnable thread is scheduled and a mutex that is released
  again and again is obtained in the end. Nothing is assumed about new calls
  or reloads.
* `NpuWorker!FairSpec`: the client's thread runs; nothing is assumed of the
  worker, which may hang. `BusySpec` (for `CrashedIsRespawned`) adds that the
  worker runs and that calls keep coming, so the violation is not one of a
  system that stops.
* `SpecDecode!FairSpec`: the one thread runs.
* `UnifiedServer!FairSpec`: each handler's thread and the decode thread run.
  The mutex is always released by a handler that goes on, and requests are
  finitely many, so weak fairness is enough. The return of a hung `init()` is
  not fair: nothing in the code makes it return.

* `Mesh!FairSpec`: the agents and the HTTP handlers run, and beacons keep coming
  (`announce_loop` never ends). No fault is fair.
* `WebServer!FairSpec`: the I/O threads run the steps of a request that is
  being served; clients need not come, and no read has to fail.
* `Onebitd!FairSpec`: the main thread and the server's threads run; every
  proxied call has a timeout. The child and the signal need not do anything.

Deadlock is checked for the server, the NPU worker and speculative decoding;
the states in which they legitimately rest are explicit stuttering steps
(`Quiet`, `Terminating`). The router's runs do not check it, because with
`Reload` always possible TLC's notion of deadlock says nothing there;
`NoWaitCycle` is the property that is meant. `mesh_talk`, `npu_queue` and
`daemon` do not check it either: these systems come to rest when everybody is
greeted, every connection is closed and the daemon has exited, and their
liveness properties say that they get there. The registry never rests and is
checked.

## 4. Proofs

`DynamicRouterProofs` proves, for all sets of threads, ids, Backend and mutex
objects, strategies and window sizes:

* `TypeCorrect`: `Spec => []TypeOK`, which includes the bound on every latency
  window;
* `InstanceExclusion`: `Spec => []InstanceExclusive`;
* `ResetReachesAll`: `Spec => []ResetMeansAll`, for any number of threads and
  resets that may fail or throw;
* `LogitsFollowForward`: `Spec => []LogitsOnForwardBackend`, for one caller and
  the strategies that `init_in_order` registers;
* `NeverStalls`: `Spec => []NoWaitCycle`, for the same.

The assumption on the constants is `RouterAssumption`: the strategies are among
the five of the enumeration, latencies are natural numbers, and the null values
are none of the real ones. The last two theorems also assume `OneCaller` (one
thread, reloads between its calls only), which is what `g_inference_mutex`
gives: the handlers call the router, and load a model, only while they hold it;
and `Chosen = {}`, because nothing in the repository calls `set_strategy` of
the router. The strategy is then one that a backend was registered with
(`RegistersAs`), and the proofs go through both `FASTEST` and the 4:1 cycle.
With a chosen strategy `NoWaitCycle` would be false: under `GPU_ONLY`, say,
with the one GPU first in the list, a failed call finds no other backend for
its retry, falls back to `entries_[0]` (`dynamic_router.cpp:184`) and locks the
mutex that it holds. `RouterSerial` satisfies both hypotheses.

`InstanceExclusive` is not inductive: that a thread computes in
an object says nothing about a second thread until it is known that both hold
the same mutex. `IInv` adds

* `LocksHeld`: at each `pc`, which compute locks the thread holds, for both
  frames of the retry and for the loop of `reset_all`, and that the locks of
  the two frames differ (otherwise the inner return would free the outer one);
* `PairsAgree`: no Backend object is reachable through two different mutexes,
  among the entries and all snapshots of calls in flight. This is what a reload
  could break: it holds because a new entry gets a new mutex and a replaced
  one keeps its own.

`InitIInv` shows that it holds initially, one lemma per action that the action
keeps it (`NextIInv` puts them together), and the last step of
`InstanceExclusion` that it implies the property: two threads in one object
hold its mutex, which has one holder.

The three others add an invariant each. `ResetCount` keeps `rdone` one behind
the loop index as long as `ok` is true, up to the entries that are retired,
which the loop passes over. `SameChoice` says, from the pick of `forward` to that
of `lm_head`, that a pick now would find the object used then. Without a cycle
that is because the choice is a function of the entries (`PickStable`) and
recording a latency is no part of this path; with one, four picks in a row take
the second entry, so the two differ only when one of them is the fifth
(`AtSeam`). For this, and for `Serial`, one has to know the list: `Lanes` says
that it has at most one accelerator and one CPU backend, `Distinct` that their
mutexes differ. `Serial` says where a thread may hold which mutex *and that it
holds no other*, which `LocksHeld` leaves open, that `last_failed_id_` is the id
of the call that failed, and that the entry a call computes on is still listed;
`RetryElsewhere` concludes that the retry's entry has another mutex.

`SpecDecodeProofs` proves, for every vocabulary, number of drafts, set of
targets and of prompts, and for a draft that may propose anything:

* `TypeCorrect`: `Spec => []TypeOK`, which includes that the output never
  exceeds `max_tokens`;
* `CachesStayAgreed`: `Spec => []CachesAgree`;
* `OutputIsGreedy`: `Spec => []GreedyTokens`, if no prompt is BOS alone (with
  such a prompt it is false, see section 3).

Besides `SpecAssumption` they assume `ArgmaxInRange`: an argmax is an index
into the vocabulary. It is a hypothesis of the theorems and not an ASSUME
because TLC cannot enumerate the contexts. `CachesAgree` speaks only of the
head of the loop and is not inductive. `CacheShape` says at each `pc` what both
caches are in terms of prompt, output and proposals; it leaves out the caches
after an emission that `max_tokens` cut short, when they are ahead of the
output and not used again. The sequence lemmas (`CutConcat`, `CutFirst`,
`CutCut`) say that rolling back to `kv_base + n` leaves exactly the prompt, the
output and the first `n` proposals. `Predicted` adds that `prev` and `vpred`
are the target's predictions for the contexts they are compared at, from which
`AnchorPredicts` and `EmitTokens` conclude that an accepted proposal is the
target's own token.

`PeerRegistryProofs` proves, for any nodes, lifetime, interval and drift
(`MeshAssumption`: positive natural numbers, the drift may be 0):

* `TypeCorrect`: the timers never run below zero;
* `AgesBounded`: `Spec => []AgeBound`;
* `SilentForgotten`: `Spec => OnlySilentForgotten`, an action property;
* `Refinement`: `Spec => Implements`, every step is a step of `Membership` or
  leaves registry and ages alone.

That time may not pass `Grace` is nothing a single state shows: `SweepBound`
(age and remaining sleep of the sweeper together) is what each sweep
re-establishes and each unit of time preserves. `BeaconBound` relates the age
of a running peer, the rest of its announcer's sleep and the beacons counted as
missed, with one more period while a beacon is on the wire; `Listed` adds that
only running nodes list anybody, never themselves, and that a listed peer that
is down counts as silent.

`WebServerProofs` proves `Refinement` (`Spec => Implements`) for any requests,
threads and limits, and `OneUntilSecondAnswer`: as long as no handler has
answered a second time, at most one request holds the NPU. That a flag which is
set means one holder is not an invariant of the code, since a second answer
hands on an NPU that somebody else has. What is one is a count, `Chances`: the
holders, the requests that are handing on for the second time, and one if the
flag is clear, are together at most one more than the requests that answered
twice. It is inductive with `QueueOfWaiting` (the queue has every waiting
request once, so the one posted is not at work already), `NpuOnly` and
`AgainLate` (who answered twice is past its work). `QuietHolds` covers all steps
that neither queue nor hand on; the others have a lemma each.

It also proves `TypeCorrect` (`[]TypeOK`) and `CountsConnections`
(`[]ConnectionsCounted`), from `CountAssumption`: there are finitely many
requests, and the cap on connections is below `Width`, as 128 is below
2^64. `active` is a counter that wraps around; that it never does is the
invariant that it equals the number of open connections, `EngineParsed` (what
has reached the engine had a body that parses) and `ThreadsCounted` (no more
requests at work than threads). `OneMoves` is the lemma under every step: the
size of a set changes by one when one element moves.

`NpuWorkerProofs` proves, for any number of calls, any bounds of pipes, context
and crashes, and with or without a slow worker:

* `TypeCorrect`: `Spec => []TypeOK`, which includes that the worker's cache and
  the client's sequence never outgrow `MaxCtx`;
* `AnswersOwnCall`: `Spec => []AnswerIsOwn`;
* `ContextIsComplete`: `Spec => [](ContextComplete /\ (~Recurrent =>
  OwnSequenceOnly))`: with GDN layers a token's context is that of its sequence
  but for what the recurrent state held before an op 31, and without them
  exactly that.

Neither property is inductive, since a token that is read was written long
before. `Pipes` says, as long as no read was given up, what the two pipes and
the worker's output may hold at each point of the client: nothing between two
calls; then the command (`NotTaken`), or one of three answers in one of its
stages (`ResetAnswered`, `ErrorAnswered`, `TokenAnswered`, and after the header
`ResetLeft`, `TokenLeft`), or nothing with a dead worker. `InStep` ties the
cache, with the resets that are only noted yet, to the sequence, up to the mark
that `Marks` says can only be at its head, and only for a model with GDN
layers. The proof attempt found two guards of a CASE in `Finish` that
overlapped, so that the model did not say which applied; it is an IF now, in
the order of the code.

`MeshProofs` proves, for any nodes and any number of faults:

* `TypeCorrect`: `Spec => []TypeOK`;
* `GreetingReached`: `Spec => []GreetedHasAsk`;
* `AnswersVisible`: `Spec => []AnswerVisible`;
* `GreetsOnce`: `Spec => []NoRepeatedAsk`.

`Traces` says what an exchange under way has already left in the two logs, and
`Origins` that an ask is never newer than its asker, so that a record made
before a restart is not mistaken for one of after it. `RecordAnswerKeeps` is the
lemma on the log: it only grows, keeps each record's ask, and marks an answered
record by its id alone. The bound of `GreetsOnce` counts what has been
received, what is being sent and what the agent may still send without a
further fault (`Budget`, `Owed`): a step moves one unit between them, and a
fault pays for one more.

`ServerProofs` proves, for any requests, models, order of backends, number of
slots, answers of any length and any number of failing calls:

* `TypeCorrect`: `Spec => []TypeOK` of all three modules;
* `OneRequestAtATime`: `Spec => []SingleOccupancy`;
* `BosSkippedWithoutBatch`: `Spec => []BosSkipped`, if requests do not go
  through the scheduler (with it the property is false, see section 3);
* `GivesUpOnlyOnFailure`: `Spec => HealthyAnswered`, an action property;
* `OwnTokensOneFault`: `Spec => []OwnContext`, if requests do not go through the
  scheduler and at most one call of a backend fails (`OneFault`);
* `OwnTokensOneBackend`: `Spec => [](OwnContextIfReset /\ (~Batch =>
  OwnContext))`, if there is one backend, for any number of failing calls,
  resets included: with the scheduler only a request whose slot reset failed
  can be answered from another's tokens, and without it none;
* `NeverTheWrongModel`: `Spec => []AnswerMatchesModel`, if at most one call
  fails, there is more than one backend, and a model that only the scan of the
  directory finds has dimensions of its own (`DistinctDims`).

The hypotheses of the last three are those under which the properties are true.
With two failing calls and two backends, with two routed backends and the
scheduler (`server_batch_leak`), with one backend and one failing load, or with
equal dimensions, TLC has a counterexample (second table of section 3). The
passing runs that check the properties satisfy them.

The assumptions are those of the modules: the order of backends is a sequence
that is not empty, the bounds are natural numbers, and `None` is neither a model
nor a request (`NoneAssumption`). `Mgr` says of the manager that a backend the
router has an entry for is loaded. `Mutex` ties `inferLock` to the handlers'
program counters. `Sched` is the occupancy of the scheduler: nothing, or one
request, queued or in one slot, whose handler waits for its future and so keeps
the mutex; a number alone would not be inductive, because the slot must be that
of the handler that waits. `Health` says what failed before a handler comes to
the point where it gives up. The lemmas `GenerateKeeps`, `ForwardKeeps`,
`InitKeeps` and their kind state what the manager's operations do whoever calls
them; `FirstBackend` and `LastBackend` show that the choices by position exist.
`OwnContext` needs to know which caches the next call may be served from.
`Spared` says that until the first failure every loaded backend has an entry in
the router; so the router's reset at the start of a sequence clears all of them,
and `Reached` says of the entries, or of the active backend once there are none,
that they hold nothing of another request. The one failing call can then retire
the router, but no other backend is reached except by `failover()`, whose reset
then cannot fail as well. With one backend `Alone` says the same of its one
cache, for the handler that has got past its reset and for a seated request
whose slot was reset. `Weights` is
the counterpart for the models: every backend that may be asked has the
manager's model loaded. `Named` ties that model to `current_cfg` and
`current_cfg` to the name in the request, at each `pc`; while a handler is
between the switch and the end of `mgr.init()` the two differ.

The attempt to prove `HealthyAnswered` showed that it had held in its run only
because one call fails there: what two failures leave behind was missing from
its exception.

`OnebitdProofs` proves `TypeCorrect`, `ChildReaped` (`Spec => []NoOrphan`) and
`ServesReadyBackend` (`Spec => []ReadyFirst`) for any requests and time limits.
`Owned` ties `g_child_pid` to the child (the number is given up only when the
child has been reaped), `Probed` says what a successful probe leaves behind,
and `Counted` keeps the loop counters within their limits.

Only model-checked: the properties that are liveness (`CallReturns`,
`Finishes`, `RequestAnswered`, `EventuallyIntegrated`, `QueueDrains`,
`NpuFreed`, `GoesDown`), because the prover does not handle fairness and
`ENABLED`. What a fold over a window computes for every length needs induction
over data, which the installed provers cannot do; the proofs therefore use of
the average only that it selects an existing entry.

## 5. What is not modelled

* The arithmetic: logits, sampling, quantisation, kernels, loaders,
  tokenizers. Models see their result as a token or a failure.
* Texts: prompt templates, JSON, streaming frames, logs.
* `BackendManager`'s own mutexes. The handlers that change anything hold
  `g_inference_mutex`; the ones that do not (`/v1/strategy/select`, the health
  check) are listed as hazards and are the next module.
* `BatchScheduler`'s destructor; the process ends with it.
* `generate_batch` of the NPU backend beyond one slot: `SingleOccupancy` shows
  that the server never has two.
* Backends that are stubs (`can_infer()` false) and text-level FLM backends.
* The watchdog and the strategy engine: their start is commented out in
  `unified_server.cpp` (2205-2208). The pilot: it is attached only to backends
  that never call it, so its queue stays empty. With neither running there is
  no behaviour to model at this commit.
* The FLM backend: its process has the life cycle of onebitd's child, and what
  its session cache means is decided by an external program.
* `MeshDispatcher`, which tries the candidates of one snapshot in turn and keeps
  nothing; `unified_router`, which keeps nothing between requests.
* In the web server: the preflight request, cancellation by a client that
  disconnects, and what the handlers compute. `clear_context()` after the
  hand-on (`rest_handler.cpp:673`) may clear the next request's context; the
  engine it is called on is an external library.

The map covers a small share of the repository, most of whose lines are
kernels, numeric engines, loaders and tables of constants: floating-point
arithmetic over large arrays has no small instance for a model checker.

## 6. Plan

Done: all modules of section 2, and proofs of every safety property that a
passing run checks.

Next, in this order:

1. `ManagerLocks`: `mtx_` and the `compute_mtx` of each backend with
   `health_check` and `benchmark_all` running beside an inference, once
   something calls them.
2. An abstract inference service (a request is answered from its own tokens)
   that `UnifiedServer` implements where its properties hold, with the proof of
   the refinement from `Matched` and `Context`.
