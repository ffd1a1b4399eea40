---------------------------- MODULE DynamicRouter ----------------------------
(***************************************************************************)
(* The per-token router of src/dynamic_router.{h,cpp}: caller threads      *)
(* generate tokens, run the forward / lm_head pair and reset every         *)
(* backend, while entries are added, removed and cleared (model reload).   *)
(*                                                                         *)
(* Locks: mtx is mtx_, and stands free except while reset_all holds it;    *)
(* every other critical section of mtx_ blocks on nothing inside, so it is *)
(* one step guarded by mtx = Free.  cmtx[m] is the holder of the per-entry *)
(* compute mutex object m.                                                 *)
(***************************************************************************)
EXTENDS Naturals, Sequences, Folds

CONSTANTS
    Threads,        \* threads that call into the router
    Ids,            \* backend ids
    GpuIds,         \* ids containing "gpu" or "hip"
    NpuIds,         \* ids containing "npu"
    CpuIds,         \* ids of the backends of tier T3_CPU
    GpuOnlyIds,     \* hip_gpu, zinc_gpu
    NpuOnlyIds,     \* npu_flm, npu_xrt
    Insts,          \* Backend objects the caller may register
    Mutexes,        \* std::mutex objects make_shared may return
    Chosen,         \* strategies set_strategy is called with
    Latencies,      \* possible ms of one successful generate()
    WINDOW_SIZE,    \* bound of recent_latencies
    ResetMayThrow,  \* TRUE: Backend::reset() may throw
    QuietReload,    \* TRUE: entries change only while no caller is inside
    Free,           \* a mutex nobody holds
    NoId,           \* the empty last_failed_id_
    NoSnap          \* no backend snapshotted

AllStrategies ==
    {"FASTEST", "GPU_BACKFILL", "NPU_BACKFILL", "GPU_ONLY", "NPU_ONLY"}

ASSUME RouterAssumption ==
    /\ CpuIds \cap (GpuIds \cup NpuIds) = {}
    /\ Chosen \subseteq AllStrategies
    /\ Latencies \subseteq Nat
    /\ WINDOW_SIZE \in Nat \ {0}
    /\ ResetMayThrow \in BOOLEAN
    /\ QuietReload \in BOOLEAN
    /\ Free \notin Threads
    /\ NoId \notin Ids
    /\ NoSnap \notin [id : Ids, inst : Insts, mtx : Mutexes]

VARIABLES
    entries,         \* entries_: sequence of [id, inst, mtx, alive, lat]
    strategy,        \* strategy_
    rr,              \* round_robin_counter_ % 5
    last_failed_id,  \* last_failed_id_
    lfw,             \* threads in the middle of an unlocked write to last_failed_id_
    lfRaced,         \* the write in progress overlapped another one
    mtx,             \* holder of mtx_ (only reset_all keeps it across steps)
    cmtx,            \* compute mutex -> holder
    pc,              \* thread -> where it is
    depth,           \* thread -> depth argument of generate_with_failover
    snap,            \* thread -> depth -> snapshot (id, backend, compute_mtx)
    failed,          \* threads whose last generate() call on a backend failed
    ri,              \* thread -> loop position of reset_all
    notOk,           \* threads whose reset_all has ok == false so far
    rdone,           \* thread -> positions whose reset() succeeded in this reset_all
    fwd              \* thread -> Backend object its last forward() ran on

vars == <<entries, strategy, rr, last_failed_id, lfw, lfRaced, mtx, cmtx, pc,
          depth, snap, failed, ri, notOk, rdone, fwd>>

registry == <<entries, strategy>>
lastFailed == <<last_failed_id, lfw, lfRaced>>
resets == <<ri, notOk, rdone>>

Entry == [id : Ids, inst : Insts, mtx : Mutexes, alive : BOOLEAN, lat : Seq(Latencies)]
Snap  == [id : Ids, inst : Insts, mtx : Mutexes]
-----------------------------------------------------------------------------
(* Selection.  A position in entries stands for BackendEntry*, 0 for nullptr. *)

FirstOf(S) == IF S = {} THEN 0 ELSE CHOOSE i \in S : \A j \in S : i <= j

\* window_avg(e) < window_avg(f); an empty window averages 1e30.
Faster(e, f) ==
    LET sum(w) == MapThenFoldSet(+, 0, LAMBDA k : w[k], LAMBDA D : CHOOSE k \in D : TRUE, DOMAIN w)
    IN  /\ e.lat # <<>>
        /\ \/ f.lat = <<>>
           \/ sum(e.lat) * Len(f.lat) < sum(f.lat) * Len(e.lat)

\* FASTEST: the lowest window average among the live entries, first in order
\* on a tie; with no measurement at all, the first live entry.
Fastest(exclude) ==
    LET live == {i \in DOMAIN entries : entries[i].alive /\ entries[i].id # exclude}
        best == {i \in live : /\ entries[i].lat # <<>>
                              /\ \A j \in live : ~Faster(entries[j], entries[i])}
    IN  IF best # {} THEN FirstOf(best) ELSE FirstOf(live)

\* The ids a strategy looks for at this point of its 4:1 cycle.
Wanted ==
    CASE strategy = "GPU_ONLY" -> GpuOnlyIds
      [] strategy = "NPU_ONLY" -> NpuOnlyIds
      [] strategy = "GPU_BACKFILL" -> IF rr < 4 THEN GpuIds ELSE NpuIds
      [] strategy = "NPU_BACKFILL" -> IF rr < 4 THEN NpuIds ELSE GpuIds
      [] OTHER -> {}

\* The switch on strategy_, shared by both pick functions.
ByStrategy(exclude) ==
    IF strategy = "FASTEST" THEN Fastest(exclude)
    ELSE FirstOf({i \in DOMAIN entries : entries[i].id \in Wanted /\ entries[i].id # exclude})

pick_backend ==
    CASE entries = <<>>   -> 0
      [] Len(entries) = 1 -> 1
      [] OTHER -> IF ByStrategy(NoId) # 0 THEN ByStrategy(NoId) ELSE 1

\* The retry forgets which backend just failed.
MutPickExcluding(exclude) == pick_backend

\* "If only the excluded backend remains, return it last-chance."
pick_backend_excluding(exclude) ==
    CASE entries = <<>>   -> 0
      [] Len(entries) = 1 -> IF entries[1].id = exclude THEN 0 ELSE 1
      [] OTHER -> IF ByStrategy(exclude) # 0 THEN ByStrategy(exclude) ELSE 1

\* round_robin_counter_++ happens in the two BACKFILL cases only.
Cycling == Len(entries) > 1 /\ strategy \in {"GPU_BACKFILL", "NPU_BACKFILL"}

AdvanceCycle == rr' = IF Cycling THEN (rr + 1) % 5 ELSE rr

SnapOf(i) == [id |-> entries[i].id, inst |-> entries[i].inst, mtx |-> entries[i].mtx]
-----------------------------------------------------------------------------
Init ==
    /\ entries = <<>>
    /\ strategy = "FASTEST"
    /\ rr = 0
    /\ last_failed_id = NoId /\ lfw = {} /\ lfRaced = FALSE
    /\ mtx = Free
    /\ cmtx = [m \in Mutexes |-> Free]
    /\ pc = [t \in Threads |-> "idle"]
    /\ depth = [t \in Threads |-> 0]
    /\ snap = [t \in Threads |-> [d \in {0, 1} |-> NoSnap]]
    /\ failed = {}
    /\ ri = [t \in Threads |-> 0]
    /\ notOk = {}
    /\ fwd = [t \in Threads |-> NoSnap]
    /\ rdone = [t \in Threads |-> {}]
-----------------------------------------------------------------------------
(* Registry operations, called on a (re)load.                              *)

\* Objects nothing in the router refers to any more.
InUse == {entries[i] : i \in DOMAIN entries}
            \cup ({snap[t][d] : t \in Threads, d \in {0, 1}} \ {NoSnap})
FreshInsts   == Insts \ ({e.inst : e \in InUse} \cup {fwd[t] : t \in Threads})
FreshMutexes == Mutexes \ {e.mtx : e \in InUse}

IndexOf(id) == FirstOf({i \in DOMAIN entries : entries[i].id = id})

\* init_in_order keeps one accelerator and one CPU backend.
LaneFree(id) ==
    \A i \in DOMAIN entries :
        entries[i].id = id \/ (entries[i].id \in CpuIds <=> id \notin CpuIds)

\* The strategy init_in_order passes along with a backend.
RegistersAs(id) ==
    IF id \in NpuIds THEN "NPU_BACKFILL" ELSE IF id \in GpuIds THEN "GPU_BACKFILL" ELSE "FASTEST"

\* A known id gets the new backend (and keeps mutex and latencies); a new id
\* is appended with a mutex of its own, and its strategy becomes the router's.
add_backend(id, inst, s) ==
    /\ mtx = Free
    /\ inst \in FreshInsts
    /\ \/ /\ IndexOf(id) # 0
          /\ entries' = [entries EXCEPT ![IndexOf(id)].inst = inst,
                                        ![IndexOf(id)].alive = TRUE]
          /\ UNCHANGED strategy
       \/ /\ IndexOf(id) = 0
          /\ \E m \in FreshMutexes :
                entries' = Append(entries, [id |-> id, inst |-> inst, mtx |-> m,
                                            alive |-> TRUE, lat |-> <<>>])
          /\ strategy' = s
    /\ UNCHANGED <<rr, lastFailed, mtx, cmtx, pc, depth, snap, failed, resets, fwd>>

Without(k) == [i \in 1 .. (Len(entries) - 1) |-> IF i < k THEN entries[i] ELSE entries[i + 1]]

remove_backend(id) ==
    /\ mtx = Free
    /\ IndexOf(id) # 0
    /\ entries' = Without(IndexOf(id))
    /\ UNCHANGED <<strategy, rr, lastFailed, mtx, cmtx, pc, depth, snap, failed, resets, fwd>>

clear ==
    /\ mtx = Free
    /\ entries' = <<>>
    /\ UNCHANGED <<strategy, rr, lastFailed, mtx, cmtx, pc, depth, snap, failed, resets, fwd>>

set_strategy(s) ==
    /\ mtx = Free
    /\ strategy' = s
    /\ UNCHANGED <<entries, rr, lastFailed, mtx, cmtx, pc, depth, snap, failed, resets, fwd>>
-----------------------------------------------------------------------------
(* The part generate, forward and lm_head share.                           *)

\* Before #1345: no per-entry compute lock.
MutAcquire(t, m) == cmtx' = [cmtx EXCEPT ![m] = t]

\* std::lock_guard on a compute mutex: blocks while anyone holds it, the
\* calling thread included.
Acquire(t, m) ==
    /\ cmtx[m] = Free
    /\ cmtx' = [cmtx EXCEPT ![m] = t]

Release(m) == cmtx' = [cmtx EXCEPT ![m] = Free]

\* Under mtx_: pick and snapshot backend, mutex and id.
Pick(t, from, to) ==
    /\ pc[t] = from
    /\ mtx = Free
    /\ AdvanceCycle
    /\ pick_backend # 0
    /\ snap' = [snap EXCEPT ![t][0] = SnapOf(pick_backend)]
    /\ depth' = [depth EXCEPT ![t] = 0]
    /\ pc' = [pc EXCEPT ![t] = to]
    /\ UNCHANGED <<registry, lastFailed, mtx, cmtx, failed, resets, fwd>>

Lock(t, from, to) ==
    /\ pc[t] = from
    /\ Acquire(t, snap[t][depth[t]].mtx)
    /\ pc' = [pc EXCEPT ![t] = to]
    /\ UNCHANGED <<registry, rr, lastFailed, mtx, depth, snap, failed, resets, fwd>>
-----------------------------------------------------------------------------
(* generate_with_failover                                                  *)

\* backend->generate(token): a token, or -1 / an exception.
GenCompute(t) ==
    /\ pc[t] = "compute"
    /\ failed' \in {failed \ {t}, failed \cup {t}}
    /\ pc' = [pc EXCEPT ![t] = "record"]
    /\ UNCHANGED <<registry, rr, lastFailed, mtx, cmtx, depth, snap, resets, fwd>>

\* Trimming one sample late.
MutRecorded(w, ms) == LET v == Append(w, ms) IN IF Len(v) > WINDOW_SIZE + 1 THEN Tail(v) ELSE v

\* The window after a new sample: the oldest leaves when it is full.
Recorded(w, ms) == LET v == Append(w, ms) IN IF Len(v) > WINDOW_SIZE THEN Tail(v) ELSE v

\* record_latency on the entry that has the id now, if there still is one.
GenRecord(t) ==
    LET k == IndexOf(snap[t][depth[t]].id) IN
    /\ pc[t] = "record"
    /\ mtx = Free
    /\ IF k # 0 /\ t \notin failed
       THEN \E ms \in Latencies : entries' = [entries EXCEPT ![k].lat = Recorded(@, ms)]
       ELSE UNCHANGED entries
    /\ pc' = [pc EXCEPT ![t] = "decide"]
    /\ UNCHANGED <<strategy, rr, lastFailed, mtx, cmtx, depth, snap, failed, resets, fwd>>

\* last_failed_id_ is written without mtx_, so a write takes two steps; writes
\* that overlapped leave any value behind.
LfWriteBegin(t) ==
    /\ lfw' = lfw \cup {t}
    /\ lfRaced' = (lfRaced \/ lfw # {})
    /\ UNCHANGED last_failed_id

\* The failed id is lost instead of stored.
MutLfWriteEnd(t, value) ==
    /\ last_failed_id' = NoId
    /\ lfw' = lfw \ {t}
    /\ lfRaced' = FALSE

LfWriteEnd(t, value) ==
    /\ IF lfRaced THEN last_failed_id' \in Ids \cup {NoId} ELSE last_failed_id' = value
    /\ lfw' = lfw \ {t}
    /\ lfRaced' = (lfRaced /\ lfw # {t})

\* result < 0 && depth == 0 && entries_.size() > 1, read without mtx_.
MustRetry(t) == t \in failed /\ depth[t] = 0 /\ Len(entries) > 1

GenFailOver(t) ==
    /\ pc[t] = "decide"
    /\ MustRetry(t)
    /\ LfWriteBegin(t)
    /\ pc' = [pc EXCEPT ![t] = "fail_write"]
    /\ UNCHANGED <<registry, rr, mtx, cmtx, depth, snap, failed, resets, fwd>>

\* return result: this depth's compute lock is released; from depth 1 control
\* is back in the depth-0 frame, which clears last_failed_id_.
GenDone(t) ==
    /\ pc[t] = "decide"
    /\ ~MustRetry(t)
    /\ Release(snap[t][depth[t]].mtx)
    /\ snap' = [snap EXCEPT ![t][depth[t]] = NoSnap]
    /\ failed' = failed \ {t}
    /\ depth' = [depth EXCEPT ![t] = 0]
    /\ \/ /\ depth[t] = 0
          /\ pc' = [pc EXCEPT ![t] = "idle"]
          /\ UNCHANGED lastFailed
       \/ /\ depth[t] = 1
          /\ pc' = [pc EXCEPT ![t] = "clear_write"]
          /\ LfWriteBegin(t)
    /\ UNCHANGED <<registry, rr, mtx, resets, fwd>>

GenFailWritten(t) ==
    /\ pc[t] = "fail_write"
    /\ LfWriteEnd(t, snap[t][0].id)
    /\ pc' = [pc EXCEPT ![t] = "retry"]
    /\ UNCHANGED <<registry, rr, mtx, cmtx, depth, snap, failed, resets, fwd>>

\* Depth 1: pick excluding last_failed_id_ (torn if a write is in progress)
\* while the depth-0 compute lock is still held.
GenRetryPick(t) ==
    /\ pc[t] = "retry"
    /\ mtx = Free
    /\ AdvanceCycle
    /\ \E x \in IF lfw = {} THEN {last_failed_id} ELSE Ids \cup {NoId} :
        LET k == pick_backend_excluding(x) IN
        IF k = 0
        THEN /\ pc' = [pc EXCEPT ![t] = "clear_write"]
             /\ LfWriteBegin(t)
             /\ UNCHANGED <<snap, depth>>
        ELSE /\ pc' = [pc EXCEPT ![t] = "lock"]
             /\ snap' = [snap EXCEPT ![t][1] = SnapOf(k)]
             /\ depth' = [depth EXCEPT ![t] = 1]
             /\ UNCHANGED lastFailed
    /\ UNCHANGED <<registry, mtx, cmtx, failed, resets, fwd>>

\* last_failed_id_.clear(); return retry: the outer compute lock goes.
GenReturn(t) ==
    /\ pc[t] = "clear_write"
    /\ LfWriteEnd(t, NoId)
    /\ Release(snap[t][0].mtx)
    /\ failed' = failed \ {t}
    /\ snap' = [snap EXCEPT ![t][0] = NoSnap]
    /\ pc' = [pc EXCEPT ![t] = "idle"]
    /\ UNCHANGED <<registry, rr, mtx, depth, resets, fwd>>
-----------------------------------------------------------------------------
(* forward, then lm_head on the hidden state it returned: two independent  *)
(* calls, each of which picks.                                             *)

\* forward() measured like generate().
MutForwardRun(t) ==
    /\ pc[t] = "fwd_compute"
    /\ Release(snap[t][0].mtx)
    /\ snap' = [snap EXCEPT ![t][0] = NoSnap]
    /\ fwd' = [fwd EXCEPT ![t] = snap[t][0].inst]
    /\ pc' = [pc EXCEPT ![t] = "hidden"]
    /\ \E ms \in Latencies : entries' = [entries EXCEPT ![IndexOf(snap[t][0].id)].lat = Recorded(@, ms)]
    /\ UNCHANGED <<strategy, rr, lastFailed, mtx, depth, failed, resets>>

\* forward() returned true: the caller goes on to lm_head; on false it gives up.
ForwardRun(t) ==
    /\ pc[t] = "fwd_compute"
    /\ Release(snap[t][0].mtx)
    /\ snap' = [snap EXCEPT ![t][0] = NoSnap]
    /\ \/ /\ pc' = [pc EXCEPT ![t] = "hidden"]
          /\ fwd' = [fwd EXCEPT ![t] = snap[t][0].inst]
       \/ /\ pc' = [pc EXCEPT ![t] = "idle"]
          /\ UNCHANGED fwd
    /\ UNCHANGED <<registry, rr, lastFailed, mtx, depth, failed, resets>>

LmHeadRun(t) ==
    /\ pc[t] = "lm_compute"
    /\ Release(snap[t][0].mtx)
    /\ snap' = [snap EXCEPT ![t][0] = NoSnap]
    /\ fwd' = [fwd EXCEPT ![t] = NoSnap]
    /\ pc' = [pc EXCEPT ![t] = "idle"]
    /\ UNCHANGED <<registry, rr, lastFailed, mtx, depth, failed, resets>>

\* pick_backend returned nullptr: lm_head returns false.
LmHeadNone(t) ==
    /\ pc[t] = "hidden"
    /\ mtx = Free
    /\ pick_backend = 0
    /\ fwd' = [fwd EXCEPT ![t] = NoSnap]
    /\ pc' = [pc EXCEPT ![t] = "idle"]
    /\ UNCHANGED <<registry, rr, lastFailed, mtx, cmtx, depth, snap, failed, resets>>

forward(t) ==
    \/ Pick(t, "idle", "fwd_lock")
    \/ Lock(t, "fwd_lock", "fwd_compute")
    \/ ForwardRun(t)

lm_head(t) ==
    \/ Pick(t, "hidden", "lm_lock")
    \/ LmHeadNone(t)
    \/ Lock(t, "lm_lock", "lm_compute")
    \/ LmHeadRun(t)
-----------------------------------------------------------------------------
(* reset_all: mtx_ held from beginning to end, the compute lock of each    *)
(* live entry taken in turn.                                               *)

ResetBegin(t) ==
    /\ pc[t] = "idle"
    /\ mtx = Free
    /\ mtx' = t
    /\ ri' = [ri EXCEPT ![t] = 1]
    /\ pc' = [pc EXCEPT ![t] = "reset"]
    /\ UNCHANGED <<registry, rr, lastFailed, cmtx, depth, snap, failed, notOk, rdone, fwd>>

ResetSkip(t) ==
    /\ pc[t] = "reset"
    /\ ri[t] <= Len(entries)
    /\ ~entries[ri[t]].alive
    /\ ri' = [ri EXCEPT ![t] = @ + 1]
    /\ UNCHANGED <<registry, rr, lastFailed, mtx, cmtx, pc, depth, snap, failed, notOk, rdone, fwd>>

ResetLock(t) ==
    /\ pc[t] = "reset"
    /\ ri[t] <= Len(entries)
    /\ entries[ri[t]].alive
    /\ Acquire(t, entries[ri[t]].mtx)
    /\ pc' = [pc EXCEPT ![t] = "resetting"]
    /\ UNCHANGED <<registry, rr, lastFailed, mtx, depth, snap, failed, resets, fwd>>

\* ok is overwritten by the last reset() instead of accumulated.
MutResetOutcome(t) ==
    /\ \/ rdone' = [rdone EXCEPT ![t] = @ \cup {ri[t]}] /\ notOk' = notOk \ {t}
       \/ notOk' = notOk \cup {t} /\ UNCHANGED rdone
    /\ UNCHANGED entries

\* reset() returns true, returns false, or throws: then the entry is retired
\* and ok is left alone.
ResetOutcome(t) ==
    \/ /\ rdone' = [rdone EXCEPT ![t] = @ \cup {ri[t]}]
       /\ UNCHANGED <<notOk, entries>>
    \/ /\ notOk' = notOk \cup {t}
       /\ UNCHANGED <<rdone, entries>>
    \/ /\ ResetMayThrow
       /\ entries' = [entries EXCEPT ![ri[t]].alive = FALSE]
       /\ UNCHANGED <<notOk, rdone>>

ResetRun(t) ==
    /\ pc[t] = "resetting"
    /\ ResetOutcome(t)
    /\ Release(entries[ri[t]].mtx)
    /\ ri' = [ri EXCEPT ![t] = @ + 1]
    /\ pc' = [pc EXCEPT ![t] = "reset"]
    /\ UNCHANGED <<strategy, rr, lastFailed, mtx, depth, snap, failed, fwd>>

ResetEnd(t) ==
    /\ pc[t] = "reset"
    /\ ri[t] > Len(entries)
    /\ mtx' = Free
    /\ pc' = [pc EXCEPT ![t] = "idle"]
    /\ ri' = [ri EXCEPT ![t] = 0] /\ notOk' = notOk \ {t} /\ rdone' = [rdone EXCEPT ![t] = {}]
    /\ UNCHANGED <<registry, rr, lastFailed, cmtx, depth, snap, failed, fwd>>

reset_all(t) == ResetBegin(t) \/ ResetSkip(t) \/ ResetLock(t) \/ ResetRun(t) \/ ResetEnd(t)

generate(t) ==
    \/ Pick(t, "idle", "lock") \/ Lock(t, "lock", "compute")
    \/ GenCompute(t) \/ GenRecord(t) \/ GenFailOver(t) \/ GenDone(t)
    \/ GenFailWritten(t) \/ GenRetryPick(t) \/ GenReturn(t)
-----------------------------------------------------------------------------
Reload ==
    /\ QuietReload => \A t \in Threads : pc[t] = "idle"
    /\ \/ \E id \in Ids, inst \in Insts : LaneFree(id) /\ add_backend(id, inst, RegistersAs(id))
       \/ \E id \in Ids : remove_backend(id)
       \/ clear
       \/ \E s \in Chosen : set_strategy(s)

Next == Reload \/ \E t \in Threads : generate(t) \/ forward(t) \/ lm_head(t) \/ reset_all(t)

Spec == Init /\ [][Next]_vars

\* A thread inside the router is scheduled; a mutex is granted to a waiter in
\* the end; what callers do next, and reloads, is not promised.
Step(t) == pc[t] \notin {"idle", "hidden"} /\ (generate(t) \/ forward(t) \/ lm_head(t) \/ reset_all(t))

FairSpec == Spec /\ \A t \in Threads : SF_vars(Step(t))
-----------------------------------------------------------------------------
PCs == {"idle", "lock", "compute", "record", "decide", "fail_write", "retry", "clear_write",
        "fwd_lock", "fwd_compute", "hidden", "lm_lock", "lm_compute", "reset", "resetting"}

\* Every variable has its type; the latency window of an entry never exceeds
\* WINDOW_SIZE (record_latency).
TypeOK ==
    /\ entries \in Seq(Entry)
    /\ \A i \in DOMAIN entries : Len(entries[i].lat) <= WINDOW_SIZE
    /\ strategy \in AllStrategies
    /\ rr \in 0 .. 4
    /\ last_failed_id \in Ids \cup {NoId}
    /\ lfw \subseteq Threads
    /\ lfRaced \in BOOLEAN
    /\ mtx \in Threads \cup {Free}
    /\ cmtx \in [Mutexes -> Threads \cup {Free}]
    /\ pc \in [Threads -> PCs]
    /\ depth \in [Threads -> {0, 1}]
    /\ snap \in [Threads -> [{0, 1} -> Snap \cup {NoSnap}]]
    /\ failed \subseteq Threads
    /\ ri \in [Threads -> Nat]
    /\ notOk \subseteq Threads
    /\ fwd \in [Threads -> Insts \cup {NoSnap}]
    /\ rdone \in [Threads -> SUBSET Nat]

\* The Backend object a thread is executing in right now: in generate, forward
\* or lm_head with the snapshot, in reset_all with the entry of the loop.
UsedBy(t) ==
    IF pc[t] \in {"compute", "fwd_compute", "lm_compute"} THEN {snap[t][depth[t]].inst}
    ELSE IF pc[t] = "resetting" THEN {entries[ri[t]].inst} ELSE {}

\* #1345: no two threads ever execute in the same Backend object, although
\* mtx_ is released during inference and entries come and go meanwhile.
InstanceExclusive ==
    \A t, u \in Threads : t # u => UsedBy(t) \cap UsedBy(u) = {}

\* Inside generate_with_failover at the current depth, its compute lock held.
Computing(t) == pc[t] \in {"compute", "record", "decide", "fwd_compute", "lm_compute"}

\* The depth-0 frame of generate_with_failover is suspended in its retry.
Outer(t) == depth[t] = 1 \/ pc[t] \in {"fail_write", "retry", "clear_write"}

\* Which compute locks a thread holds at each point, and that what it is about
\* to release is its own; why InstanceExclusive is inductive with PairsAgree.
ThreadLocks(t) ==
    /\ Computing(t) => cmtx[snap[t][depth[t]].mtx] = t
    /\ Computing(t) \/ pc[t] \in {"lock", "fwd_lock", "lm_lock"} => snap[t][depth[t]] \in Snap
    /\ Outer(t) => snap[t][0] \in Snap /\ cmtx[snap[t][0].mtx] = t
    /\ depth[t] = 1 => pc[t] \in {"lock", "compute", "record", "decide"}
    /\ depth[t] = 1 /\ Computing(t) => snap[t][0].mtx # snap[t][1].mtx
    /\ pc[t] \in {"reset", "resetting"} => mtx = t
    /\ pc[t] = "resetting" => ri[t] \in DOMAIN entries /\ cmtx[entries[ri[t]].mtx] = t
    /\ pc[t] = "reset" => ri[t] \in Nat \ {0}

LocksHeld == \A t \in Threads : ThreadLocks(t)

\* One Backend object is never reachable through two different mutexes.
PairsAgree ==
    \A a, b \in InUse : a.inst = b.inst => a.mtx = b.mtx

IInv == TypeOK /\ LocksHeld /\ PairsAgree

\* The threads thread t is blocked by.
WaitsFor(t) ==
    LET holder(m) == cmtx[m]
    IN  (CASE pc[t] \in {"lock", "fwd_lock", "lm_lock"} -> {holder(snap[t][depth[t]].mtx)}
           [] pc[t] \in {"record", "retry"} -> {mtx}
           [] pc[t] = "reset" /\ ri[t] <= Len(entries) /\ entries[ri[t]].alive ->
                {holder(entries[ri[t]].mtx)}
           [] OTHER -> {}) \ {Free}

Stuck(S) == \A t \in S : WaitsFor(t) \cap S # {}

\* pick_backend_excluding may return the failed entry, "last-chance": FASTEST
\* looks at live entries only, and one whose reset() threw is not alive.
LastChance == strategy = "FASTEST" /\ \E i \in DOMAIN entries : ~entries[i].alive

\* "must not stall the request" (generate_with_failover): no set of threads
\* waits for locks held within the set, up to the last chance.
NoWaitCycle == LastChance \/ \A S \in (SUBSET Threads) \ {{}} : ~Stuck(S)

\* The same, whatever became of an entry.
NeverStuck == \A S \in (SUBSET Threads) \ {{}} : ~Stuck(S)

\* "Guarded by mtx_" (last_failed_id_): never two accesses at the same time.
LastFailedGuarded ==
    \A t, u \in lfw : t = u

\* lm_head's pick began or ended the 4:1 cycle's turn of the other backend.
AtSeam == Cycling /\ rr \in {0, 1}

SameBackend(t) == pc[t] = "lm_compute" => snap[t][0].inst = fwd[t]

\* "the logits path must see the same KV cache": lm_head runs on the backend
\* that forward() ran on, whatever latencies were measured in between, unless
\* the accelerator came second and the two picks fell on a seam of its cycle.
LogitsOnForwardBackend == AtSeam \/ \A t \in Threads : SameBackend(t)

\* The same, wherever the cycle stands.
LogitsAlwaysMatch == \A t \in Threads : SameBackend(t)

\* reset_all is about to return true.
ResetOk(t) == pc[t] = "reset" /\ ri[t] > Len(entries) /\ t \notin notOk

\* "Reset all backends for new sequence": when reset_all returns true, the
\* reset() of every registered backend has succeeded, or it threw and the
\* entry is retired.
ResetMeansAll ==
    \A t \in Threads : ResetOk(t) =>
        \A i \in DOMAIN entries : i \in rdone[t] \/ ~entries[i].alive

\* The same, for entries that are retired too.
EveryBackendReset ==
    \A t \in Threads : ResetOk(t) => DOMAIN entries \subseteq rdone[t]

\* Every call into the router returns, up to a retry on the last chance.
CallReturns ==
    \A t \in Threads : pc[t] \notin {"idle", "hidden"} ~> (pc[t] \in {"idle", "hidden"} \/ LastChance)
=============================================================================
