---------------------------- MODULE NpuWorker ----------------------------
(***************************************************************************)
(* The NPU backend and its worker subprocess (src/backend_npu.cpp and the  *)
(* worker loop of engine/npu/src/npu_engine_universal.cpp).                *)
(*                                                                         *)
(* The backend writes a command to the worker's stdin and reads two        *)
(* 32-bit words (status, out_dim) and then batch * out_dim data words from *)
(* its stdout, every read bounded by GEMM_TIMEOUT_MS.  The pipes are       *)
(* sequences: `toW` of commands, `fromW` of words, so that a read that is  *)
(* given up in the middle of an answer leaves the rest of it in the pipe,  *)
(* as the code does.  The calls on one backend are serial (the compute     *)
(* mutex of BackendInfo, the inference mutex of the server), so the client *)
(* is one process; the worker runs beside it, may be slow and may die.     *)
(*                                                                         *)
(* The context of slot 0, the only one the server uses (see UnifiedServer),*)
(* is the sequence of the calls whose tokens it holds: the key/value cache *)
(* and, in a model with GDN layers, their recurrent state.  Old at its     *)
(* head stands for tokens that are in the recurrent state alone: those of  *)
(* an earlier sequence, or of a decode step that threw half way.           *)
(***************************************************************************)
EXTENDS Naturals, Sequences

CONSTANTS
    NIds,       \* calls are numbered modulo NIds (bound)
    MaxCtx,     \* longest sequence fed between two resets (bound)
    MaxBacklog, \* most commands the worker may be behind (bound)
    MaxUnread,  \* most words left unread in the pipe (bound: its capacity)
    MaxCrash,   \* worker deaths in a behaviour (bound)
    Slow,       \* the worker may exceed GEMM_TIMEOUT_MS
    Recurrent   \* the model has GDN layers (has_moe)

ASSUME NpuAssumption ==
    /\ NIds \in Nat \ {0} /\ MaxCtx \in Nat \ {0} /\ MaxBacklog \in Nat \ {0}
    /\ MaxUnread \in Nat  /\ MaxCrash \in Nat   /\ Slow \in BOOLEAN /\ Recurrent \in BOOLEAN

Ids   == 1 .. NIds
Kinds == {"generate", "reset", "reset_slot"}
Old   == 0

VARIABLES
    pc,      \* the client: idle, ensure, write, hdr, data
    call,    \* the call in progress: its kind and number
    dim,     \* out_dim of the header read last
    ready,   \* NpuWorker::ready
    proc,    \* the subprocess: none, alive, dead
    toW, fromW,   \* the two pipes
    wout,    \* chunks the worker still has to write for its command
    kv,      \* the worker's context (fuse_kv, fuse_pos, fuse_gdn_*_slots)
    fuseReset, fuseResetSlot,  \* resets to be consumed by the next op 32
    fed,     \* history: the calls that returned a token since the last reset
    broken,  \* history: a generate failed, or the idle worker was released,
             \* since the last reset
    whole,   \* history: no op 31 since the decode step before this sequence
    ret,     \* history: what the last completed generate returned
    late,    \* history: a read was given up since the worker was spawned
    crashes

seq    == <<fed, broken, whole, ret>>
client == <<pc, call, dim, ready, seq>>
worker == <<wout, kv, fuseReset, fuseResetSlot>>
vars   == <<pc, call, dim, ready, proc, toW, fromW, wout, kv,
            fuseReset, fuseResetSlot, fed, broken, whole, ret, late, crashes>>

(* A word of an answer: its value as an unsigned 32-bit integer and, for a *)
(* token, the call it answers and the context it was computed from.  A     *)
(* token travels as a float: the bits of 0.0 are 0, those of any other     *)
(* token exceed MAX_SAFE_OUT_DIM, for which Big stands.                    *)
Big        == 2
Word(n)    == [v |-> n, id |-> 0, ctx |-> <<>>]
Token(n, i, c) == [v |-> n, id |-> i, ctx |-> c]
NoToken    == [v |-> 1, id |-> 0, ctx |-> <<>>]

(* the words a read asks for: a header, then batch * out_dim data words,   *)
(* batch being 1 for op 32 and 0 for the resets                            *)
Needed == IF pc = "hdr" THEN 2
          ELSE IF call.kind = "generate" THEN dim ELSE 0

TypeOK ==
    /\ pc \in {"idle", "ensure", "write", "hdr", "data"}
    /\ call \in [kind : Kinds, id : Ids]
    /\ dim \in 0 .. 1 /\ ready \in BOOLEAN
    /\ proc \in {"none", "alive", "dead"}
    /\ \A k \in 1 .. Len(toW) : toW[k] \in [kind : Kinds, id : Ids]
    /\ \A k \in 1 .. Len(fromW) : fromW[k].v \in 0 .. Big
    /\ fuseReset \in BOOLEAN /\ fuseResetSlot \in BOOLEAN
    /\ Len(kv) <= MaxCtx /\ Len(fed) <= MaxCtx /\ broken \in BOOLEAN /\ whole \in BOOLEAN
    /\ late \in BOOLEAN /\ crashes \in 0 .. MaxCrash

Init ==
    /\ pc = "idle" /\ call = [kind |-> "reset", id |-> NIds] /\ dim = 0
    /\ ready = FALSE /\ proc = "none"
    /\ toW = <<>> /\ fromW = <<>> /\ wout = <<>>
    /\ kv = <<>> /\ fuseReset = FALSE /\ fuseResetSlot = FALSE
    /\ fed = <<>> /\ broken = FALSE /\ whole = TRUE /\ ret = NoToken
    /\ late = FALSE /\ crashes = 0

-----------------------------------------------------------------------------
(* Filled with zeros by op 34, the recurrent state is only resized after   *)
(* op 31, so an earlier sequence stays in it.                              *)
AfterOp31 == IF Recurrent /\ kv # <<>> THEN <<Old>> ELSE <<>>

(* Mutant: the slot reset of op 34 is never consumed.                      *)
MutCache == IF fuseReset THEN AfterOp31 ELSE kv

(* op 31 and op 34 only note a reset, which the next op 32 carries out     *)
(* before its decode step; op 31 makes it forget an op 34 (fuse_kv_init).  *)
(* The context that step starts from:                                      *)
Cache == IF fuseReset THEN AfterOp31 ELSE IF fuseResetSlot THEN <<>> ELSE kv

(* The worker process as it comes out of spawn(): empty pipes and caches.  *)
FreshWorker ==
    /\ proc' = "alive" /\ toW' = <<>> /\ fromW' = <<>> /\ wout' = <<>>
    /\ kv' = <<>> /\ fuseReset' = FALSE /\ fuseResetSlot' = FALSE /\ late' = FALSE

(* shutdown(): the process is gone and both pipe ends are closed.          *)
Shutdown ==
    /\ proc' = "none" /\ ready' = FALSE
    /\ toW' = <<>> /\ fromW' = <<>> /\ wout' = <<>>
    /\ kv' = <<>> /\ fuseReset' = FALSE /\ fuseResetSlot' = FALSE /\ UNCHANGED late

(* The call is over.  A reset starts a new sequence whatever its command   *)
(* came to: reset() returns true, and the caller of reset_slot() ignores   *)
(* the result.  A generate that failed returned -1.                        *)
Finish(tok, lost) ==
    /\ pc' = "idle"
    /\ ret' = tok
    /\ fed' = IF call.kind # "generate" THEN <<>>
              ELSE IF tok.v = 1 THEN fed ELSE Append(fed, call.id)
    /\ broken' = (call.kind = "generate" /\ (broken \/ tok.v = 1 \/ lost))
    /\ whole' = (call.kind # "reset" /\ (whole \/ (call.kind = "reset_slot" /\ fed # <<>>)))

Return(tok) == Finish(tok, FALSE)

(* A caller starts generate(), reset() or reset_slot().  reset() sends its *)
(* command only to a worker that is ready; the others call ensure_worker().*)
Call(kind) ==
    /\ pc = "idle"
    /\ kind = "generate" => Len(Cache) + Len(toW) < MaxCtx /\ Len(fed) < MaxCtx
    /\ Len(toW) < MaxBacklog /\ Len(fromW) <= MaxUnread
    /\ call' = [kind |-> kind, id |-> (call.id % NIds) + 1]
    /\ IF kind = "reset"
       THEN IF ready THEN pc' = "write" /\ UNCHANGED <<fed, broken, whole>>
                     ELSE pc' = "idle" /\ fed' = <<>> /\ broken' = FALSE /\ whole' = TRUE
       ELSE pc' = "ensure" /\ UNCHANGED <<fed, broken, whole>>
    /\ UNCHANGED <<dim, ready, proc, toW, fromW, worker, ret, late, crashes>>

(* ensure_worker(): only the flag is looked at.                            *)
EnsureReady ==
    /\ pc = "ensure" /\ ready
    /\ pc' = "write"
    /\ UNCHANGED <<call, dim, ready, proc, toW, fromW, worker, seq, late, crashes>>

(* ensure_worker() spawns a worker, and its READY arrives in time.         *)
Respawn ==
    /\ pc = "ensure" /\ ~ready
    /\ FreshWorker
    /\ ready' = TRUE /\ pc' = "write"
    /\ UNCHANGED <<call, dim, seq, crashes>>

(* spawn() fails: no binary, fork error, or no READY before the deadline.  *)
RespawnFails ==
    /\ pc = "ensure" /\ ~ready
    /\ Return(NoToken)
    /\ UNCHANGED <<call, dim, ready, proc, toW, fromW, worker, late, crashes>>

(* gemm(): the command is written.  A worker that died has closed its end, *)
(* SIGPIPE is ignored and the short write ends the call.                   *)
Write ==
    /\ pc = "write"
    /\ \/ /\ proc = "alive"
          /\ toW' = Append(toW, call) /\ pc' = "hdr"
          /\ UNCHANGED seq
       \/ /\ proc = "dead"
          /\ Return(NoToken) /\ UNCHANGED toW
    /\ UNCHANGED <<call, dim, ready, proc, fromW, worker, late, crashes>>

Drop(n) == SubSeq(fromW, n + 1, Len(fromW))

(* Mutant: the header is taken as it comes.                                *)
MutReadHeader ==
    /\ pc = "hdr" /\ Len(fromW) >= 2
    /\ fromW' = Drop(2)
    /\ pc' = "data" /\ dim' = fromW[2].v
    /\ UNCHANGED seq
    /\ UNCHANGED <<call, ready, proc, toW, worker, late, crashes>>

(* gemm(): two words are read as the header; a nonzero status or an        *)
(* out_dim beyond MAX_SAFE_OUT_DIM ends the call.                          *)
ReadHeader ==
    /\ pc = "hdr" /\ Len(fromW) >= 2
    /\ fromW' = Drop(2)
    /\ IF fromW[1].v = 0 /\ fromW[2].v < Big
       THEN pc' = "data" /\ dim' = fromW[2].v /\ UNCHANGED seq
       ELSE Return(NoToken) /\ UNCHANGED dim
    /\ UNCHANGED <<call, ready, proc, toW, worker, late, crashes>>

(* gemm(): the data words are read and the call returns.  generate() takes *)
(* out_data[0]; when no data word was announced that is a read beyond an   *)
(* empty vector, and the token is whatever memory holds.                   *)
Result == IF Needed = 0 THEN Token(0, 0, <<>>) ELSE Head(fromW)

ReadData ==
    /\ pc = "data" /\ Len(fromW) >= Needed
    /\ LET tok == IF call.kind = "generate" THEN Result ELSE NoToken
       IN \/ /\ fromW' = Drop(Needed) /\ Return(tok)
             /\ UNCHANGED <<ready, proc, toW, worker, late>>
          \/ \* generate() finds that IDLE_RELEASE_SECS passed since it began
             Slow /\ call.kind = "generate" /\ Shutdown /\ Finish(tok, TRUE)
    /\ UNCHANGED <<call, dim, crashes>>

(* Mutant: the read of the data has no deadline.                           *)
MutTimeOut ==
    /\ pc = "hdr" /\ Len(fromW) < Needed
    /\ Slow /\ proc = "alive"
    /\ fromW' = <<>>
    /\ Return(NoToken)
    /\ late' = TRUE
    /\ UNCHANGED <<call, dim, ready, proc, toW, worker, crashes>>

(* read_with_timeout() gives up; the bytes it had already read are lost,   *)
(* the ones that arrive later stay in the pipe, and `ready` stays true.    *)
TimeOut ==
    /\ pc \in {"hdr", "data"} /\ Len(fromW) < Needed
    /\ Slow /\ proc = "alive"
    /\ fromW' = <<>>
    /\ Return(NoToken)
    /\ late' = TRUE
    /\ UNCHANGED <<call, dim, ready, proc, toW, worker, crashes>>

(* read() returns 0: the worker died before it wrote what is waited for.   *)
EndOfFile ==
    /\ pc \in {"hdr", "data"} /\ Len(fromW) < Needed
    /\ proc = "dead"
    /\ fromW' = <<>>
    /\ Return(NoToken)
    /\ UNCHANGED <<call, dim, ready, proc, toW, worker, late, crashes>>

(* BackendManager loads a model: destroy() shuts the worker down; the      *)
(* instance that replaces this one spawns its own at its first call.       *)
Reinit ==
    /\ pc = "idle"
    /\ Shutdown /\ fed' = <<>> /\ broken' = FALSE /\ whole' = TRUE
    /\ UNCHANGED <<pc, call, dim, ret, crashes>>

-----------------------------------------------------------------------------
(* Mutant: after the error answer the loop goes on to the success answer.  *)
MutErrorAnswer == << <<Word(1), Word(0)>>, <<Word(0), Word(0)>> >>

(* The answer of a command that failed: status 1 and no data.              *)
ErrorAnswer == << <<Word(1), Word(0)>> >>

(* The recurrent state of some layers holds a token that the key/value     *)
(* cache does not keep.                                                    *)
Marked(c) == IF Recurrent /\ (c = <<>> \/ Head(c) # Old) THEN <<Old>> \o c ELSE c

(* op 32: the fused decode step, or an exception in the middle of it,      *)
(* before or after a layer has taken the token into its recurrent state.   *)
Decode(c) ==
    /\ fuseReset' = FALSE /\ fuseResetSlot' = FALSE
    /\ \/ /\ \E n \in {0, Big} :
                wout' = << <<Word(0), Word(1)>>,
                           <<Token(n, c.id, Append(Cache, c.id))>> >>
          /\ kv' = Append(Cache, c.id)
       \/ wout' = ErrorAnswer /\ kv' \in {Cache, Marked(Cache)}

(* One command is carried out: the answer's header and data are written by *)
(* two separate writes.                                                    *)
WorkerStep ==
    /\ proc = "alive" /\ toW # <<>> /\ wout = <<>>
    /\ toW' = Tail(toW)
    /\ LET c == Head(toW) IN
       \/ c.kind = "generate" /\ Decode(c)
       \/ /\ c.kind = "reset"
          /\ wout' = << <<Word(0), Word(0)>> >>
          /\ fuseReset' = TRUE /\ UNCHANGED <<kv, fuseResetSlot>>
       \/ /\ c.kind = "reset_slot"
          /\ wout' = << <<Word(0), Word(0)>> >>
          /\ fuseResetSlot' = TRUE /\ UNCHANGED <<kv, fuseReset>>
    /\ UNCHANGED <<client, proc, fromW, late, crashes>>

WorkerWrite ==
    /\ proc = "alive" /\ wout # <<>>
    /\ fromW' = fromW \o Head(wout) /\ wout' = Tail(wout)
    /\ UNCHANGED <<client, proc, toW, kv, fuseReset, fuseResetSlot, late, crashes>>

(* The process dies (a crash, an out-of-memory kill): what it wrote can    *)
(* still be read, what it had not written is lost.                         *)
Crash ==
    /\ proc = "alive" /\ crashes < MaxCrash
    /\ crashes' = crashes + 1
    /\ proc' = "dead" /\ toW' = <<>> /\ wout' = <<>>
    /\ UNCHANGED <<client, fromW, kv, fuseReset, fuseResetSlot, late>>

-----------------------------------------------------------------------------
ClientStep == EnsureReady \/ Respawn \/ RespawnFails \/ Write
              \/ ReadHeader \/ ReadData \/ TimeOut \/ EndOfFile

Next == (\E k \in Kinds : Call(k)) \/ ClientStep \/ Reinit
        \/ WorkerStep \/ WorkerWrite \/ Crash

Spec == Init /\ [][Next]_vars

(* The caller's thread runs; nothing is assumed of the worker.             *)
FairSpec == Spec /\ WF_vars(ClientStep)

(* The caller's thread and the worker run, and generate() is called again  *)
(* and again.                                                              *)
BusySpec == FairSpec /\ WF_vars(WorkerStep \/ WorkerWrite)
                     /\ WF_vars(Call("generate")) /\ WF_vars(Call("reset"))

-----------------------------------------------------------------------------
Returned == pc = "idle" /\ call.kind = "generate" /\ ret.v # 1

(* gemm() (backend_npu.cpp:305) sends an operation and reads back its      *)
(* result: as long as no read of this worker's answers was given up, a     *)
(* token that generate() returns was computed for this very call, whatever *)
(* errors, deaths and respawns came before.                                *)
AnswerIsOwn == Returned /\ ~late => ret.id = call.id

(* The same without the exception.                                         *)
LateAnswerIsOwn == Returned => ret.id = call.id

(* The worker keeps its context across calls: the token generate() returns *)
(* was computed from exactly the tokens of this sequence, those fed since  *)
(* the last reset, and nothing of the sequence before it, as long as no    *)
(* call of the sequence failed, no read was given up and the worker was    *)
(* not released in between; but after an op 31 the recurrent state of a    *)
(* model with GDN layers still holds what it held before.                  *)
ContextComplete ==
    fed # <<>> /\ ~broken /\ ~late /\ pc = "idle" =>
        ret.ctx = fed \/ (Recurrent /\ ~whole /\ ret.ctx = <<Old>> \o fed)

(* "Reset ALL KV caches + GDN state (new conversation)" (op 31): the same  *)
(* without the exception.                                                  *)
OwnSequenceOnly ==
    fed # <<>> /\ ~broken /\ ~late /\ pc = "idle" => ret.ctx = fed

(* Every read of gemm() is bounded, so a call on the backend returns, even *)
(* when the worker hangs for ever or dies in the middle of an answer.      *)
CallReturns == (pc # "idle") ~> (pc = "idle")

(* ensure_worker() respawns a worker that crashed (backend_npu.cpp:703).   *)
CrashedIsRespawned == (proc = "dead") ~> (proc = "alive")
=============================================================================
