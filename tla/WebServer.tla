------------------------------ MODULE WebServer ------------------------------
(***************************************************************************)
(* The Ollama-style web server (src/server/server.cpp): its connections,   *)
(* its pool of I/O threads and the queue of requests for the NPU.          *)
(*                                                                         *)
(* A request for an NPU endpoint takes g_npu_in_use or is queued; whoever  *)
(* finishes passes the NPU on to the head of the queue, by posting its     *)
(* task to the I/O threads, or frees it.  A handler still has work to do   *)
(* after its answer, such as clear_context() (src/server/rest_handler.cpp),*)
(* and when that throws the handler answers, and passes the NPU on, again. *)
(* The model steps where the code takes or releases npu_queue_mutex_,      *)
(* touches an atomic, waits for a thread or calls the engine.              *)
(***************************************************************************)
EXTENDS Integers, Sequences, FiniteSets

CONSTANTS
    Requests,
    NeedsNpu,        \* the ones for which requires_npu_access() holds
    Streams,         \* the ones answered as a stream
    BadJson,         \* the ones whose handler throws: the body does not parse
    BadId,           \* the ones whose request_id is not a string
    Threads,         \* io_thread_count_
    Limit,           \* max_npu_queue_
    MaxConns,        \* max_connections_
    Width            \* values of a size_t (bound)

ASSUME WebAssumption ==
    /\ NeedsNpu \subseteq Requests /\ Streams \subseteq Requests
    /\ BadJson \subseteq Requests /\ BadId \subseteq Requests
    /\ Threads \in Nat \ {0} /\ Limit \in Nat
    /\ Width \in Nat \ {0}

(* A run of the server has finitely many requests, and max_connections_ is *)
(* a size_t like the counter it bounds.                                    *)
ASSUME CountAssumption == IsFiniteSet(Requests) /\ MaxConns \in 0 .. Width - 1

VARIABLES
    st,        \* where each request is
    deferred,  \* it was queued: is_deferred of its task
    timer,     \* its request_timer_ is armed
    inUse,     \* g_npu_in_use
    queue,     \* npu_request_queue_
    dead,      \* I/O threads that an exception ended
    active,    \* active_connections_
    writes,    \* responses being written: async_write has not completed
    ended,     \* streams ended by their final chunk
    again,     \* requests answered twice
    upset      \* history: a connection ended other than by one answer

vars == <<st, deferred, timer, inUse, queue, dead, active, writes, ended, again, upset>>

States == {"new", "rejected", "reading", "aborted", "check", "enqueue",
           "queued", "posted", "task", "engine", "handon", "cooldown", "tail",
           "done", "lost"}

(* the states in which a request occupies an I/O thread                    *)
OnThread == {"check", "enqueue", "task", "engine", "handon", "cooldown", "tail"}
Busy     == {r \in Requests : st[r] \in OnThread}
FreeThread == Cardinality(Busy) < Threads - dead

(* the requests that hold the NPU: from the acquisition, or from being     *)
(* posted by the holder before, until they pass it on for the first time   *)
Holds  == {"posted", "task", "engine", "handon", "cooldown", "lost"}
Passing == {"handon", "cooldown"}
Holder == {r \in NeedsNpu : st[r] \in Holds /\ ~(r \in again /\ st[r] \in Passing)}

TypeOK ==
    /\ st \in [Requests -> States]
    /\ deferred \in [Requests -> BOOLEAN] /\ timer \in [Requests -> BOOLEAN]
    /\ inUse \in BOOLEAN /\ queue \in Seq(Requests)
    /\ dead \in 0 .. Threads /\ active \in 0 .. Width - 1
    /\ writes \in [Requests -> Nat]
    /\ ended \subseteq Requests /\ again \subseteq Requests
    /\ upset \in BOOLEAN

Init ==
    /\ st = [r \in Requests |-> "new"]
    /\ deferred = [r \in Requests |-> FALSE]
    /\ timer = [r \in Requests |-> FALSE]
    /\ inUse = FALSE /\ queue = <<>> /\ dead = 0 /\ active = 0
    /\ writes = [r \in Requests |-> 0]
    /\ ended = {} /\ again = {} /\ upset = FALSE

Go(r, s) == st' = [st EXCEPT ![r] = s]
npu == <<inUse, queue>>
replies == <<writes, ended, again>>

(* write_response(): async_write begins.                                   *)
StartWrite(r) == writes' = [writes EXCEPT ![r] = @ + 1]

(* Mutant: a plain int.                                                    *)
MutLess(n) == n - 1

(* fetch_sub(1) of a size_t                                                *)
Less(n) == (n + Width - 1) % Width

-----------------------------------------------------------------------------
(* do_accept(): beyond the limit the socket is closed at once; otherwise   *)
(* the session reads its request, with a timer.                            *)
Accept(r) ==
    /\ st[r] = "new"
    /\ IF active >= MaxConns
       THEN Go(r, "rejected") /\ UNCHANGED <<timer, active>>
       ELSE /\ Go(r, "reading") /\ timer' = [timer EXCEPT ![r] = TRUE]
            /\ active' = (active + 1) % Width
    /\ UNCHANGED <<deferred, npu, dead, replies, upset>>

(* async_read completes: the timer is cancelled and a thread takes the     *)
(* request on.                                                             *)
ReadRequest(r) ==
    /\ st[r] = "reading" /\ FreeThread
    /\ Go(r, "check") /\ timer' = [timer EXCEPT ![r] = FALSE]
    /\ UNCHANGED <<deferred, npu, dead, active, replies, upset>>

(* The read fails, or was aborted by the timer: the connection is counted  *)
(* down; the timer stays armed.                                            *)
ReadFails(r) ==
    /\ st[r] \in {"reading", "aborted"}
    /\ Go(r, "done") /\ active' = Less(active)
    /\ upset' = TRUE
    /\ UNCHANGED <<deferred, timer, npu, dead, replies>>

(* The body is beyond max_body_size_bytes_: 413, and the timer stays armed.*)
TooLarge(r) ==
    /\ st[r] = "reading"
    /\ Go(r, "done") /\ StartWrite(r)
    /\ UNCHANGED <<deferred, timer, npu, dead, active, ended, again, upset>>

(* The timer fires: it closes the socket and counts the connection down.   *)
TimerFires(r) ==
    /\ timer[r]
    /\ timer' = [timer EXCEPT ![r] = FALSE]
    /\ IF st[r] = "reading" THEN Go(r, "aborted") ELSE UNCHANGED st
    /\ active' = Less(active) /\ upset' = TRUE
    /\ UNCHANGED <<deferred, npu, dead, replies>>

(* Mutant: the flag is read before and written after: no compare-exchange. *)
MutTryAcquire(r) ==
    /\ st[r] = "check"
    /\ IF r \notin NeedsNpu \/ ~inUse THEN Go(r, "task") ELSE Go(r, "enqueue")
    /\ UNCHANGED <<deferred, timer, npu, dead, active, replies, upset>>

(* handle_request(): run the task, after try_acquire_npu_access() for an   *)
(* NPU endpoint, or go and queue it.                                       *)
TryAcquire(r) ==
    /\ st[r] = "check"
    /\ IF r \in NeedsNpu /\ inUse
       THEN Go(r, "enqueue") /\ UNCHANGED inUse
       ELSE Go(r, "task") /\ inUse' = (inUse \/ r \in NeedsNpu)
    /\ UNCHANGED <<deferred, timer, queue, dead, active, replies, upset>>

(* handle_request(), under npu_queue_mutex_: 503 when the queue is full.   *)
(* The NPU may have become free since the acquisition failed.              *)
Enqueue(r) ==
    /\ st[r] = "enqueue"
    /\ IF Len(queue) >= Limit
       THEN Go(r, "done") /\ StartWrite(r) /\ UNCHANGED <<queue, deferred>>
       ELSE /\ Go(r, "queued") /\ queue' = Append(queue, r)
            /\ deferred' = [deferred EXCEPT ![r] = TRUE]
            /\ UNCHANGED writes
    /\ UNCHANGED <<timer, inUse, dead, active, ended, again, upset>>

(* An I/O thread takes the posted task.                                    *)
RunPosted(r) ==
    /\ st[r] = "posted" /\ FreeThread
    /\ Go(r, "task")
    /\ UNCHANGED <<deferred, timer, npu, dead, active, replies, upset>>

(* What follows an answer: an NPU request passes the NPU on first.         *)
Answered(r) == Go(r, IF r \in NeedsNpu THEN "handon" ELSE "tail")

(* process_task: a body that does not parse makes the endpoint's handler   *)
(* throw, which is answered with 500; a request_id that is no string       *)
(* throws outside of every handler and ends the thread.                    *)
BeginTask(r) ==
    /\ st[r] = "task"
    /\ \/ r \in BadJson /\ Answered(r) /\ UNCHANGED <<dead, upset>>
       \/ r \in BadId \ BadJson /\ Go(r, "lost") /\ dead' = dead + 1 /\ upset' = TRUE
       \/ r \notin BadJson \cup BadId /\ Go(r, "engine") /\ UNCHANGED <<dead, upset>>
    /\ UNCHANGED <<deferred, timer, npu, active, replies>>

(* The handler has used the engine and answers: a response or an error     *)
(* (send_response), or the final chunk, which closes the connection.       *)
Respond(r) ==
    /\ st[r] = "engine"
    /\ Answered(r)
    /\ IF r \in Streams
       THEN active' = Less(active) /\ ended' = ended \cup {r}
       ELSE UNCHANGED <<active, ended>>
    /\ UNCHANGED <<deferred, timer, npu, dead, writes, again, upset>>

(* The engine throws in the middle of a stream: the error goes to          *)
(* send_response(), and nobody ends the stream.                            *)
StreamFails(r) ==
    /\ st[r] = "engine" /\ r \in Streams
    /\ Answered(r)
    /\ upset' = TRUE
    /\ UNCHANGED <<deferred, timer, npu, dead, active, replies>>

(* process_next_npu_request() returns into send_response(), which writes   *)
(* the response of a deferred session now; a final chunk has no more to do.*)
WriteDeferred(r) ==
    IF deferred[r] /\ (r \notin ended \/ r \in again) THEN StartWrite(r) ELSE UNCHANGED writes

(* Mutant: the holder waits for the queue to become empty.                 *)
MutHandOn(r) ==
    /\ st[r] = "handon"
    /\ queue = <<>> /\ inUse' = FALSE /\ Go(r, "tail") /\ WriteDeferred(r)
    /\ UNCHANGED <<deferred, timer, queue, dead, active, ended, again, upset>>

(* process_next_npu_request(): an empty queue frees the NPU ...            *)
HandOn(r) ==
    /\ st[r] = "handon"
    /\ \/ queue = <<>> /\ inUse' = FALSE /\ Go(r, "tail") /\ WriteDeferred(r)
       \/ queue # <<>> /\ Go(r, "cooldown") /\ UNCHANGED <<inUse, writes>>
    /\ UNCHANGED <<deferred, timer, queue, dead, active, ended, again, upset>>

(* ... and otherwise, after the cooldown, its head is posted, unless       *)
(* another hand-on was quicker.                                            *)
PostNext(r) ==
    /\ st[r] = "cooldown"
    /\ \/ queue = <<>> /\ inUse' = FALSE /\ Go(r, "tail") /\ UNCHANGED queue
       \/ /\ queue # <<>>
          /\ st' = [st EXCEPT ![r] = "tail", ![Head(queue)] = "posted"]
          /\ queue' = Tail(queue) /\ UNCHANGED inUse
    /\ WriteDeferred(r)
    /\ UNCHANGED <<deferred, timer, dead, active, ended, again, upset>>

(* Mutant: a stream that ended is answered once more.                      *)
MutReturn(r) ==
    /\ st[r] = "tail"
    /\ Go(r, "done") /\ StartWrite(r)
    /\ UNCHANGED <<deferred, timer, npu, dead, active, ended, again, upset>>

(* The handler returns after its last work on the engine.  A stream and a  *)
(* deferred session are left to what they did themselves; every other      *)
(* response is written now.                                                *)
Return(r) ==
    /\ st[r] = "tail"
    /\ Go(r, "done")
    /\ IF r \in Streams \ BadJson \/ deferred[r] THEN UNCHANGED writes ELSE StartWrite(r)
    /\ UNCHANGED <<deferred, timer, npu, dead, active, ended, again, upset>>

(* The handler's last work throws: the catch around the whole handler      *)
(* answers a second time, which passes the NPU on and writes the response  *)
(* of a deferred session once more.  Behind that answer there is no work.  *)
TailFails(r) ==
    /\ st[r] = "tail" /\ r \notin BadJson \cup again
    /\ Answered(r) /\ again' = again \cup {r}
    /\ upset' = (upset \/ deferred[r])
    /\ UNCHANGED <<deferred, timer, npu, dead, active, writes, ended>>

(* async_write completes: the response is out and the connection counted   *)
(* down.                                                                   *)
Write(r) ==
    /\ writes[r] > 0
    /\ writes' = [writes EXCEPT ![r] = @ - 1] /\ active' = Less(active)
    /\ UNCHANGED <<st, deferred, timer, npu, dead, ended, again, upset>>

Step(r) == ReadRequest(r) \/ TryAcquire(r) \/ Enqueue(r) \/ RunPosted(r)
           \/ BeginTask(r) \/ Respond(r) \/ StreamFails(r) \/ HandOn(r)
           \/ PostNext(r) \/ Return(r) \/ Write(r)

Next == \E r \in Requests : Accept(r) \/ ReadFails(r) \/ TooLarge(r)
                            \/ TimerFires(r) \/ TailFails(r) \/ Step(r)

Spec == Init /\ [][Next]_vars

(* The I/O threads run and a handler comes to its answer; clients may stay *)
(* away, and neither a read nor a handler's last work has to fail.         *)
FairSpec == Spec /\ \A r \in Requests : WF_vars(Step(r))

-----------------------------------------------------------------------------
(* "NPU-intensive endpoints that should be restricted to one user at a     *)
(* time" (server.cpp:182), served in the order of the queue: acquisition,  *)
(* queue and hand-on together admit one request at a time, in order, and   *)
(* one more for every request that was answered twice.                     *)
Admission == INSTANCE Turnstile WITH
                inside <- Holder, waiting <- queue, surplus <- Cardinality(again)

Implements == Admission!Spec

(* A request that is queued while the holder has not yet looked at the     *)
(* queue is started: the hand-on reaches it, unless a holder before it was *)
(* lost with its thread.                                                   *)
QueueDrains ==
    \A r \in Requests :
        (st[r] = "queued" /\ \E h \in NeedsNpu : st[h] \in {"posted", "task", "engine"})
            ~> (st[r] # "queued" \/ \E h \in Requests : st[h] = "lost")

(* The NPU does not stay taken: release_npu_access() comes, whatever body, *)
(* answer or failure the holders had, unless one was lost with its thread. *)
NpuFreed == inUse ~> (~inUse \/ \E h \in Requests : st[h] = "lost")

(* active_connections_ counts the open connections, as the limit of        *)
(* do_accept() needs it, as long as each one ended with one answer.        *)
Serving == {"reading", "aborted", "check", "enqueue", "queued", "posted", "task",
            "engine", "handon", "cooldown", "lost"}
Open == {r \in Requests :
            \/ writes[r] > 0
            \/ r \notin ended /\ st[r] \in Serving
            \/ r \notin ended /\ st[r] = "tail" /\ ~deferred[r]}

ConnectionsCounted == ~upset => active = Cardinality(Open)

(* "restricted to one user at a time" (server.cpp:182), without a word     *)
(* about handlers that fail: at most one request holds the NPU.            *)
OneUserAtATime == \A r, s \in Holder : r = s

(* A queued request is eventually started.                                 *)
EveryQueuedStarts == \A r \in Requests : (st[r] = "queued") ~> (st[r] # "queued")
==============================================================================
