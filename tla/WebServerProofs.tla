-------------------------- MODULE WebServerProofs --------------------------
(***************************************************************************)
(* Proof that the acquisition, the queue and the hand-on of the web server *)
(* together are a turnstile, for any requests, threads and limits: one NPU *)
(* request at a time is admitted, and one more for each request that was   *)
(* answered twice; the queue is served in order.                           *)
(***************************************************************************)
EXTENDS WebServer, FiniteSetTheorems, TLAPS

(* The types the argument needs.                                           *)
Shape ==
    /\ st \in [Requests -> States] /\ inUse \in BOOLEAN /\ queue \in Seq(Requests)
    /\ again \subseteq Requests

(* The steps around the queue are taken by NPU requests only.              *)
NpuOnly ==
    \A r \in Requests : st[r] \in {"enqueue", "queued", "posted", "handon", "cooldown"}
                           => r \in NeedsNpu

(* A second answer comes after the first.                                  *)
Late == Passing \cup {"tail", "done"}
AgainLate == \A r \in again : st[r] \in Late

(* the requests that are passing the NPU on for the second time            *)
Repeating == {r \in again : st[r] \in Passing}

(* Whoever holds the NPU, is about to pass it on a second time or may find *)
(* it free: there is one such chance, and one more per second answer.      *)
Chances ==
    Cardinality(Holder) + Cardinality(Repeating) + (IF inUse THEN 0 ELSE 1)
        <= 1 + Cardinality(again)

(* The queue holds the requests that wait, each one once.                  *)
QueueOfWaiting ==
    /\ \A i \in 1 .. Len(queue) : st[queue[i]] = "queued"
    /\ \A i, j \in 1 .. Len(queue) : queue[i] = queue[j] => i = j

IInv == Shape /\ NpuOnly /\ AgainLate /\ Chances /\ QueueOfWaiting

(* How the size of a set changes when one element may join or leave it.    *)
LEMMA OneMoves ==
    ASSUME NEW S, IsFiniteSet(S), NEW T, NEW r, T \ {r} = S \ {r}
    PROVE  /\ IsFiniteSet(T)
           /\ Cardinality(S) \in Nat /\ Cardinality(T) \in Nat
           /\ (r \in S <=> r \in T) => Cardinality(T) = Cardinality(S)
           /\ r \notin S /\ r \in T => Cardinality(T) = Cardinality(S) + 1
           /\ r \in S /\ r \notin T => Cardinality(T) = Cardinality(S) - 1 /\ Cardinality(S) >= 1
<1>1. Cardinality(S) \in Nat
  BY FS_CardinalityType
<1>2. CASE r \in S <=> r \in T
  <2>1. T = S
    BY <1>2
  <2> QED BY <1>1, <1>2, <2>1
<1>3. CASE r \notin S /\ r \in T
  <2>1. T = S \cup {r}
    BY <1>3
  <2>2. IsFiniteSet(T) /\ Cardinality(T) = Cardinality(S) + 1
    BY <1>3, <2>1, FS_AddElement
  <2> QED BY <1>1, <1>3, <2>2
<1>4. CASE r \in S /\ r \notin T
  <2>1. T = S \ {r}
    BY <1>4
  <2>2. IsFiniteSet(T) /\ Cardinality(T) = Cardinality(S) - 1
    BY <1>4, <2>1, FS_RemoveElement
  <2>3. Cardinality(T) \in Nat
    BY <2>2, FS_CardinalityType
  <2> QED BY <1>1, <1>4, <2>2, <2>3
<1> QED BY <1>2, <1>3, <1>4

(* The counted sets are finite.                                            *)
LEMMA Sizes ==
    ASSUME again \subseteq Requests
    PROVE  /\ IsFiniteSet(Holder) /\ IsFiniteSet(Repeating) /\ IsFiniteSet(again)
           /\ Cardinality(Holder) \in Nat /\ Cardinality(Repeating) \in Nat
           /\ Cardinality(again) \in Nat
<1>1. IsFiniteSet(Holder) /\ IsFiniteSet(Repeating) /\ IsFiniteSet(again)
  BY CountAssumption, WebAssumption, FS_Subset DEF Holder, Repeating
<1> QED
  BY <1>1, FS_CardinalityType

(* The turnstile counts as this module does.                               *)
LEMMA SameSize == \A S : Admission!Cardinality(S) = Cardinality(S)
  BY Zenon DEF Admission!Cardinality, Cardinality

(* What Chances leaves for the holders, with the NPU taken or free.        *)
LEMMA Bound ==
    ASSUME IInv
    PROVE  /\ Cardinality(Holder) + Cardinality(Repeating) <= 1 + Cardinality(again)
           /\ ~inUse \/ Cardinality(Repeating) >= 1 => Cardinality(Holder) <= Cardinality(again)
<1> DEFINE H == Cardinality(Holder)
           R == Cardinality(Repeating)
           A == Cardinality(again)
           f == IF inUse THEN 0 ELSE 1
<1>1. H \in Nat /\ R \in Nat /\ A \in Nat
  BY Sizes DEF IInv, Shape
<1>2. f \in {0, 1} /\ (~inUse => f = 1)
  OBVIOUS
<1>3. H + R + f <= 1 + A
  BY DEF IInv, Chances
<1> HIDE DEF H, R, A, f
<1>4. H + R <= 1 + A /\ (~inUse \/ R >= 1 => H <= A)
  BY <1>1, <1>2, <1>3
<1> QED
  BY <1>4 DEF H, R, A

(* Nobody has the NPU and nobody waits at the start.                       *)
LEMMA InitHolds == Init => IInv /\ Admission!Init
<1> SUFFICES ASSUME Init PROVE IInv /\ Admission!Init
  OBVIOUS
<1>1. st \in [Requests -> States] /\ \A r \in Requests : st[r] = "new"
  BY DEF Init, States
<1>2. Holder = {} /\ Repeating = {} /\ again = {}
  BY <1>1, WebAssumption DEF Holder, Holds, Repeating, Init
<1>3. inUse = FALSE /\ inUse \in BOOLEAN /\ queue = <<>>
  BY Zenon DEF Init
<1>4. Shape /\ NpuOnly /\ AgainLate
  BY <1>1, <1>2, <1>3 DEF Shape, NpuOnly, AgainLate
<1>5. Cardinality({}) = 0
  BY FS_EmptySet
<1>6. Chances
  BY <1>2, <1>3, <1>5 DEF Chances
<1>7. QueueOfWaiting
  BY <1>3 DEF QueueOfWaiting
<1> QED
  BY <1>2, <1>3, <1>4, <1>5, <1>6, <1>7 DEF IInv, Admission!Init

(* One request moves, and the queue stays: what is left to show.           *)
LEMMA OneMovesHolds ==
    ASSUME IInv, NEW r \in Requests, NEW s \in States,
           st[r] # "queued", s # "queued",
           st' = [st EXCEPT ![r] = s], UNCHANGED queue,
           again' \ {r} = again \ {r}, r \in again' => s \in Late,
           s \in {"enqueue", "posted", "handon", "cooldown"} => r \in NeedsNpu,
           inUse' \in BOOLEAN
    PROVE  /\ Shape' /\ NpuOnly' /\ AgainLate' /\ QueueOfWaiting'
           /\ Holder' \ {r} = Holder \ {r} /\ Repeating' \ {r} = Repeating \ {r}
           /\ r \in Holder' <=> r \in NeedsNpu /\ s \in Holds /\ ~(r \in again' /\ s \in Passing)
           /\ r \in Repeating' <=> r \in again' /\ s \in Passing
           /\ st' \in [Requests -> States]
<1> USE DEF IInv
<1>1. /\ st' \in [Requests -> States] /\ st'[r] = s /\ \A q \in Requests : q # r => st'[q] = st[q]
      /\ again' \subseteq Requests /\ Shape'
  BY DEF Shape
<1>2. NpuOnly' /\ AgainLate'
  BY <1>1 DEF NpuOnly, AgainLate, Shape
<1>3. /\ Holder' \ {r} = Holder \ {r}
      /\ r \in Holder' <=> r \in NeedsNpu /\ s \in Holds /\ ~(r \in again' /\ s \in Passing)
  BY <1>1, WebAssumption DEF Holder
<1>4. /\ Repeating' \ {r} = Repeating \ {r}
      /\ r \in Repeating' <=> r \in again' /\ s \in Passing
  BY <1>1 DEF Repeating, Shape
<1>5. \A i \in 1 .. Len(queue) : queue[i] \in Requests
  BY DEF Shape
<1>6. QueueOfWaiting'
  BY <1>1, <1>5 DEF QueueOfWaiting, Shape
<1> QED
  BY <1>1, <1>2, <1>3, <1>4, <1>6

(* A step of one request that neither queues nor hands on: it changes its  *)
(* place outside of the queue and keeps, or does without, the NPU.         *)
LEMMA OutsideHolds ==
    ASSUME IInv, NEW r \in Requests, NEW s \in States,
           st[r] # "queued", s # "queued",
           st' = [st EXCEPT ![r] = s], UNCHANGED <<inUse, queue, again>>,
           r \in NeedsNpu => (s \in Holds <=> st[r] \in Holds),
           r \in again => s \in Late /\ (s \in Passing <=> st[r] \in Passing),
           s \in {"enqueue", "posted", "handon", "cooldown"} => r \in NeedsNpu
    PROVE  IInv' /\ UNCHANGED <<Holder, queue, Cardinality(again)>>
<1>1. /\ Shape' /\ NpuOnly' /\ AgainLate' /\ QueueOfWaiting'
      /\ Holder' \ {r} = Holder \ {r} /\ Repeating' \ {r} = Repeating \ {r}
      /\ r \in Holder' <=> r \in NeedsNpu /\ s \in Holds /\ ~(r \in again /\ s \in Passing)
      /\ r \in Repeating' <=> r \in again /\ s \in Passing
  BY OneMovesHolds DEF IInv, Shape
<1>2. /\ r \in Holder <=> r \in NeedsNpu /\ st[r] \in Holds /\ ~(r \in again /\ st[r] \in Passing)
      /\ r \in Repeating <=> r \in again /\ st[r] \in Passing
  BY DEF Holder, Repeating
<1>3. Holder' = Holder /\ Repeating' = Repeating
  BY <1>1, <1>2
<1>4. Chances'
  BY <1>3 DEF IInv, Chances
<1> QED
  BY <1>1, <1>3, <1>4 DEF IInv

(* Every step the queue does not see.                                      *)
LEMMA QuietHolds ==
    ASSUME IInv, NEW r \in Requests,
           \/ Accept(r) \/ ReadRequest(r) \/ ReadFails(r) \/ TooLarge(r)
           \/ TimerFires(r) \/ RunPosted(r) \/ BeginTask(r) \/ Respond(r) \/ StreamFails(r)
           \/ Return(r) \/ Write(r)
    PROVE  IInv' /\ UNCHANGED <<Holder, queue, Cardinality(again)>>
<1>0. UNCHANGED <<inUse, queue, again>>
  BY DEF Accept, ReadRequest, ReadFails, TooLarge, TimerFires, RunPosted, BeginTask,
         Respond, StreamFails, Return, Write, npu, replies
<1>1. CASE UNCHANGED st
  <2>1. Holder' = Holder /\ Repeating' = Repeating
    BY <1>0, <1>1 DEF Holder, Repeating
  <2> QED
    BY <1>0, <1>1, <2>1 DEF IInv, Shape, NpuOnly, AgainLate, Chances, QueueOfWaiting
<1>2. CASE ~UNCHANGED st
  <2>1. r \in again => st[r] \in Late
    BY DEF IInv, AgainLate
  <2>2. PICK s \in States :
          /\ st' = [st EXCEPT ![r] = s]
          /\ st[r] # "queued" /\ s # "queued"
          /\ r \in NeedsNpu => (s \in Holds <=> st[r] \in Holds)
          /\ r \in again => s \in Late /\ (s \in Passing <=> st[r] \in Passing)
          /\ s \in {"enqueue", "posted", "handon", "cooldown"} => r \in NeedsNpu
    <3> USE <2>1 DEF Go, States, Holds, Late, Passing
    <3>1. CASE Accept(r) \/ ReadRequest(r) \/ ReadFails(r) \/ TooLarge(r)
      BY <3>1 DEF Accept, ReadRequest, ReadFails, TooLarge
    <3>2. CASE TimerFires(r)
      BY <1>2, <3>2 DEF TimerFires
    <3>3. CASE RunPosted(r) \/ Respond(r) \/ StreamFails(r)
      BY <3>3 DEF RunPosted, Respond, StreamFails, Answered
    <3>4. CASE BeginTask(r)
      BY <3>4 DEF BeginTask, Answered
    <3>5. CASE Return(r) \/ Write(r)
      BY <1>2, <3>5 DEF Return, Write
    <3> QED
      BY <3>1, <3>2, <3>3, <3>4, <3>5
  <2> QED
    BY <1>0, <2>2, OutsideHolds
<1> QED
  BY <1>1, <1>2

(* The sizes after one request has moved.                                  *)
LEMMA Chance ==
    ASSUME IInv, again' \subseteq Requests, NEW r,
           Holder' \ {r} = Holder \ {r}, Repeating' \ {r} = Repeating \ {r}
    PROVE  /\ Cardinality(Holder) \in Nat /\ Cardinality(Holder') \in Nat
           /\ Cardinality(Repeating) \in Nat /\ Cardinality(Repeating') \in Nat
           /\ Cardinality(again) \in Nat
           /\ (r \in Holder <=> r \in Holder') => Holder' = Holder
           /\ r \notin Holder /\ r \in Holder' => Cardinality(Holder') = Cardinality(Holder) + 1
           /\ r \in Holder /\ r \notin Holder' => Cardinality(Holder') = Cardinality(Holder) - 1
           /\ (r \in Repeating <=> r \in Repeating') => Cardinality(Repeating') = Cardinality(Repeating)
           /\ r \notin Repeating /\ r \in Repeating'
                 => Cardinality(Repeating') = Cardinality(Repeating) + 1
           /\ r \in Repeating /\ r \notin Repeating'
                 => /\ Cardinality(Repeating') = Cardinality(Repeating) - 1
                    /\ Cardinality(Repeating) >= 1
<1>1. /\ IsFiniteSet(Holder) /\ IsFiniteSet(Repeating) /\ Cardinality(again) \in Nat
  BY Sizes DEF IInv, Shape
<1>2. (r \in Holder <=> r \in Holder') => Holder' = Holder
  OBVIOUS
<1>3. /\ Cardinality(Holder) \in Nat /\ Cardinality(Holder') \in Nat
      /\ r \notin Holder /\ r \in Holder' => Cardinality(Holder') = Cardinality(Holder) + 1
      /\ r \in Holder /\ r \notin Holder' => Cardinality(Holder') = Cardinality(Holder) - 1
  BY <1>1, OneMoves
<1>4. /\ Cardinality(Repeating) \in Nat /\ Cardinality(Repeating') \in Nat
      /\ (r \in Repeating <=> r \in Repeating') => Cardinality(Repeating') = Cardinality(Repeating)
      /\ r \notin Repeating /\ r \in Repeating'
            => Cardinality(Repeating') = Cardinality(Repeating) + 1
      /\ r \in Repeating /\ r \notin Repeating'
            => Cardinality(Repeating') = Cardinality(Repeating) - 1 /\ Cardinality(Repeating) >= 1
  BY <1>1, OneMoves
<1> QED
  BY <1>1, <1>2, <1>3, <1>4

(* An acquisition enters the turnstile, or leaves it alone.                *)
LEMMA TryAcquireHolds ==
    ASSUME IInv, NEW r \in Requests, TryAcquire(r)
    PROVE  /\ IInv'
           /\ Admission!Enter(r) \/ UNCHANGED <<Holder, queue, Cardinality(again)>>
<1>0. /\ st[r] = "check" /\ inUse \in BOOLEAN /\ UNCHANGED <<queue, again>>
      /\ r \notin again /\ again \subseteq Requests
  BY DEF TryAcquire, replies, IInv, Shape, AgainLate, Late, Passing
<1>1. CASE r \in NeedsNpu /\ inUse
  <2>1. st' = [st EXCEPT ![r] = "enqueue"] /\ UNCHANGED <<inUse, queue>>
    BY <1>0, <1>1 DEF TryAcquire, Go
  <2> QED
    BY <1>0, <1>1, <2>1, OutsideHolds DEF States, Holds
<1>2. CASE r \notin NeedsNpu
  <2>1. st' = [st EXCEPT ![r] = "task"] /\ inUse' = (inUse \/ FALSE)
    BY <1>2 DEF TryAcquire, Go
  <2>2. UNCHANGED <<inUse, queue>>
    BY <1>0, <2>1
  <2> QED
    BY <1>0, <1>2, <2>1, <2>2, OutsideHolds DEF States, Holds
<1>3. CASE r \in NeedsNpu /\ ~inUse
  <2>1. st' = [st EXCEPT ![r] = "task"] /\ inUse' = TRUE
    BY <1>3 DEF TryAcquire, Go
  <2>2. "task" \in States /\ "task" \in Holds /\ "task" \notin Passing /\ "check" \notin Holds
    BY DEF States, Holds, Passing
  <2>3. /\ Shape' /\ NpuOnly' /\ AgainLate' /\ QueueOfWaiting'
        /\ Holder' \ {r} = Holder \ {r} /\ Repeating' \ {r} = Repeating \ {r}
        /\ r \in Holder' /\ r \notin Repeating'
    BY <1>0, <1>3, <2>1, <2>2, OneMovesHolds
  <2>4. r \notin Holder /\ r \notin Repeating
    BY <1>0, <2>2 DEF Holder, Repeating
  <2>5. Holder' = Holder \cup {r}
    BY <2>3, <2>4
  <2>6. /\ Cardinality(Holder') = Cardinality(Holder) + 1
        /\ Cardinality(Repeating') = Cardinality(Repeating)
        /\ Cardinality(Holder) \in Nat /\ Cardinality(Repeating) \in Nat /\ Cardinality(again) \in Nat
    BY <1>0, <2>3, <2>4, Chance
  <2>7. Cardinality(Holder) + Cardinality(Repeating) + 1 <= 1 + Cardinality(again)
    BY <1>3 DEF IInv, Chances
  <2>8. Chances' /\ Cardinality(Holder) <= Cardinality(again)
    BY <1>0, <2>1, <2>6, <2>7 DEF Chances
  <2>9. Admission!Enter(r)
    BY <1>0, <2>4, <2>5, <2>8, SameSize DEF Admission!Enter, Admission!Room
  <2> QED
    BY <2>3, <2>8, <2>9 DEF IInv
<1> QED
  BY <1>0, <1>1, <1>2, <1>3

(* A request joins the queue, or is refused because the queue is full.     *)
LEMMA EnqueueHolds ==
    ASSUME IInv, NEW r \in Requests, Enqueue(r)
    PROVE  /\ IInv'
           /\ Admission!Join(r) \/ UNCHANGED <<Holder, queue, Cardinality(again)>>
<1>0. /\ st[r] = "enqueue" /\ UNCHANGED <<inUse, again>> /\ st \in [Requests -> States]
      /\ queue \in Seq(Requests) /\ r \in NeedsNpu /\ r \notin again /\ again \subseteq Requests
  BY DEF Enqueue, IInv, Shape, NpuOnly, AgainLate, Late, Passing
<1>1. CASE Len(queue) >= Limit
  <2>1. st' = [st EXCEPT ![r] = "done"] /\ UNCHANGED queue
    BY <1>1 DEF Enqueue, Go
  <2> QED
    BY <1>0, <2>1, OutsideHolds DEF States, Holds
<1>2. CASE ~(Len(queue) >= Limit)
  <2>1. st' = [st EXCEPT ![r] = "queued"] /\ queue' = Append(queue, r)
    BY <1>2 DEF Enqueue, Go
  <2>2. st' \in [Requests -> States] /\ queue' \in Seq(Requests)
    BY <1>0, <2>1 DEF States
  <2>3. Shape' /\ NpuOnly' /\ AgainLate'
    BY <1>0, <2>1, <2>2 DEF IInv, Shape, NpuOnly, AgainLate
  <2>4. Holder' = Holder /\ r \notin Holder /\ Repeating' = Repeating
    BY <1>0, <2>1, <2>2, WebAssumption DEF Holder, Holds, Repeating, Passing
  <2>5. Chances'
    BY <1>0, <2>4 DEF IInv, Chances
  <2>6. /\ Len(queue') = Len(queue) + 1 /\ queue'[Len(queue) + 1] = r
        /\ \A i \in 1 .. Len(queue) : queue'[i] = queue[i] /\ queue[i] \in Requests
    BY <1>0, <2>1
  <2>7. \A i \in 1 .. Len(queue) : queue[i] # r /\ st[queue[i]] = "queued"
    BY <1>0 DEF IInv, QueueOfWaiting
  <2>8. \A i \in 1 .. Len(queue') : st'[queue'[i]] = "queued"
    BY <1>0, <2>1, <2>6, <2>7
  <2>9. \A i, j \in 1 .. Len(queue') : queue'[i] = queue'[j] => i = j
    <3>1. \A i, j \in 1 .. Len(queue) : queue[i] = queue[j] => i = j
      BY DEF IInv, QueueOfWaiting
    <3> QED
      BY <1>0, <2>6, <2>7, <3>1
  <2>10. Len(queue) < Limit
    BY <1>0, <1>2, WebAssumption
  <2> QED
    BY <1>0, <2>1, <2>3, <2>4, <2>5, <2>8, <2>9, <2>10
    DEF IInv, QueueOfWaiting, Admission!Join
<1> QED
  BY <1>1, <1>2

(* A request that finds the queue empty leaves; one that passes the NPU on *)
(* a second time frees it under whoever holds it, which the turnstile has  *)
(* allowed for.                                                            *)
LEMMA FreeHolds ==
    ASSUME IInv, NEW r \in Requests, st[r] \in Passing, queue = <<>>,
           st' = [st EXCEPT ![r] = "tail"], inUse' = FALSE, UNCHANGED <<queue, again>>
    PROVE  /\ IInv'
           /\ Admission!Leave(r) \/ UNCHANGED <<Holder, queue, Cardinality(again)>>
<1>0. /\ st[r] # "queued" /\ "tail" \in States /\ "tail" \in Late /\ "tail" \notin Holds
      /\ "tail" \notin Passing /\ r \in NeedsNpu /\ st[r] \in Holds
      /\ again \subseteq Requests /\ inUse \in BOOLEAN /\ inUse' \in BOOLEAN
  BY DEF States, Late, Holds, Passing, IInv, NpuOnly, Shape
<1>1. /\ Shape' /\ NpuOnly' /\ AgainLate' /\ QueueOfWaiting'
      /\ Holder' \ {r} = Holder \ {r} /\ Repeating' \ {r} = Repeating \ {r}
      /\ r \notin Holder' /\ r \notin Repeating'
  BY <1>0, OneMovesHolds
<1>2. (r \in Holder <=> r \notin again) /\ (r \in Repeating <=> r \in again)
  BY <1>0 DEF Holder, Repeating
<1>3. /\ Cardinality(Holder) \in Nat /\ Cardinality(Repeating) \in Nat /\ Cardinality(again) \in Nat
      /\ Cardinality(Holder') \in Nat /\ Cardinality(Repeating') \in Nat
      /\ Cardinality(Holder') + Cardinality(Repeating') = Cardinality(Holder) + Cardinality(Repeating) - 1
      /\ r \in again => Holder' = Holder
  BY <1>0, <1>1, <1>2, Chance
<1>4. Chances'
  <2>1. Cardinality(Holder) + Cardinality(Repeating) <= 1 + Cardinality(again)
    BY Bound
  <2>2. ~inUse'
    OBVIOUS
  <2>3. Cardinality(Holder') + Cardinality(Repeating') + 1 <= 1 + Cardinality(again)
    <3>1. ASSUME NEW h \in Nat, NEW k \in Nat, NEW i \in Nat, NEW j \in Nat, NEW a \in Nat,
                 i + j = h + k - 1, h + k <= 1 + a
          PROVE  i + j + 1 <= 1 + a
      BY <3>1
    <3> QED BY <1>3, <2>1, <3>1
  <2> QED
    BY <2>2, <2>3 DEF Chances
<1>5. IInv'
  BY <1>1, <1>4 DEF IInv
<1>6. CASE r \in again
  BY <1>3, <1>5, <1>6
<1>7. CASE r \notin again
  BY <1>1, <1>2, <1>5, <1>7 DEF Admission!Leave
<1> QED
  BY <1>6, <1>7

(* The holder leaves when the queue is empty and keeps the NPU otherwise.  *)
LEMMA HandOnHolds ==
    ASSUME IInv, NEW r \in Requests, HandOn(r)
    PROVE  /\ IInv'
           /\ Admission!Leave(r) \/ UNCHANGED <<Holder, queue, Cardinality(again)>>
<1>0. st[r] = "handon" /\ UNCHANGED <<queue, again>> /\ r \in NeedsNpu /\ "handon" \in Passing
  BY DEF HandOn, IInv, NpuOnly, Passing
<1>1. CASE queue # <<>>
  <2>1. st' = [st EXCEPT ![r] = "cooldown"] /\ UNCHANGED inUse
    BY <1>1 DEF HandOn, Go
  <2> QED
    BY <1>0, <2>1, OutsideHolds DEF States, Holds, Late, Passing
<1>2. CASE queue = <<>>
  <2>1. st' = [st EXCEPT ![r] = "tail"] /\ inUse' = FALSE
    BY <1>2 DEF HandOn, Go
  <2> QED
    BY <1>0, <1>2, <2>1, FreeHolds
<1> QED
  BY <1>1, <1>2

(* The head of the queue takes the holder's place, or a place beside it.   *)
LEMMA PostNextHolds ==
    ASSUME IInv, NEW r \in Requests, PostNext(r)
    PROVE  /\ IInv'
           /\ \/ Admission!HandOn(r) \/ Admission!Admit \/ Admission!Leave(r)
              \/ UNCHANGED <<Holder, queue, Cardinality(again)>>
<1>a. CASE queue = <<>>
  <2>1. /\ st[r] \in Passing /\ st' = [st EXCEPT ![r] = "tail"] /\ inUse' = FALSE
        /\ UNCHANGED <<queue, again>>
    BY <1>a DEF PostNext, Go, Passing
  <2> QED
    BY <1>a, <2>1, FreeHolds
<1>b. CASE queue # <<>>
  <2> DEFINE h == Head(queue)
  <2>0. /\ st[r] = "cooldown" /\ UNCHANGED <<inUse, again>> /\ st \in [Requests -> States]
        /\ queue \in Seq(Requests) /\ r \in NeedsNpu /\ again \subseteq Requests
        /\ queue' = Tail(queue) /\ inUse \in BOOLEAN
        /\ st' = [st EXCEPT ![r] = "tail", ![h] = "posted"]
    BY <1>b DEF PostNext, IInv, Shape, NpuOnly
  <2>1. h \in Requests /\ h = queue[1] /\ 1 \in 1 .. Len(queue) /\ Len(queue) \in Nat
    BY <1>b, <2>0
  <2>2. st[h] = "queued" /\ h # r /\ h \in NeedsNpu /\ h \notin again
    BY <2>0, <2>1 DEF IInv, QueueOfWaiting, NpuOnly, AgainLate, Late, Passing
  <2>3. queue' \in Seq(Requests) /\ st' \in [Requests -> States]
    BY <1>b, <2>0, <2>1 DEF States
  <2>4. /\ Len(queue') = Len(queue) - 1
        /\ \A i \in 1 .. Len(queue') : queue'[i] = queue[i + 1] /\ i + 1 \in 1 .. Len(queue)
    BY <1>b, <2>0, <2>1
  <2>5. st'[h] = "posted" /\ st'[r] = "tail"
        /\ \A q \in Requests : q # r /\ q # h => st'[q] = st[q]
    BY <2>0, <2>1, <2>2
  <2> HIDE DEF h
  <2>6. Shape' /\ NpuOnly' /\ AgainLate'
    BY <2>0, <2>2, <2>3, <2>5 DEF IInv, Shape, NpuOnly, AgainLate, Late, Passing
  <2>7. /\ Holder' = (Holder \ {r}) \cup {h} /\ h \notin Holder
        /\ (r \in Holder <=> r \notin again)
    BY <2>0, <2>1, <2>2, <2>5, WebAssumption DEF Holder, Holds, Passing
  <2>8. Repeating' = Repeating \ {r} /\ (r \in Repeating <=> r \in again)
    BY <2>0, <2>2, <2>5 DEF Repeating, Passing
  <2>9. /\ IsFiniteSet(Holder) /\ IsFiniteSet(Repeating) /\ Cardinality(again) \in Nat
        /\ Cardinality(Holder) \in Nat /\ Cardinality(Repeating) \in Nat
    BY <2>0, Sizes
  <2>10. QueueOfWaiting'
    <3>1. /\ \A i \in 1 .. Len(queue) : st[queue[i]] = "queued" /\ queue[i] \in Requests
          /\ \A i, j \in 1 .. Len(queue) : queue[i] = queue[j] => i = j
      BY <2>0 DEF IInv, QueueOfWaiting
    <3>2. \A i \in 1 .. Len(queue') : queue'[i] # h /\ queue'[i] # r
      BY <2>0, <2>1, <2>4, <3>1
    <3>3. \A i \in 1 .. Len(queue') : st'[queue'[i]] = "queued"
      BY <2>4, <2>5, <3>1, <3>2
    <3>4. \A i, j \in 1 .. Len(queue') : queue'[i] = queue'[j] => i = j
      BY <2>1, <2>4, <3>1
    <3> QED
      BY <3>3, <3>4 DEF QueueOfWaiting
  <2>11. CASE r \notin again
    <3>1. Cardinality(Holder \ {r}) = Cardinality(Holder) - 1 /\ IsFiniteSet(Holder \ {r})
      BY <2>7, <2>9, <2>11, FS_RemoveElement
    <3>2. Cardinality(Holder') = Cardinality(Holder \ {r}) + 1
      BY <2>7, <3>1, FS_AddElement
    <3>3. Repeating' = Repeating
      BY <2>8, <2>11
    <3>4. Chances'
      BY <2>0, <2>9, <3>1, <3>2, <3>3 DEF IInv, Chances
    <3> QED
      BY <1>b, <2>0, <2>6, <2>7, <2>10, <2>11, <3>4 DEF IInv, Admission!HandOn, h
  <2>12. CASE r \in again
    <3>1. Holder' = Holder \cup {h}
      BY <2>7, <2>12
    <3>2. Cardinality(Holder') = Cardinality(Holder) + 1
      BY <2>7, <2>9, <3>1, FS_AddElement
    <3>3. Cardinality(Repeating') = Cardinality(Repeating) - 1
      BY <2>8, <2>9, <2>12, FS_RemoveElement
    <3>4. Cardinality(Repeating') \in Nat
      BY <2>0, <2>8, <2>9, FS_RemoveElement, FS_CardinalityType
    <3>5. Cardinality(Holder) <= Cardinality(again)
      BY <2>9, <3>3, <3>4, Bound
    <3>6. Cardinality(Holder') + Cardinality(Repeating') = Cardinality(Holder) + Cardinality(Repeating)
      BY <2>9, <3>2, <3>3
    <3>7. Chances'
      BY <2>0, <3>6 DEF IInv, Chances
    <3>8. Admission!Admit
      BY <1>b, <2>0, <3>1, <3>5, SameSize DEF Admission!Admit, Admission!Room, h
    <3> QED
      BY <2>6, <2>10, <3>7, <3>8 DEF IInv
  <2> QED
    BY <2>11, <2>12
<1> QED
  BY <1>a, <1>b

(* A second answer gives the turnstile one push too many.                  *)
LEMMA TailFailsHolds ==
    ASSUME IInv, NEW r \in Requests, TailFails(r)
    PROVE  IInv' /\ Admission!Push
<1>0. /\ st[r] = "tail" /\ r \notin again /\ again' = again \cup {r} /\ UNCHANGED <<inUse, queue>>
      /\ inUse \in BOOLEAN /\ again \subseteq Requests /\ again' \subseteq Requests
  BY DEF TailFails, npu, IInv, Shape
<1>1. PICK s \in {"handon", "tail"} :
        st' = [st EXCEPT ![r] = s] /\ (s = "handon" <=> r \in NeedsNpu)
  BY DEF TailFails, Answered, Go
<1>2. /\ s \in States /\ s \in Late /\ s # "queued" /\ (s \in Passing <=> s = "handon")
      /\ "tail" \notin Holds /\ "tail" \notin Passing
  BY DEF States, Late, Passing, Holds
<1>3. /\ Shape' /\ NpuOnly' /\ AgainLate' /\ QueueOfWaiting'
      /\ Holder' \ {r} = Holder \ {r} /\ Repeating' \ {r} = Repeating \ {r}
      /\ r \in Holder' <=> r \in NeedsNpu /\ s \in Holds /\ ~(r \in again' /\ s \in Passing)
      /\ r \in Repeating' <=> r \in again' /\ s \in Passing
  <2>1. s \in {"enqueue", "posted", "handon", "cooldown"} => r \in NeedsNpu
    BY <1>1
  <2> QED
    BY <1>0, <1>1, <1>2, <2>1, OneMovesHolds
<1>4. r \notin Holder /\ r \notin Repeating /\ r \notin Holder'
  BY <1>0, <1>1, <1>2, <1>3 DEF Holder, Repeating, Holds
<1>5. /\ Holder' = Holder /\ Cardinality(Holder) \in Nat /\ Cardinality(Repeating) \in Nat
      /\ Cardinality(Repeating') \in Nat /\ Cardinality(again) \in Nat
      /\ Cardinality(Repeating') <= Cardinality(Repeating) + 1
  BY <1>0, <1>3, <1>4, Chance
<1>6. Cardinality(again') = Cardinality(again) + 1
  BY <1>0, Sizes, FS_AddElement
<1>7. Chances'
  BY <1>0, <1>5, <1>6 DEF IInv, Chances
<1> QED
  BY <1>0, <1>3, <1>5, <1>6, <1>7 DEF IInv, Admission!Push

(* Every step keeps the invariant and is a step of the turnstile.          *)
LEMMA StepHolds ==
    ASSUME IInv, [Next]_vars
    PROVE  IInv' /\ [Admission!Next]_(Admission!tvars)
<1>1. CASE UNCHANGED vars
  <2>1. Holder' = Holder /\ Repeating' = Repeating /\ UNCHANGED <<st, inUse, queue, again>>
    BY <1>1 DEF vars, Holder, Repeating
  <2> QED
    BY <2>1 DEF IInv, Shape, NpuOnly, AgainLate, Chances, QueueOfWaiting, Admission!tvars
<1>2. CASE Next
  <2>1. PICK r \in Requests :
          Accept(r) \/ ReadFails(r) \/ TooLarge(r) \/ TimerFires(r) \/ TailFails(r) \/ Step(r)
    BY <1>2 DEF Next
  <2>2. CASE TryAcquire(r)
    BY <2>2, TryAcquireHolds DEF Admission!Next, Admission!tvars
  <2>3. CASE Enqueue(r)
    BY <2>3, EnqueueHolds DEF Admission!Next, Admission!tvars
  <2>4. CASE HandOn(r)
    BY <2>4, HandOnHolds DEF Admission!Next, Admission!tvars
  <2>5. CASE PostNext(r)
    BY <2>5, PostNextHolds DEF Admission!Next, Admission!tvars
  <2>6. CASE TailFails(r)
    BY <2>6, TailFailsHolds DEF Admission!Next
  <2>7. CASE Accept(r) \/ ReadFails(r) \/ TooLarge(r) \/ TimerFires(r) \/ ReadRequest(r)
             \/ RunPosted(r) \/ BeginTask(r) \/ Respond(r) \/ StreamFails(r)
             \/ Return(r) \/ Write(r)
    BY <2>7, QuietHolds DEF Admission!tvars
  <2> QED
    BY <2>1, <2>2, <2>3, <2>4, <2>5, <2>6, <2>7 DEF Step
<1> QED
  BY <1>1, <1>2

(* server.cpp's acquisition, queue and hand-on implement the turnstile:    *)
(* the queue is served in order and within its limit, and one request at a *)
(* time is admitted, also across the unlocked window between a failed      *)
(* acquisition and the queueing, with one more for every request whose     *)
(* handler answered twice, whatever the timers and the lost threads do.    *)
THEOREM Refinement == Spec => Implements
<1>1. Init => IInv /\ Admission!Init
  BY InitHolds
<1>2. IInv /\ [Next]_vars => IInv' /\ [Admission!Next]_(Admission!tvars)
  BY StepHolds
<1> QED
  BY <1>1, <1>2, PTL DEF Spec, Implements, Admission!Spec

(* "One user at a time" is kept as long as no request has been answered    *)
(* twice.                                                                  *)
THEOREM OneUntilSecondAnswer == Spec => [](again = {} => OneUserAtATime)
<1>1. Init => IInv
  BY InitHolds
<1>2. IInv /\ [Next]_vars => IInv'
  BY StepHolds
<1>3. IInv => (again = {} => OneUserAtATime)
  <2> SUFFICES ASSUME IInv, again = {}, NEW r \in Holder, NEW s \in Holder, r # s PROVE FALSE
    BY DEF OneUserAtATime
  <2>1. Cardinality(again) = 0 /\ again \subseteq Requests
    BY FS_EmptySet
  <2>2. /\ IsFiniteSet(Holder) /\ Cardinality(Holder) \in Nat
        /\ Cardinality(Repeating) \in Nat
    BY <2>1, Sizes
  <2>3. Cardinality(Holder) <= 1
    BY <2>1, <2>2, Bound
  <2>4. IsFiniteSet(Holder \ {r}) /\ Cardinality(Holder \ {r}) = Cardinality(Holder) - 1
    BY <2>2, FS_RemoveElement
  <2>5. /\ IsFiniteSet((Holder \ {r}) \ {s})
        /\ Cardinality((Holder \ {r}) \ {s}) = Cardinality(Holder \ {r}) - 1
    BY <2>4, FS_RemoveElement
  <2>6. Cardinality((Holder \ {r}) \ {s}) \in Nat
    BY <2>5, FS_CardinalityType
  <2> QED
    BY <2>2, <2>3, <2>4, <2>5, <2>6
<1> QED
  BY <1>1, <1>2, <1>3, PTL DEF Spec

-----------------------------------------------------------------------------
(* The counters.  A request that occupies a thread, or is lost with one,   *)
(* took a free one, so the threads never run out below zero; and every     *)
(* connection is counted up once and, unless something other than its      *)
(* answer ended it, counted down once.                                     *)

ThreadsCounted == Cardinality(Busy) + dead <= Threads

(* The engine is called only for a body that parsed.                       *)
EngineParsed == \A r \in Requests : st[r] = "engine" => r \notin BadJson

(* Only a request for the NPU is deferred.                                 *)
DeferredNpu == \A r \in Requests : deferred[r] => r \in NeedsNpu

(* One response is written at a time, behind the answer, and a stream has  *)
(* none: what makes one decrement per connection.                          *)
TidyAt(r) ==
    /\ writes[r] \in {0, 1}
    /\ writes[r] = 1 => r \notin ended /\ (st[r] = "done" \/ (st[r] = "tail" /\ deferred[r]))
    /\ r \in ended => r \in Streams \ BadJson /\ st[r] \in Late
    /\ r \in Streams \ BadJson /\ st[r] \in Passing \cup {"tail"} => r \in ended
    /\ r \in again => ~deferred[r]

Tidy == ~upset => \A r \in Requests : TidyAt(r)

CInv == /\ TypeOK /\ EngineParsed /\ DeferredNpu /\ ThreadsCounted /\ Tidy
        /\ ConnectionsCounted

(* The size_t arithmetic: no wrap-around between 0 and Width - 1.          *)
LEMMA Wrap ==
    ASSUME NEW n \in 0 .. Width - 1
    PROVE  /\ (n + 1) % Width \in 0 .. Width - 1 /\ Less(n) \in 0 .. Width - 1
           /\ n + 1 < Width => (n + 1) % Width = n + 1
           /\ n >= 1 => Less(n) = n - 1
<1> USE WebAssumption
<1>1. (n + 1) % Width \in 0 .. Width - 1 /\ Less(n) \in 0 .. Width - 1
  BY DEF Less
<1>2. n + 1 < Width => (n + 1) % Width = n + 1
  OBVIOUS
<1>3. n >= 1 => (n + Width - 1) % Width = n - 1
  OBVIOUS
<1> QED BY <1>1, <1>2, <1>3 DEF Less

IsOpen(r) ==
    \/ writes[r] > 0
    \/ r \notin ended /\ st[r] \in Serving
    \/ r \notin ended /\ st[r] = "tail" /\ ~deferred[r]

(* A step concerns one request.                                            *)
Only(r) ==
    /\ \A q \in Requests \ {r} : /\ st'[q] = st[q] /\ deferred'[q] = deferred[q]
                                  /\ writes'[q] = writes[q]
    /\ ended' \ {r} = ended \ {r} /\ again' \ {r} = again \ {r}

(* One request moves: what becomes of the two counts.                      *)
LEMMA MoveCounts ==
    ASSUME NEW r \in Requests, Only(r)
    PROVE  /\ Cardinality(Busy) \in Nat /\ Cardinality(Busy') \in Nat
           /\ st'[r] \notin OnThread \/ st[r] \in OnThread => Cardinality(Busy') <= Cardinality(Busy)
           /\ st[r] \in OnThread /\ st'[r] \notin OnThread => Cardinality(Busy') = Cardinality(Busy) - 1
           /\ Cardinality(Busy') <= Cardinality(Busy) + 1
           /\ Cardinality(Open) \in Nat /\ Cardinality(Open') \in Nat
           /\ (IsOpen(r)' <=> IsOpen(r)) => Cardinality(Open') = Cardinality(Open)
           /\ IsOpen(r)' /\ ~IsOpen(r) => Cardinality(Open') = Cardinality(Open) + 1
           /\ ~IsOpen(r)' /\ IsOpen(r)
                 => Cardinality(Open') = Cardinality(Open) - 1 /\ Cardinality(Open) >= 1
<1>2. IsFiniteSet(Busy) /\ IsFiniteSet(Open)
  BY CountAssumption, FS_Subset DEF Busy, Open
<1>3. /\ Busy' \ {r} = Busy \ {r} /\ (r \in Busy <=> st[r] \in OnThread)
      /\ (r \in Busy' <=> st'[r] \in OnThread)
  BY DEF Busy, Only
<1>4. /\ Open' \ {r} = Open \ {r} /\ (r \in Open <=> IsOpen(r)) /\ (r \in Open' <=> IsOpen(r)')
  <2>1. Open = {q \in Requests : IsOpen(q)} /\ Open' = {q \in Requests : IsOpen(q)'}
    BY DEF Open, IsOpen
  <2>2. \A q \in Requests \ {r} : IsOpen(q)' <=> IsOpen(q)
    BY DEF IsOpen, Only
  <2> QED BY <2>1, <2>2
<1>5. /\ Cardinality(Busy) \in Nat /\ Cardinality(Busy') \in Nat
      /\ (r \in Busy <=> r \in Busy') => Cardinality(Busy') = Cardinality(Busy)
      /\ r \notin Busy /\ r \in Busy' => Cardinality(Busy') = Cardinality(Busy) + 1
      /\ r \in Busy /\ r \notin Busy' => Cardinality(Busy') = Cardinality(Busy) - 1
  BY <1>2, <1>3, OneMoves
<1>6. /\ Cardinality(Open) \in Nat /\ Cardinality(Open') \in Nat
      /\ (r \in Open <=> r \in Open') => Cardinality(Open') = Cardinality(Open)
      /\ r \notin Open /\ r \in Open' => Cardinality(Open') = Cardinality(Open) + 1
      /\ r \in Open /\ r \notin Open'
            => Cardinality(Open') = Cardinality(Open) - 1 /\ Cardinality(Open) >= 1
  BY <1>2, <1>4, OneMoves
<1> HIDE DEF IsOpen
<1> QED BY <1>3, <1>4, <1>5, <1>6

(* How active_connections_ may follow the connection of a request.         *)
Follows(r) ==
    \/ active' = active /\ (IsOpen(r)' <=> IsOpen(r))
    \/ active' = Less(active) /\ IsOpen(r) /\ ~IsOpen(r)'
    \/ active' = (active + 1) % Width /\ active < MaxConns /\ IsOpen(r)' /\ ~IsOpen(r)

(* A step of one request keeps the counts: a thread is occupied only if    *)
(* one is free, and active_connections_ follows the request's opening and  *)
(* closing unless the step is remembered in upset.                         *)
LEMMA MoveKeeps ==
    ASSUME CInv, NEW r \in Requests, Only(r), TypeOK', UNCHANGED dead,
           st'[r] = "engine" => r \notin BadJson,
           deferred'[r] => r \in NeedsNpu,
           st'[r] \in OnThread => st[r] \in OnThread \/ FreeThread,
           ~upset' => ~upset /\ TidyAt(r)' /\ Follows(r)
    PROVE  CInv'
<1> USE WebAssumption, CountAssumption
<1>0. TypeOK /\ EngineParsed /\ DeferredNpu /\ ThreadsCounted /\ ConnectionsCounted /\ Tidy
  BY DEF CInv
<1>1. active \in 0 .. Width - 1 /\ dead \in 0 .. Threads /\ upset \in BOOLEAN
  BY <1>0 DEF TypeOK
<1>3. EngineParsed' /\ DeferredNpu'
  BY <1>0 DEF EngineParsed, DeferredNpu, Only
<1>4. ThreadsCounted'
  <2>1. CASE st'[r] \notin OnThread \/ st[r] \in OnThread
    <3>1. /\ Cardinality(Busy') <= Cardinality(Busy) /\ Cardinality(Busy) \in Nat
          /\ Cardinality(Busy') \in Nat
      BY <2>1, MoveCounts
    <3> QED BY <1>0, <1>1, <3>1 DEF ThreadsCounted
  <2>2. CASE FreeThread
    <3>1. /\ Cardinality(Busy') <= Cardinality(Busy) + 1 /\ Cardinality(Busy) \in Nat
          /\ Cardinality(Busy') \in Nat
      BY MoveCounts
    <3> QED BY <1>1, <2>2, <3>1 DEF ThreadsCounted, FreeThread
  <2> QED BY <2>1, <2>2
<1>5. Tidy'
  <2> SUFFICES ASSUME ~upset', NEW q \in Requests PROVE TidyAt(q)'
    BY DEF Tidy
  <2>1. CASE q = r
    BY <2>1
  <2>2. CASE q # r
    <3>1. TidyAt(q)
      BY <1>0 DEF Tidy
    <3> QED BY <2>2, <3>1 DEF TidyAt, Only
  <2> QED BY <2>1, <2>2
<1>6. ConnectionsCounted'
  <2> SUFFICES ASSUME ~upset' PROVE active' = Cardinality(Open')
    BY DEF ConnectionsCounted
  <2>1. active = Cardinality(Open) /\ Cardinality(Open) \in Nat
    BY <1>0, MoveCounts DEF ConnectionsCounted
  <2>2. CASE active' = active /\ (IsOpen(r)' <=> IsOpen(r))
    BY <2>1, <2>2, MoveCounts
  <2>3. CASE active' = Less(active) /\ IsOpen(r) /\ ~IsOpen(r)'
    <3>1. Cardinality(Open') = Cardinality(Open) - 1 /\ Cardinality(Open) >= 1
      BY <2>3, MoveCounts
    <3>2. Less(active) = active - 1
      BY <1>1, <2>1, <3>1, Wrap
    <3> QED BY <2>1, <2>3, <3>1, <3>2
  <2>4. CASE active' = (active + 1) % Width /\ active < MaxConns /\ IsOpen(r)' /\ ~IsOpen(r)
    <3>1. Cardinality(Open') = Cardinality(Open) + 1
      BY <2>4, MoveCounts
    <3>2. active + 1 < Width
      BY <1>1, <2>4
    <3>3. (active + 1) % Width = active + 1
      BY <1>1, <3>2, Wrap
    <3> QED BY <2>1, <2>4, <3>1, <3>3
  <2> QED BY <2>2, <2>3, <2>4 DEF Follows
<1> QED BY <1>3, <1>4, <1>5, <1>6 DEF CInv

(* What the proofs about single steps start from.                          *)
LEMMA Before ==
    ASSUME IInv, CInv, NEW r \in Requests
    PROVE  /\ st \in [Requests -> States] /\ deferred \in [Requests -> BOOLEAN]
           /\ timer \in [Requests -> BOOLEAN] /\ inUse \in BOOLEAN /\ queue \in Seq(Requests)
           /\ dead \in 0 .. Threads /\ active \in 0 .. Width - 1 /\ upset \in BOOLEAN
           /\ writes \in [Requests -> Nat] /\ ended \subseteq Requests /\ again \subseteq Requests
           /\ Less(active) \in 0 .. Width - 1 /\ (active + 1) % Width \in 0 .. Width - 1
           /\ st[r] = "engine" => r \notin BadJson
           /\ deferred[r] => r \in NeedsNpu
           /\ ~upset => TidyAt(r)
           /\ r \in again => st[r] \in Late
           /\ st[r] \in {"enqueue", "queued", "posted", "handon", "cooldown"} => r \in NeedsNpu
  BY Wrap DEF CInv, TypeOK, EngineParsed, DeferredNpu, Tidy, IInv, AgainLate, NpuOnly

(* The steps of a single request.                                          *)
LEMMA SingleCounts ==
    ASSUME IInv, CInv, NEW r \in Requests,
           \/ Accept(r) \/ ReadRequest(r) \/ ReadFails(r) \/ TooLarge(r) \/ TimerFires(r)
           \/ TryAcquire(r) \/ Enqueue(r) \/ RunPosted(r) \/ Respond(r)
           \/ StreamFails(r) \/ HandOn(r) \/ Return(r) \/ TailFails(r) \/ Write(r)
    PROVE  CInv'
<1> USE WebAssumption DEF Go, npu, replies, StartWrite, States
<1>0. /\ st \in [Requests -> States] /\ deferred \in [Requests -> BOOLEAN]
      /\ timer \in [Requests -> BOOLEAN] /\ inUse \in BOOLEAN /\ queue \in Seq(Requests)
      /\ dead \in 0 .. Threads /\ active \in 0 .. Width - 1 /\ upset \in BOOLEAN
      /\ writes \in [Requests -> Nat] /\ ended \subseteq Requests /\ again \subseteq Requests
      /\ Less(active) \in 0 .. Width - 1 /\ (active + 1) % Width \in 0 .. Width - 1
      /\ st[r] = "engine" => r \notin BadJson
      /\ deferred[r] => r \in NeedsNpu
      /\ ~upset => TidyAt(r)
      /\ r \in again => st[r] \in Late
      /\ st[r] \in {"enqueue", "queued", "posted", "handon", "cooldown"} => r \in NeedsNpu
  BY Before
<1>1. CASE Accept(r)
  <2>1. TypeOK'
    BY <1>0, <1>1 DEF Accept, TypeOK
  <2>2. Only(r)
    BY <1>0, <1>1 DEF Accept, Only
  <2>3. ~upset' => ~upset /\ TidyAt(r)'
    BY <1>0, <1>1 DEF Accept, TidyAt, Late, Passing
  <2>4. ~upset' => Follows(r)
    <3>1. CASE active >= MaxConns
      BY <1>0, <1>1, <3>1 DEF Accept, TidyAt, Follows, IsOpen, Serving, Late, Passing
    <3>2. CASE ~(active >= MaxConns)
      <4>1. active < MaxConns
        BY <1>0, <3>2, CountAssumption
      <4>2. /\ st[r] = "new" /\ st'[r] = "reading" /\ active' = (active + 1) % Width
            /\ UNCHANGED <<writes, ended, upset>>
        BY <1>0, <1>1, <3>2 DEF Accept
      <4>3. ~upset' => ~IsOpen(r) /\ IsOpen(r)'
        BY <1>0, <4>2 DEF TidyAt, IsOpen, Serving, Late, Passing
      <4> QED BY <4>1, <4>2, <4>3 DEF Follows
    <3> QED BY <3>1, <3>2
  <2>5. /\ UNCHANGED dead
        /\ st'[r] = "engine" => r \notin BadJson
        /\ deferred'[r] => r \in NeedsNpu
        /\ st'[r] \in OnThread => st[r] \in OnThread \/ FreeThread
    BY <1>0, <1>1 DEF Accept, OnThread
  <2> QED BY <2>1, <2>2, <2>3, <2>4, <2>5, MoveKeeps
<1>2. CASE ReadRequest(r)
  <2>1. TypeOK'
    BY <1>0, <1>2 DEF ReadRequest, TypeOK
  <2>2. Only(r)
    BY <1>0, <1>2 DEF ReadRequest, Only
  <2>3. ~upset' => ~upset /\ TidyAt(r)'
    BY <1>0, <1>2 DEF ReadRequest, TidyAt, Late, Passing
  <2>4. ~upset' => Follows(r)
    BY <1>0, <1>2 DEF ReadRequest, TidyAt, Follows, IsOpen, Serving, Late, Passing
  <2>5. /\ UNCHANGED dead
        /\ st'[r] = "engine" => r \notin BadJson
        /\ deferred'[r] => r \in NeedsNpu
        /\ st'[r] \in OnThread => st[r] \in OnThread \/ FreeThread
    BY <1>0, <1>2 DEF ReadRequest, OnThread
  <2> QED BY <2>1, <2>2, <2>3, <2>4, <2>5, MoveKeeps
<1>3. CASE ReadFails(r)
  <2>1. TypeOK'
    BY <1>0, <1>3 DEF ReadFails, TypeOK
  <2>2. Only(r)
    BY <1>0, <1>3 DEF ReadFails, Only
  <2>3. ~upset' => ~upset /\ TidyAt(r)'
    BY <1>0, <1>3 DEF ReadFails, TidyAt, Late, Passing
  <2>4. ~upset' => Follows(r)
    BY <1>0, <1>3 DEF ReadFails, TidyAt, Follows, IsOpen, Serving, Late, Passing
  <2>5. /\ UNCHANGED dead
        /\ st'[r] = "engine" => r \notin BadJson
        /\ deferred'[r] => r \in NeedsNpu
        /\ st'[r] \in OnThread => st[r] \in OnThread \/ FreeThread
    BY <1>0, <1>3 DEF ReadFails, OnThread
  <2> QED BY <2>1, <2>2, <2>3, <2>4, <2>5, MoveKeeps
<1>4. CASE TooLarge(r)
  <2>1. TypeOK'
    BY <1>0, <1>4 DEF TooLarge, TypeOK
  <2>2. Only(r)
    BY <1>0, <1>4 DEF TooLarge, Only
  <2>3. ~upset' => ~upset /\ TidyAt(r)'
    <3>1. /\ st[r] = "reading" /\ st'[r] = "done" /\ writes'[r] = writes[r] + 1
          /\ UNCHANGED <<ended, again, deferred, upset>>
      BY <1>0, <1>4 DEF TooLarge, StartWrite
    <3>2. ~upset => writes[r] = 0 /\ r \notin ended /\ r \notin again
      BY <1>0, <3>1 DEF TidyAt, Late, Passing
    <3>3. ~upset => writes'[r] = 1
      BY <3>1, <3>2
    <3>4. /\ upset' = upset /\ ended' = ended /\ again' = again
          /\ st'[r] \in Late /\ st'[r] = "done" /\ st'[r] \notin Passing \cup {"tail"}
      BY <3>1 DEF Late, Passing
    <3>5. ~upset' => ~upset
      BY <3>4
    <3>6. ~upset => writes'[r] \in {0, 1} /\ (r \in ended' => FALSE) /\ (r \in again' => FALSE)
      BY <3>2, <3>3, <3>4
    <3> QED BY <3>4, <3>5, <3>6 DEF TidyAt
  <2>4. ~upset' => Follows(r)
    BY <1>0, <1>4 DEF TooLarge, TidyAt, Follows, IsOpen, Serving, Late, Passing
  <2>5. /\ UNCHANGED dead
        /\ st'[r] = "engine" => r \notin BadJson
        /\ deferred'[r] => r \in NeedsNpu
        /\ st'[r] \in OnThread => st[r] \in OnThread \/ FreeThread
    BY <1>0, <1>4 DEF TooLarge, OnThread
  <2> QED BY <2>1, <2>2, <2>3, <2>4, <2>5, MoveKeeps
<1>5. CASE TimerFires(r)
  <2>1. TypeOK'
    BY <1>0, <1>5 DEF TimerFires, TypeOK
  <2>2. Only(r)
    BY <1>0, <1>5 DEF TimerFires, Only
  <2>3. ~upset' => ~upset /\ TidyAt(r)'
    BY <1>0, <1>5 DEF TimerFires, TidyAt, Late, Passing
  <2>4. ~upset' => Follows(r)
    BY <1>0, <1>5 DEF TimerFires, TidyAt, Follows, IsOpen, Serving, Late, Passing
  <2>5. /\ UNCHANGED dead
        /\ st'[r] = "engine" => r \notin BadJson
        /\ deferred'[r] => r \in NeedsNpu
        /\ st'[r] \in OnThread => st[r] \in OnThread \/ FreeThread
    BY <1>0, <1>5 DEF TimerFires, OnThread
  <2> QED BY <2>1, <2>2, <2>3, <2>4, <2>5, MoveKeeps
<1>6. CASE TryAcquire(r)
  <2>1. TypeOK'
    BY <1>0, <1>6 DEF TryAcquire, TypeOK
  <2>2. Only(r)
    BY <1>0, <1>6 DEF TryAcquire, Only
  <2>3. ~upset' => ~upset /\ TidyAt(r)'
    BY <1>0, <1>6 DEF TryAcquire, TidyAt, Late, Passing
  <2>4. ~upset' => Follows(r)
    BY <1>0, <1>6 DEF TryAcquire, TidyAt, Follows, IsOpen, Serving, Late, Passing
  <2>5. /\ UNCHANGED dead
        /\ st'[r] = "engine" => r \notin BadJson
        /\ deferred'[r] => r \in NeedsNpu
        /\ st'[r] \in OnThread => st[r] \in OnThread \/ FreeThread
    BY <1>0, <1>6 DEF TryAcquire, OnThread
  <2> QED BY <2>1, <2>2, <2>3, <2>4, <2>5, MoveKeeps
<1>7. CASE Enqueue(r)
  <2>1. TypeOK'
    <3>1. CASE Len(queue) >= Limit
      <4>1. /\ st' = [st EXCEPT ![r] = "done"] /\ writes' = [writes EXCEPT ![r] = @ + 1]
            /\ UNCHANGED <<queue, deferred, timer, inUse, dead, active, ended, again, upset>>
        BY <1>7, <3>1 DEF Enqueue, StartWrite
      <4>2. st' \in [Requests -> States] /\ writes' \in [Requests -> Nat]
        BY <1>0, <4>1 DEF States
      <4> QED BY <1>0, <4>1, <4>2 DEF TypeOK
    <3>2. CASE ~(Len(queue) >= Limit)
      <4>1. /\ queue' = Append(queue, r) /\ st' = [st EXCEPT ![r] = "queued"]
            /\ deferred' = [deferred EXCEPT ![r] = TRUE]
            /\ UNCHANGED <<timer, inUse, dead, active, writes, ended, again, upset>>
        BY <1>7, <3>2 DEF Enqueue
      <4>2. queue' \in Seq(Requests) /\ deferred' \in [Requests -> BOOLEAN]
        BY <1>0, <4>1
      <4>3. st' \in [Requests -> States]
        BY <1>0, <4>1
      <4> QED BY <1>0, <4>1, <4>2, <4>3 DEF TypeOK
    <3> QED BY <3>1, <3>2
  <2>2. Only(r)
    BY <1>0, <1>7 DEF Enqueue, Only
  <2>3. ~upset' => ~upset /\ TidyAt(r)'
    <3>1. /\ st[r] = "enqueue" /\ st'[r] \in {"done", "queued"} /\ UNCHANGED <<ended, again, upset>>
          /\ \/ st'[r] = "done" /\ writes'[r] = writes[r] + 1 /\ deferred' = deferred
             \/ st'[r] = "queued" /\ writes' = writes
      BY <1>0, <1>7 DEF Enqueue, StartWrite
    <3>2. ~upset => writes[r] = 0 /\ r \notin ended /\ r \notin again
      BY <1>0, <3>1 DEF TidyAt, Late, Passing
    <3>3. ~upset => \/ st'[r] = "done" /\ writes'[r] = 1
                    \/ st'[r] = "queued" /\ writes'[r] = 0
      BY <3>1, <3>2
    <3>4. /\ upset' = upset /\ ended' = ended /\ again' = again
          /\ st'[r] \notin Passing \cup {"tail"}
      BY <3>1 DEF Passing
    <3> QED BY <3>2, <3>3, <3>4 DEF TidyAt
  <2>4. ~upset' => Follows(r)
    BY <1>0, <1>7 DEF Enqueue, TidyAt, Follows, IsOpen, Serving, Late, Passing
  <2>5. /\ UNCHANGED dead
        /\ st'[r] = "engine" => r \notin BadJson
        /\ deferred'[r] => r \in NeedsNpu
        /\ st'[r] \in OnThread => st[r] \in OnThread \/ FreeThread
    BY <1>0, <1>7 DEF Enqueue, OnThread
  <2> QED BY <2>1, <2>2, <2>3, <2>4, <2>5, MoveKeeps
<1>8. CASE RunPosted(r)
  <2>1. TypeOK'
    BY <1>0, <1>8 DEF RunPosted, TypeOK
  <2>2. Only(r)
    BY <1>0, <1>8 DEF RunPosted, Only
  <2>3. ~upset' => ~upset /\ TidyAt(r)'
    BY <1>0, <1>8 DEF RunPosted, TidyAt, Late, Passing
  <2>4. ~upset' => Follows(r)
    BY <1>0, <1>8 DEF RunPosted, TidyAt, Follows, IsOpen, Serving, Late, Passing
  <2>5. /\ UNCHANGED dead
        /\ st'[r] = "engine" => r \notin BadJson
        /\ deferred'[r] => r \in NeedsNpu
        /\ st'[r] \in OnThread => st[r] \in OnThread \/ FreeThread
    BY <1>0, <1>8 DEF RunPosted, OnThread
  <2> QED BY <2>1, <2>2, <2>3, <2>4, <2>5, MoveKeeps
<1>9. CASE Respond(r)
  <2>1. TypeOK'
    BY <1>0, <1>9 DEF Respond, Answered, TypeOK
  <2>2. Only(r)
    BY <1>0, <1>9 DEF Respond, Answered, Only
  <2>3. ~upset' => ~upset /\ TidyAt(r)'
    BY <1>0, <1>9 DEF Respond, Answered, TidyAt, Late, Passing
  <2>4. ~upset' => Follows(r)
    BY <1>0, <1>9 DEF Respond, Answered, TidyAt, Follows, IsOpen, Serving, Late, Passing
  <2>5. /\ UNCHANGED dead
        /\ st'[r] = "engine" => r \notin BadJson
        /\ deferred'[r] => r \in NeedsNpu
        /\ st'[r] \in OnThread => st[r] \in OnThread \/ FreeThread
    BY <1>0, <1>9 DEF Respond, Answered, OnThread
  <2> QED BY <2>1, <2>2, <2>3, <2>4, <2>5, MoveKeeps
<1>10. CASE StreamFails(r)
  <2>1. TypeOK'
    BY <1>0, <1>10 DEF StreamFails, Answered, TypeOK
  <2>2. Only(r)
    BY <1>0, <1>10 DEF StreamFails, Answered, Only
  <2>3. ~upset' => ~upset /\ TidyAt(r)'
    BY <1>0, <1>10 DEF StreamFails, Answered, TidyAt, Late, Passing
  <2>4. ~upset' => Follows(r)
    BY <1>0, <1>10 DEF StreamFails, Answered, TidyAt, Follows, IsOpen, Serving, Late, Passing
  <2>5. /\ UNCHANGED dead
        /\ st'[r] = "engine" => r \notin BadJson
        /\ deferred'[r] => r \in NeedsNpu
        /\ st'[r] \in OnThread => st[r] \in OnThread \/ FreeThread
    BY <1>0, <1>10 DEF StreamFails, Answered, OnThread
  <2> QED BY <2>1, <2>2, <2>3, <2>4, <2>5, MoveKeeps
<1>11. CASE HandOn(r)
  <2>1. TypeOK'
    <3>0. [writes EXCEPT ![r] = @ + 1] \in [Requests -> Nat]
      BY <1>0
    <3>1. writes' \in [Requests -> Nat]
      <4>1. writes' = writes \/ writes' = [writes EXCEPT ![r] = @ + 1]
        BY <1>11 DEF HandOn, WriteDeferred, StartWrite
      <4> QED BY <1>0, <3>0, <4>1
    <3>2. st' \in [Requests -> States] /\ inUse' \in BOOLEAN
      BY <1>0, <1>11 DEF HandOn
    <3> QED BY <1>0, <1>11, <3>1, <3>2 DEF HandOn, TypeOK
  <2>2. Only(r)
    BY <1>0, <1>11 DEF HandOn, WriteDeferred, Only
  <2>3. ~upset' => ~upset /\ TidyAt(r)'
    BY <1>0, <1>11 DEF HandOn, WriteDeferred, TidyAt, Late, Passing
  <2>4. ~upset' => Follows(r)
    BY <1>0, <1>11 DEF HandOn, WriteDeferred, TidyAt, Follows, IsOpen, Serving, Late, Passing
  <2>5. /\ UNCHANGED dead
        /\ st'[r] = "engine" => r \notin BadJson
        /\ deferred'[r] => r \in NeedsNpu
        /\ st'[r] \in OnThread => st[r] \in OnThread \/ FreeThread
    BY <1>0, <1>11 DEF HandOn, WriteDeferred, OnThread
  <2> QED BY <2>1, <2>2, <2>3, <2>4, <2>5, MoveKeeps
<1>12. CASE Return(r)
  <2>1. TypeOK'
    <3>0. [writes EXCEPT ![r] = @ + 1] \in [Requests -> Nat]
      BY <1>0
    <3>1. writes' \in [Requests -> Nat]
      <4>1. writes' = writes \/ writes' = [writes EXCEPT ![r] = @ + 1]
        BY <1>12 DEF Return, StartWrite
      <4> QED BY <1>0, <3>0, <4>1
    <3> QED BY <1>0, <1>12, <3>1 DEF Return, TypeOK
  <2>2. Only(r)
    BY <1>0, <1>12 DEF Return, Only
  <2>3. ~upset' => ~upset /\ TidyAt(r)'
    <3>1. /\ st[r] = "tail" /\ st'[r] = "done" /\ UNCHANGED <<deferred, ended, again, upset>>
          /\ \/ (r \in Streams \ BadJson \/ deferred[r]) /\ writes' = writes
             \/ r \notin Streams \ BadJson /\ ~deferred[r] /\ writes'[r] = writes[r] + 1
      BY <1>0, <1>12 DEF Return, StartWrite
    <3>2. ~upset => /\ writes[r] = 0 \/ (deferred[r] /\ writes[r] = 1)
                    /\ (r \in ended => writes[r] = 0)
      BY <1>0, <3>1 DEF TidyAt, Late, Passing
    <3>3. ~upset => writes'[r] \in {0, 1}
      BY <3>1, <3>2
    <3>4. /\ upset' = upset /\ ended' = ended /\ again' = again /\ deferred' = deferred
          /\ st'[r] \in Late /\ st'[r] = "done" /\ st'[r] \notin Passing \cup {"tail"}
      BY <3>1 DEF Late, Passing
    <3>5. ~upset => TidyAt(r)
      BY <1>0
    <3>6. ~upset => ~(r \in ended /\ writes'[r] = 1)
      BY <3>1, <3>2, <3>5 DEF TidyAt
    <3> QED BY <3>3, <3>4, <3>5, <3>6 DEF TidyAt
  <2>4. ~upset' => Follows(r)
    BY <1>0, <1>12 DEF Return, TidyAt, Follows, IsOpen, Serving, Late, Passing
  <2>5. /\ UNCHANGED dead
        /\ st'[r] = "engine" => r \notin BadJson
        /\ deferred'[r] => r \in NeedsNpu
        /\ st'[r] \in OnThread => st[r] \in OnThread \/ FreeThread
    BY <1>0, <1>12 DEF Return, OnThread
  <2> QED BY <2>1, <2>2, <2>3, <2>4, <2>5, MoveKeeps
<1>13. CASE TailFails(r)
  <2>1. TypeOK'
    BY <1>0, <1>13 DEF TailFails, Answered, TypeOK
  <2>2. Only(r)
    BY <1>0, <1>13 DEF TailFails, Answered, Only
  <2>3. ~upset' => ~upset /\ TidyAt(r)'
    BY <1>0, <1>13 DEF TailFails, Answered, TidyAt, Late, Passing
  <2>4. ~upset' => Follows(r)
    BY <1>0, <1>13 DEF TailFails, Answered, TidyAt, Follows, IsOpen, Serving, Late, Passing
  <2>5. /\ UNCHANGED dead
        /\ st'[r] = "engine" => r \notin BadJson
        /\ deferred'[r] => r \in NeedsNpu
        /\ st'[r] \in OnThread => st[r] \in OnThread \/ FreeThread
    BY <1>0, <1>13 DEF TailFails, Answered, OnThread
  <2> QED BY <2>1, <2>2, <2>3, <2>4, <2>5, MoveKeeps
<1>14. CASE Write(r)
  <2>1. TypeOK'
    BY <1>0, <1>14 DEF Write, TypeOK
  <2>2. Only(r)
    BY <1>0, <1>14 DEF Write, Only
  <2>3. ~upset' => ~upset /\ TidyAt(r)'
    BY <1>0, <1>14 DEF Write, TidyAt, Late, Passing
  <2>4. ~upset' => Follows(r)
    BY <1>0, <1>14 DEF Write, TidyAt, Follows, IsOpen, Serving, Late, Passing
  <2>5. /\ UNCHANGED dead
        /\ st'[r] = "engine" => r \notin BadJson
        /\ deferred'[r] => r \in NeedsNpu
        /\ st'[r] \in OnThread => st[r] \in OnThread \/ FreeThread
    BY <1>0, <1>14 DEF Write, OnThread
  <2> QED BY <2>1, <2>2, <2>3, <2>4, <2>5, MoveKeeps
<1> QED
  BY <1>1, <1>2, <1>3, <1>4, <1>5, <1>6, <1>7,
     <1>8, <1>9, <1>10, <1>11, <1>12, <1>13, <1>14

(* A task begins; a thread that an exception ends is the one it occupied.  *)
LEMMA BeginCounts ==
    ASSUME IInv, CInv, NEW r \in Requests, BeginTask(r)
    PROVE  CInv'
<1> USE WebAssumption
<1>0. /\ TypeOK /\ EngineParsed /\ DeferredNpu /\ ThreadsCounted /\ ConnectionsCounted
      /\ st[r] = "task" /\ UNCHANGED <<deferred, timer, inUse, queue, active, writes, ended, again>>
  BY DEF CInv, BeginTask, npu, replies
<1>1. CASE r \in BadId \ BadJson /\ Go(r, "lost") /\ dead' = dead + 1 /\ upset' = TRUE
  <2>1. st' = [st EXCEPT ![r] = "lost"] /\ "lost" \in States /\ Only(r)
    BY <1>0, <1>1 DEF Go, States, Only
  <2>2. /\ st' \in [Requests -> States] /\ st'[r] = "lost" /\ \A q \in Requests : q # r => st'[q] = st[q]
    BY <1>0, <2>1 DEF TypeOK
  <2>3. /\ Cardinality(Busy) \in Nat /\ Cardinality(Busy') \in Nat
        /\ Cardinality(Busy') = Cardinality(Busy) - 1
    BY <1>0, <2>1, <2>2, MoveCounts DEF OnThread
  <2>4. dead \in 0 .. Threads /\ dead' \in 0 .. Threads /\ ThreadsCounted'
    BY <1>0, <1>1, <2>3 DEF ThreadsCounted, TypeOK
  <2>5. TypeOK'
    BY <1>0, <1>1, <2>2, <2>4 DEF TypeOK
  <2>6. EngineParsed' /\ DeferredNpu' /\ Tidy' /\ ConnectionsCounted'
    BY <1>0, <1>1, <2>2 DEF EngineParsed, DeferredNpu, Tidy, ConnectionsCounted
  <2> QED BY <2>4, <2>5, <2>6 DEF CInv
<1>2. CASE ~(r \in BadId \ BadJson /\ Go(r, "lost") /\ dead' = dead + 1 /\ upset' = TRUE)
  <2>1. PICK s \in {"handon", "tail", "engine"} :
          /\ st' = [st EXCEPT ![r] = s] /\ UNCHANGED <<dead, upset>>
          /\ s = "handon" => r \in BadJson
          /\ s = "tail" => r \in BadJson /\ r \notin NeedsNpu
          /\ s = "engine" => r \notin BadJson
    BY <1>2 DEF BeginTask, Answered, Go
  <2>2. /\ st' \in [Requests -> States] /\ st'[r] = s /\ Only(r)
    BY <1>0, <2>1 DEF TypeOK, States, Only
  <2>3. TypeOK'
    BY <1>0, <2>1, <2>2 DEF TypeOK
  <2>4. ~upset => TidyAt(r)
    BY Before
  <2>5. deferred[r] => r \in NeedsNpu
    BY Before
  <2>6. ~upset' => ~upset /\ TidyAt(r)'
    BY <1>0, <2>1, <2>2, <2>4 DEF TidyAt, Late, Passing
  <2>7. ~upset' => Follows(r)
    BY <1>0, <2>1, <2>2, <2>4, <2>5 DEF TidyAt, Follows, IsOpen, Serving, Late, Passing
  <2> QED BY <1>0, <2>1, <2>2, <2>3, <2>5, <2>6, <2>7, MoveKeeps DEF OnThread
<1> QED BY <1>1, <1>2

(* The hand-on moves two requests, neither of them over a border.          *)
LEMMA PostCounts ==
    ASSUME IInv, CInv, NEW r \in Requests, PostNext(r)
    PROVE  CInv'
<1> USE WebAssumption
<1>0. /\ TypeOK /\ EngineParsed /\ DeferredNpu /\ ThreadsCounted /\ ConnectionsCounted /\ Tidy
      /\ st[r] = "cooldown" /\ UNCHANGED <<deferred, timer, dead, active, ended, again, upset>>
      /\ st \in [Requests -> States] /\ queue \in Seq(Requests) /\ writes \in [Requests -> Nat]
  BY DEF CInv, PostNext, TypeOK
<1>w. /\ writes' \in [Requests -> Nat] /\ \A q \in Requests : q # r => writes'[q] = writes[q]
      /\ \/ writes' = writes /\ ~(deferred[r] /\ (r \notin ended \/ r \in again))
         \/ /\ writes'[r] = writes[r] + 1
            /\ deferred[r] /\ (r \notin ended \/ r \in again)
  BY <1>0 DEF PostNext, WriteDeferred, StartWrite
<1>t. ~upset => TidyAt(r)
  BY Before
<1>a. st'[r] = "tail" => (~upset' => TidyAt(r)') /\ (~upset' => (IsOpen(r)' <=> IsOpen(r)))
  BY <1>0, <1>w, <1>t DEF TidyAt, IsOpen, Serving, Late, Passing
<1>1. CASE queue = <<>>
  <2>1. st' = [st EXCEPT ![r] = "tail"] /\ inUse' = FALSE /\ queue' = queue
    BY <1>1 DEF PostNext, Go
  <2>2. st' \in [Requests -> States] /\ st'[r] = "tail" /\ Only(r)
    BY <1>0, <1>w, <2>1 DEF States, Only
  <2>3. TypeOK'
    BY <1>0, <1>w, <2>1, <2>2 DEF TypeOK
  <2>4. ~upset' => ~upset /\ TidyAt(r)' /\ Follows(r)
    BY <1>0, <1>a, <2>2 DEF Follows
  <2>5. deferred[r] => r \in NeedsNpu
    BY Before
  <2> QED BY <1>0, <2>2, <2>3, <2>4, <2>5, MoveKeeps DEF OnThread
<1>2. CASE queue # <<>>
  <2>1. /\ queue' = Tail(queue) /\ inUse' = inUse
        /\ st' = [st EXCEPT ![r] = "tail", ![Head(queue)] = "posted"]
    BY <1>2 DEF PostNext
  <2>2. Head(queue) \in Requests /\ Head(queue) = queue[1] /\ 1 \in 1 .. Len(queue)
        /\ queue' \in Seq(Requests)
    BY <1>0, <1>2, <2>1
  <2>3. st[Head(queue)] = "queued"
    BY <2>2 DEF IInv, QueueOfWaiting
  <2>4. PICK h \in Requests : h = Head(queue)
    BY <2>2
  <2>5. /\ st'[h] = "posted" /\ st'[r] = "tail" /\ h # r /\ st[h] = "queued"
        /\ st' \in [Requests -> States] /\ \A q \in Requests : q # r /\ q # h => st'[q] = st[q]
    BY <1>0, <2>1, <2>2, <2>3, <2>4 DEF States
  <2>6. Busy' = Busy
    BY <1>0, <2>5 DEF Busy, OnThread
  <2>7. ~upset' => \A q \in Requests : TidyAt(q)' /\ (IsOpen(q)' <=> IsOpen(q))
    <3> SUFFICES ASSUME ~upset', NEW q \in Requests PROVE TidyAt(q)' /\ (IsOpen(q)' <=> IsOpen(q))
      OBVIOUS
    <3>1. TidyAt(q) /\ UNCHANGED <<upset, deferred, ended, again>>
      BY <1>0 DEF Tidy
    <3>2. CASE q = r
      BY <1>a, <2>5, <3>2
    <3>3. CASE q = h
      BY <1>w, <2>5, <3>1, <3>3 DEF TidyAt, IsOpen, Serving, Late, Passing
    <3>4. CASE q # r /\ q # h
      BY <1>w, <2>5, <3>1, <3>4 DEF TidyAt, IsOpen
    <3> QED BY <3>2, <3>3, <3>4
  <2>8. ~upset' => Open' = Open
    <3>1. Open = {q \in Requests : IsOpen(q)} /\ Open' = {q \in Requests : IsOpen(q)'}
      BY DEF Open, IsOpen
    <3> QED BY <2>7, <3>1
  <2>9. TypeOK'
    BY <1>0, <1>w, <2>1, <2>2, <2>5 DEF TypeOK
  <2>10. EngineParsed' /\ DeferredNpu' /\ ThreadsCounted'
    BY <1>0, <2>5, <2>6 DEF EngineParsed, DeferredNpu, ThreadsCounted
  <2>11. Tidy' /\ ConnectionsCounted'
    BY <1>0, <2>7, <2>8 DEF Tidy, ConnectionsCounted
  <2> QED BY <2>9, <2>10, <2>11 DEF CInv
<1> QED BY <1>1, <1>2

(* Nothing is counted at the start.                                        *)
LEMMA InitCounts == Init => CInv
<1> USE WebAssumption
<1> SUFFICES ASSUME Init PROVE CInv
  OBVIOUS
<1>1. st \in [Requests -> States] /\ \A r \in Requests : st[r] = "new"
  BY DEF Init, States
<1>2. Busy = {} /\ Open = {} /\ writes \in [Requests -> Nat] /\ \A r \in Requests : writes[r] = 0
  BY <1>1 DEF Init, Busy, OnThread, Open, Serving
<1>3. Cardinality(Busy) = 0 /\ Cardinality(Open) = 0
  BY <1>2, FS_EmptySet
<1>4. dead = 0 /\ active = 0 /\ 0 \in 0 .. Threads /\ 0 \in 0 .. Width - 1
  BY DEF Init
<1>5. /\ inUse \in BOOLEAN /\ upset \in BOOLEAN
      /\ deferred \in [Requests -> BOOLEAN] /\ timer \in [Requests -> BOOLEAN]
      /\ \A r \in Requests : ~deferred[r]
      /\ ended = {} /\ again = {}
  BY DEF Init
<1>6. queue \in Seq(Requests)
  <2>1. <<>> \in Seq(Requests)
    OBVIOUS
  <2> QED BY <2>1 DEF Init
<1>7. TypeOK
  BY <1>1, <1>2, <1>4, <1>5, <1>6 DEF TypeOK
<1>8. EngineParsed /\ DeferredNpu /\ ThreadsCounted /\ ConnectionsCounted
  BY <1>1, <1>3, <1>4, <1>5 DEF EngineParsed, DeferredNpu, ThreadsCounted, ConnectionsCounted
<1>9. Tidy
  BY <1>1, <1>2, <1>5 DEF Tidy, TidyAt, Late, Passing
<1> QED BY <1>7, <1>8, <1>9 DEF CInv

(* Every step keeps the counts.                                            *)
LEMMA StepCounts ==
    ASSUME IInv, CInv, [Next]_vars
    PROVE  CInv'
<1>1. CASE UNCHANGED vars
  <2>1. /\ UNCHANGED <<st, deferred, timer, inUse, queue, dead, active, writes, ended, again, upset>>
        /\ Busy' = Busy /\ Open' = Open
    BY <1>1 DEF vars, Busy, Open
  <2> QED
    BY <2>1 DEF CInv, TypeOK, EngineParsed, DeferredNpu, ThreadsCounted, Tidy, TidyAt, ConnectionsCounted
<1>2. CASE Next
  BY <1>2, SingleCounts, BeginCounts, PostCounts DEF Next, Step
<1> QED BY <1>1, <1>2

(* TypeOK for any requests, threads and limits: in particular no more      *)
(* threads die than there are, and the size_t counter stays in its range.  *)
THEOREM TypeCorrect == Spec => []TypeOK
<1>1. Init => IInv /\ CInv
  BY InitHolds, InitCounts
<1>2. (IInv /\ CInv) /\ [Next]_vars => (IInv /\ CInv)'
  BY StepHolds, StepCounts
<1>3. IInv /\ CInv => TypeOK
  BY DEF CInv
<1> QED BY <1>1, <1>2, <1>3, PTL DEF Spec

(* active_connections_ is the number of open connections as long as every  *)
(* connection ended with one answer, with four places that count down and  *)
(* handlers that are streams, errors or neither: it never wraps around and *)
(* do_accept() compares the right number with max_connections_.            *)
THEOREM CountsConnections == Spec => []ConnectionsCounted
<1>1. Init => IInv /\ CInv
  BY InitHolds, InitCounts
<1>2. (IInv /\ CInv) /\ [Next]_vars => (IInv /\ CInv)'
  BY StepHolds, StepCounts
<1>3. IInv /\ CInv => ConnectionsCounted
  BY DEF CInv
<1> QED BY <1>1, <1>2, <1>3, PTL DEF Spec
=============================================================================
