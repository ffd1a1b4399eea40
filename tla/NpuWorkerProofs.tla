-------------------------- MODULE NpuWorkerProofs --------------------------
(***************************************************************************)
(* Proofs about NpuWorker for every number of calls, every bound on the    *)
(* pipes, the context and the crashes, and with or without a slow worker.  *)
(*                                                                         *)
(* That a token answers the call that returns it is no property of one     *)
(* read: it rests on what is in the two pipes and in the worker whenever a *)
(* call starts.  The inductive invariant says so: as long as no read was   *)
(* given up, the pipes are empty between two calls, and during one they    *)
(* hold its command or the rest of its answer and nothing else.            *)
(***************************************************************************)
EXTENDS NpuWorker, SequenceTheorems, TLAPS

Marks    == Ids \cup {Old}
Commands == [kind : Kinds, id : Ids]
Words    == [v : 0 .. Big, id : Nat, ctx : Seq(Marks)]

(* What every variable holds, the contents of the pipes included.          *)
Types ==
    /\ pc \in {"idle", "ensure", "write", "hdr", "data"}
    /\ call \in Commands /\ dim \in 0 .. 1 /\ ready \in BOOLEAN
    /\ proc \in {"none", "alive", "dead"}
    /\ toW \in Seq(Commands) /\ fromW \in Seq(Words) /\ wout \in Seq(Seq(Words))
    /\ kv \in Seq(Marks) /\ fuseReset \in BOOLEAN /\ fuseResetSlot \in BOOLEAN
    /\ fed \in Seq(Ids) /\ broken \in BOOLEAN /\ whole \in BOOLEAN /\ ret \in Words
    /\ late \in BOOLEAN /\ crashes \in 0 .. MaxCrash

(* The k-th command in the pipe finds a cache that has grown by at most    *)
(* k - 1 tokens, so the guard of Call bounds the cache it leaves behind.   *)
Bounded ==
    /\ Len(kv) <= MaxCtx /\ Len(fed) <= MaxCtx
    /\ \A k \in 1 .. Len(toW) : toW[k].kind = "generate" => Len(Cache) + k <= MaxCtx
    /\ pc \in {"ensure", "write"} /\ call.kind = "generate" => Len(Cache) + Len(toW) < MaxCtx
    /\ pc # "idle" /\ call.kind = "generate" => Len(fed) < MaxCtx

(* The worker is there from spawn() to shutdown(), `ready` says so, and    *)
(* without one the sequence is empty or known to be broken.  A worker that *)
(* died has no command and writes nothing.                                 *)
Spawned ==
    /\ proc # "alive" => toW = <<>> /\ wout = <<>>
    /\ ready <=> proc # "none"
    /\ pc \in {"write", "hdr", "data"} => ready
    /\ ~ready /\ ~broken => fed = <<>>

PipesEmpty == toW = <<>> /\ wout = <<>> /\ fromW = <<>>

(* The context c is that of the sequence f, or, after an op 31, has what   *)
(* the recurrent state held before in front of it.                         *)
Fits(c, f) == c = f \/ (Recurrent /\ ~whole /\ c = <<Old>> \o f)

(* An op 31 that is noted now came after the last decode step.             *)
Noted == whole \/ fed # <<>> => ~fuseReset

(* The worker's context is that of the sequence so far.                    *)
InStep == proc = "alive" /\ ready => (~broken => Fits(Cache, fed)) /\ Noted

(* A reset has been noted: the next sequence starts from here.             *)
Begins ==
    /\ Cache = <<>> \/ (Recurrent /\ Cache = <<Old>>)
    /\ call.kind = "reset_slot" /\ (whole \/ fed # <<>>) => ~fuseReset /\ Cache = <<>>

(* The command of the call has not been taken, or died with the worker.    *)
NotTaken == \/ toW = <<call>> /\ wout = <<>> /\ fromW = <<>> /\ InStep
            \/ PipesEmpty /\ proc = "dead"

(* A reset has been noted, and its answer is on its way.                   *)
ResetAnswered ==
    /\ call.kind # "generate" /\ toW = <<>>
    /\ proc = "alive" => Begins
    /\ \/ wout = << <<Word(0), Word(0)>> >> /\ fromW = <<>>
       \/ wout = <<>> /\ fromW = <<Word(0), Word(0)>>

(* The decode step threw.                                                  *)
ErrorAnswered ==
    /\ call.kind = "generate" /\ toW = <<>> /\ ~fuseReset
    /\ \/ wout = ErrorAnswer /\ fromW = <<>>
       \/ wout = <<>> /\ fromW = <<Word(1), Word(0)>>

(* The token of this call, computed from the cache as it is now, which is  *)
(* the sequence and this call unless the sequence is broken.               *)
Decoded(n) ==
    /\ call.kind = "generate" /\ toW = <<>>
    /\ n \in {0, Big} /\ ~fuseReset /\ ~fuseResetSlot
    /\ ~broken => Fits(kv, Append(fed, call.id))

(* Its answer, in the worker and in the pipe, before the header is read.   *)
TokenAnswered(n) ==
    LET tok == Token(n, call.id, kv) IN
    /\ Decoded(n)
    /\ \/ wout = << <<Word(0), Word(1)>>, <<tok>> >> /\ fromW = <<>>
       \/ wout = << <<tok>> >> /\ fromW = <<Word(0), Word(1)>>
       \/ wout = <<>> /\ fromW = <<Word(0), Word(1), tok>>
       \/ wout = <<>> /\ fromW = <<Word(0), Word(1)>> /\ proc = "dead"

(* The same after the header was read.                                     *)
TokenLeft(n) ==
    LET tok == Token(n, call.id, kv) IN
    /\ Decoded(n) /\ dim = 1
    /\ \/ wout = << <<tok>> >> /\ fromW = <<>>
       \/ wout = <<>> /\ fromW = <<tok>>
       \/ wout = <<>> /\ fromW = <<>> /\ proc = "dead"

ResetLeft ==
    /\ call.kind # "generate" /\ PipesEmpty
    /\ proc = "alive" => Begins

(* One call, one answer: what the pipes may hold where the client is.      *)
Pipes ==
    ~late =>
      /\ pc \in {"idle", "ensure", "write"} => PipesEmpty /\ InStep
      /\ pc = "hdr"  => \/ NotTaken \/ ResetAnswered \/ ErrorAnswered
                        \/ \E n \in {0, Big} : TokenAnswered(n)
      /\ pc = "data" => ResetLeft \/ \E n \in {0, Big} : TokenLeft(n)

Own == Pipes /\ AnswerIsOwn /\ ContextComplete

(* The inductive invariant.                                                *)
IInv == Types /\ Spawned /\ Own

-----------------------------------------------------------------------------
(* An answer's words are words.                                            *)
LEMMA WordTypes ==
    ASSUME NEW n \in 0 .. Big, NEW i \in Nat, NEW c \in Seq(Marks)
    PROVE  Word(n) \in Words /\ Token(n, i, c) \in Words /\ NoToken \in Words
<1>1. 1 \in 0 .. Big /\ 0 \in Nat /\ <<>> \in Seq(Marks)
  BY DEF Big
<1> QED
  BY <1>1 DEF Word, Token, NoToken, Words

(* Reading n words of the pipe leaves words in it.                         *)
LEMMA DropType ==
    ASSUME fromW \in Seq(Words), NEW n \in Nat, n <= Len(fromW)
    PROVE  Drop(n) \in Seq(Words)
  BY SMT DEF Drop

(* Finish keeps the types of what the client remembers of its sequence.    *)
LEMMA FinishTypes ==
    ASSUME Types, NEW tok \in Words, NEW lost \in BOOLEAN, Finish(tok, lost)
    PROVE  /\ pc' = "idle" /\ ret' \in Words /\ fed' \in Seq(Ids)
           /\ broken' \in BOOLEAN /\ whole' \in BOOLEAN
<1>1. call.id \in Ids
  BY DEF Types, Commands
<1>2. fed' \in Seq(Ids)
  BY <1>1 DEF Finish, Types
<1> QED
  BY <1>2 DEF Finish, Types

(* The cache a decode step starts from is a cache.                         *)
LEMMA CacheType ==
    ASSUME Types
    PROVE  /\ Cache \in Seq(Marks) /\ Len(Cache) \in Nat
           /\ Marked(Cache) \in Seq(Marks) /\ Len(Marked(Cache)) \in Nat
           /\ Len(Marked(Cache)) <= Len(Cache) + 1
<1>1. AfterOp31 \in Seq(Marks)
  <2>1. <<>> \in Seq(Marks)
    OBVIOUS
  <2>2. Old \in Marks
    BY DEF Marks
  <2>3. <<Old>> \in Seq(Marks)
    BY <2>2
  <2> QED BY <2>1, <2>3 DEF AfterOp31
<1>2. Cache \in Seq(Marks)
  BY <1>1 DEF Types, Cache
<1> HIDE DEF Cache, AfterOp31
<1>3. /\ <<Old>> \o Cache \in Seq(Marks)
      /\ Len(<<Old>> \o Cache) = Len(Cache) + 1
  BY <1>2 DEF Marks
<1> QED BY <1>2, <1>3 DEF Marked

(* NpuWorker's variables keep their types in every step.                   *)
LEMMA TypesStep ==
    ASSUME Types, [Next]_vars
    PROVE  Types'
<1> USE NpuAssumption
<1>0. NoToken \in Words /\ Word(0) \in Words /\ Word(1) \in Words
  <2>1. 0 \in 0 .. Big /\ 1 \in 0 .. Big /\ 0 \in Nat /\ <<>> \in Seq(Marks)
    BY DEF Big
  <2> QED BY <2>1, WordTypes
<1>e. /\ <<>> \in Seq(Commands) /\ <<>> \in Seq(Words) /\ <<>> \in Seq(Seq(Words))
      /\ <<>> \in Seq(Ids) /\ <<>> \in Seq(Marks)
  OBVIOUS
<1>1. ASSUME NEW k \in Kinds, Call(k) PROVE Types'
  <2>1. call'.id \in Ids /\ call' \in Commands
    BY <1>1 DEF Call, Types, Commands, Ids
  <2> QED
    BY <1>1, <2>1, <1>e DEF Call, Types, worker, Kinds
<1>2. CASE EnsureReady
  BY <1>2 DEF EnsureReady, Types, worker, seq
<1>3. CASE Respawn
  BY <1>3, <1>e DEF Respawn, FreshWorker, Types, seq
<1>4. CASE RespawnFails
  BY <1>4, <1>0, FinishTypes DEF RespawnFails, Return, Types, worker
<1>5. CASE Write
  <2>1. CASE proc = "alive" /\ toW' = Append(toW, call) /\ pc' = "hdr" /\ UNCHANGED seq
    BY <1>5, <2>1 DEF Write, Types, worker, seq
  <2>2. CASE Return(NoToken) /\ UNCHANGED toW
    BY <1>5, <2>2, <1>0, FinishTypes DEF Write, Return, Types, worker
  <2> QED BY <1>5, <2>1, <2>2 DEF Write
<1>6. CASE ReadHeader
  <2>1. fromW' \in Seq(Words)
    BY <1>6, DropType DEF ReadHeader, Types
  <2>2. CASE pc' = "data" /\ dim' = fromW[2].v /\ UNCHANGED seq /\ fromW[2].v < Big
    <3>1. fromW[2] \in Words
      BY <1>6 DEF ReadHeader, Types
    <3>2. dim' \in 0 .. 1
      BY <2>2, <3>1 DEF Words, Big
    <3> QED
      BY <1>6, <2>1, <2>2, <3>2 DEF ReadHeader, Types, worker, seq
  <2>3. CASE Return(NoToken) /\ UNCHANGED dim
    BY <1>6, <2>1, <2>3, <1>0, FinishTypes DEF ReadHeader, Return, Types, worker
  <2> QED BY <1>6, <2>2, <2>3 DEF ReadHeader
<1>7. CASE ReadData
  <2> DEFINE tok == IF call.kind = "generate" THEN Result ELSE NoToken
  <2>1. Needed \in Nat /\ Needed <= Len(fromW)
    BY <1>7 DEF ReadData, Needed, Types
  <2>2. Result \in Words
    <3>1. CASE Needed = 0
      <4>1. 0 \in 0 .. Big /\ 0 \in Nat /\ <<>> \in Seq(Marks)
        BY DEF Big
      <4> QED BY <3>1, <4>1, WordTypes DEF Result
    <3>2. CASE Needed # 0
      BY <2>1, <3>2 DEF Result, Types
    <3> QED BY <3>1, <3>2
  <2>3. tok \in Words
    BY <2>2, <1>0
  <2>4. CASE fromW' = Drop(Needed) /\ Return(tok) /\ UNCHANGED <<ready, proc, toW, worker, late>>
    <3>1. fromW' \in Seq(Words)
      BY <2>1, <2>4, DropType DEF Types
    <3>2. /\ pc' = "idle" /\ ret' \in Words /\ fed' \in Seq(Ids) /\ broken' \in BOOLEAN
          /\ whole' \in BOOLEAN
      BY <2>3, <2>4, FinishTypes DEF Return
    <3> HIDE DEF tok
    <3> QED
      BY <1>7, <2>4, <3>1, <3>2 DEF ReadData, Types, worker
  <2>5. CASE Shutdown /\ Finish(tok, TRUE)
    <3>2. /\ pc' = "idle" /\ ret' \in Words /\ fed' \in Seq(Ids) /\ broken' \in BOOLEAN
          /\ whole' \in BOOLEAN
      BY <2>3, <2>5, FinishTypes
    <3> HIDE DEF tok
    <3> QED
      BY <1>7, <2>5, <3>2, <1>e DEF ReadData, Shutdown, Types
  <2> QED BY <1>7, <2>4, <2>5 DEF ReadData
<1>8. CASE TimeOut
  BY <1>8, <1>0, <1>e, FinishTypes DEF TimeOut, Return, Types, worker
<1>9. CASE EndOfFile
  BY <1>9, <1>0, <1>e, FinishTypes DEF EndOfFile, Return, Types, worker
<1>10. CASE Reinit
  <2>1. /\ toW' = <<>> /\ fromW' = <<>> /\ wout' = <<>> /\ kv' = <<>> /\ fed' = <<>>
        /\ ready' = FALSE /\ fuseReset' = FALSE /\ fuseResetSlot' = FALSE /\ broken' = FALSE /\ whole' = TRUE
        /\ proc' = "none" /\ UNCHANGED <<pc, call, dim, ret, late, crashes>>
    BY <1>10 DEF Reinit, Shutdown
  <2> QED BY <2>1, <1>e DEF Types
<1>11. CASE WorkerStep
  <2>1. toW' \in Seq(Commands) /\ Head(toW) \in Commands
    BY <1>11 DEF WorkerStep, Types
  <2>2. Head(toW).id \in Ids /\ Head(toW).id \in Nat
    BY <2>1 DEF Commands, Ids
  <2>3. Append(Cache, Head(toW).id) \in Seq(Marks)
    BY <2>2, CacheType DEF Marks
  <2>4. wout' \in Seq(Seq(Words)) /\ kv' \in Seq(Marks)
        /\ fuseReset' \in BOOLEAN /\ fuseResetSlot' \in BOOLEAN
    <3>1. CASE Decode(Head(toW))
      <4>1. ASSUME NEW n \in {0, Big}
            PROVE  Token(n, Head(toW).id, Append(Cache, Head(toW).id)) \in Words
        <5>1. n \in 0 .. Big BY DEF Big
        <5> QED BY <5>1, <2>2, <2>3, WordTypes
      <4>2. ASSUME NEW n \in {0, Big},
                   wout' = << <<Word(0), Word(1)>>,
                              <<Token(n, Head(toW).id, Append(Cache, Head(toW).id))>> >>
            PROVE  wout' \in Seq(Seq(Words))
        BY <4>1, <4>2, <1>0
      <4>3. ASSUME wout' = ErrorAnswer PROVE wout' \in Seq(Seq(Words))
        BY <4>3, <1>0 DEF ErrorAnswer
      <4> QED BY <3>1, <4>2, <4>3, <2>3, CacheType DEF Decode
    <3>2. CASE wout' = << <<Word(0), Word(0)>> >> /\ UNCHANGED kv
               /\ fuseReset' \in BOOLEAN /\ fuseResetSlot' \in BOOLEAN
      BY <3>2, <1>0 DEF Types
    <3> QED BY <1>11, <3>1, <3>2 DEF WorkerStep, Types
  <2> QED BY <1>11, <2>1, <2>4 DEF WorkerStep, Types, client, seq
<1>12. CASE WorkerWrite
  <2>1. Head(wout) \in Seq(Words) /\ Tail(wout) \in Seq(Seq(Words))
    BY <1>12 DEF WorkerWrite, Types
  <2> QED BY <1>12, <2>1 DEF WorkerWrite, Types, client, seq
<1>13. CASE Crash
  BY <1>13 DEF Crash, Types, client, seq
<1>14. CASE UNCHANGED vars
  BY <1>14 DEF vars, Types
<1> QED
  BY <1>1, <1>2, <1>3, <1>4, <1>5, <1>6, <1>7, <1>8, <1>9, <1>10, <1>11, <1>12, <1>13, <1>14
  DEF Next, ClientStep

(* What the end of a call does to the sequence.                            *)
LEMMA FinishEffect ==
    ASSUME NEW tok, NEW lost, Finish(tok, lost)
    PROVE  /\ pc' = "idle" /\ ret' = tok
           /\ call.kind # "generate" => fed' = <<>> /\ broken' = FALSE
           /\ call.kind = "generate" /\ tok.v = 1 => fed' = fed /\ broken' = TRUE
           /\ call.kind = "generate" /\ tok.v # 1 => fed' = Append(fed, call.id)
           /\ call.kind = "generate" /\ lost => broken' = TRUE
           /\ call.kind = "generate" /\ tok.v # 1 /\ ~lost => (broken' <=> broken)
           /\ call.kind = "generate" => (whole' <=> whole)
           /\ call.kind = "reset" => ~whole'
           /\ call.kind = "reset_slot" => (whole' <=> whole \/ fed # <<>>)
<1>1. ASSUME call.kind # "generate" PROVE fed' = <<>> /\ broken' = FALSE
  <2>1. broken' = FALSE
    BY <1>1 DEF Finish
  <2>2. fed' = <<>>
    BY <1>1, Zenon DEF Finish
  <2> QED BY <2>1, <2>2
<1>2. ASSUME call.kind = "generate", tok.v = 1 PROVE fed' = fed /\ broken' = TRUE
  BY <1>2, Zenon DEF Finish
<1>3. ASSUME call.kind = "generate", tok.v # 1 PROVE fed' = Append(fed, call.id)
  BY <1>3, Zenon DEF Finish
<1>4. ASSUME call.kind = "generate", lost PROVE broken' = TRUE
  BY <1>4, Zenon DEF Finish
<1>5. ASSUME call.kind = "generate", tok.v # 1, ~lost PROVE broken' <=> broken
  BY <1>5, Zenon DEF Finish
<1>6. /\ call.kind = "generate" => (whole' <=> whole)
      /\ call.kind = "reset" => ~whole'
      /\ call.kind = "reset_slot" => (whole' <=> whole \/ fed # <<>>)
  BY DEF Finish
<1> QED BY <1>1, <1>2, <1>3, <1>4, <1>5, <1>6 DEF Finish

(* A call that ends keeps the sequence within MaxCtx.                      *)
LEMMA FinishBounded ==
    ASSUME Types, Bounded, pc # "idle", NEW tok, NEW lost, Finish(tok, lost)
    PROVE  pc' = "idle" /\ Len(fed') <= MaxCtx
<1>1. CASE call.kind # "generate"
  <2>1. fed' = <<>> /\ pc' = "idle"
    BY <1>1, FinishEffect
  <2> QED BY <2>1, NpuAssumption
<1>2. CASE call.kind = "generate"
  <2>1. Len(fed) < MaxCtx /\ fed \in Seq(Ids) /\ call.id \in Ids
    BY <1>2 DEF Bounded, Types, Commands
  <2>2. Len(Append(fed, call.id)) <= MaxCtx
    BY <2>1, NpuAssumption
  <2>3. pc' = "idle" /\ (fed' = fed \/ fed' = Append(fed, call.id))
    BY <1>2, FinishEffect
  <2> QED BY <2>1, <2>2, <2>3, NpuAssumption
<1> QED BY <1>1, <1>2

(* No call feeds the worker more than MaxCtx tokens, even when answers are *)
(* late and several commands wait in the pipe.                             *)
LEMMA BoundedStep ==
    ASSUME Types, Bounded, [Next]_vars
    PROVE  Bounded'
<1> USE NpuAssumption
<1>0. Cache \in Seq(Marks) /\ Len(Cache) \in Nat /\ Len(toW) \in Nat /\ Len(fed) \in Nat
  BY CacheType DEF Types
<1>a. ASSUME UNCHANGED worker PROVE Cache' = Cache
  BY <1>a DEF worker, Cache, AfterOp31
<1>b. ASSUME toW' = <<>>, pc' = "idle", Len(kv') <= MaxCtx, Len(fed') <= MaxCtx
      PROVE  Bounded'
  BY <1>b DEF Bounded
<1>c. ASSUME UNCHANGED <<toW, worker>>, pc' = "idle", Len(fed') <= MaxCtx
      PROVE  Bounded'
  BY <1>c, <1>a DEF Bounded, worker
<1>1. ASSUME NEW k \in Kinds, Call(k) PROVE Bounded'
  <2>1. /\ Cache' = Cache /\ UNCHANGED <<toW, kv>> /\ call'.kind = k
        /\ k = "generate" => Len(Cache) + Len(toW) < MaxCtx /\ Len(fed) < MaxCtx
        /\ fed' = fed \/ fed' = <<>>
        /\ k = "generate" => fed' = fed
    BY <1>1, <1>a DEF Call, worker
  <2> QED BY <1>0, <2>1 DEF Bounded
<1>2. CASE EnsureReady
  BY <1>2, <1>a DEF EnsureReady, Bounded, worker, seq
<1>3. CASE Respawn
  <2>1. Cache' = <<>> /\ toW' = <<>> /\ kv' = <<>> /\ UNCHANGED <<fed, call>>
        /\ pc = "ensure" /\ pc' = "write"
    BY <1>3 DEF Respawn, FreshWorker, seq, Cache
  <2> QED BY <2>1, <1>0 DEF Bounded
<1>4. CASE RespawnFails
  BY <1>4, <1>c, FinishBounded DEF RespawnFails, Return
<1>5. CASE Write
  <2>1. CASE proc = "alive" /\ toW' = Append(toW, call) /\ pc' = "hdr" /\ UNCHANGED seq
    <3>1. pc = "write" /\ UNCHANGED <<call, worker>> /\ Cache' = Cache
      BY <1>5, <1>a DEF Write
    <3>2. ASSUME NEW j \in 1 .. Len(toW'), toW'[j].kind = "generate"
          PROVE  Len(Cache) + j <= MaxCtx
      <4>1. CASE j = Len(toW) + 1
        <5>1. toW'[j] = call
          BY <2>1, <4>1 DEF Types
        <5> QED BY <5>1, <3>1, <3>2, <4>1, <1>0 DEF Bounded
      <4>2. CASE j # Len(toW) + 1
        <5>1. j \in 1 .. Len(toW) /\ toW'[j] = toW[j]
          BY <2>1, <4>2 DEF Types
        <5> QED BY <5>1, <3>2 DEF Bounded
      <4> QED BY <4>1, <4>2
    <3> QED BY <2>1, <3>1, <3>2 DEF Bounded, seq, worker
  <2>2. CASE Return(NoToken) /\ UNCHANGED toW
    BY <1>5, <2>2, <1>c, FinishBounded DEF Write, Return
  <2> QED BY <1>5, <2>1, <2>2 DEF Write
<1>6. CASE ReadHeader
  <2>1. CASE pc' = "data" /\ UNCHANGED seq
    BY <1>6, <2>1, <1>a DEF ReadHeader, Bounded, worker, seq
  <2>2. CASE Return(NoToken)
    BY <1>6, <2>2, <1>c, FinishBounded DEF ReadHeader, Return
  <2> QED BY <1>6, <2>1, <2>2 DEF ReadHeader
<1>7. CASE ReadData
  <2> DEFINE tok == IF call.kind = "generate" THEN Result ELSE NoToken
  <2>1. CASE Return(tok) /\ UNCHANGED <<toW, worker>>
    BY <1>7, <2>1, <1>c, FinishBounded DEF ReadData, Return
  <2>2. CASE Shutdown /\ Finish(tok, TRUE)
    <3>1. Len(kv') <= MaxCtx /\ toW' = <<>>
      BY <2>2 DEF Shutdown
    <3> QED BY <1>7, <2>2, <3>1, <1>b, FinishBounded DEF ReadData
  <2> QED BY <1>7, <2>1, <2>2 DEF ReadData
<1>8. CASE TimeOut
  BY <1>8, <1>c, FinishBounded DEF TimeOut, Return
<1>9. CASE EndOfFile
  BY <1>9, <1>c, FinishBounded DEF EndOfFile, Return
<1>10. CASE Reinit
  <2>1. toW' = <<>> /\ pc' = "idle" /\ kv' = <<>> /\ fed' = <<>>
    BY <1>10 DEF Reinit, Shutdown
  <2> QED BY <2>1, <1>b
<1>11. CASE WorkerStep
  <2>1. toW # <<>> /\ toW' = Tail(toW) /\ UNCHANGED <<pc, call, fed>>
    BY <1>11 DEF WorkerStep, client, seq
  <2>2. /\ Len(toW) >= 1 /\ Len(toW') = Len(toW) - 1 /\ Head(toW) = toW[1]
        /\ \A j \in 1 .. Len(toW') : toW'[j] = toW[j + 1] /\ j + 1 \in 1 .. Len(toW)
    BY <2>1 DEF Types
  <2>3. Len(kv') <= MaxCtx /\ Len(Cache') <= Len(Cache) + 1 /\ Len(Cache') \in Nat
    <3>1. CASE Head(toW).kind = "generate" /\ Decode(Head(toW))
      <4>1. Len(Cache) + 1 <= MaxCtx
        BY <3>1, <2>2, <1>0 DEF Bounded
      <4>2. /\ Cache' = kv'
            /\ kv' = Cache \/ kv' = Marked(Cache) \/ kv' = Append(Cache, Head(toW).id)
        BY <3>1 DEF Decode, Cache
      <4> HIDE DEF Cache, AfterOp31
      <4>3. Len(Append(Cache, Head(toW).id)) = Len(Cache) + 1
        BY <1>0
      <4> QED BY <4>1, <4>2, <4>3, <1>0, CacheType
    <3>2. CASE UNCHANGED kv /\ (fuseReset' = TRUE \/ fuseResetSlot' = TRUE)
      <4>1. Cache' = <<>> \/ Cache' = <<Old>>
        BY <3>2 DEF Cache, AfterOp31
      <4>2. Len(<<>>) = 0 /\ Len(<<Old>>) = 1
        OBVIOUS
      <4>3. Len(Cache') = 0 \/ Len(Cache') = 1
        BY <4>1, <4>2
      <4>4. Len(kv') <= MaxCtx
        BY <3>2 DEF Bounded
      <4> DEFINE m == Len(Cache')
                 n == Len(Cache)
      <4>5. n \in Nat /\ (m = 0 \/ m = 1)
        BY <4>3, <1>0
      <4> HIDE DEF m, n
      <4>6. m <= n + 1 /\ m \in Nat
        BY <4>5
      <4> QED BY <4>4, <4>6 DEF m, n
    <3> QED BY <1>11, <3>1, <3>2 DEF WorkerStep
  <2>4. \A j \in 1 .. Len(toW') : toW'[j].kind = "generate" => Len(Cache') + j <= MaxCtx
    <3> SUFFICES ASSUME NEW j \in 1 .. Len(toW'), toW'[j].kind = "generate"
                 PROVE  Len(Cache') + j <= MaxCtx
      OBVIOUS
    <3>1. Len(Cache) + (j + 1) <= MaxCtx
      BY <2>2 DEF Bounded
    <3> QED BY <3>1, <2>3, <1>0
  <2>5. pc \in {"ensure", "write"} /\ call.kind = "generate"
          => Len(Cache') + Len(toW') < MaxCtx
    BY <2>2, <2>3, <1>0 DEF Bounded
  <2> QED BY <2>1, <2>3, <2>4, <2>5 DEF Bounded
<1>12. CASE WorkerWrite
  <2>1. Cache' = Cache /\ UNCHANGED <<kv, fed, toW, pc, call>>
    BY <1>12 DEF WorkerWrite, client, seq, Cache, AfterOp31
  <2> QED BY <2>1 DEF Bounded
<1>13. CASE Crash
  <2>1. Cache' = Cache /\ UNCHANGED <<kv, fed, pc, call>> /\ toW' = <<>>
    BY <1>13 DEF Crash, client, seq, Cache, AfterOp31
  <2> QED BY <2>1, <1>0 DEF Bounded
<1>14. CASE UNCHANGED vars
  <2>1. Cache' = Cache
    BY <1>14 DEF vars, Cache, AfterOp31
  <2> QED BY <2>1, <1>14 DEF vars, Bounded
<1> QED
  BY <1>1, <1>2, <1>3, <1>4, <1>5, <1>6, <1>7, <1>8, <1>9, <1>10, <1>11, <1>12, <1>13, <1>14
  DEF Next, ClientStep

-----------------------------------------------------------------------------
(* A header followed by its data word.                                     *)
LEMMA HeaderAndData ==
    ASSUME NEW a, NEW b, NEW c
    PROVE  <<a, b>> \o <<c>> = <<a, b, c>>
  <1> DEFINE l == <<a, b>> \o <<c>>
             r == <<a, b, c>>
  <1>1. l \in Seq({a, b, c}) /\ r \in Seq({a, b, c}) /\ Len(l) = 3 /\ Len(r) = 3
    OBVIOUS
  <1>2. l[1] = a /\ l[2] = b /\ l[3] = c /\ r[1] = a /\ r[2] = b /\ r[3] = c
    OBVIOUS
  <1>3. \A i \in 1 .. 3 : l[i] = r[i]
    BY <1>2
  <1> HIDE DEF l, r
  <1>4. l = r
    BY <1>1, <1>3, SeqEqual
  <1> QED BY <1>4 DEF l, r

(* What is left of an answer once its header is read.                      *)
LEMMA AfterHeader ==
    ASSUME NEW a, NEW b, NEW c
    PROVE  SubSeq(<<a, b, c>>, 3, 3) = <<c>>
  <1> DEFINE l == SubSeq(<<a, b, c>>, 3, 3)
             r == <<c>>
  <1>1. l \in Seq({a, b, c}) /\ r \in Seq({a, b, c}) /\ Len(l) = 1 /\ Len(r) = 1
    OBVIOUS
  <1>2. l[1] = c /\ r[1] = c
    OBVIOUS
  <1>3. \A i \in 1 .. 1 : l[i] = r[i]
    BY <1>2
  <1> HIDE DEF l, r
  <1>4. l = r
    BY <1>1, <1>3, SeqEqual
  <1> QED BY <1>4 DEF l, r

(* The short sequences of an answer: writing its chunks and reading it.    *)
LEMMA ShortSequences ==
    ASSUME NEW a, NEW b, NEW c
    PROVE  /\ <<>> \o <<a>> = <<a>> /\ <<>> \o <<a, b>> = <<a, b>>
           /\ Head(<<a>>) = a /\ Tail(<<a>>) = <<>>
           /\ Head(<<a, b>>) = a /\ Tail(<<a, b>>) = <<b>>
           /\ SubSeq(<<a, b>>, 3, 2) = <<>>
           /\ SubSeq(<<a>>, 2, 1) = <<>> /\ SubSeq(<<>>, 1, 0) = <<>>
           /\ Append(<<>>, a) = <<a>>
           /\ Len(<<>>) = 0 /\ Len(<<a>>) = 1 /\ Len(<<a, b>>) = 2 /\ Len(<<a, b, c>>) = 3
           /\ <<a>> # <<>> /\ <<a, b>> # <<>>
<1>1. <<>> \o <<a>> = <<a>> /\ <<>> \o <<a, b>> = <<a, b>>
  OBVIOUS
<1>3. /\ Head(<<a>>) = a /\ Tail(<<a>>) = <<>>
      /\ Head(<<a, b>>) = a /\ Tail(<<a, b>>) = <<b>>
  OBVIOUS
<1>4. SubSeq(<<a, b>>, 3, 2) = <<>> /\ SubSeq(<<a>>, 2, 1) = <<>> /\ SubSeq(<<>>, 1, 0) = <<>>
  OBVIOUS
<1>6. Append(<<>>, a) = <<a>>
  OBVIOUS
<1>7. /\ Len(<<>>) = 0 /\ Len(<<a>>) = 1 /\ Len(<<a, b>>) = 2 /\ Len(<<a, b, c>>) = 3
      /\ <<a>> # <<>> /\ <<a, b>> # <<>>
  OBVIOUS
<1> QED BY <1>1, <1>3, <1>4, <1>6, <1>7

(* One more token of the sequence.                                         *)
LEMMA FitsAppend ==
    ASSUME NEW c \in Seq(Marks), NEW f \in Seq(Ids), NEW i \in Ids, Fits(c, f)
    PROVE  Fits(Append(c, i), Append(f, i))
<1>1. Append(<<Old>> \o f, i) = <<Old>> \o Append(f, i)
  <2>1. f \in Seq(Marks) /\ i \in Marks /\ <<Old>> \in Seq(Marks)
    BY DEF Marks
  <2>2. Append(<<Old>> \o f, i) = (<<Old>> \o f) \o <<i>> /\ Append(f, i) = f \o <<i>>
    BY <2>1, AppendIsConcat
  <2>3. <<i>> \in Seq(Marks)
    BY <2>1
  <2>4. (<<Old>> \o f) \o <<i>> = <<Old>> \o (f \o <<i>>)
    BY <2>1, <2>3, ConcatAssociative
  <2> QED BY <2>2, <2>4
<1> QED BY <1>1 DEF Fits

(* A call that failed returns no token, and breaks the sequence or starts  *)
(* a new one.                                                              *)
LEMMA FailedCall ==
    ASSUME Return(NoToken)
    PROVE  /\ pc' = "idle" /\ AnswerIsOwn' /\ (UNCHANGED call => ContextComplete')
           /\ call.kind = "generate" => broken' = TRUE
           /\ call.kind # "generate" => fed' = <<>>
<1>1. /\ pc' = "idle" /\ ret' = NoToken /\ NoToken.v = 1
      /\ call.kind = "generate" => broken' = TRUE
      /\ call.kind # "generate" => fed' = <<>>
  <2>1. NoToken.v = 1
    BY DEF NoToken
  <2>2. Finish(NoToken, FALSE)
    BY Zenon DEF Return
  <2> QED BY <2>1, <2>2, FinishEffect
<1> QED BY <1>1 DEF AnswerIsOwn, ContextComplete, Returned

(* The worker is there exactly when `ready` says so.                       *)
LEMMA SpawnedStep ==
    ASSUME Types, Spawned, [Next]_vars
    PROVE  Spawned'
<1>1. ASSUME NEW k \in Kinds, Call(k) PROVE Spawned'
  BY <1>1 DEF Call, Spawned, Types, worker
<1>2. CASE EnsureReady
  BY <1>2 DEF EnsureReady, Spawned, seq, worker
<1>3. CASE Respawn
  BY <1>3 DEF Respawn, FreshWorker, Spawned, seq
<1>4. CASE RespawnFails
  <2>1. pc' = "idle" /\ (broken' = TRUE \/ fed' = <<>>)
        /\ UNCHANGED <<ready, proc, toW, wout>>
    BY <1>4, FailedCall DEF RespawnFails, worker
  <2> QED BY <2>1 DEF Spawned, Types
<1>5. CASE Write
  BY <1>5, FailedCall DEF Write, Spawned, seq, Types, worker
<1>6. CASE ReadHeader
  BY <1>6, FailedCall DEF ReadHeader, Spawned, seq, Types, worker
<1>7. CASE ReadData
  <2> DEFINE tok == IF call.kind = "generate" THEN Result ELSE NoToken
  <2>1. CASE Return(tok) /\ UNCHANGED <<ready, proc, toW, wout>>
    <3>1. pc' = "idle"
      BY <2>1, FinishEffect DEF Return
    <3> QED BY <1>7, <2>1, <3>1 DEF ReadData, Spawned
  <2>2. CASE call.kind = "generate" /\ Shutdown /\ Finish(tok, TRUE)
    <3>1. pc' = "idle" /\ broken' = TRUE
      BY <2>2, FinishEffect
    <3> QED BY <2>2, <3>1 DEF Shutdown, Spawned
  <2> QED BY <1>7, <2>1, <2>2 DEF ReadData, worker
<1>8. CASE TimeOut
  BY <1>8, FailedCall DEF TimeOut, Spawned, Types, worker
<1>9. CASE EndOfFile
  BY <1>9, FailedCall DEF EndOfFile, Spawned, Types, worker
<1>10. CASE Reinit
  BY <1>10 DEF Reinit, Shutdown, Spawned
<1>11. CASE WorkerStep
  BY <1>11 DEF WorkerStep, Spawned, client, seq
<1>12. CASE WorkerWrite
  BY <1>12 DEF WorkerWrite, Spawned, client, seq
<1>13. CASE Crash
  BY <1>13 DEF Crash, Spawned, client, seq
<1>14. CASE UNCHANGED vars
  BY <1>14 DEF vars, Spawned
<1> QED
  BY <1>1, <1>2, <1>3, <1>4, <1>5, <1>6, <1>7, <1>8, <1>9, <1>10, <1>11, <1>12, <1>13, <1>14
  DEF Next, ClientStep

(* The steps of the client before it reads.                                *)
LEMMA StartOwn ==
    ASSUME Types, Spawned, Spawned', Own,
           (\E k \in Kinds : Call(k)) \/ EnsureReady \/ Respawn \/ RespawnFails \/ Write \/ Reinit
    PROVE  Own'
<1>1. ASSUME NEW k \in Kinds, Call(k) PROVE Own'
  <2>1. /\ pc = "idle" /\ pc' \in {"idle", "ensure", "write"}
        /\ pc' = "idle" => call'.kind = "reset" /\ fed' = <<>> /\ ~ready'
        /\ UNCHANGED <<ready, proc, toW, fromW, wout, kv, fuseReset, fuseResetSlot, late>>
        /\ pc' # "idle" => UNCHANGED <<fed, broken, whole>>
    BY <1>1 DEF Call, worker, Kinds
  <2>2. UNCHANGED Cache
    BY <2>1 DEF Cache, AfterOp31
  <2>3. AnswerIsOwn' /\ ContextComplete'
    BY <2>1 DEF AnswerIsOwn, ContextComplete, Returned
  <2>4. PipesEmpty /\ InStep => (PipesEmpty /\ InStep)'
    BY <2>1, <2>2 DEF PipesEmpty, InStep, Fits, Noted
  <2> QED BY <2>1, <2>3, <2>4 DEF Own, Pipes
<1>2. CASE EnsureReady
  <2>1. /\ UNCHANGED <<Cache, ready, proc, toW, fromW, wout, fuseReset, fed, broken, whole, late>>
        /\ pc = "ensure" /\ pc' = "write"
    BY <1>2 DEF EnsureReady, Cache, AfterOp31, worker, seq
  <2>2. AnswerIsOwn' /\ ContextComplete'
    BY <2>1 DEF AnswerIsOwn, ContextComplete, Returned
  <2>3. PipesEmpty /\ InStep => (PipesEmpty /\ InStep)'
    BY <2>1 DEF PipesEmpty, InStep, Fits, Noted
  <2> QED BY <2>1, <2>2, <2>3 DEF Own, Pipes
<1>3. CASE Respawn
  <2>1. /\ Cache' = <<>> /\ pc' = "write" /\ ~ready /\ ~fuseReset'
        /\ UNCHANGED <<fed, broken>> /\ PipesEmpty'
    BY <1>3 DEF Respawn, FreshWorker, Cache, seq, PipesEmpty
  <2>2. InStep'
    BY <2>1 DEF InStep, Fits, Noted, Spawned
  <2> QED BY <2>1, <2>2 DEF Own, Pipes, AnswerIsOwn, ContextComplete, Returned
<1>4. CASE RespawnFails
  <2>1. /\ pc = "ensure" /\ pc' = "idle" /\ ~ready' /\ AnswerIsOwn' /\ ContextComplete'
        /\ UNCHANGED <<toW, wout, fromW, late>>
    BY <1>4, FailedCall DEF RespawnFails, worker
  <2> QED BY <2>1 DEF Own, Pipes, PipesEmpty, InStep
<1>5. CASE Write
  <2>1. CASE proc = "alive" /\ toW' = Append(toW, call) /\ pc' = "hdr" /\ UNCHANGED seq
    <3>1. /\ pc = "write" /\ UNCHANGED <<call, ready, proc, fromW, wout, late, Cache>>
          /\ UNCHANGED <<fuseReset, fed, broken, whole>>
      BY <1>5, <2>1 DEF Write, worker, Cache, AfterOp31, seq
    <3>2. ASSUME ~late PROVE NotTaken'
      <4>1. PipesEmpty /\ InStep
        BY <3>1, <3>2 DEF Own, Pipes
      <4>2. toW' = <<call>>
        BY <2>1, <4>1, ShortSequences DEF PipesEmpty
      <4>3. InStep'
        BY <4>1, <3>1 DEF InStep, Fits, Noted
      <4> QED BY <4>1, <4>2, <4>3, <3>1 DEF NotTaken, PipesEmpty
    <3> QED BY <2>1, <3>1, <3>2 DEF Own, Pipes, AnswerIsOwn, ContextComplete, Returned
  <2>2. CASE proc = "dead" /\ Return(NoToken) /\ UNCHANGED toW
    <3>1. /\ pc = "write" /\ pc' = "idle" /\ proc' = "dead" /\ AnswerIsOwn' /\ ContextComplete'
          /\ UNCHANGED <<toW, wout, fromW, late>>
      BY <1>5, <2>2, FailedCall DEF Write, worker
    <3> QED BY <3>1 DEF Own, Pipes, PipesEmpty, InStep
  <2> QED BY <1>5, <2>1, <2>2 DEF Write
<1>6. CASE Reinit
  <2>1. /\ pc = "idle" /\ PipesEmpty' /\ ~ready' /\ fed' = <<>> /\ UNCHANGED <<pc, call, ret, late>>
    BY <1>6 DEF Reinit, Shutdown, PipesEmpty
  <2> QED BY <2>1 DEF Own, Pipes, InStep, AnswerIsOwn, ContextComplete, Returned
<1> QED BY <1>1, <1>2, <1>3, <1>4, <1>5, <1>6

(* The words of an answer, by their values.                                *)
LEMMA WordValues ==
    ASSUME NEW n, NEW i, NEW c
    PROVE  Word(n).v = n /\ Token(n, i, c).v = n /\ Token(n, i, c).id = i
           /\ Token(n, i, c).ctx = c /\ NoToken.v = 1
  BY DEF Word, Token, NoToken

(* The header of the call's own answer is read.                            *)
LEMMA HeaderOwn ==
    ASSUME Types, Own, ReadHeader
    PROVE  Own'
<1>0. /\ pc = "hdr" /\ Len(fromW) >= 2 /\ fromW' = Drop(2)
      /\ UNCHANGED <<call, ready, proc, toW, wout, kv, fuseReset, fuseResetSlot, late, Cache>>
  BY DEF ReadHeader, worker, Cache, AfterOp31
<1>1. CASE late
  BY <1>0, <1>1, FailedCall
  DEF ReadHeader, Own, Pipes, AnswerIsOwn, ContextComplete, Returned, Types
<1>2. CASE ~late
  <2>1. CASE NotTaken
    BY <2>1, <1>0, ShortSequences DEF NotTaken, PipesEmpty
  <2>2. CASE ResetAnswered
    <3>1. wout = <<>> /\ fromW = <<Word(0), Word(0)>>
      BY <2>2, <1>0, ShortSequences DEF ResetAnswered
    <3>2. fromW' = <<>> /\ fromW[1].v = 0 /\ fromW[2].v < Big
      BY <3>1, <1>0, ShortSequences, WordValues DEF Drop, Big
    <3>3. pc' = "data" /\ UNCHANGED <<fed, whole>>
      BY <3>2 DEF ReadHeader, seq
    <3>5. Begins => Begins'
      BY <3>3, <1>0 DEF Begins
    <3>4. ResetLeft'
      BY <2>2, <3>1, <3>2, <3>3, <3>5, <1>0 DEF ResetLeft, ResetAnswered, PipesEmpty
    <3> QED BY <3>3, <3>4 DEF Own, Pipes, AnswerIsOwn, ContextComplete, Returned
  <2>3. CASE ErrorAnswered
    <3>1. /\ wout = <<>> /\ fromW = <<Word(1), Word(0)>> /\ toW = <<>>
          /\ call.kind = "generate" /\ ~fuseReset
      BY <2>3, <1>0, ShortSequences DEF ErrorAnswered
    <3>2. fromW' = <<>> /\ fromW[1].v = 1
      BY <3>1, <1>0, ShortSequences, WordValues DEF Drop
    <3>3. Return(NoToken)
      BY <3>2 DEF ReadHeader
    <3>4. pc' = "idle" /\ AnswerIsOwn' /\ ContextComplete' /\ broken' = TRUE
      BY <3>1, <3>3, <1>0, FailedCall
    <3>5. InStep'
      BY <3>1, <3>4, <1>0 DEF InStep, Noted
    <3> QED BY <3>1, <3>2, <3>4, <3>5, <1>0 DEF Own, Pipes, PipesEmpty
  <2>4. ASSUME NEW n \in {0, Big}, TokenAnswered(n)
        PROVE  Own'
    <3> DEFINE tok == Token(n, call.id, kv)
    <3>0. Decoded(n)
      BY <2>4 DEF TokenAnswered
    <3>1. \/ wout = << <<tok>> >> /\ fromW = <<Word(0), Word(1)>>
          \/ wout = <<>> /\ fromW = <<Word(0), Word(1), tok>>
          \/ wout = <<>> /\ fromW = <<Word(0), Word(1)>> /\ proc = "dead"
      BY <2>4, <1>0, ShortSequences DEF TokenAnswered
    <3>2. fromW[1].v = 0 /\ fromW[2].v = 1
      BY <3>1, WordValues
    <3>3. pc' = "data" /\ dim' = 1 /\ UNCHANGED <<fed, broken, whole>>
      BY <3>2 DEF ReadHeader, Big, seq
    <3>4. \/ wout = << <<tok>> >> /\ fromW' = <<>>
          \/ wout = <<>> /\ fromW' = <<tok>>
          \/ wout = <<>> /\ fromW' = <<>> /\ proc = "dead"
      <4> HIDE DEF tok
      <4>1. CASE fromW = <<Word(0), Word(1)>>
        BY <4>1, <3>1, <1>0, ShortSequences DEF Drop
      <4>2. CASE fromW = <<Word(0), Word(1), tok>>
        <5>1. fromW' = <<tok>>
          <6>1. Len(fromW) = 3 /\ 2 + 1 = 3
            BY <4>2, ShortSequences
          <6>2. fromW' = SubSeq(<<Word(0), Word(1), tok>>, 3, 3)
            BY <4>2, <6>1, <1>0 DEF Drop
          <6>3. SubSeq(<<Word(0), Word(1), tok>>, 3, 3) = <<tok>>
            BY AfterHeader
          <6> QED BY <6>2, <6>3
        <5>2. fromW # <<Word(0), Word(1)>>
          BY <4>2, ShortSequences
        <5> QED BY <5>1, <5>2, <3>1
      <4> QED BY <3>1, <4>1, <4>2
    <3>6. Decoded(n)'
      BY <3>0, <3>3, <1>0 DEF Decoded, Fits
    <3>5. TokenLeft(n)'
      BY <3>6, <3>3, <3>4, <1>0 DEF TokenLeft
    <3> QED BY <3>3, <3>5 DEF Own, Pipes, AnswerIsOwn, ContextComplete, Returned
  <2> QED BY <1>0, <1>2, <2>1, <2>2, <2>3, <2>4 DEF Own, Pipes
<1> QED BY <1>1, <1>2 DEF Types

(* The data of the call's own answer are read and the call returns.        *)
LEMMA DataOwn ==
    ASSUME Types, Own, ReadData
    PROVE  Own'
<1> DEFINE tok == IF call.kind = "generate" THEN Result ELSE NoToken
<1>0. pc = "data" /\ Len(fromW) >= Needed /\ UNCHANGED call
  BY DEF ReadData
<1>1. PICK lost \in BOOLEAN :
          /\ Finish(tok, lost) /\ UNCHANGED late
          /\ ~lost => fromW' = Drop(Needed) /\ UNCHANGED <<ready, proc, toW, worker>>
          /\ lost => Shutdown /\ call.kind = "generate"
  <2>1. CASE fromW' = Drop(Needed) /\ Return(tok) /\ UNCHANGED <<ready, proc, toW, worker, late>>
    BY <2>1 DEF Return
  <2>2. CASE call.kind = "generate" /\ Shutdown /\ Finish(tok, TRUE)
    BY <2>2 DEF Shutdown
  <2> QED BY <2>1, <2>2 DEF ReadData
<1>2. /\ pc' = "idle" /\ ret' = tok
      /\ call.kind # "generate" => fed' = <<>> /\ broken' = FALSE
      /\ call.kind = "generate" /\ tok.v # 1 => fed' = Append(fed, call.id)
      /\ call.kind = "generate" /\ lost => broken' = TRUE
      /\ call.kind = "generate" /\ tok.v # 1 /\ ~lost => (broken' <=> broken)
      /\ call.kind = "generate" => (whole' <=> whole)
      /\ call.kind = "reset" => ~whole'
      /\ call.kind = "reset_slot" => (whole' <=> whole \/ fed # <<>>)
  BY <1>1, FinishEffect
<1>3. CASE late
  BY <1>1, <1>2, <1>3 DEF Own, Pipes, AnswerIsOwn, ContextComplete, Types
<1>4. CASE ~late /\ ResetLeft
  <2>1. call.kind # "generate" /\ PipesEmpty /\ ~lost /\ (proc = "alive" => Begins)
    BY <1>4, <1>1 DEF ResetLeft
  <2>2. Needed = 0 /\ fromW' = <<>> /\ fed' = <<>>
    BY <2>1, <1>0, <1>1, <1>2, ShortSequences DEF Needed, PipesEmpty, Drop
  <2>3. UNCHANGED <<ready, proc, toW, wout, fuseReset, Cache>>
    BY <1>1, <2>1 DEF worker, Cache, AfterOp31
  <2>4. ASSUME proc = "alive" PROVE Fits(Cache, <<>>)' /\ Noted'
    <3>1. Begins /\ (call.kind = "reset" \/ call.kind = "reset_slot")
      BY <2>1, <2>4 DEF Types, Commands, Kinds
    <3>2. <<Old>> \o <<>> = <<Old>>
      OBVIOUS
    <3>3. CASE call.kind = "reset"
      BY <1>2, <2>2, <2>3, <3>1, <3>2, <3>3 DEF Begins, Fits, Noted
    <3>4. CASE call.kind = "reset_slot"
      BY <1>2, <2>2, <2>3, <3>1, <3>2, <3>4 DEF Begins, Fits, Noted
    <3> QED BY <3>1, <3>3, <3>4
  <2>5. InStep'
    BY <2>2, <2>3, <2>4 DEF InStep, Fits
  <2>6. AnswerIsOwn' /\ ContextComplete' /\ PipesEmpty'
    BY <1>0, <1>2, <2>1, <2>2, <2>3 DEF AnswerIsOwn, ContextComplete, Returned, PipesEmpty
  <2> QED BY <1>2, <2>5, <2>6 DEF Own, Pipes
<1>5. ASSUME ~late, NEW n \in {0, Big}, TokenLeft(n)
      PROVE  Own'
  <2> DEFINE t == Token(n, call.id, kv)
  <2>1. Needed = 1 /\ call.kind = "generate" /\ Decoded(n)
    BY <1>5, <1>0 DEF TokenLeft, Decoded, Needed
  <2>2. wout = <<>> /\ fromW = <<t>> /\ toW = <<>>
    <3> HIDE DEF t
    <3>1. fromW # <<>>
      BY <1>0, <2>1, ShortSequences
    <3> QED BY <3>1, <1>5, <2>1 DEF TokenLeft, t, Decoded
  <2>3. tok = t
    BY <2>1, <2>2, ShortSequences DEF Result
  <2>4. t.v # 1 /\ t.id = call.id /\ t.ctx = kv
    BY WordValues DEF Big
  <2>5. AnswerIsOwn'
    BY <1>0, <1>2, <2>3, <2>4 DEF AnswerIsOwn
  <2>6. fed' = Append(fed, call.id)
    BY <1>2, <2>1, <2>3, <2>4
  <2>7. CASE ~lost
    <3>1. /\ fromW' = <<>> /\ (broken' <=> broken)
          /\ UNCHANGED <<ready, proc, toW, wout, kv, fuseReset, fuseResetSlot, late>>
      BY <1>1, <1>2, <2>1, <2>2, <2>3, <2>4, <2>7, ShortSequences DEF Drop, worker
    <3>2. Cache' = kv' /\ ret'.ctx = kv' /\ ~fuseReset'
      BY <3>1, <2>1, <1>2, <2>3, <2>4 DEF Decoded, Cache
    <3>3. ASSUME ~broken' PROVE Fits(kv, fed)'
      BY <3>1, <3>3, <2>1, <1>2, <2>6 DEF Decoded, Fits
    <3>4. InStep'
      BY <3>2, <3>3 DEF InStep, Noted, Fits
    <3>5. ContextComplete'
      BY <3>2, <3>3 DEF ContextComplete, Fits
    <3> QED BY <3>1, <3>4, <3>5, <2>2, <2>5, <1>2 DEF Own, Pipes, PipesEmpty
  <2>8. CASE lost
    <3>1. broken' = TRUE /\ PipesEmpty' /\ ~ready'
      BY <1>1, <1>2, <2>1, <2>8 DEF Shutdown, PipesEmpty
    <3> QED BY <3>1, <1>2, <2>5 DEF Own, Pipes, InStep, ContextComplete
  <2> QED BY <2>7, <2>8
<1> QED BY <1>0, <1>3, <1>4, <1>5 DEF Own, Pipes, Types

(* A read that ends without its words leaves nothing of this call behind,  *)
(* or is remembered in `late`.                                             *)
LEMMA NoAnswerOwn ==
    ASSUME Types, Spawned, Own, TimeOut \/ EndOfFile
    PROVE  Own'
<1>1. pc \in {"hdr", "data"} /\ Return(NoToken) /\ UNCHANGED call
  BY DEF TimeOut, EndOfFile
<1>2. pc' = "idle" /\ AnswerIsOwn' /\ ContextComplete'
  BY <1>1, FailedCall
<1>3. CASE TimeOut
  BY <1>2, <1>3 DEF TimeOut, Own, Pipes
<1>4. CASE EndOfFile
  <2>1. proc = "dead" /\ fromW' = <<>> /\ UNCHANGED <<proc, toW, wout, late>> /\ Len(fromW) < Needed
    BY <1>4 DEF EndOfFile, worker
  <2>2. toW' = <<>> /\ wout' = <<>>
    BY <2>1 DEF Spawned
  <2> QED BY <1>2, <2>1, <2>2 DEF Own, Pipes, PipesEmpty, InStep
<1> QED BY <1>3, <1>4

(* The worker takes the command, writes its answer, or dies.               *)
LEMMA WorkerOwn ==
    ASSUME Types, Spawned, Own, WorkerStep \/ WorkerWrite \/ Crash
    PROVE  Own'
<1>0. /\ proc = "alive" /\ UNCHANGED <<pc, call, dim, ready, fed, broken, whole, ret, late>>
  BY DEF WorkerStep, WorkerWrite, Crash, client, seq
<1>1. AnswerIsOwn' /\ ContextComplete'
  BY <1>0 DEF Own, AnswerIsOwn, ContextComplete, Returned
<1> SUFFICES ASSUME ~late PROVE Pipes'
  BY <1>0, <1>1 DEF Own, Pipes, Types
<1>2. CASE WorkerStep
  <2>1. pc = "hdr" /\ toW = <<call>> /\ fromW = <<>> /\ wout = <<>> /\ InStep
    <3>1. toW # <<>> /\ wout = <<>>
      BY <1>2 DEF WorkerStep
    <3>2. pc = "hdr"
      BY <3>1 DEF Own, Pipes, PipesEmpty, TokenLeft, ResetLeft, Decoded, Types
    <3>3. NotTaken
      BY <3>1, <3>2 DEF Own, Pipes, ResetAnswered, ErrorAnswered, TokenAnswered, Decoded
    <3> QED BY <1>0, <3>2, <3>3 DEF NotTaken
  <2>2. Head(toW) = call /\ toW' = <<>> /\ fromW' = <<>> /\ proc' = "alive"
    BY <1>0, <1>2, <2>1, ShortSequences DEF WorkerStep
  <2>3. CASE call.kind = "generate"
    <3>0. Decode(call)
      BY <1>2, <2>2, <2>3 DEF WorkerStep
    <3>1. ASSUME NEW n \in {0, Big},
                 wout' = << <<Word(0), Word(1)>>, <<Token(n, call.id, Append(Cache, call.id))>> >>,
                 kv' = Append(Cache, call.id)
          PROVE  TokenAnswered(n)'
      <4>1. ~broken => Fits(Cache, fed)
        BY <1>0, <2>1 DEF InStep, Spawned
      <4>2. ~broken => Fits(Append(Cache, call.id), Append(fed, call.id))
        BY <4>1, FitsAppend, CacheType DEF Types, Commands
      <4>3. ~broken' => Fits(kv, Append(fed, call.id))'
        BY <1>0, <3>1, <4>2 DEF Fits
      <4>4. Decoded(n)'
        BY <1>0, <2>2, <2>3, <3>0, <4>3 DEF Decoded, Decode
      <4> QED BY <1>0, <2>2, <3>1, <4>4 DEF TokenAnswered
    <3>2. ASSUME wout' = ErrorAnswer PROVE ErrorAnswered'
      BY <1>0, <2>2, <2>3, <3>0, <3>2 DEF ErrorAnswered, ErrorAnswer, Decode
    <3> QED BY <1>0, <2>1, <3>0, <3>1, <3>2 DEF Decode, Pipes
  <2>4. CASE call.kind # "generate"
    <3>1. /\ wout' = << <<Word(0), Word(0)>> >> /\ UNCHANGED kv
          /\ \/ call.kind = "reset" /\ fuseReset' = TRUE
             \/ call.kind = "reset_slot" /\ fuseResetSlot' = TRUE /\ UNCHANGED fuseReset
      BY <1>2, <2>2, <2>4 DEF WorkerStep
    <3>2. Cache' = <<>> \/ (Recurrent /\ Cache' = <<Old>>)
      BY <3>1 DEF Cache, AfterOp31
    <3>4. Noted
      BY <1>0, <2>1 DEF InStep, Spawned
    <3>5. call.kind = "reset_slot" /\ (whole \/ fed # <<>>) => ~fuseReset' /\ Cache' = <<>>
      BY <3>1, <3>4 DEF Noted, Cache
    <3>6. Begins'
      BY <1>0, <3>2, <3>5 DEF Begins
    <3>3. ResetAnswered'
      BY <1>0, <2>2, <2>4, <3>1, <3>6 DEF ResetAnswered
    <3> QED BY <1>0, <2>1, <3>3 DEF Pipes
  <2> QED BY <2>3, <2>4
<1>3. CASE WorkerWrite
  <2>0. /\ wout # <<>> /\ fromW' = fromW \o Head(wout) /\ wout' = Tail(wout)
        /\ UNCHANGED <<proc, toW, kv, fuseReset, fuseResetSlot, Cache>>
    BY <1>3 DEF WorkerWrite, Cache, AfterOp31
  <2>1. CASE pc \in {"idle", "ensure", "write"}
    BY <2>0, <2>1 DEF Own, Pipes, PipesEmpty
  <2>2. CASE pc = "hdr"
    <3>1. CASE NotTaken
      BY <2>0, <3>1 DEF NotTaken, PipesEmpty
    <3>2. CASE ResetAnswered
      <4>1. wout = << <<Word(0), Word(0)>> >> /\ fromW = <<>>
        BY <2>0, <3>2 DEF ResetAnswered
      <4>2. wout' = <<>> /\ fromW' = <<Word(0), Word(0)>>
        BY <2>0, <4>1, ShortSequences
      <4>3. ResetAnswered'
        BY <1>0, <2>0, <3>2, <4>2 DEF ResetAnswered, Begins
      <4> QED BY <1>0, <2>2, <4>3 DEF Pipes
    <3>3. CASE ErrorAnswered
      <4>1. wout = << <<Word(1), Word(0)>> >> /\ fromW = <<>>
        BY <2>0, <3>3 DEF ErrorAnswered, ErrorAnswer
      <4>2. wout' = <<>> /\ fromW' = <<Word(1), Word(0)>>
        BY <2>0, <4>1, ShortSequences
      <4>3. ErrorAnswered'
        BY <1>0, <2>0, <3>3, <4>2 DEF ErrorAnswered
      <4> QED BY <1>0, <2>2, <4>3 DEF Pipes
    <3>4. ASSUME NEW n \in {0, Big}, TokenAnswered(n) PROVE Pipes'
      <4> DEFINE tok == Token(n, call.id, kv)
      <4>0. Decoded(n)' /\ tok' = tok
        BY <1>0, <2>0, <3>4 DEF TokenAnswered, Decoded, Fits
      <4>1. \/ wout = << <<Word(0), Word(1)>>, <<tok>> >> /\ fromW = <<>>
            \/ wout = << <<tok>> >> /\ fromW = <<Word(0), Word(1)>>
        BY <2>0, <3>4 DEF TokenAnswered
      <4>2. \/ wout' = << <<tok>> >> /\ fromW' = <<Word(0), Word(1)>>
            \/ wout' = <<>> /\ fromW' = <<Word(0), Word(1), tok>>
        <5> HIDE DEF tok
        <5>1. CASE wout = << <<Word(0), Word(1)>>, <<tok>> >> /\ fromW = <<>>
          BY <2>0, <5>1, ShortSequences
        <5>2. CASE wout = << <<tok>> >> /\ fromW = <<Word(0), Word(1)>>
          <6>1. Head(wout) = <<tok>> /\ Tail(wout) = <<>>
            BY <5>2, ShortSequences
          <6>2. fromW' = <<Word(0), Word(1)>> \o <<tok>>
            BY <2>0, <5>2, <6>1
          <6>3. <<Word(0), Word(1)>> \o <<tok>> = <<Word(0), Word(1), tok>>
            BY HeaderAndData
          <6> QED BY <6>1, <6>2, <6>3, <2>0
        <5> QED BY <4>1, <5>1, <5>2
      <4>3. TokenAnswered(n)'
        BY <4>0, <4>2 DEF TokenAnswered
      <4> QED BY <1>0, <2>2, <4>3 DEF Pipes
    <3> QED BY <2>2, <3>1, <3>2, <3>3, <3>4 DEF Own, Pipes
  <2>3. CASE pc = "data"
    <3>1. CASE ResetLeft
      BY <2>0, <3>1 DEF ResetLeft, PipesEmpty
    <3>2. ASSUME NEW n \in {0, Big}, TokenLeft(n) PROVE Pipes'
      <4> DEFINE tok == Token(n, call.id, kv)
      <4>0. Decoded(n)' /\ tok' = tok /\ dim' = 1
        BY <1>0, <2>0, <3>2 DEF TokenLeft, Decoded, Fits
      <4>1. wout = << <<tok>> >> /\ fromW = <<>>
        BY <2>0, <3>2 DEF TokenLeft
      <4>2. wout' = <<>> /\ fromW' = <<tok>>
        <5> HIDE DEF tok
        <5> QED BY <2>0, <4>1, ShortSequences
      <4>3. TokenLeft(n)'
        BY <4>0, <4>2 DEF TokenLeft
      <4> QED BY <1>0, <2>3, <4>3 DEF Pipes
    <3> QED BY <2>3, <3>1, <3>2 DEF Own, Pipes
  <2> QED BY <2>1, <2>2, <2>3 DEF Types
<1>4. CASE Crash
  <2>0. /\ proc' = "dead" /\ toW' = <<>> /\ wout' = <<>>
        /\ UNCHANGED <<fromW, kv, fuseReset, fuseResetSlot, Cache>>
    BY <1>4 DEF Crash, Cache, AfterOp31
  <2>1. CASE pc \in {"idle", "ensure", "write"}
    BY <1>0, <2>0, <2>1 DEF Own, Pipes, PipesEmpty, InStep
  <2>2. CASE pc = "hdr"
    <3>1. CASE fromW = <<>>
      BY <1>0, <2>0, <2>2, <3>1 DEF Pipes, NotTaken, PipesEmpty
    <3>2. CASE ResetAnswered /\ fromW # <<>>
      <4>1. ResetAnswered'
        BY <1>0, <2>0, <3>2 DEF ResetAnswered
      <4> QED BY <1>0, <2>2, <4>1 DEF Pipes
    <3>3. CASE ErrorAnswered /\ fromW # <<>>
      <4>1. ErrorAnswered'
        BY <1>0, <2>0, <3>3 DEF ErrorAnswered
      <4> QED BY <1>0, <2>2, <4>1 DEF Pipes
    <3>4. ASSUME NEW n \in {0, Big}, TokenAnswered(n), fromW # <<>> PROVE Pipes'
      <4>1. Decoded(n)' /\ Token(n, call.id, kv)' = Token(n, call.id, kv)
        BY <1>0, <2>0, <3>4 DEF TokenAnswered, Decoded, Fits
      <4>2. TokenAnswered(n)'
        BY <4>1, <2>0, <3>4 DEF TokenAnswered
      <4> QED BY <1>0, <2>2, <4>2 DEF Pipes
    <3> QED BY <2>2, <3>1, <3>2, <3>3, <3>4 DEF Own, Pipes, NotTaken, PipesEmpty
  <2>3. CASE pc = "data"
    <3>1. CASE ResetLeft
      <4>1. ResetLeft'
        BY <1>0, <2>0, <3>1 DEF ResetLeft, PipesEmpty
      <4> QED BY <1>0, <2>3, <4>1 DEF Pipes
    <3>2. ASSUME NEW n \in {0, Big}, TokenLeft(n) PROVE Pipes'
      <4>1. Decoded(n)' /\ dim' = 1 /\ Token(n, call.id, kv)' = Token(n, call.id, kv)
        BY <1>0, <2>0, <3>2 DEF TokenLeft, Decoded, Fits
      <4>2. TokenLeft(n)'
        BY <4>1, <2>0, <3>2 DEF TokenLeft
      <4> QED BY <1>0, <2>3, <4>2 DEF Pipes
    <3> QED BY <2>3, <3>1, <3>2 DEF Own, Pipes
  <2> QED BY <2>1, <2>2, <2>3 DEF Types
<1> QED BY <1>2, <1>3, <1>4

-----------------------------------------------------------------------------
(* The initial state satisfies everything.                                 *)
LEMMA InitInv ==
    ASSUME Init
    PROVE  Types /\ Bounded /\ Spawned /\ Own
<1> USE NpuAssumption
<1>1. NoToken \in Words
  <2>1. 1 \in 0 .. Big /\ 0 \in Nat /\ <<>> \in Seq(Marks)
    BY DEF Big
  <2> QED BY <2>1 DEF NoToken, Words
<1>2. Types
  <2>1. call \in Commands
    BY DEF Init, Commands, Kinds, Ids
  <2>2. /\ <<>> \in Seq(Commands) /\ <<>> \in Seq(Words) /\ <<>> \in Seq(Seq(Words))
        /\ <<>> \in Seq(Ids) /\ <<>> \in Seq(Marks)
    OBVIOUS
  <2>3. 0 \in 0 .. 1 /\ 0 \in 0 .. MaxCrash
    OBVIOUS
  <2>4. dim \in 0 .. 1 /\ crashes \in 0 .. MaxCrash
    BY <2>3, Zenon DEF Init
  <2>5. toW \in Seq(Commands) /\ fromW \in Seq(Words) /\ wout \in Seq(Seq(Words))
        /\ kv \in Seq(Marks) /\ fed \in Seq(Ids) /\ ret \in Words
    BY <2>2, <1>1, Zenon DEF Init
  <2>6. /\ ready \in BOOLEAN /\ fuseReset \in BOOLEAN /\ fuseResetSlot \in BOOLEAN
        /\ broken \in BOOLEAN /\ whole \in BOOLEAN /\ late \in BOOLEAN
        /\ pc \in {"idle", "ensure", "write", "hdr", "data"} /\ proc \in {"none", "alive", "dead"}
    BY Zenon DEF Init
  <2> QED BY <2>1, <2>4, <2>5, <2>6, Zenon DEF Types
<1>3. Bounded
  BY ShortSequences DEF Init, Bounded
<1>4. Spawned
  BY DEF Init, Spawned
<1>5. Own
  BY DEF Init, Own, Pipes, PipesEmpty, InStep, Fits, Noted, AnswerIsOwn, ContextComplete, Returned
<1> QED BY <1>2, <1>3, <1>4, <1>5

(* The inductive step.                                                     *)
LEMMA OwnStep ==
    ASSUME Types, Spawned, Own, [Next]_vars
    PROVE  Own'
<1>1. Spawned'
  BY SpawnedStep
<1>2. CASE UNCHANGED vars
  BY <1>2
  DEF vars, Own, Pipes, PipesEmpty, InStep, NotTaken, ResetAnswered, ErrorAnswered, TokenAnswered,
      TokenLeft, ResetLeft, Decoded, AnswerIsOwn, ContextComplete, Returned, Cache, AfterOp31, Fits, Noted, Begins
<1> QED
  BY <1>1, <1>2, StartOwn, HeaderOwn, DataOwn, NoAnswerOwn, WorkerOwn DEF Next, ClientStep

(* TypeOK holds for every bound: the words of the pipes are 32-bit words,  *)
(* and neither the worker's cache nor the sequence outgrows MaxCtx, which  *)
(* is not obvious of commands that wait in the pipe behind late answers.   *)
THEOREM TypeCorrect == Spec => []TypeOK
<1>1. Init => Types /\ Bounded
  BY InitInv
<1>2. Types /\ Bounded /\ [Next]_vars => (Types /\ Bounded)'
  BY TypesStep, BoundedStep
<1>3. Types /\ Bounded => TypeOK
  <2> SUFFICES ASSUME Types, Bounded PROVE TypeOK
    OBVIOUS
  <2>1. \A k \in 1 .. Len(toW) : toW[k] \in Commands
    BY DEF Types
  <2>2. \A k \in 1 .. Len(fromW) : fromW[k].v \in 0 .. Big
    <3>1. \A k \in 1 .. Len(fromW) : fromW[k] \in Words
      BY DEF Types
    <3> QED BY <3>1 DEF Words
  <2> QED BY <2>1, <2>2 DEF TypeOK, Types, Bounded, Commands
<1> QED BY <1>1, <1>2, <1>3, PTL DEF Spec

(* gemm() returns the answer of its own command: for any number of calls,  *)
(* errors, deaths and respawns, a token that generate() returns while no   *)
(* read of this worker was given up was computed for that very call.       *)
THEOREM AnswersOwnCall == Spec => []AnswerIsOwn
<1>1. Init => IInv
  BY InitInv DEF IInv
<1>2. IInv /\ [Next]_vars => IInv'
  BY TypesStep, SpawnedStep, OwnStep DEF IInv
<1>3. IInv => AnswerIsOwn
  BY DEF IInv, Own
<1> QED BY <1>1, <1>2, <1>3, PTL DEF Spec

(* The worker's context and the caller's sequence stay in step: a returned *)
(* token was computed from exactly the tokens fed since the last reset, in *)
(* order, as long as the sequence is not broken; all that can come before  *)
(* them, in a model with GDN layers after an op 31, is what the recurrent  *)
(* state held already.  Without such layers nothing can.                   *)
THEOREM ContextIsComplete ==
    Spec => [](ContextComplete /\ (~Recurrent => OwnSequenceOnly))
<1>1. Init => IInv
  BY InitInv DEF IInv
<1>2. IInv /\ [Next]_vars => IInv'
  BY TypesStep, SpawnedStep, OwnStep DEF IInv
<1>3. IInv => ContextComplete /\ (~Recurrent => OwnSequenceOnly)
  BY DEF IInv, Own, ContextComplete, OwnSequenceOnly
<1> QED BY <1>1, <1>2, <1>3, PTL DEF Spec
=============================================================================
