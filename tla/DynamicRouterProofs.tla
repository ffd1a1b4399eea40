------------------------ MODULE DynamicRouterProofs ------------------------
(* Proofs about DynamicRouter, for any set of threads, ids and objects.     *)
EXTENDS DynamicRouter, WellFoundedInduction, TLAPS

\* The first position of a nonempty set of positions is one of them.
LEMMA FirstOfIn ==
    ASSUME NEW S \in SUBSET Nat, S # {}
    PROVE  FirstOf(S) \in S
  <1>1. \E x \in S : \A y \in S : ~(<<y, x>> \in OpToRel(<, Nat))
    BY NatLessThanWellFounded, WFMin, Zenon
  <1>2. PICK x \in S : \A y \in S : ~(<<y, x>> \in OpToRel(<, Nat))
    BY <1>1
  <1> DEFINE R == {ss \in Nat \X Nat : ss[1] < ss[2]}
  <1>r. OpToRel(<, Nat) = R
    BY Zenon DEF OpToRel
  <1>4. \A y \in S : <<y, x>> \notin R
    BY <1>2, <1>r, Zenon
  <1>3. ASSUME NEW y \in S PROVE x <= y
    <2>1. ~(y < x)
      <3> SUFFICES ASSUME y < x PROVE FALSE OBVIOUS
      <3> DEFINE p == <<y, x>>
      <3>1. p \in Nat \X Nat /\ p[1] = y /\ p[2] = x OBVIOUS
      <3> HIDE DEF p
      <3>2. p \in R BY <3>1
      <3> QED BY <3>2, <1>4 DEF p
    <2> QED BY <2>1
  <1> QED BY <1>3 DEF FirstOf

\* What the scan over entries_ returns is nullptr or an entry of the vector.
LEMMA PickInRange ==
    ASSUME entries \in Seq(Entry), NEW x
    PROVE  /\ pick_backend \in DOMAIN entries \cup {0}
           /\ pick_backend_excluding(x) \in DOMAIN entries \cup {0}
  <1>0. \A S \in SUBSET DOMAIN entries : FirstOf(S) \in DOMAIN entries \cup {0}
    <2> TAKE S \in SUBSET DOMAIN entries
    <2>1. CASE S = {} BY <2>1 DEF FirstOf
    <2>2. CASE S # {} BY <2>2, FirstOfIn
    <2> QED BY <2>1, <2>2
  <1>1. \A y : Fastest(y) \in DOMAIN entries \cup {0}
    BY <1>0 DEF Fastest
  <1>2. \A y : ByStrategy(y) \in DOMAIN entries \cup {0}
    BY <1>0, <1>1 DEF ByStrategy
  <1>3. Len(entries) # 0 => 1 \in DOMAIN entries
    OBVIOUS
  <1>4. entries # <<>> => Len(entries) # 0
    OBVIOUS
  <1>5. pick_backend \in DOMAIN entries \cup {0}
    BY <1>2, <1>3, <1>4 DEF pick_backend
  <1>6. pick_backend_excluding(x) \in DOMAIN entries \cup {0}
    BY <1>2, <1>3, <1>4 DEF pick_backend_excluding
  <1> QED BY <1>5, <1>6

LEMMA IndexInRange ==
    ASSUME entries \in Seq(Entry), NEW id
    PROVE  IndexOf(id) \in DOMAIN entries \cup {0}
  <1> DEFINE S == {i \in DOMAIN entries : entries[i].id = id}
  <1>1. S \in SUBSET Nat OBVIOUS
  <1>2. CASE S = {} BY <1>2 DEF IndexOf, FirstOf
  <1>3. CASE S # {} BY <1>1, <1>3, FirstOfIn DEF IndexOf
  <1> QED BY <1>2, <1>3

LEMMA InitIInv == Init => IInv
  <1> SUFFICES ASSUME Init PROVE IInv OBVIOUS
  <1> USE RouterAssumption DEF Init
  <1>1. TypeOK
    <2>1. /\ entries \in Seq(Entry)
          /\ \A i \in DOMAIN entries : Len(entries[i].lat) <= WINDOW_SIZE
      OBVIOUS
    <2>2. lfRaced \in BOOLEAN
      BY Zenon
    <2>3. snap \in [Threads -> [{0, 1} -> Snap \cup {NoSnap}]]
      BY Zenon
    <2> QED BY <2>1, <2>2, <2>3 DEF TypeOK, AllStrategies, PCs
  <1>2. LocksHeld BY DEF LocksHeld, ThreadLocks, Computing, Outer
  <1>3. PairsAgree BY DEF PairsAgree, InUse
  <1> QED BY <1>1, <1>2, <1>3 DEF IInv

\* A step after which every (backend, mutex) pair in use was in use before
\* keeps PairsAgree.
LEMMA PairsKept ==
    ASSUME PairsAgree,
           \A a \in InUse' : \E b \in InUse : b.inst = a.inst /\ b.mtx = a.mtx
    PROVE  PairsAgree'
  BY DEF PairsAgree

\* The snapshot of an entry carries the entry's backend and mutex.
LEMMA SnapTyped ==
    ASSUME entries \in Seq(Entry), NEW i \in DOMAIN entries
    PROVE  /\ entries[i] \in Entry /\ SnapOf(i) \in Snap
           /\ SnapOf(i).inst = entries[i].inst /\ SnapOf(i).mtx = entries[i].mtx
  <1>1. entries[i] \in Entry OBVIOUS
  <1> QED BY <1>1 DEF SnapOf, Entry, Snap

LEMMA PickIInv ==
    ASSUME IInv, NEW t \in Threads, NEW from \in PCs, NEW to \in {"lock", "fwd_lock", "lm_lock"},
           from \in {"idle", "hidden"}, Pick(t, from, to)
    PROVE  IInv'
  <1> DEFINE k == pick_backend
  <1>1. k \in DOMAIN entries
    BY PickInRange DEF IInv, TypeOK, Pick
  <1>2. SnapOf(k) \in Snap /\ SnapOf(k).inst = entries[k].inst /\ SnapOf(k).mtx = entries[k].mtx
    BY <1>1, SnapTyped DEF IInv, TypeOK
  <1> HIDE DEF k
  <1>3. TypeOK'
    BY <1>2 DEF IInv, TypeOK, Pick, k, AdvanceCycle, registry, lastFailed, resets, PCs
  <1>4. LocksHeld'
    BY <1>2, RouterAssumption DEF IInv, TypeOK, Pick, k, LocksHeld, ThreadLocks, Computing, Outer, registry, resets
  <1>5. PairsAgree'
    <2>1. \A a \in InUse' : a \in InUse \/ a = SnapOf(k)
      BY DEF IInv, TypeOK, Pick, k, InUse, registry
    <2>2. entries[k] \in InUse
      BY <1>1 DEF InUse
    <2> QED BY <2>1, <2>2, <1>2, PairsKept DEF IInv
  <1> QED BY <1>3, <1>4, <1>5 DEF IInv

\* Taking a free compute lock: nobody else's claim on a lock changes.
LEMMA LockIInv ==
    ASSUME IInv, NEW t \in Threads,
           \/ Lock(t, "lock", "compute")
           \/ Lock(t, "fwd_lock", "fwd_compute")
           \/ Lock(t, "lm_lock", "lm_compute")
    PROVE  IInv'
  <1> USE RouterAssumption DEF registry, lastFailed, resets
  <1> DEFINE m == snap[t][depth[t]].mtx
  <1>0. /\ cmtx[m] = Free /\ cmtx' = [cmtx EXCEPT ![m] = t]
        /\ UNCHANGED <<entries, strategy, rr, last_failed_id, lfw, lfRaced, mtx, depth, snap,
                       failed, ri, notOk, rdone, fwd>>
        /\ \/ pc[t] = "lock" /\ pc' = [pc EXCEPT ![t] = "compute"]
           \/ pc[t] = "fwd_lock" /\ pc' = [pc EXCEPT ![t] = "fwd_compute"]
           \/ pc[t] = "lm_lock" /\ pc' = [pc EXCEPT ![t] = "lm_compute"]
    BY DEF Lock, Acquire
  <1>1. snap[t][depth[t]] \in Snap /\ m \in Mutexes
    BY <1>0 DEF IInv, LocksHeld, ThreadLocks, Computing, Snap
  <1>2. TypeOK'
    <2> HIDE DEF m
    <2> QED BY <1>0, <1>1 DEF IInv, TypeOK, PCs
  <1>3. LocksHeld'
    <2> HIDE DEF m
    <2>0. cmtx'[m] = t /\ \A n \in Mutexes : n # m => cmtx'[n] = cmtx[n]
      BY <1>0, <1>1 DEF IInv, TypeOK
    <2>1. \A n \in Mutexes, u \in Threads : cmtx[n] = u => cmtx'[n] = u
      BY <1>0, <1>1, <2>0
    <2>2. \A u \in Threads : u # t => pc'[u] = pc[u]
      BY <1>0 DEF IInv, TypeOK
    <2>3. pc'[t] \in {"compute", "fwd_compute", "lm_compute"} /\ (pc[t] = "lock" <=> pc'[t] = "compute")
      BY <1>0 DEF IInv, TypeOK
    <2> SUFFICES ASSUME NEW u \in Threads PROVE ThreadLocks(u)'
      BY DEF LocksHeld
    <2>4. CASE u # t
      BY <2>4, <2>1, <2>2, <1>0 DEF IInv, TypeOK, LocksHeld, ThreadLocks, Computing, Outer, Snap, Entry
    <2>5. CASE u = t
      <3>1. cmtx'[snap[t][depth[t]].mtx] = t
        BY <2>0 DEF m
      <3>2. depth[t] = 1 => /\ snap[t][0] \in Snap /\ cmtx'[snap[t][0].mtx] = t
                            /\ snap[t][0].mtx # m /\ pc'[t] = "compute"
        BY <2>1, <2>3, <1>0, <1>1 DEF IInv, LocksHeld, ThreadLocks, Outer, Snap
      <3>3. depth[t] = 1 => snap[t][0].mtx # snap[t][1].mtx
        BY <3>2 DEF m
      <3> QED BY <2>5, <2>3, <1>0, <1>1, <3>1, <3>2, <3>3 DEF ThreadLocks, Computing, Outer
    <2> QED BY <2>4, <2>5
  <1>4. InUse' = InUse
    BY <1>0 DEF InUse
  <1> QED BY <1>2, <1>3, <1>4 DEF IInv, PairsAgree

LEMMA GenComputeIInv ==
    ASSUME IInv, NEW t \in Threads, GenCompute(t)
    PROVE  IInv'
  <1> USE RouterAssumption DEF registry, lastFailed, resets
  <1>1. failed' \subseteq Threads
    BY DEF GenCompute, IInv, TypeOK
  <1>2. /\ pc[t] = "compute" /\ pc' = [pc EXCEPT ![t] = "record"]
        /\ UNCHANGED <<entries, strategy, rr, last_failed_id, lfw, lfRaced, mtx, cmtx, depth, snap,
                       ri, notOk, rdone, fwd>>
    BY DEF GenCompute
  <1>3. TypeOK'
    BY <1>1, <1>2 DEF IInv, TypeOK, PCs
  <1>4. LocksHeld'
    BY <1>2 DEF IInv, TypeOK, LocksHeld, ThreadLocks, Computing, Outer
  <1>5. InUse' = InUse
    BY <1>2 DEF InUse
  <1> QED BY <1>3, <1>4, <1>5 DEF IInv, PairsAgree

\* The window stays within WINDOW_SIZE.
LEMMA RecordedTyped ==
    ASSUME NEW w \in Seq(Latencies), Len(w) <= WINDOW_SIZE, NEW ms \in Latencies
    PROVE  Recorded(w, ms) \in Seq(Latencies) /\ Len(Recorded(w, ms)) <= WINDOW_SIZE
  BY RouterAssumption DEF Recorded

LEMMA GenRecordIInv ==
    ASSUME IInv, NEW t \in Threads, GenRecord(t)
    PROVE  IInv'
  <1> USE RouterAssumption
  <1> DEFINE k == IndexOf(snap[t][depth[t]].id)
  <1>0. k \in DOMAIN entries \cup {0}
    BY IndexInRange DEF IInv, TypeOK
  <1> HIDE DEF k
  <1>1. /\ entries' \in Seq(Entry) /\ Len(entries') = Len(entries)
        /\ \A i \in DOMAIN entries : /\ Len(entries'[i].lat) <= WINDOW_SIZE
                                     /\ entries'[i].inst = entries[i].inst
                                     /\ entries'[i].mtx = entries[i].mtx
    <2>1. CASE entries' = entries
      BY <2>1 DEF IInv, TypeOK
    <2>2. ASSUME NEW ms \in Latencies, k # 0,
                 entries' = [entries EXCEPT ![k].lat = Recorded(@, ms)]
          PROVE  <1>1!:
      <3>1. k \in DOMAIN entries /\ entries \in Seq(Entry) /\ entries[k] \in Entry
        BY <2>2, <1>0 DEF IInv, TypeOK
      <3>2. entries[k].lat \in Seq(Latencies) /\ Len(entries[k].lat) <= WINDOW_SIZE
        BY <3>1 DEF IInv, TypeOK, Entry
      <3> DEFINE w == Recorded(entries[k].lat, ms)
      <3>3. w \in Seq(Latencies) /\ Len(w) <= WINDOW_SIZE
        BY <3>2, RecordedTyped
      <3> HIDE DEF w
      <3>4. entries' = [entries EXCEPT ![k] = [entries[k] EXCEPT !.lat = w]]
        BY <2>2, <3>1 DEF w
      <3>5. [entries[k] EXCEPT !.lat = w] \in Entry
        BY <3>1, <3>3 DEF Entry
      <3> QED BY <3>1, <3>3, <3>4, <3>5 DEF IInv, TypeOK, Entry
    <2> QED BY <2>1, <2>2 DEF GenRecord, k
  <1>2. DOMAIN entries' = DOMAIN entries
    BY <1>1 DEF IInv, TypeOK
  <1>3. TypeOK'
    BY <1>1, <1>2 DEF IInv, TypeOK, PCs, GenRecord, lastFailed, resets
  <1>4. LocksHeld'
    BY <1>1, <1>2 DEF GenRecord, resets, IInv, TypeOK, LocksHeld, ThreadLocks, Computing, Outer
  <1>5. PairsAgree'
    <2>1. \A a \in InUse' : a \in InUse \/ \E i \in DOMAIN entries : a = entries'[i]
      BY <1>2 DEF InUse, GenRecord
    <2>2. \A i \in DOMAIN entries : entries[i] \in InUse
      BY DEF InUse
    <2> QED BY <2>1, <2>2, <1>1, PairsKept DEF IInv
  <1> QED BY <1>3, <1>4, <1>5 DEF IInv

LEMMA LfWriteTyped ==
    ASSUME TypeOK, NEW t \in Threads, NEW v \in Ids \cup {NoId},
           LfWriteBegin(t) \/ LfWriteEnd(t, v)
    PROVE  last_failed_id' \in Ids \cup {NoId} /\ lfw' \subseteq Threads /\ lfRaced' \in BOOLEAN
  <1>1. lfRaced' \in BOOLEAN
    BY Zenon DEF LfWriteBegin, LfWriteEnd
  <1>2. last_failed_id' \in Ids \cup {NoId} /\ lfw' \subseteq Threads
    BY DEF LfWriteBegin, LfWriteEnd, TypeOK
  <1> QED BY <1>1, <1>2

\* Steps of generate_with_failover that only move the thread and write
\* last_failed_id_.
LEMMA LastFailedIInv ==
    ASSUME IInv, NEW t \in Threads, GenFailOver(t) \/ GenFailWritten(t)
    PROVE  IInv'
  <1> USE RouterAssumption DEF registry, lastFailed, resets
  <1>1. last_failed_id' \in Ids \cup {NoId} /\ lfw' \subseteq Threads /\ lfRaced' \in BOOLEAN
    <2>1. GenFailOver(t) => LfWriteBegin(t)
      BY DEF GenFailOver
    <2>2. GenFailWritten(t) => LfWriteEnd(t, snap[t][0].id) /\ snap[t][0].id \in Ids
      BY DEF GenFailWritten, IInv, LocksHeld, ThreadLocks, Outer, Snap
    <2> QED BY <2>1, <2>2, LfWriteTyped DEF IInv
  <1>2. /\ UNCHANGED <<entries, strategy, rr, mtx, cmtx, depth, snap, failed, ri, notOk, rdone, fwd>>
        /\ \/ pc[t] = "decide" /\ depth[t] = 0 /\ pc' = [pc EXCEPT ![t] = "fail_write"]
           \/ pc[t] = "fail_write" /\ pc' = [pc EXCEPT ![t] = "retry"]
    BY DEF GenFailOver, GenFailWritten, MustRetry
  <1>3. TypeOK'
    BY <1>1, <1>2 DEF IInv, TypeOK, PCs
  <1>4. LocksHeld'
    BY <1>2 DEF IInv, TypeOK, LocksHeld, ThreadLocks, Computing, Outer
  <1>5. InUse' = InUse
    BY <1>2 DEF InUse
  <1> QED BY <1>3, <1>4, <1>5 DEF IInv, PairsAgree

LEMMA GenRetryPickIInv ==
    ASSUME IInv, NEW t \in Threads, GenRetryPick(t)
    PROVE  IInv'
  <1> USE RouterAssumption
  <1>1. PICK x : \/ /\ pick_backend_excluding(x) = 0
                    /\ pc' = [pc EXCEPT ![t] = "clear_write"]
                    /\ LfWriteBegin(t)
                    /\ UNCHANGED <<snap, depth>>
                 \/ /\ pick_backend_excluding(x) # 0
                    /\ pc' = [pc EXCEPT ![t] = "lock"]
                    /\ snap' = [snap EXCEPT ![t][1] = SnapOf(pick_backend_excluding(x))]
                    /\ depth' = [depth EXCEPT ![t] = 1]
                    /\ UNCHANGED lastFailed
    BY DEF GenRetryPick
  <1> DEFINE k == pick_backend_excluding(x)
  <1>2. pc[t] = "retry" /\ rr' \in 0 .. 4
        /\ UNCHANGED <<entries, strategy, mtx, cmtx, failed, ri, notOk, rdone, fwd>>
    BY DEF GenRetryPick, AdvanceCycle, registry, resets, IInv, TypeOK
  <1>3. CASE k = 0
    <2>1. pc' = [pc EXCEPT ![t] = "clear_write"] /\ LfWriteBegin(t) /\ UNCHANGED <<snap, depth>>
      BY <1>1, <1>3
    <2>2. TypeOK'
      BY <1>2, <2>1, LfWriteTyped DEF IInv, TypeOK, PCs
    <2>3. LocksHeld'
      BY <1>2, <2>1 DEF IInv, TypeOK, LocksHeld, ThreadLocks, Computing, Outer
    <2>4. InUse' = InUse
      BY <1>2, <2>1 DEF InUse
    <2> QED BY <2>2, <2>3, <2>4 DEF IInv, PairsAgree
  <1>4. CASE k # 0
    <2>1. k \in DOMAIN entries
      BY <1>4, PickInRange DEF IInv, TypeOK
    <2>2. SnapOf(k) \in Snap /\ SnapOf(k).inst = entries[k].inst /\ SnapOf(k).mtx = entries[k].mtx
      BY <2>1, SnapTyped DEF IInv, TypeOK
    <2>3. /\ pc' = [pc EXCEPT ![t] = "lock"] /\ snap' = [snap EXCEPT ![t][1] = SnapOf(k)]
          /\ depth' = [depth EXCEPT ![t] = 1] /\ UNCHANGED <<last_failed_id, lfw, lfRaced>>
      BY <1>1, <1>4 DEF lastFailed
    <2> HIDE DEF k
    <2>4. TypeOK'
      BY <1>2, <2>2, <2>3 DEF IInv, TypeOK, PCs
    <2>5. LocksHeld'
      BY <1>2, <2>2, <2>3 DEF IInv, TypeOK, LocksHeld, ThreadLocks, Computing, Outer
    <2>6. \A a \in InUse' : a \in InUse \/ a = SnapOf(k)
      BY <1>2, <2>3 DEF IInv, TypeOK, InUse
    <2>7. entries[k] \in InUse
      BY <2>1 DEF InUse
    <2>8. PairsAgree'
      BY <2>2, <2>6, <2>7, PairsKept DEF IInv
    <2> QED BY <2>4, <2>5, <2>8 DEF IInv
  <1> QED BY <1>3, <1>4

\* A thread whose own state and locks a step leaves alone keeps its claims.
LEMMA OthersKept ==
    ASSUME IInv, NEW u \in Threads,
           pc'[u] = pc[u], depth'[u] = depth[u], snap'[u] = snap[u], ri'[u] = ri[u],
           \A n \in Mutexes : cmtx[n] = u => cmtx'[n] = u,
           mtx = u => mtx' = u /\ \A i \in DOMAIN entries : i \in DOMAIN entries'
                                                      /\ entries'[i].mtx = entries[i].mtx
    PROVE  ThreadLocks(u)'
  <1>1. ThreadLocks(u)
    BY DEF IInv, LocksHeld
  <1>2. \A i \in DOMAIN entries : entries[i].mtx \in Mutexes
    <2>1. entries \in Seq(Entry) BY DEF IInv, TypeOK
    <2>2. \A i \in DOMAIN entries : entries[i] \in Entry BY <2>1, SnapTyped
    <2> QED BY <2>2 DEF Entry
  <1>3. (Computing(u)' <=> Computing(u)) /\ (Outer(u)' <=> Outer(u))
    BY DEF Computing, Outer
  <1>4. /\ Computing(u) => cmtx'[snap[u][depth[u]].mtx] = u
        /\ Outer(u) => cmtx'[snap[u][0].mtx] = u
    BY <1>1 DEF ThreadLocks, Snap, Computing
  <1>5. pc[u] = "resetting" => mtx = u /\ ri[u] \in DOMAIN entries /\ cmtx[entries[ri[u]].mtx] = u
    BY <1>1 DEF ThreadLocks
  <1>6. pc[u] = "resetting" => ri[u] \in DOMAIN entries' /\ cmtx'[entries'[ri[u]].mtx] = u
    BY <1>2, <1>5
  <1> QED BY <1>1, <1>3, <1>4, <1>5, <1>6 DEF ThreadLocks

\* Releasing a lock that t holds takes it from nobody else.
LEMMA ReleaseKeeps ==
    ASSUME IInv, NEW t \in Threads, NEW m \in Mutexes, cmtx[m] = t, Release(m)
    PROVE  /\ cmtx' \in [Mutexes -> Threads \cup {Free}]
           /\ \A n \in Mutexes, u \in Threads : u # t /\ cmtx[n] = u => cmtx'[n] = u
           /\ \A n \in Mutexes : n # m => cmtx'[n] = cmtx[n]
  BY DEF Release, IInv, TypeOK

LEMMA GenDoneIInv ==
    ASSUME IInv, NEW t \in Threads, GenDone(t)
    PROVE  IInv'
  <1> USE RouterAssumption
  <1> DEFINE d == depth[t]
             m == snap[t][d].mtx
  <1>1. /\ pc[t] = "decide" /\ d \in {0, 1} /\ snap[t][d] \in Snap /\ m \in Mutexes /\ cmtx[m] = t
    BY DEF GenDone, IInv, TypeOK, LocksHeld, ThreadLocks, Computing, Snap
  <1>2. Release(m) /\ snap' = [snap EXCEPT ![t][d] = NoSnap] /\ depth' = [depth EXCEPT ![t] = 0]
        /\ UNCHANGED <<entries, strategy, rr, mtx, ri, notOk, rdone, fwd>> /\ failed' \subseteq Threads
        /\ \/ d = 0 /\ pc' = [pc EXCEPT ![t] = "idle"] /\ UNCHANGED <<last_failed_id, lfw, lfRaced>>
           \/ d = 1 /\ pc' = [pc EXCEPT ![t] = "clear_write"] /\ LfWriteBegin(t)
    BY DEF GenDone, registry, lastFailed, resets, IInv, TypeOK
  <1>3. d = 1 => snap[t][0] \in Snap /\ cmtx[snap[t][0].mtx] = t /\ snap[t][0].mtx # m
    BY <1>1 DEF IInv, LocksHeld, ThreadLocks, Computing, Outer
  <1> HIDE DEF d, m
  <1>4. /\ cmtx' \in [Mutexes -> Threads \cup {Free}]
        /\ \A n \in Mutexes, u \in Threads : u # t /\ cmtx[n] = u => cmtx'[n] = u
        /\ \A n \in Mutexes : n # m => cmtx'[n] = cmtx[n]
    BY <1>1, <1>2, ReleaseKeeps
  <1>5. last_failed_id' \in Ids \cup {NoId} /\ lfw' \subseteq Threads /\ lfRaced' \in BOOLEAN
    <2>1. CASE LfWriteBegin(t) BY <2>1, LfWriteTyped DEF IInv
    <2>2. CASE UNCHANGED <<last_failed_id, lfw, lfRaced>> BY <2>2 DEF IInv, TypeOK
    <2> QED BY <1>2, <2>1, <2>2
  <1>6. TypeOK'
    <2>1. pc' \in [Threads -> PCs] /\ depth' \in [Threads -> {0, 1}]
      <3>1. pc \in [Threads -> PCs] /\ depth \in [Threads -> {0, 1}]
        BY DEF IInv, TypeOK
      <3>2. "idle" \in PCs /\ "clear_write" \in PCs
        BY DEF PCs
      <3>3. pc' = [pc EXCEPT ![t] = "idle"] \/ pc' = [pc EXCEPT ![t] = "clear_write"]
        BY <1>2
      <3>4. depth' = [depth EXCEPT ![t] = 0]
        BY <1>2
      <3> QED BY <3>1, <3>2, <3>3, <3>4
    <2>2. snap' \in [Threads -> [{0, 1} -> Snap \cup {NoSnap}]]
      <3> DEFINE s == [snap[t] EXCEPT ![d] = NoSnap]
      <3>1. snap[t] \in [{0, 1} -> Snap \cup {NoSnap}] /\ snap \in [Threads -> [{0, 1} -> Snap \cup {NoSnap}]]
        BY DEF IInv, TypeOK
      <3>2. s \in [{0, 1} -> Snap \cup {NoSnap}] /\ snap' = [snap EXCEPT ![t] = s]
        BY <3>1, <1>1, <1>2
      <3> QED BY <3>1, <3>2
    <2> QED BY <1>2, <1>4, <1>5, <2>1, <2>2 DEF IInv, TypeOK
  <1>7. \A u \in Threads : u # t => ThreadLocks(u)'
    <2> SUFFICES ASSUME NEW u \in Threads, u # t PROVE ThreadLocks(u)' OBVIOUS
    <2>1. pc'[u] = pc[u] /\ depth'[u] = depth[u] /\ snap'[u] = snap[u] /\ ri'[u] = ri[u]
      BY <1>1, <1>2 DEF IInv, TypeOK
    <2> QED BY <2>1, <1>2, <1>4, OthersKept
  <1>8. ThreadLocks(t)'
    <2>1. depth'[t] = 0 /\ (d = 0 => pc'[t] = "idle") /\ (d = 1 => pc'[t] = "clear_write")
      BY <1>1, <1>2 DEF IInv, TypeOK
    <2>2. d = 1 => snap'[t][0] = snap[t][0] /\ snap'[t][0] \in Snap /\ cmtx'[snap[t][0].mtx] = t
      BY <1>1, <1>2, <1>3, <1>4 DEF IInv, TypeOK, Snap
    <2> QED BY <1>1, <2>1, <2>2 DEF ThreadLocks, Computing, Outer
  <1>9. PairsAgree'
    <2>1. \A a \in InUse' : a \in InUse
      BY <1>1, <1>2 DEF IInv, TypeOK, InUse
    <2> QED BY <2>1, PairsKept DEF IInv
  <1> QED BY <1>6, <1>7, <1>8, <1>9 DEF IInv, LocksHeld

\* The steps that release the depth-0 lock and end a call, or one of the pair
\* forward / lm_head.
LEMMA FinishIInv ==
    ASSUME IInv, NEW t \in Threads, GenReturn(t) \/ ForwardRun(t) \/ LmHeadRun(t)
    PROVE  IInv'
  <1> USE RouterAssumption
  <1> DEFINE m == snap[t][0].mtx
  <1>0. pc[t] \in {"clear_write", "fwd_compute", "lm_compute"} /\ ThreadLocks(t) /\ depth[t] \in {0, 1}
    BY DEF GenReturn, ForwardRun, LmHeadRun, IInv, TypeOK, LocksHeld
  <1>1. /\ depth[t] = 0 /\ snap[t][0] \in Snap /\ m \in Mutexes /\ cmtx[m] = t
    BY <1>0 DEF ThreadLocks, Computing, Outer, Snap
  <1>2. /\ Release(m) /\ snap' = [snap EXCEPT ![t][0] = NoSnap] /\ failed' \subseteq Threads
        /\ UNCHANGED <<entries, strategy, rr, mtx, depth, ri, notOk, rdone>>
        /\ pc' = [pc EXCEPT ![t] = "idle"] \/ pc' = [pc EXCEPT ![t] = "hidden"]
        /\ fwd' \in [Threads -> Insts \cup {NoSnap}]
    BY <1>1 DEF GenReturn, ForwardRun, LmHeadRun, registry, resets, IInv, TypeOK, Snap
  <1> HIDE DEF m
  <1>4. /\ cmtx' \in [Mutexes -> Threads \cup {Free}]
        /\ \A n \in Mutexes, u \in Threads : u # t /\ cmtx[n] = u => cmtx'[n] = u
    BY <1>1, <1>2, ReleaseKeeps
  <1>5. last_failed_id' \in Ids \cup {NoId} /\ lfw' \subseteq Threads /\ lfRaced' \in BOOLEAN
    <2>1. CASE GenReturn(t)
      <3>1. LfWriteEnd(t, NoId) BY <2>1 DEF GenReturn
      <3> QED BY <3>1, LfWriteTyped DEF IInv
    <2>2. CASE ForwardRun(t) \/ LmHeadRun(t)
      BY <2>2 DEF ForwardRun, LmHeadRun, lastFailed, IInv, TypeOK
    <2> QED BY <2>1, <2>2
  <1>6. TypeOK'
    <2>1. pc' \in [Threads -> PCs]
      BY <1>2 DEF IInv, TypeOK, PCs
    <2>2. snap' \in [Threads -> [{0, 1} -> Snap \cup {NoSnap}]]
      <3> DEFINE s == [snap[t] EXCEPT ![0] = NoSnap]
      <3>1. snap[t] \in [{0, 1} -> Snap \cup {NoSnap}] /\ snap \in [Threads -> [{0, 1} -> Snap \cup {NoSnap}]]
        BY DEF IInv, TypeOK
      <3>2. s \in [{0, 1} -> Snap \cup {NoSnap}] /\ snap' = [snap EXCEPT ![t] = s]
        BY <3>1, <1>2
      <3> QED BY <3>1, <3>2
    <2> QED BY <1>2, <1>4, <1>5, <2>1, <2>2 DEF IInv, TypeOK
  <1>7. \A u \in Threads : u # t => ThreadLocks(u)'
    <2> SUFFICES ASSUME NEW u \in Threads, u # t PROVE ThreadLocks(u)' OBVIOUS
    <2>1. pc'[u] = pc[u] /\ depth'[u] = depth[u] /\ snap'[u] = snap[u] /\ ri'[u] = ri[u]
      BY <1>1, <1>2 DEF IInv, TypeOK
    <2> QED BY <2>1, <1>2, <1>4, OthersKept
  <1>8. ThreadLocks(t)'
    <2>1. depth'[t] = 0 /\ pc'[t] \in {"idle", "hidden"}
      BY <1>1, <1>2 DEF IInv, TypeOK
    <2> QED BY <2>1 DEF ThreadLocks, Computing, Outer
  <1>9. PairsAgree'
    <2>1. \A a \in InUse' : a \in InUse
      BY <1>1, <1>2 DEF IInv, TypeOK, InUse
    <2> QED BY <2>1, PairsKept DEF IInv
  <1> QED BY <1>6, <1>7, <1>8, <1>9 DEF IInv, LocksHeld

\* Steps that touch no compute lock and no entry: lm_head finding no entry,
\* and the loop control of reset_all.
LEMMA ControlIInv ==
    ASSUME IInv, NEW t \in Threads,
           LmHeadNone(t) \/ ResetBegin(t) \/ ResetSkip(t) \/ ResetEnd(t)
    PROVE  IInv'
  <1> USE RouterAssumption
  <1>1. /\ UNCHANGED <<entries, strategy, rr, last_failed_id, lfw, lfRaced, cmtx, depth, snap, failed>>
        /\ notOk' \subseteq Threads
    BY DEF LmHeadNone, ResetBegin, ResetSkip, ResetEnd, registry, lastFailed, resets, IInv, TypeOK
  <1>2. /\ ri' \in [Threads -> Nat] /\ rdone' \in [Threads -> SUBSET Nat] /\ fwd' \in [Threads -> Insts \cup {NoSnap}]
        /\ pc' \in [Threads -> PCs] /\ mtx' \in Threads \cup {Free}
    <2>0. /\ ri \in [Threads -> Nat] /\ rdone \in [Threads -> SUBSET Nat] /\ fwd \in [Threads -> Insts \cup {NoSnap}]
          /\ pc \in [Threads -> PCs] /\ mtx \in Threads \cup {Free}
      BY DEF IInv, TypeOK
    <2>1. CASE LmHeadNone(t)
      BY <2>0, <2>1 DEF LmHeadNone, resets, PCs
    <2>2. CASE ResetBegin(t)
      BY <2>0, <2>2 DEF ResetBegin, PCs
    <2>3. CASE ResetSkip(t)
      BY <2>0, <2>3 DEF ResetSkip
    <2>4. CASE ResetEnd(t)
      BY <2>0, <2>4 DEF ResetEnd, PCs
    <2> QED BY <2>1, <2>2, <2>3, <2>4
  <1>3. TypeOK'
    BY <1>1, <1>2 DEF IInv, TypeOK
  <1>4. \A u \in Threads : u # t => ThreadLocks(u)'
    <2> SUFFICES ASSUME NEW u \in Threads, u # t PROVE ThreadLocks(u)' OBVIOUS
    <2>1. pc'[u] = pc[u] /\ depth'[u] = depth[u] /\ snap'[u] = snap[u] /\ ri'[u] = ri[u]
      BY <1>1 DEF LmHeadNone, ResetBegin, ResetSkip, ResetEnd, resets, IInv, TypeOK
    <2>2. mtx = u => mtx' = u
      BY DEF LmHeadNone, ResetBegin, ResetSkip, ResetEnd, IInv, LocksHeld, ThreadLocks
    <2> QED BY <1>1, <2>1, <2>2, OthersKept
  <1>5. ThreadLocks(t)'
    <2>1. ThreadLocks(t) /\ pc[t] \in {"hidden", "idle", "reset"}
      BY DEF LmHeadNone, ResetBegin, ResetSkip, ResetEnd, IInv, LocksHeld
    <2>2. depth[t] = 0
      BY <2>1 DEF ThreadLocks, IInv, TypeOK
    <2>3. \/ pc'[t] = "idle"
          \/ pc'[t] = "reset" /\ mtx' = t /\ ri'[t] \in Nat \ {0}
      BY <2>1 DEF LmHeadNone, ResetBegin, ResetSkip, ResetEnd, IInv, TypeOK, ThreadLocks
    <2> QED BY <1>1, <2>2, <2>3 DEF ThreadLocks, Computing, Outer
  <1>6. InUse' = InUse
    BY <1>1 DEF InUse
  <1> QED BY <1>3, <1>4, <1>5, <1>6 DEF IInv, LocksHeld, PairsAgree

LEMMA ResetLockIInv ==
    ASSUME IInv, NEW t \in Threads, ResetLock(t)
    PROVE  IInv'
  <1> USE RouterAssumption
  <1> DEFINE m == entries[ri[t]].mtx
  <1>0. ThreadLocks(t) /\ pc[t] = "reset" /\ ri[t] <= Len(entries) /\ depth[t] \in {0, 1}
    BY DEF ResetLock, IInv, LocksHeld, TypeOK
  <1>1. ri[t] \in DOMAIN entries /\ mtx = t /\ depth[t] = 0
    BY <1>0 DEF ThreadLocks, IInv, TypeOK
  <1>2. m \in Mutexes
    BY <1>1, SnapTyped DEF IInv, TypeOK, Entry
  <1>3. /\ cmtx[m] = Free /\ cmtx' = [cmtx EXCEPT ![m] = t] /\ pc' = [pc EXCEPT ![t] = "resetting"]
        /\ UNCHANGED <<entries, strategy, rr, last_failed_id, lfw, lfRaced, mtx, depth, snap, failed,
                       ri, notOk, rdone, fwd>>
    BY DEF ResetLock, Acquire, registry, lastFailed, resets
  <1>4. TypeOK'
    <2> HIDE DEF m
    <2> QED BY <1>2, <1>3 DEF IInv, TypeOK, PCs
  <1>5. \A u \in Threads : u # t => ThreadLocks(u)'
    <2> SUFFICES ASSUME NEW u \in Threads, u # t PROVE ThreadLocks(u)' OBVIOUS
    <2>1. pc'[u] = pc[u]
      BY <1>3 DEF IInv, TypeOK
    <2>2. \A n \in Mutexes : cmtx[n] = u => cmtx'[n] = u
      <3> HIDE DEF m
      <3> QED BY <1>2, <1>3 DEF IInv, TypeOK
    <2> QED BY <1>3, <2>1, <2>2, OthersKept
  <1>6. ThreadLocks(t)'
    <2>1. cmtx'[entries[ri[t]].mtx] = t /\ pc'[t] = "resetting"
      BY <1>2, <1>3 DEF IInv, TypeOK
    <2> QED BY <1>1, <1>3, <2>1 DEF ThreadLocks, Computing, Outer
  <1>7. InUse' = InUse
    BY <1>3 DEF InUse
  <1> QED BY <1>4, <1>5, <1>6, <1>7 DEF IInv, LocksHeld, PairsAgree

LEMMA ResetRunIInv ==
    ASSUME IInv, NEW t \in Threads, ResetRun(t)
    PROVE  IInv'
  <1> USE RouterAssumption
  <1> DEFINE k == ri[t]
             m == entries[k].mtx
  <1>0. ThreadLocks(t) /\ pc[t] = "resetting" /\ depth[t] \in {0, 1}
    BY DEF ResetRun, IInv, LocksHeld, TypeOK
  <1>1. k \in DOMAIN entries /\ mtx = t /\ depth[t] = 0 /\ cmtx[m] = t
    BY <1>0 DEF ThreadLocks, IInv, TypeOK
  <1>2. entries \in Seq(Entry) /\ entries[k] \in Entry /\ m \in Mutexes
    BY <1>1, SnapTyped DEF IInv, TypeOK, Entry
  <1>3. /\ Release(m) /\ pc' = [pc EXCEPT ![t] = "reset"] /\ ri' = [ri EXCEPT ![t] = @ + 1]
        /\ UNCHANGED <<strategy, rr, last_failed_id, lfw, lfRaced, mtx, depth, snap, failed, fwd>>
    BY DEF ResetRun, lastFailed
  <1>4. /\ notOk' \subseteq Threads /\ rdone' \in [Threads -> SUBSET Nat]
    <2>1. rdone \in [Threads -> SUBSET Nat] /\ ri[t] \in Nat /\ notOk \subseteq Threads
      BY DEF IInv, TypeOK
    <2>2. [rdone EXCEPT ![t] = @ \cup {ri[t]}] \in [Threads -> SUBSET Nat]
      BY <2>1
    <2> QED BY <2>1, <2>2 DEF ResetRun, ResetOutcome
  <1>5. /\ entries' \in Seq(Entry) /\ Len(entries') = Len(entries)
        /\ \A i \in DOMAIN entries : /\ entries'[i].lat = entries[i].lat
                                     /\ entries'[i].inst = entries[i].inst
                                     /\ entries'[i].mtx = entries[i].mtx
    <2>1. CASE entries' = entries
      BY <2>1, <1>2
    <2>2. CASE entries' = [entries EXCEPT ![k].alive = FALSE]
      <3>1. [entries[k] EXCEPT !.alive = FALSE] \in Entry
        BY <1>2 DEF Entry
      <3> HIDE DEF k
      <3> QED BY <2>2, <3>1, <1>1, <1>2 DEF Entry
    <2> QED BY <2>1, <2>2 DEF ResetRun, ResetOutcome
  <1>6. DOMAIN entries' = DOMAIN entries
    BY <1>2, <1>5
  <1> HIDE DEF k, m
  <1>7. /\ cmtx' \in [Mutexes -> Threads \cup {Free}]
        /\ \A n \in Mutexes, u \in Threads : u # t /\ cmtx[n] = u => cmtx'[n] = u
    BY <1>1, <1>2, <1>3, ReleaseKeeps
  <1>8. TypeOK'
    <2>1. pc' \in [Threads -> PCs] /\ ri' \in [Threads -> Nat]
      BY <1>3 DEF IInv, TypeOK, PCs
    <2>2. \A i \in DOMAIN entries' : Len(entries'[i].lat) <= WINDOW_SIZE
      BY <1>5, <1>6 DEF IInv, TypeOK
    <2>3. entries' \in Seq(Entry)
      BY <1>5
    <2> QED BY <1>3, <1>4, <1>7, <2>1, <2>2, <2>3 DEF IInv, TypeOK
  <1>9. \A u \in Threads : u # t => ThreadLocks(u)'
    <2> SUFFICES ASSUME NEW u \in Threads, u # t PROVE ThreadLocks(u)' OBVIOUS
    <2>1. pc'[u] = pc[u] /\ ri'[u] = ri[u]
      BY <1>3 DEF IInv, TypeOK
    <2> QED BY <1>1, <1>3, <1>7, <2>1, OthersKept
  <1>10. ThreadLocks(t)'
    <2>1. pc'[t] = "reset" /\ ri'[t] \in Nat \ {0}
      BY <1>3 DEF IInv, TypeOK
    <2> QED BY <1>1, <1>3, <2>1 DEF ThreadLocks, Computing, Outer
  <1>11. PairsAgree'
    <2>1. \A a \in InUse' : a \in InUse \/ \E i \in DOMAIN entries : a = entries'[i]
      BY <1>3, <1>6 DEF InUse
    <2>2. \A i \in DOMAIN entries : entries[i] \in InUse
      BY DEF InUse
    <2> QED BY <2>1, <2>2, <1>5, PairsKept DEF IInv
  <1> QED BY <1>8, <1>9, <1>10, <1>11 DEF IInv, LocksHeld

\* A change of the registry happens while mtx_ is free, so no thread is inside
\* reset_all and no compute lock is described in terms of the entries.
LEMMA RegistryIInv ==
    ASSUME IInv, mtx = Free, entries' \in Seq(Entry),
           \A i \in DOMAIN entries' : Len(entries'[i].lat) <= WINDOW_SIZE,
           strategy' \in AllStrategies, PairsAgree',
           UNCHANGED <<rr, last_failed_id, lfw, lfRaced, mtx, cmtx, pc, depth, snap, failed,
                       ri, notOk, rdone, fwd>>
    PROVE  IInv'
  <1>1. TypeOK'
    BY DEF IInv, TypeOK
  <1>2. ASSUME NEW u \in Threads PROVE ThreadLocks(u)'
    <2>1. ThreadLocks(u) /\ pc[u] \notin {"reset", "resetting"}
      BY RouterAssumption DEF IInv, LocksHeld, ThreadLocks
    <2> QED BY <2>1 DEF ThreadLocks, Computing, Outer
  <1> QED BY <1>1, <1>2 DEF IInv, LocksHeld

LEMMA AddBackendIInv ==
    ASSUME IInv, NEW id \in Ids, NEW inst \in Insts, NEW s \in AllStrategies, add_backend(id, inst, s)
    PROVE  IInv'
  <1> USE RouterAssumption
  <1> DEFINE k == IndexOf(id)
  <1>1. /\ mtx = Free /\ inst \in FreshInsts /\ entries \in Seq(Entry)
        /\ UNCHANGED <<rr, last_failed_id, lfw, lfRaced, mtx, cmtx, pc, depth, snap, failed,
                       ri, notOk, rdone, fwd>>
    BY DEF add_backend, lastFailed, resets, IInv, TypeOK
  <1>2. \A a \in InUse : a.inst # inst
    BY <1>1 DEF FreshInsts
  <1>3. \A i \in DOMAIN entries : entries[i] \in InUse /\ entries[i] \in Entry
    BY <1>1 DEF InUse
  <1>4. \A a \in InUse' : a \in InUse \/ \E i \in DOMAIN entries' : a = entries'[i]
    BY <1>1 DEF InUse
  <1>5. CASE k # 0 /\ entries' = [entries EXCEPT ![k].inst = inst, ![k].alive = TRUE] /\ UNCHANGED strategy
    <2>1. k \in DOMAIN entries
      BY <1>1, <1>5, IndexInRange
    <2> HIDE DEF k
    <2> DEFINE e == [entries[k] EXCEPT !.inst = inst, !.alive = TRUE]
    <2>2. /\ e \in Entry /\ e.inst = inst /\ e.lat = entries[k].lat
      BY <2>1, <1>3 DEF Entry
    <2>3. entries' = [entries EXCEPT ![k] = e]
      BY <1>1, <1>5, <2>1
    <2> HIDE DEF e
    <2>4. /\ entries' \in Seq(Entry) /\ DOMAIN entries' = DOMAIN entries
          /\ \A i \in DOMAIN entries : entries'[i] = IF i = k THEN e ELSE entries[i]
      BY <1>1, <2>1, <2>2, <2>3
    <2>5. \A i \in DOMAIN entries' : Len(entries'[i].lat) <= WINDOW_SIZE
      BY <2>1, <2>2, <2>4 DEF IInv, TypeOK
    <2>6. \A a \in InUse' : a \in InUse \/ a = e
      BY <1>3, <1>4, <2>4
    <2>7. PairsAgree'
      BY <1>2, <2>2, <2>6 DEF PairsAgree, IInv
    <2> QED BY <1>1, <1>5, <2>4, <2>5, <2>7, RegistryIInv DEF IInv, TypeOK
  <1>6. ASSUME NEW m \in FreshMutexes,
               entries' = Append(entries, [id |-> id, inst |-> inst, mtx |-> m, alive |-> TRUE, lat |-> <<>>]),
               strategy' = s
        PROVE  IInv'
    <2> DEFINE e == [id |-> id, inst |-> inst, mtx |-> m, alive |-> TRUE, lat |-> <<>>]
    <2>1. m \in Mutexes
      BY DEF FreshMutexes
    <2>2. e \in Entry /\ e.inst = inst /\ Len(e.lat) <= WINDOW_SIZE
      BY <2>1 DEF Entry
    <2>3. entries' = Append(entries, e)
      BY <1>6
    <2> HIDE DEF e
    <2>4. /\ entries' \in Seq(Entry)
          /\ \A i \in DOMAIN entries' : entries'[i] = e \/ (i \in DOMAIN entries /\ entries'[i] = entries[i])
      BY <1>1, <2>2, <2>3
    <2>5. \A i \in DOMAIN entries' : Len(entries'[i].lat) <= WINDOW_SIZE
      BY <2>2, <2>4 DEF IInv, TypeOK
    <2>6. \A a \in InUse' : a \in InUse \/ a = e
      BY <1>3, <1>4, <2>4
    <2>7. PairsAgree'
      BY <1>2, <2>2, <2>6 DEF PairsAgree, IInv
    <2> QED BY <1>1, <1>6, <2>4, <2>5, <2>7, RegistryIInv
  <1> QED BY <1>5, <1>6 DEF add_backend

\* Removing one entry, or all of them, leaves only entries that were there.
LEMMA ShrinkIInv ==
    ASSUME IInv, mtx = Free,
           \/ \E id \in Ids : IndexOf(id) # 0 /\ entries' = Without(IndexOf(id))
           \/ entries' = <<>>
           \/ UNCHANGED entries,
           strategy' \in AllStrategies,
           UNCHANGED <<rr, last_failed_id, lfw, lfRaced, mtx, cmtx, pc, depth, snap, failed,
                       ri, notOk, rdone, fwd>>
    PROVE  IInv'
  <1>0. entries \in Seq(Entry) BY DEF IInv, TypeOK
  <1>1. /\ entries' \in Seq(Entry)
        /\ \A i \in DOMAIN entries' : \E j \in DOMAIN entries : entries'[i] = entries[j]
    <2>1. ASSUME NEW id \in Ids, IndexOf(id) # 0, entries' = Without(IndexOf(id))
          PROVE  /\ entries' \in Seq(Entry)
                 /\ \A i \in DOMAIN entries' : \E j \in DOMAIN entries : entries'[i] = entries[j]
      <3> DEFINE k == IndexOf(id)
      <3>1. k \in DOMAIN entries BY <1>0, <2>1, IndexInRange
      <3> HIDE DEF k
      <3>2. entries' = [i \in 1 .. (Len(entries) - 1) |-> IF i < k THEN entries[i] ELSE entries[i + 1]]
        BY <2>1 DEF Without, k
      <3>3. Len(entries) - 1 \in Nat
        BY <1>0, <3>1
      <3>4. \A i \in 1 .. (Len(entries) - 1) :
                i \in DOMAIN entries /\ i + 1 \in DOMAIN entries /\ entries[i] \in Entry /\ entries[i + 1] \in Entry
        BY <1>0, <3>3
      <3> QED BY <3>2, <3>3, <3>4
    <2>2. CASE entries' = <<>> BY <2>2
    <2>3. CASE UNCHANGED entries BY <2>3, <1>0
    <2> QED BY <2>1, <2>2, <2>3
  <1>2. \A i \in DOMAIN entries' : Len(entries'[i].lat) <= WINDOW_SIZE
    BY <1>1 DEF IInv, TypeOK
  <1>3. \A a \in InUse' : a \in InUse
    BY <1>1 DEF InUse
  <1>4. PairsAgree'
    BY <1>3, PairsKept DEF IInv
  <1> QED BY <1>1, <1>2, <1>4, RegistryIInv

\* IInv is inductive: one case per action of Next.
LEMMA NextIInv == IInv /\ [Next]_vars => IInv'
  <1> SUFFICES ASSUME IInv, [Next]_vars PROVE IInv' OBVIOUS
  <1> USE RouterAssumption
  <1>1. CASE Reload
    <2>1. ASSUME NEW id \in Ids, NEW inst \in Insts, add_backend(id, inst, RegistersAs(id))
          PROVE  IInv'
      <3>1. RegistersAs(id) \in AllStrategies
        BY DEF RegistersAs, AllStrategies
      <3> QED BY <2>1, <3>1, AddBackendIInv
    <2>2. ASSUME \E id \in Ids : remove_backend(id) PROVE IInv'
      BY <2>2, ShrinkIInv DEF remove_backend, lastFailed, resets, IInv, TypeOK
    <2>3. ASSUME clear PROVE IInv'
      BY <2>3, ShrinkIInv DEF clear, lastFailed, resets, IInv, TypeOK
    <2>4. ASSUME NEW s \in Chosen, set_strategy(s) PROVE IInv'
      BY <2>4, ShrinkIInv DEF set_strategy, lastFailed, resets
    <2> QED BY <1>1, <2>1, <2>2, <2>3, <2>4 DEF Reload
  <1>2. ASSUME NEW t \in Threads, generate(t) PROVE IInv'
    <2>1. CASE Pick(t, "idle", "lock") BY <2>1, PickIInv DEF PCs
    <2>2. CASE Lock(t, "lock", "compute") BY <2>2, LockIInv
    <2>3. CASE GenCompute(t) BY <2>3, GenComputeIInv
    <2>4. CASE GenRecord(t) BY <2>4, GenRecordIInv
    <2>5. CASE GenFailOver(t) \/ GenFailWritten(t) BY <2>5, LastFailedIInv
    <2>6. CASE GenDone(t) BY <2>6, GenDoneIInv
    <2>7. CASE GenRetryPick(t) BY <2>7, GenRetryPickIInv
    <2>8. CASE GenReturn(t) BY <2>8, FinishIInv
    <2> QED BY <1>2, <2>1, <2>2, <2>3, <2>4, <2>5, <2>6, <2>7, <2>8 DEF generate
  <1>3. ASSUME NEW t \in Threads, forward(t) \/ lm_head(t) PROVE IInv'
    <2>1. CASE Pick(t, "idle", "fwd_lock") \/ Pick(t, "hidden", "lm_lock") BY <2>1, PickIInv DEF PCs
    <2>2. CASE Lock(t, "fwd_lock", "fwd_compute") \/ Lock(t, "lm_lock", "lm_compute") BY <2>2, LockIInv
    <2>3. CASE ForwardRun(t) \/ LmHeadRun(t) BY <2>3, FinishIInv
    <2>4. CASE LmHeadNone(t) BY <2>4, ControlIInv
    <2> QED BY <1>3, <2>1, <2>2, <2>3, <2>4 DEF forward, lm_head
  <1>4. ASSUME NEW t \in Threads, reset_all(t) PROVE IInv'
    BY <1>4, ControlIInv, ResetLockIInv, ResetRunIInv DEF reset_all
  <1>5. CASE UNCHANGED vars
    BY <1>5 DEF vars, IInv, TypeOK, LocksHeld, ThreadLocks, Computing, Outer, PairsAgree, InUse
  <1> QED BY <1>1, <1>2, <1>3, <1>4, <1>5 DEF Next

\* Every variable of the router keeps its type, and no latency window outgrows
\* WINDOW_SIZE (record_latency), for any number of threads and backends.
THEOREM TypeCorrect == Spec => []TypeOK
  <1>1. IInv => TypeOK BY DEF IInv
  <1> QED BY <1>1, InitIInv, NextIInv, PTL DEF Spec

\* Two threads never execute in the same Backend object (#1345), although
\* mtx_ is released during inference and a reload may replace, remove and
\* re-register entries while a snapshot of the old one is still computing.
THEOREM InstanceExclusion == Spec => []InstanceExclusive
  <1>1. IInv => InstanceExclusive
    <2> SUFFICES ASSUME IInv, NEW t \in Threads, NEW u \in Threads, t # u,
                        NEW b \in UsedBy(t), b \in UsedBy(u)
                 PROVE  FALSE
      BY DEF InstanceExclusive
    <2>1. ASSUME NEW w \in Threads, b \in UsedBy(w)
          PROVE  \E a \in InUse : a.inst = b /\ cmtx[a.mtx] = w
      <3>0. ThreadLocks(w) /\ depth[w] \in {0, 1} BY DEF IInv, LocksHeld, TypeOK
      <3>1. CASE pc[w] \in {"compute", "fwd_compute", "lm_compute"}
        <4> DEFINE a == snap[w][depth[w]]
        <4>1. a \in Snap /\ cmtx[a.mtx] = w BY <3>0, <3>1 DEF ThreadLocks, Computing
        <4>2. a \in InUse BY <3>0, <4>1, RouterAssumption DEF InUse, Snap
        <4>3. a.inst = b BY <2>1, <3>1 DEF UsedBy
        <4> QED BY <4>1, <4>2, <4>3
      <3>2. CASE pc[w] = "resetting"
        <4>1. ri[w] \in DOMAIN entries /\ cmtx[entries[ri[w]].mtx] = w BY <3>0, <3>2 DEF ThreadLocks
        <4> QED BY <2>1, <3>2, <4>1 DEF UsedBy, InUse
      <3> QED BY <2>1, <3>1, <3>2 DEF UsedBy
    <2>2. PICK a1 \in InUse : a1.inst = b /\ cmtx[a1.mtx] = t BY <2>1
    <2>3. PICK a2 \in InUse : a2.inst = b /\ cmtx[a2.mtx] = u BY <2>1
    <2> QED BY <2>2, <2>3 DEF IInv, PairsAgree
  <1> QED BY <1>1, InitIInv, NextIInv, PTL DEF Spec

-----------------------------------------------------------------------------
(* What reset_all() means, also when a reset() throws.                     *)

InReset(t) == pc[t] \in {"reset", "resetting"}

\* Up to its position, and unless it has seen a false, reset_all has reset
\* every entry or retired it.
ResetReach ==
    \A t \in Threads :
        /\ InReset(t) /\ t \notin notOk =>
              \A i \in 1 .. (ri[t] - 1) : i \in DOMAIN entries => i \in rdone[t] \/ ~entries[i].alive
        /\ ~InReset(t) => t \notin notOk

\* The entries are the same but for their latencies.
SameEntries ==
    /\ entries' \in Seq(Entry) /\ Len(entries') = Len(entries) /\ DOMAIN entries' = DOMAIN entries
    /\ \A i \in DOMAIN entries : /\ entries'[i].id = entries[i].id /\ entries'[i].inst = entries[i].inst
                                 /\ entries'[i].mtx = entries[i].mtx /\ entries'[i].alive = entries[i].alive

LEMMA RecordSame ==
    ASSUME IInv, NEW t \in Threads, GenRecord(t) PROVE SameEntries
  <1> DEFINE k == IndexOf(snap[t][depth[t]].id)
  <1>0. entries \in Seq(Entry) /\ k \in DOMAIN entries \cup {0}
    BY IndexInRange DEF IInv, TypeOK
  <1> HIDE DEF k
  <1>1. CASE entries' = entries
    BY <1>0, <1>1 DEF SameEntries
  <1>2. ASSUME NEW ms \in Latencies, k # 0, entries' = [entries EXCEPT ![k].lat = Recorded(@, ms)]
        PROVE  SameEntries
    <2>1. k \in DOMAIN entries /\ entries[k] \in Entry
      BY <1>0, <1>2
    <2>2. entries[k].lat \in Seq(Latencies) /\ Len(entries[k].lat) <= WINDOW_SIZE
      BY <2>1 DEF IInv, TypeOK, Entry
    <2> DEFINE w == Recorded(entries[k].lat, ms)
               e == [entries[k] EXCEPT !.lat = w]
    <2>3. w \in Seq(Latencies)
      BY <2>2, RecordedTyped
    <2> HIDE DEF w
    <2>4. /\ e \in Entry /\ e.id = entries[k].id /\ e.inst = entries[k].inst
          /\ e.mtx = entries[k].mtx /\ e.alive = entries[k].alive
      BY <2>1, <2>3 DEF Entry
    <2>5. entries' = [entries EXCEPT ![k] = e]
      BY <1>0, <1>2, <2>1 DEF w
    <2> HIDE DEF e
    <2> QED BY <1>0, <2>1, <2>4, <2>5 DEF SameEntries
  <1> QED BY <1>1, <1>2 DEF GenRecord, k

\* The steps of generate, forward and lm_head leave reset_all alone.
LEMMA CallKeeps ==
    ASSUME IInv, NEW t \in Threads, generate(t) \/ forward(t) \/ lm_head(t)
    PROVE  /\ UNCHANGED <<strategy, mtx, ri, notOk, rdone>> /\ SameEntries
           /\ ~InReset(t) /\ ~InReset(t)' /\ \A u \in Threads : u # t => pc'[u] = pc[u]
  <1>0. pc \in [Threads -> PCs] /\ entries \in Seq(Entry)
    BY DEF IInv, TypeOK
  <1>1. UNCHANGED <<strategy, mtx, ri, notOk, rdone>> /\ (GenRecord(t) \/ UNCHANGED entries)
    <2>1. CASE generate(t)
      BY <2>1 DEF generate, Pick, Lock, GenCompute, GenRecord, GenFailOver, GenDone, GenFailWritten,
                  GenRetryPick, GenReturn, registry, resets
    <2>2. CASE forward(t) \/ lm_head(t)
      BY <2>2 DEF forward, lm_head, Pick, Lock, ForwardRun, LmHeadRun, LmHeadNone, registry, resets
    <2> QED BY <2>1, <2>2
  <1>2. SameEntries
    BY <1>0, <1>1, RecordSame DEF SameEntries
  <1>3. /\ pc[t] \notin {"reset", "resetting"}
        /\ \E to \in PCs \ {"reset", "resetting"} : pc' = [pc EXCEPT ![t] = to]
    BY DEF generate, forward, lm_head, Pick, Lock, GenCompute, GenRecord, GenFailOver, GenDone, GenFailWritten,
           GenRetryPick, GenReturn, ForwardRun, LmHeadRun, LmHeadNone, PCs
  <1> QED BY <1>0, <1>1, <1>2, <1>3 DEF InReset

\* A thread is inside reset_all alone, and the registry stands still.
LEMMA AloneInReset ==
    ASSUME IInv, NEW t \in Threads, InReset(t)
    PROVE  mtx = t /\ \A u \in Threads : u # t => ~InReset(u)
  BY DEF IInv, LocksHeld, ThreadLocks, InReset

LEMMA ResetStepReach ==
    ASSUME IInv, ResetReach, NEW t \in Threads, reset_all(t) PROVE ResetReach'
  <1> USE RouterAssumption
  <1>0. /\ entries \in Seq(Entry) /\ pc \in [Threads -> PCs] /\ ri \in [Threads -> Nat]
        /\ rdone \in [Threads -> SUBSET Nat] /\ notOk \subseteq Threads
    BY DEF IInv, TypeOK
  <1>1. \A u \in Threads : u # t => /\ pc'[u] = pc[u] /\ ri'[u] = ri[u] /\ rdone'[u] = rdone[u]
                                    /\ (u \in notOk' <=> u \in notOk)
    BY <1>0 DEF reset_all, ResetBegin, ResetSkip, ResetLock, ResetRun, ResetOutcome, ResetEnd, resets
  <1>2. \A u \in Threads : u # t => ~InReset(u)
    <2>1. CASE ResetBegin(t)
      <3>1. mtx = Free
        BY <2>1 DEF ResetBegin
      <3> QED BY <3>1, AloneInReset
    <2>2. CASE ~ResetBegin(t)
      <3>1. InReset(t)
        BY <2>2 DEF reset_all, ResetSkip, ResetLock, ResetRun, ResetEnd, InReset
      <3> QED BY <3>1, AloneInReset
    <2> QED BY <2>1, <2>2
  <1>3. \A u \in Threads : u # t => ~InReset(u)' /\ u \notin notOk'
    BY <1>1, <1>2 DEF InReset, ResetReach
  <1>4. /\ InReset(t)' /\ t \notin notOk' =>
              \A i \in 1 .. (ri'[t] - 1) : i \in DOMAIN entries' => i \in rdone'[t] \/ ~entries'[i].alive
        /\ ~InReset(t)' => t \notin notOk'
    <2>1. CASE ResetBegin(t)
      <3>1. ri'[t] = 1 /\ pc'[t] = "reset" /\ pc[t] = "idle" /\ notOk' = notOk
        BY <1>0, <2>1 DEF ResetBegin
      <3>2. 1 .. (ri'[t] - 1) = {}
        BY <3>1
      <3> QED BY <3>1, <3>2 DEF InReset
    <2>2. CASE ResetSkip(t)
      <3>1. /\ UNCHANGED <<entries, rdone, notOk, pc>> /\ pc[t] = "reset" /\ ri'[t] = ri[t] + 1
            /\ ~entries[ri[t]].alive
        BY <1>0, <2>2 DEF ResetSkip, registry
      <3>2. \A i \in 1 .. (ri'[t] - 1) : i \in 1 .. (ri[t] - 1) \/ i = ri[t]
        BY <1>0, <3>1
      <3> QED BY <3>1, <3>2 DEF InReset, ResetReach
    <2>3. CASE ResetLock(t)
      <3>1. UNCHANGED <<entries, rdone, notOk, ri>> /\ pc[t] = "reset" /\ pc'[t] = "resetting"
        BY <1>0, <2>3 DEF ResetLock, registry, resets
      <3> QED BY <3>1 DEF InReset, ResetReach
    <2>4. CASE ResetRun(t)
      <3>1. /\ pc[t] = "resetting" /\ pc'[t] = "reset" /\ ri'[t] = ri[t] + 1 /\ ri[t] \in DOMAIN entries
            /\ InReset(t) /\ InReset(t)'
        BY <1>0, <2>4 DEF ResetRun, InReset, IInv, LocksHeld, ThreadLocks
      <3>2. \A i \in 1 .. (ri'[t] - 1) : i \in 1 .. (ri[t] - 1) \/ i = ri[t]
        BY <1>0, <3>1
      <3>3. CASE rdone' = [rdone EXCEPT ![t] = @ \cup {ri[t]}] /\ UNCHANGED <<notOk, entries>>
        <4>1. rdone'[t] = rdone[t] \cup {ri[t]} /\ entries' = entries /\ notOk' = notOk
          BY <1>0, <3>3
        <4> QED BY <3>1, <3>2, <4>1 DEF ResetReach
      <3>4. CASE notOk' = notOk \cup {t}
        BY <3>1, <3>4
      <3>5. CASE entries' = [entries EXCEPT ![ri[t]].alive = FALSE] /\ UNCHANGED <<notOk, rdone>>
        <4>1. /\ entries[ri[t]] \in Entry /\ DOMAIN entries' = DOMAIN entries
              /\ \A i \in DOMAIN entries : i # ri[t] => entries'[i] = entries[i]
          BY <1>0, <3>1, <3>5
        <4>2. entries'[ri[t]] = [entries[ri[t]] EXCEPT !.alive = FALSE]
          BY <1>0, <3>1, <3>5
        <4>3. ~entries'[ri[t]].alive
          BY <4>1, <4>2 DEF Entry
        <4> QED BY <3>1, <3>2, <3>5, <4>1, <4>3 DEF ResetReach
      <3> QED BY <2>4, <3>3, <3>4, <3>5 DEF ResetRun, ResetOutcome
    <2>5. CASE ResetEnd(t)
      <3>1. pc'[t] = "idle" /\ t \notin notOk'
        BY <1>0, <2>5 DEF ResetEnd
      <3> QED BY <3>1 DEF InReset
    <2> QED BY <2>1, <2>2, <2>3, <2>4, <2>5 DEF reset_all
  <1> QED BY <1>3, <1>4 DEF ResetReach, InReset

LEMMA ResetReachNext ==
    ASSUME IInv, ResetReach, [Next]_vars PROVE ResetReach'
  <1> USE RouterAssumption
  <1>1. CASE Reload
    <2>1. mtx = Free /\ UNCHANGED <<pc, ri, notOk, rdone>>
      BY <1>1 DEF Reload, add_backend, remove_backend, clear, set_strategy, resets
    <2>2. \A t \in Threads : ~InReset(t)
      BY <2>1, AloneInReset
    <2> QED BY <2>1, <2>2 DEF ResetReach, InReset
  <1>2. ASSUME NEW t \in Threads, generate(t) \/ forward(t) \/ lm_head(t) PROVE ResetReach'
    <2>1. /\ UNCHANGED <<strategy, mtx, ri, notOk, rdone>> /\ SameEntries
          /\ ~InReset(t) /\ ~InReset(t)' /\ \A u \in Threads : u # t => pc'[u] = pc[u]
      BY <1>2, CallKeeps
    <2>2. \A u \in Threads : InReset(u)' <=> InReset(u)
      BY <2>1 DEF InReset
    <2> QED BY <2>1, <2>2 DEF ResetReach, SameEntries
  <1>3. ASSUME NEW t \in Threads, reset_all(t) PROVE ResetReach'
    BY <1>3, ResetStepReach
  <1>4. CASE UNCHANGED vars
    BY <1>4 DEF vars, ResetReach, InReset
  <1> QED BY <1>1, <1>2, <1>3, <1>4 DEF Next

\* When reset_all() returns true, the reset() of every registered backend has
\* succeeded, or it threw and the entry is retired, however many threads
\* generate, add and remove entries meanwhile.
THEOREM ResetReachesAll == Spec => []ResetMeansAll
  <1>1. Init => ResetReach
    BY DEF Init, ResetReach, InReset
  <1>2. IInv /\ ResetReach /\ [Next]_vars => ResetReach'
    BY ResetReachNext
  <1>3. IInv /\ ResetReach => ResetMeansAll
    <2> SUFFICES ASSUME IInv, ResetReach, NEW t \in Threads, ResetOk(t), NEW i \in DOMAIN entries
                 PROVE  i \in rdone[t] \/ ~entries[i].alive
      BY DEF ResetMeansAll
    <2>1. ri[t] \in Nat /\ entries \in Seq(Entry) /\ ri[t] > Len(entries)
      BY DEF IInv, TypeOK, ResetOk
    <2>2. i \in 1 .. (ri[t] - 1)
      BY <2>1
    <2> QED BY <2>2 DEF ResetReach, InReset, ResetOk
  <1> QED BY <1>1, <1>2, <1>3, InitIInv, NextIInv, PTL DEF Spec
-----------------------------------------------------------------------------
(* What init_in_order registers, when set_strategy is never called: one    *)
(* accelerator and one CPU backend at most, and of two entries the second  *)
(* has set the strategy.                                                   *)

Lanes ==
    /\ Len(entries) <= 2
    /\ Len(entries) = 2 =>
          /\ entries[1].id \in CpuIds <=> entries[2].id \notin CpuIds
          /\ strategy = RegistersAs(entries[2].id)

\* No two entries have one id or one mutex.
Distinct ==
    \A i, j \in DOMAIN entries :
        entries[i].id = entries[j].id \/ entries[i].mtx = entries[j].mtx => i = j

\* The entries are the same but for latencies and liveness.
SameLanes ==
    /\ Len(entries') = Len(entries) /\ DOMAIN entries' = DOMAIN entries /\ strategy' = strategy
    /\ \A i \in DOMAIN entries : entries'[i].id = entries[i].id /\ entries'[i].mtx = entries[i].mtx

LEMMA LanesKept ==
    ASSUME entries \in Seq(Entry), Lanes, Distinct, SameLanes PROVE Lanes' /\ Distinct'
  <1>1. Len(entries) = 2 => 1 \in DOMAIN entries /\ 2 \in DOMAIN entries
    OBVIOUS
  <1>2. Lanes'
    BY <1>1 DEF Lanes, SameLanes
  <1> QED BY <1>2 DEF Distinct, SameLanes

\* What add_backend does to ids and mutexes.
LEMMA AddLane ==
    ASSUME IInv, Lanes, Distinct, NEW id \in Ids, NEW inst \in Insts, LaneFree(id),
           add_backend(id, inst, RegistersAs(id))
    PROVE  Lanes' /\ Distinct'
  <1> DEFINE k == IndexOf(id)
  <1>0. entries \in Seq(Entry)
    BY DEF IInv, TypeOK
  <1>1. CASE k # 0 /\ entries' = [entries EXCEPT ![k].inst = inst, ![k].alive = TRUE] /\ UNCHANGED strategy
    <2>1. k \in DOMAIN entries
      BY <1>0, <1>1, IndexInRange
    <2> HIDE DEF k
    <2> DEFINE d == [entries[k] EXCEPT !.inst = inst]
               e == [d EXCEPT !.alive = TRUE]
    <2>2. entries[k] \in Entry
      BY <1>0, <2>1
    <2>3. d \in Entry /\ d.id = entries[k].id /\ d.mtx = entries[k].mtx
      BY <2>2 DEF Entry
    <2>4. entries' = [entries EXCEPT ![k] = e]
      BY <1>0, <1>1, <2>1
    <2> HIDE DEF d
    <2>5. e.id = entries[k].id /\ e.mtx = entries[k].mtx
      BY <2>3 DEF Entry
    <2> HIDE DEF e
    <2>6. /\ DOMAIN entries' = DOMAIN entries /\ Len(entries') = Len(entries) /\ entries'[k] = e
          /\ \A i \in DOMAIN entries : i # k => entries'[i] = entries[i]
      BY <1>0, <2>1, <2>4
    <2>7. SameLanes
      BY <1>1, <2>5, <2>6 DEF SameLanes
    <2> QED BY <1>0, <2>7, LanesKept
  <1>2. ASSUME k = 0, NEW m \in FreshMutexes, strategy' = RegistersAs(id),
               entries' = Append(entries, [id |-> id, inst |-> inst, mtx |-> m, alive |-> TRUE, lat |-> <<>>])
        PROVE  Lanes' /\ Distinct'
    <2> DEFINE e == [id |-> id, inst |-> inst, mtx |-> m, alive |-> TRUE, lat |-> <<>>]
               n == Len(entries)
    <2>1. e.id = id /\ e.mtx = m
      OBVIOUS
    <2>2. \A i \in DOMAIN entries : entries[i].id # id
      <3> DEFINE T == {i \in DOMAIN entries : entries[i].id = id}
      <3>1. T \in SUBSET Nat /\ 0 \notin T
        BY <1>0
      <3>2. T # {} => FirstOf(T) \in T
        BY <3>1, FirstOfIn
      <3>3. FirstOf(T) = 0
        BY <1>2 DEF IndexOf
      <3>4. T = {}
        BY <3>1, <3>2, <3>3
      <3> QED BY <3>4
    <2>3. \A i \in DOMAIN entries : entries[i].mtx # m
      BY DEF FreshMutexes, InUse
    <2> HIDE DEF e
    <2>4. entries' = Append(entries, e)
      BY <1>2 DEF e
    <2>5. /\ DOMAIN entries' = DOMAIN entries \cup {n + 1} /\ entries'[n + 1] = e /\ Len(entries') = n + 1
          /\ \A i \in DOMAIN entries : entries'[i] = entries[i]
          /\ n \in Nat /\ DOMAIN entries = 1 .. n
      BY <1>0, <2>4
    <2>6. \A i \in DOMAIN entries : entries[i].id \in CpuIds <=> id \notin CpuIds
      BY <2>2 DEF LaneFree
    <2> HIDE DEF n
    <2>7. n < 2
      <3>1. n <= 2
        BY DEF Lanes, n
      <3>2. n # 2
        <4> SUFFICES ASSUME n = 2 PROVE FALSE
          OBVIOUS
        <4>1. 1 \in DOMAIN entries /\ 2 \in DOMAIN entries
          BY <2>5
        <4>2. entries[1].id \in CpuIds <=> entries[2].id \notin CpuIds
          BY DEF Lanes, n
        <4> QED BY <2>6, <4>1, <4>2
      <3> QED BY <2>5, <3>1, <3>2
    <2>8. Lanes'
      <3>1. Len(entries') <= 2 /\ (Len(entries') = 2 => n = 1)
        BY <2>5, <2>7
      <3>2. n = 1 => /\ entries'[1] = entries[1] /\ entries'[2] = e
                     /\ entries[1].id \in CpuIds <=> id \notin CpuIds
        BY <2>5, <2>6
      <3> QED BY <1>2, <2>1, <3>1, <3>2 DEF Lanes, RegistersAs
    <2>9. Distinct'
      <3>1. \A i \in DOMAIN entries' : i \in DOMAIN entries \/ i = n + 1
        BY <2>5
      <3> QED BY <2>1, <2>2, <2>3, <2>5, <3>1 DEF Distinct
    <2> QED BY <2>8, <2>9
  <1> QED BY <1>1, <1>2 DEF add_backend

LEMMA ReloadLanes ==
    ASSUME Chosen = {}, IInv, Lanes, Distinct, Reload PROVE Lanes' /\ Distinct'
  <1>0. entries \in Seq(Entry)
    BY DEF IInv, TypeOK
  <1>1. ASSUME NEW id \in Ids, NEW inst \in Insts, LaneFree(id), add_backend(id, inst, RegistersAs(id))
        PROVE  Lanes' /\ Distinct'
    BY <1>1, AddLane
  <1>2. ASSUME NEW id \in Ids, remove_backend(id) PROVE Lanes' /\ Distinct'
    <2> DEFINE k == IndexOf(id)
               n == Len(entries)
               old(i) == IF i < k THEN i ELSE i + 1
    <2>1. entries' = Without(k) /\ k \in Nat /\ k # 0 /\ k \in DOMAIN entries
      BY <1>0, <1>2, IndexInRange DEF remove_backend
    <2> HIDE DEF k
    <2>2. DOMAIN entries' = 1 .. (n - 1) /\ \A i \in 1 .. (n - 1) : entries'[i] = entries[old(i)]
      BY <2>1 DEF Without
    <2>3. \A i \in 1 .. (n - 1) : old(i) \in DOMAIN entries
      BY <1>0, <2>1
    <2>4. \A i, j \in 1 .. (n - 1) : old(i) = old(j) => i = j
      BY <1>0, <2>1
    <2>5. Len(entries') = n - 1
      <3>1. n - 1 \in Nat
        BY <1>0, <2>1
      <3>2. entries' \in Seq(Entry)
        BY <1>0, <2>2, <2>3, <3>1, <2>1 DEF Without
      <3> QED BY <2>2, <3>1, <3>2
    <2>6. Len(entries) <= 2 /\ Len(entries) \in Nat
      BY <1>0 DEF Lanes
    <2>7. Lanes'
      <3>1. Len(entries') \in Int /\ Len(entries') <= 1
        BY <2>5, <2>6
      <3> QED BY <3>1 DEF Lanes
    <2> HIDE DEF old
    <2>8. Distinct'
      BY <2>2, <2>3, <2>4 DEF Distinct
    <2> QED BY <2>7, <2>8
  <1>3. CASE clear
    <2>1. entries' = <<>> /\ Len(entries') = 0 /\ DOMAIN entries' = {}
      BY <1>3 DEF clear
    <2> QED BY <2>1 DEF Lanes, Distinct
  <1> QED BY <1>1, <1>2, <1>3 DEF Reload

\* reset_all() retires entries at most.
LEMMA ResetLanes ==
    ASSUME IInv, NEW t \in Threads, reset_all(t) PROVE SameLanes
  <1>0. entries \in Seq(Entry)
    BY DEF IInv, TypeOK
  <1>1. \/ UNCHANGED entries
        \/ ri[t] \in DOMAIN entries /\ entries' = [entries EXCEPT ![ri[t]].alive = FALSE]
    BY DEF reset_all, ResetBegin, ResetSkip, ResetLock, ResetRun, ResetOutcome, ResetEnd, registry,
                IInv, LocksHeld, ThreadLocks
  <1>2. strategy' = strategy
    BY DEF reset_all, ResetBegin, ResetSkip, ResetLock, ResetRun, ResetEnd, registry
  <1>3. CASE UNCHANGED entries
    BY <1>2, <1>3 DEF SameLanes
  <1>4. CASE ri[t] \in DOMAIN entries /\ entries' = [entries EXCEPT ![ri[t]].alive = FALSE]
    <2> DEFINE k == ri[t]
               e == [entries[k] EXCEPT !.alive = FALSE]
    <2>1. k \in DOMAIN entries /\ entries[k] \in Entry
      BY <1>0, <1>4
    <2> HIDE DEF k
    <2>2. e.id = entries[k].id /\ e.mtx = entries[k].mtx
      BY <2>1 DEF Entry
    <2>3. entries' = [entries EXCEPT ![k] = e]
      BY <1>0, <1>4, <2>1 DEF k
    <2> HIDE DEF e
    <2>4. /\ DOMAIN entries' = DOMAIN entries /\ Len(entries') = Len(entries)
          /\ \A i \in DOMAIN entries : entries'[i] = IF i = k THEN e ELSE entries[i]
      BY <1>0, <2>1, <2>3
    <2> QED BY <1>2, <2>2, <2>4 DEF SameLanes
  <1> QED BY <1>1, <1>3, <1>4

LEMMA LanesNext ==
    ASSUME Chosen = {}, IInv, Lanes, Distinct, [Next]_vars PROVE Lanes' /\ Distinct'
  <1>0. entries \in Seq(Entry)
    BY DEF IInv, TypeOK
  <1>1. CASE Reload
    BY <1>1, ReloadLanes
  <1>2. ASSUME NEW t \in Threads, generate(t) \/ forward(t) \/ lm_head(t) PROVE SameLanes
    BY <1>2, CallKeeps DEF SameLanes, SameEntries
  <1>3. ASSUME NEW t \in Threads, reset_all(t) PROVE SameLanes
    BY <1>3, ResetLanes
  <1>4. CASE UNCHANGED vars
    <2>1. entries' = entries /\ strategy' = strategy
      BY <1>4 DEF vars
    <2>2. Lanes'
      BY <2>1 DEF Lanes, RegistersAs
    <2> QED BY <2>1, <2>2 DEF Distinct
  <1> QED BY <1>0, <1>1, <1>2, <1>3, <1>4, LanesKept DEF Next

\* With a 4:1 cycle, the backend that has set the strategy is the second entry
\* and gets the first four turns; the failed one is never chosen again.
LEMMA MainTurn ==
    ASSUME IInv, Lanes, Distinct, Cycling
    PROVE  /\ Len(entries) = 2 /\ 1 \in DOMAIN entries /\ 2 \in DOMAIN entries
           /\ rr < 4 => pick_backend = 2 /\ pick_backend_excluding(entries[1].id) = 2
           /\ pick_backend_excluding(entries[2].id) = 1
  <1> USE RouterAssumption
  <1> DEFINE a == entries[1].id
             b == entries[2].id
             S(x) == {i \in DOMAIN entries : entries[i].id \in Wanted /\ entries[i].id # x}
  <1>0. entries \in Seq(Entry) /\ rr \in 0 .. 4
    BY DEF IInv, TypeOK
  <1>1. Len(entries) = 2
    <2> DEFINE n == Len(entries)
    <2>1. n \in Nat /\ n <= 2 /\ n > 1
      BY <1>0 DEF Lanes, Cycling
    <2> HIDE DEF n
    <2>2. n = 2
      BY <2>1
    <2> QED BY <2>2 DEF n
  <1>2. DOMAIN entries = {1, 2} /\ entries[1] \in Entry /\ entries[2] \in Entry /\ entries # <<>>
    BY <1>0, <1>1
  <1>3. a \in Ids /\ b \in Ids /\ a # b /\ a # NoId /\ b # NoId
    BY <1>2 DEF Entry, Distinct
  <1>4. strategy = RegistersAs(b) /\ strategy \in {"GPU_BACKFILL", "NPU_BACKFILL"}
    BY <1>1 DEF Lanes, Cycling
  <1>5. \/ strategy = "NPU_BACKFILL" /\ b \in NpuIds
        \/ strategy = "GPU_BACKFILL" /\ b \in GpuIds
    BY <1>4 DEF RegistersAs
  <1>6. a \notin GpuIds /\ a \notin NpuIds
    BY <1>1, <1>5 DEF Lanes
  <1>7. rr < 4 => b \in Wanted
    BY <1>5, Zenon DEF Wanted
  <1>8. a \notin Wanted
    BY <1>4, <1>6, Zenon DEF Wanted
  <1> HIDE DEF a, b
  <1>9. \A x : ByStrategy(x) = FirstOf(S(x))
    BY <1>4 DEF ByStrategy
  <1>10. \A x : S(x) = IF b \in Wanted /\ b # x THEN {2} ELSE {}
    BY <1>2, <1>8 DEF a, b
  <1> HIDE DEF S
  <1>11. FirstOf({2}) = 2 /\ FirstOf({}) = 0
    <2>1. FirstOf({2}) \in {2}
      BY FirstOfIn
    <2> QED BY <2>1 DEF FirstOf
  <1>12. \A x : ByStrategy(x) = IF b \in Wanted /\ b # x THEN 2 ELSE 0
    BY <1>9, <1>10, <1>11, Zenon
  <1>13. entries # <<>> /\ Len(entries) # 1
    BY <1>1, <1>2
  <1>14. rr < 4 => pick_backend = 2 /\ pick_backend_excluding(a) = 2
    <2> SUFFICES ASSUME rr < 4 PROVE pick_backend = 2 /\ pick_backend_excluding(a) = 2
      OBVIOUS
    <2>1. ByStrategy(NoId) = 2 /\ ByStrategy(a) = 2
      BY <1>3, <1>7, <1>12
    <2>2. 2 # 0
      OBVIOUS
    <2> QED BY <1>13, <2>1, <2>2, Zenon DEF pick_backend, pick_backend_excluding
  <1>15. pick_backend_excluding(b) = 1
    <2>1. ByStrategy(b) = 0
      BY <1>12
    <2> QED BY <1>13, <2>1, Zenon DEF pick_backend_excluding
  <1> QED BY <1>1, <1>2, <1>14, <1>15 DEF a, b
-----------------------------------------------------------------------------
(* One caller at a time: unified_server calls the router only under        *)
(* g_inference_mutex, and reloads under it too.                            *)

OneCaller == QuietReload /\ \A t, u \in Threads : t = u

\* forward() took the backend that every pick takes: with a 4:1 cycle the
\* second entry, unless its pick was the fifth of the cycle.
Chose(inst) ==
    IF Cycling THEN rr # 0 => inst = entries[2].inst
    ELSE pick_backend \in DOMAIN entries /\ inst = entries[pick_backend].inst

ChoiceAt(t) ==
    /\ pc[t] \in {"fwd_lock", "fwd_compute"} => Chose(snap[t][0].inst)
    /\ pc[t] = "hidden" => Chose(fwd[t])
    /\ pc[t] \in {"lm_lock", "lm_compute"} => AtSeam \/ snap[t][0].inst = fwd[t]

SameChoice == Lanes /\ Distinct /\ \A t \in Threads : ChoiceAt(t)

\* Without a 4:1 cycle the choice depends on the entries alone.
LEMMA PickStable ==
    ASSUME entries \in Seq(Entry), ~Cycling, UNCHANGED <<entries, strategy>>
    PROVE  pick_backend' = pick_backend
  <1>1. CASE strategy \notin {"GPU_BACKFILL", "NPU_BACKFILL"}
    <2>1. Fastest(NoId)' = Fastest(NoId)
      BY DEF Fastest
    <2>2. Wanted' = Wanted
      BY <1>1, Zenon DEF Wanted
    <2>3. ByStrategy(NoId)' = ByStrategy(NoId)
      BY <2>1, <2>2 DEF ByStrategy
    <2> QED BY <2>3, Zenon DEF pick_backend
  <1>2. CASE ~(Len(entries) > 1)
    <2> DEFINE n == Len(entries)
    <2>1. n \in Nat /\ ~(n > 1) /\ (n = 0 <=> entries = <<>>)
      BY <1>2
    <2> HIDE DEF n
    <2>2. n = 0 \/ n = 1
      BY <2>1
    <2>4. CASE n = 0
      <3>1. entries = <<>> /\ Len(entries) # 1 /\ entries' = <<>> /\ Len(entries') # 1
        BY <2>1, <2>4 DEF n
      <3>2. pick_backend = 0
        BY <3>1, Zenon DEF pick_backend
      <3>3. pick_backend' = 0
        BY <3>1, Zenon DEF pick_backend
      <3> QED BY <3>2, <3>3
    <2>5. CASE n = 1
      BY <2>1, <2>5, Zenon DEF pick_backend, n
    <2> QED BY <2>2, <2>4, <2>5
  <1> QED BY <1>1, <1>2 DEF Cycling

\* The steps between two picks leave the choice alone.
LEMMA ChoseKept ==
    ASSUME entries \in Seq(Entry), UNCHANGED <<entries, strategy, rr>>
    PROVE  /\ Cycling' = Cycling /\ AtSeam' = AtSeam
           /\ \A inst : Chose(inst) => Chose(inst)'
  <1>1. Cycling' = Cycling
    BY DEF Cycling
  <1>2. AtSeam' = AtSeam
    BY <1>1 DEF AtSeam
  <1>3. ASSUME NEW inst, Chose(inst) PROVE Chose(inst)'
    <2>1. CASE Cycling
      BY <1>1, <1>3, <2>1 DEF Chose
    <2>2. CASE ~Cycling
      BY <1>1, <1>3, <2>2, PickStable DEF Chose
    <2> QED BY <2>1, <2>2
  <1> QED BY <1>1, <1>2, <1>3

\* forward()'s pick, and then lm_head()'s.
LEMMA ForwardPick ==
    ASSUME IInv, Lanes, Distinct, NEW t \in Threads, Pick(t, "idle", "fwd_lock")
    PROVE  pc'[t] = "fwd_lock" /\ Chose(snap[t][0].inst)'
  <1>0. entries \in Seq(Entry) /\ rr \in 0 .. 4
    BY DEF IInv, TypeOK
  <1> DEFINE at == pick_backend
  <1>1. /\ at \in DOMAIN entries /\ pc'[t] = "fwd_lock" /\ snap'[t][0] = SnapOf(at)
        /\ UNCHANGED <<entries, strategy>> /\ AdvanceCycle
    BY <1>0, PickInRange DEF Pick, registry, IInv, TypeOK
  <1>2. Cycling' = Cycling
    BY <1>1 DEF Cycling
  <1>3. snap'[t][0].inst = entries[at].inst
    BY <1>0, <1>1, SnapTyped
  <1>4. CASE Cycling
    <2>1. rr' = (rr + 1) % 5
      BY <1>1, <1>4 DEF AdvanceCycle
    <2>2. rr' # 0 => rr < 4
      BY <1>0, <2>1
    <2>3. rr < 4 => at = 2
      BY <1>4, MainTurn
    <2> HIDE DEF at
    <2> QED BY <1>1, <1>2, <1>3, <1>4, <2>2, <2>3 DEF Chose
  <1>5. CASE ~Cycling
    <2>1. pick_backend' = at
      BY <1>0, <1>1, <1>5, PickStable
    <2> HIDE DEF at
    <2> QED BY <1>1, <1>2, <1>3, <1>5, <2>1 DEF Chose
  <1> QED BY <1>1, <1>4, <1>5

LEMMA LmHeadPick ==
    ASSUME IInv, Lanes, Distinct, NEW t \in Threads, ChoiceAt(t), Pick(t, "hidden", "lm_lock")
    PROVE  pc'[t] = "lm_lock" /\ (AtSeam' \/ snap'[t][0].inst = fwd'[t])
  <1>0. entries \in Seq(Entry) /\ rr \in 0 .. 4
    BY DEF IInv, TypeOK
  <1> DEFINE at == pick_backend
  <1>1. /\ at \in DOMAIN entries /\ pc'[t] = "lm_lock" /\ snap'[t][0] = SnapOf(at) /\ fwd' = fwd
        /\ UNCHANGED <<entries, strategy>> /\ AdvanceCycle
    BY <1>0, PickInRange DEF Pick, registry, IInv, TypeOK
  <1>2. Chose(fwd[t])
    BY DEF ChoiceAt, Pick
  <1>3. snap'[t][0].inst = entries[at].inst
    BY <1>0, <1>1, SnapTyped
  <1>4. CASE Cycling
    <2>1. rr' = (rr + 1) % 5 /\ Cycling'
      BY <1>1, <1>4 DEF AdvanceCycle, Cycling
    <2>2. rr' \notin {0, 1} => rr < 4 /\ rr # 0
      BY <1>0, <2>1
    <2>3. rr < 4 => at = 2
      BY <1>4, MainTurn
    <2>4. rr # 0 => fwd[t] = entries[2].inst
      BY <1>2, <1>4 DEF Chose
    <2> HIDE DEF at
    <2> QED BY <1>1, <1>3, <2>1, <2>2, <2>3, <2>4 DEF AtSeam
  <1>5. CASE ~Cycling
    BY <1>1, <1>2, <1>3, <1>5 DEF Chose
  <1> QED BY <1>1, <1>4, <1>5

LEMMA SameChoiceNext ==
    ASSUME OneCaller, Chosen = {}, IInv, SameChoice, [Next]_vars
    PROVE  SameChoice'
  <1>0. /\ pc \in [Threads -> PCs] /\ fwd \in [Threads -> Insts \cup {NoSnap}]
        /\ snap \in [Threads -> [{0, 1} -> Snap \cup {NoSnap}]]
        /\ entries \in Seq(Entry) /\ Lanes /\ Distinct /\ \A t \in Threads : ChoiceAt(t)
    BY DEF IInv, TypeOK, SameChoice
  <1>1. Lanes' /\ Distinct'
    BY <1>0, LanesNext
  <1>2. CASE Reload
    <2>1. \A t \in Threads : pc'[t] = "idle"
      BY <1>2 DEF OneCaller, Reload, add_backend, remove_backend, clear, set_strategy
    <2> QED BY <1>1, <2>1 DEF SameChoice, ChoiceAt
  <1>3. ASSUME NEW t \in Threads, generate(t) \/ forward(t) \/ lm_head(t) \/ reset_all(t) PROVE SameChoice'
    <2> DEFINE chain == {"fwd_lock", "fwd_compute", "hidden", "lm_lock", "lm_compute"}
    <2>1. SUFFICES ChoiceAt(t)'
      BY <1>1 DEF OneCaller, SameChoice
    <2>2. pc'[t] \notin chain => ChoiceAt(t)'
      BY DEF ChoiceAt
    <2>3. CASE Pick(t, "idle", "fwd_lock")
      BY <1>0, <2>3, ForwardPick DEF ChoiceAt
    <2>4. CASE Pick(t, "hidden", "lm_lock")
      BY <1>0, <2>4, LmHeadPick DEF ChoiceAt
    <2>5. CASE Lock(t, "fwd_lock", "fwd_compute") \/ Lock(t, "lm_lock", "lm_compute")
      <3>1. /\ UNCHANGED <<entries, strategy, rr, snap, fwd>>
            /\ \/ pc[t] = "fwd_lock" /\ pc'[t] = "fwd_compute"
               \/ pc[t] = "lm_lock" /\ pc'[t] = "lm_compute"
        BY <1>0, <2>5 DEF Lock, registry
      <3> QED BY <1>0, <3>1, ChoseKept DEF ChoiceAt
    <2>6. CASE ForwardRun(t)
      <3>1. /\ UNCHANGED <<entries, strategy, rr>> /\ pc[t] = "fwd_compute"
            /\ \/ pc'[t] = "hidden" /\ fwd'[t] = snap[t][0].inst
               \/ pc'[t] = "idle"
        BY <1>0, <2>6 DEF ForwardRun, registry
      <3> QED BY <1>0, <3>1, ChoseKept DEF ChoiceAt
    <2>7. CASE LmHeadRun(t) \/ LmHeadNone(t)
      <3>1. pc'[t] = "idle"
        BY <1>0, <2>7 DEF LmHeadRun, LmHeadNone
      <3> QED BY <2>2, <3>1
    <2>8. CASE generate(t)
      <3>1. pc'[t] \notin chain
        BY <1>0, <2>8 DEF generate, Pick, Lock, GenCompute, GenRecord, GenFailOver, GenDone,
                          GenFailWritten, GenRetryPick, GenReturn
      <3> QED BY <2>2, <3>1
    <2>9. CASE reset_all(t)
      <3>1. pc'[t] \notin chain
        BY <1>0, <2>9 DEF reset_all, ResetBegin, ResetSkip, ResetLock, ResetRun, ResetEnd
      <3> QED BY <2>2, <3>1
    <2> QED BY <1>3, <2>3, <2>4, <2>5, <2>6, <2>7, <2>8, <2>9 DEF forward, lm_head
  <1>4. CASE UNCHANGED vars
    <2>1. UNCHANGED <<entries, strategy, rr, pc, snap, fwd>>
      BY <1>4 DEF vars
    <2> QED BY <1>0, <1>1, <2>1, ChoseKept DEF SameChoice, ChoiceAt
  <1> QED BY <1>2, <1>3, <1>4 DEF Next

\* With one caller at a time and the strategies init_in_order passes, lm_head()
\* runs on the Backend object that forward() ran on, although each of them
\* picks for itself, but for the two seams of the 4:1 cycle that the router is
\* left with when the accelerator was initialised after the CPU.
THEOREM LogitsFollowForward ==
    ASSUME OneCaller, Chosen = {} PROVE Spec => []LogitsOnForwardBackend
  <1>1. Init => SameChoice
    <2> SUFFICES ASSUME Init PROVE SameChoice
      OBVIOUS
    <2>1. entries = <<>> /\ Len(entries) = 0 /\ DOMAIN entries = {}
      BY DEF Init
    <2> QED BY <2>1 DEF Init, SameChoice, ChoiceAt, Lanes, Distinct
  <1>2. IInv /\ SameChoice /\ [Next]_vars => SameChoice'
    BY SameChoiceNext
  <1>3. SameChoice => LogitsOnForwardBackend
    BY DEF SameChoice, ChoiceAt, LogitsOnForwardBackend, SameBackend
  <1> QED BY <1>1, <1>2, <1>3, InitIInv, NextIInv, PTL DEF Spec
\* The places at which a thread may hold the compute mutex m.
Holds(t, m) ==
    \/ Computing(t) /\ m = snap[t][depth[t]].mtx
    \/ Outer(t) /\ m = snap[t][0].mtx
    \/ pc[t] = "resetting" /\ m = entries[ri[t]].mtx

Writing(t) == pc[t] \in {"fail_write", "clear_write"}

\* A call of generate_with_failover: the entry it computes on is still there,
\* and what the retry excludes is that entry.
Listed(t) ==
    \E i \in DOMAIN entries : entries[i].id = snap[t][0].id /\ entries[i].mtx = snap[t][0].mtx

SerialAt(t) ==
    /\ lfw = IF Writing(t) THEN {t} ELSE {}
    /\ pc[t] = "retry" => last_failed_id = snap[t][0].id
    /\ pc[t] \in {"fail_write", "retry"} => Len(entries) > 1
    /\ mtx = t => InReset(t)
    /\ \A m \in Mutexes : cmtx[m] = t => Holds(t, m)
    /\ pc[t] \in {"lock", "compute", "record", "decide", "fail_write", "retry"} => Listed(t)
    /\ depth[t] = 1 => snap[t][1].mtx # snap[t][0].mtx \/ LastChance

\* With a 4:1 cycle, the first attempt gets the first entry at the end of the
\* cycle only, and then the retry has the second entry's turn before it.
TurnAt(t) ==
    /\ pc[t] \in {"lock", "compute", "record", "decide", "fail_write", "retry"} /\ depth[t] = 0
    /\ Cycling /\ snap[t][0].id = entries[1].id
    => rr = 0

Serial ==
    /\ Lanes /\ Distinct /\ ~lfRaced
    /\ \A t \in Threads : SerialAt(t) /\ TurnAt(t)

\* No step of generate, forward or lm_head takes a last chance back.
LEMMA ChanceKept ==
    ASSUME IInv, NEW t \in Threads, generate(t) \/ forward(t) \/ lm_head(t), LastChance
    PROVE  LastChance'
  BY CallKeeps DEF LastChance, SameEntries

LEMMA TurnKept ==
    ASSUME IInv, Lanes, Distinct, NEW t \in Threads, TurnAt(t), generate(t) \/ forward(t) \/ lm_head(t)
    PROVE  TurnAt(t)'
  <1> DEFINE chain == {"lock", "compute", "record", "decide", "fail_write", "retry"}
  <1>0. /\ pc \in [Threads -> PCs] /\ depth \in [Threads -> {0, 1}] /\ rr \in 0 .. 4
        /\ snap \in [Threads -> [{0, 1} -> Snap \cup {NoSnap}]] /\ entries \in Seq(Entry)
    BY DEF IInv, TypeOK
  <1>1. /\ Cycling' => Cycling /\ entries'[1].id = entries[1].id /\ entries'[1].id # entries'[2].id
                     /\ 1 \in DOMAIN entries /\ 2 \in DOMAIN entries /\ DOMAIN entries = {1, 2}
    <2>1. Cycling' => Cycling
      BY CallKeeps DEF Cycling, SameEntries
    <2>2. Cycling => Len(entries) = 2 /\ 1 \in DOMAIN entries /\ 2 \in DOMAIN entries
      BY MainTurn
    <2>3. Cycling => DOMAIN entries = {1, 2}
      BY <1>0, <2>2
    <2>4. Cycling => entries'[1].id = entries[1].id /\ entries'[2].id = entries[2].id
      BY <2>2, CallKeeps DEF SameEntries
    <2>5. Cycling => entries[1].id # entries[2].id
      BY <2>2 DEF Distinct
    <2> QED BY <2>1, <2>2, <2>3, <2>4, <2>5
  <1>2. CASE Pick(t, "idle", "lock")
    <2> SUFFICES ASSUME Cycling', snap'[t][0].id = entries'[1].id PROVE rr' = 0
      BY DEF TurnAt
    <2> DEFINE at == pick_backend
    <2>1. at \in DOMAIN entries /\ snap'[t][0] = SnapOf(at) /\ AdvanceCycle
      BY <1>0, <1>2, PickInRange DEF Pick
    <2>2. snap'[t][0].id = entries[at].id
      BY <2>1 DEF SnapOf
    <2>3. rr < 4 => at = 2
      BY <1>1, MainTurn
    <2> HIDE DEF at
    <2>4. at = 1
      BY <1>1, <2>1, <2>2 DEF Distinct
    <2>5. rr = 4
      BY <1>0, <2>3, <2>4
    <2>6. rr' = (rr + 1) % 5
      BY <1>1, <2>1 DEF AdvanceCycle
    <2> QED BY <2>5, <2>6
  <1>3. CASE \/ Lock(t, "lock", "compute") \/ GenCompute(t) \/ GenRecord(t)
             \/ GenFailOver(t) \/ GenFailWritten(t)
    <2>1. pc[t] \in chain /\ UNCHANGED <<rr, depth, snap>>
      BY <1>3 DEF Lock, GenCompute, GenRecord, GenFailOver, GenFailWritten
    <2> QED BY <1>1, <2>1 DEF TurnAt
  <1>4. CASE GenRetryPick(t)
    <2>1. pc'[t] = "clear_write" \/ depth'[t] = 1
      BY <1>0, <1>4 DEF GenRetryPick
    <2> QED BY <2>1 DEF TurnAt
  <1>5. CASE GenDone(t) \/ GenReturn(t) \/ forward(t) \/ lm_head(t)
    <2>1. pc'[t] \notin chain
      BY <1>0, <1>5 DEF GenDone, GenReturn, forward, lm_head, Pick, Lock, ForwardRun, LmHeadRun, LmHeadNone
    <2> QED BY <2>1 DEF TurnAt
  <1> QED BY <1>2, <1>3, <1>4, <1>5 DEF generate

\* FASTEST finds a live entry when there is one.
LEMMA FastestIn ==
    ASSUME entries \in Seq(Entry), NEW x,
           \E i \in DOMAIN entries : entries[i].alive /\ entries[i].id # x
    PROVE  Fastest(x) \in DOMAIN entries /\ entries[Fastest(x)].id # x
  <1> DEFINE live == {i \in DOMAIN entries : entries[i].alive /\ entries[i].id # x}
             best == {i \in live : /\ entries[i].lat # <<>>
                                   /\ \A j \in live : ~Faster(entries[j], entries[i])}
  <1>1. live \in SUBSET Nat /\ live # {} /\ best \in SUBSET live
    OBVIOUS
  <1>2. Fastest(x) = IF best # {} THEN FirstOf(best) ELSE FirstOf(live)
    BY Zenon DEF Fastest
  <1>3. \A i \in live : i \in DOMAIN entries /\ entries[i].id # x
    OBVIOUS
  <1> HIDE DEF live, best
  <1>4. FirstOf(live) \in live
    BY <1>1, FirstOfIn
  <1>5. best # {} => FirstOf(best) \in best
    <2>1. best \in SUBSET Nat
      BY <1>1
    <2> QED BY <2>1, FirstOfIn
  <1>6. Fastest(x) \in live
    BY <1>1, <1>2, <1>4, <1>5
  <1> QED BY <1>3, <1>6

\* More than one entry is neither none nor one.
LEMMA LongSequence ==
    ASSUME NEW s \in Seq(Entry), Len(s) > 1
    PROVE  s # <<>> /\ Len(s) # 1
  <1> DEFINE n == Len(s)
  <1>1. n \in Nat /\ n > 1
    OBVIOUS
  <1>2. s = <<>> => n = 0
    OBVIOUS
  <1> HIDE DEF n
  <1>3. n # 0 /\ n # 1
    BY <1>1
  <1> QED BY <1>2, <1>3, Zenon DEF n

\* The retry computes on another entry, behind another mutex.
LEMMA RetryElsewhere ==
    ASSUME IInv, Lanes, Distinct, Len(entries) > 1, ~LastChance, NEW i \in DOMAIN entries,
           Cycling /\ i = 1 => rr = 0
    PROVE  LET k == pick_backend_excluding(entries[i].id)
           IN  k \in DOMAIN entries /\ k # 0 /\ entries[k].mtx # entries[i].mtx
  <1> DEFINE x == entries[i].id
             k == pick_backend_excluding(x)
  <1>0. entries \in Seq(Entry)
    BY DEF IInv, TypeOK
  <1>1. CASE strategy = "FASTEST"
    <2>1. PICK j \in DOMAIN entries : j # i
      <3>1. 1 \in DOMAIN entries /\ 2 \in DOMAIN entries
        BY <1>0
      <3> QED BY <3>1
    <2>2. entries[j].alive /\ entries[j].id # x
      BY <1>1, <2>1 DEF Distinct, LastChance
    <2> HIDE DEF x
    <2>3. Fastest(x) \in DOMAIN entries /\ entries[Fastest(x)].id # x
      BY <1>0, <2>2, FastestIn
    <2>4. Fastest(x) # 0
      BY <1>0, <2>3
    <2>5. ByStrategy(x) = Fastest(x)
      BY <1>1 DEF ByStrategy
    <2>6. entries # <<>> /\ Len(entries) # 1
      BY <1>0, LongSequence, Zenon
    <2>7. k = Fastest(x)
      BY <2>4, <2>5, <2>6, Zenon DEF pick_backend_excluding
    <2>8. k # i
      BY <2>3, <2>7 DEF x
    <2> HIDE DEF k
    <2>9. entries[k].mtx # entries[i].mtx
      BY <2>3, <2>7, <2>8 DEF Distinct
    <2> QED BY <2>3, <2>4, <2>7, <2>9 DEF k, x
  <1>2. CASE Cycling
    <2>1. /\ Len(entries) = 2 /\ 1 \in DOMAIN entries /\ 2 \in DOMAIN entries
          /\ rr < 4 => pick_backend_excluding(entries[1].id) = 2
          /\ pick_backend_excluding(entries[2].id) = 1
      BY <1>2, MainTurn
    <2>2. entries[1].mtx # entries[2].mtx
      BY <2>1 DEF Distinct
    <2>3. i = 1 \/ i = 2
      BY <1>0, <2>1
    <2>4. CASE i = 1
      <3>1. k = 2
        BY <1>2, <2>1, <2>4
      <3> HIDE DEF k
      <3> QED BY <2>1, <2>2, <2>4, <3>1 DEF k
    <2>5. CASE i = 2
      <3>1. k = 1
        BY <2>1, <2>5
      <3> HIDE DEF k
      <3> QED BY <2>1, <2>2, <2>5, <3>1 DEF k
    <2> QED BY <2>3, <2>4, <2>5
  <1>3. strategy = "FASTEST" \/ Cycling
    <2> DEFINE n == Len(entries)
    <2>1. n \in Nat /\ n <= 2 /\ n > 1
      BY <1>0 DEF Lanes
    <2> HIDE DEF n
    <2>2. n = 2
      BY <2>1
    <2>3. strategy = RegistersAs(entries[2].id)
      BY <2>2 DEF n, Lanes
    <2>4. strategy \in {"FASTEST", "GPU_BACKFILL", "NPU_BACKFILL"}
      BY <2>3, Zenon DEF RegistersAs
    <2> QED BY <2>4 DEF Cycling
  <1> QED BY <1>1, <1>2, <1>3

-----------------------------------------------------------------------------
(* The steps of the one caller keep Serial.                                *)

\* A thread that is in no call, or at the head of the loop of reset_all,
\* holds no compute mutex.
LEMMA HoldsNone ==
    ASSUME IInv, NEW t \in Threads, SerialAt(t), pc[t] \in {"idle", "hidden", "reset"}
    PROVE  depth[t] = 0 /\ \A m \in Mutexes : cmtx[m] # t
  <1>1. depth[t] = 0
    <2>1. ThreadLocks(t) /\ depth[t] \in {0, 1}
      BY DEF IInv, TypeOK, LocksHeld
    <2> QED BY <2>1 DEF ThreadLocks
  <1> QED BY <1>1 DEF SerialAt, Holds, Computing, Outer

LEMMA PickSerial ==
    ASSUME IInv, Serial, NEW t \in Threads, NEW from \in {"idle", "hidden"},
           NEW to \in {"lock", "fwd_lock", "lm_lock"}, Pick(t, from, to)
    PROVE  SerialAt(t)'
  <1> USE RouterAssumption
  <1> DEFINE k == pick_backend
  <1>1. k \in DOMAIN entries
    BY PickInRange DEF IInv, TypeOK, Pick
  <1> HIDE DEF k
  <1>2. /\ pc[t] = from /\ mtx = Free /\ snap' = [snap EXCEPT ![t][0] = SnapOf(k)]
        /\ depth' = [depth EXCEPT ![t] = 0] /\ pc' = [pc EXCEPT ![t] = to]
        /\ UNCHANGED <<entries, last_failed_id, lfw, lfRaced, mtx, cmtx>>
    BY DEF Pick, registry, lastFailed, k
  <1>3. pc'[t] = to /\ depth'[t] = 0 /\ snap'[t][0] = SnapOf(k)
    BY <1>2 DEF IInv, TypeOK
  <1>4. \A m \in Mutexes : cmtx'[m] # t
    BY <1>2, HoldsNone DEF Serial
  <1>5. lfw' = {} /\ ~Writing(t)'
    BY <1>2, <1>3 DEF Serial, SerialAt, Writing
  <1>6. Listed(t)'
    BY <1>1, <1>2, <1>3 DEF Listed, SnapOf
  <1> QED BY <1>2, <1>3, <1>4, <1>5, <1>6 DEF SerialAt

LEMMA LockSerial ==
    ASSUME IInv, Serial, NEW t \in Threads,
           \/ Lock(t, "lock", "compute")
           \/ Lock(t, "fwd_lock", "fwd_compute")
           \/ Lock(t, "lm_lock", "lm_compute")
    PROVE  SerialAt(t)'
  <1> DEFINE m0 == snap[t][depth[t]].mtx
  <1>1. /\ cmtx' = [cmtx EXCEPT ![m0] = t]
        /\ UNCHANGED <<entries, last_failed_id, lfw, lfRaced, mtx, depth, snap, ri>>
        /\ \/ pc[t] = "lock" /\ pc' = [pc EXCEPT ![t] = "compute"]
           \/ pc[t] = "fwd_lock" /\ pc' = [pc EXCEPT ![t] = "fwd_compute"]
           \/ pc[t] = "lm_lock" /\ pc' = [pc EXCEPT ![t] = "lm_compute"]
    BY DEF Lock, Acquire, registry, lastFailed, resets
  <1>2. /\ pc[t] \in {"lock", "fwd_lock", "lm_lock"} /\ pc'[t] \in {"compute", "fwd_compute", "lm_compute"}
        /\ (pc'[t] = "compute" => pc[t] = "lock")
    BY <1>1 DEF IInv, TypeOK
  <1>3. SerialAt(t)
    BY DEF Serial
  <1>4. ASSUME NEW m \in Mutexes, cmtx'[m] = t PROVE Holds(t, m)'
    <2>1. CASE m = m0
      BY <1>1, <1>2, <2>1 DEF Holds, Computing
    <2>2. CASE m # m0
      <3>1. cmtx[m] = t
        <4> HIDE DEF m0
        <4> QED BY <1>1, <1>4, <2>2 DEF IInv, TypeOK
      <3>2. depth[t] = 1 /\ m = snap[t][0].mtx
        BY <1>2, <1>3, <3>1 DEF SerialAt, Holds, Computing, Outer
      <3> QED BY <1>1, <3>2 DEF Holds, Outer
    <2> QED BY <2>1, <2>2
  <1>5. lfw' = {} /\ ~Writing(t)'
    BY <1>1, <1>2, <1>3 DEF SerialAt, Writing
  <1>6. Listed(t)' <=> Listed(t)
    BY <1>1 DEF Listed
  <1>7. mtx' # t
    BY <1>1, <1>2, <1>3 DEF SerialAt, InReset
  <1>8. LastChance => LastChance'
    BY ChanceKept DEF generate, forward, lm_head
  <1> QED BY <1>1, <1>2, <1>3, <1>4, <1>5, <1>6, <1>7, <1>8 DEF SerialAt

LEMMA ComputeSerial ==
    ASSUME IInv, Serial, NEW t \in Threads, GenCompute(t) \/ GenRecord(t)
    PROVE  SerialAt(t)'
  <1>1. /\ UNCHANGED <<last_failed_id, lfw, lfRaced, mtx, cmtx, depth, snap>>
        /\ \/ pc[t] = "compute" /\ pc' = [pc EXCEPT ![t] = "record"]
           \/ pc[t] = "record" /\ pc' = [pc EXCEPT ![t] = "decide"]
    BY DEF GenCompute, GenRecord, lastFailed
  <1>2. SameEntries
    <2>1. entries \in Seq(Entry)
      BY DEF IInv, TypeOK
    <2> QED BY <2>1, RecordSame DEF GenCompute, registry, SameEntries
  <1>3. pc[t] \in {"compute", "record"} /\ pc'[t] \in {"record", "decide"}
    BY <1>1 DEF IInv, TypeOK
  <1>4. SerialAt(t)
    BY DEF Serial
  <1>5. \A m : Holds(t, m) => Holds(t, m)'
    BY <1>1, <1>3 DEF Holds, Computing, Outer
  <1>6. Listed(t)'
    BY <1>1, <1>2, <1>3, <1>4 DEF Listed, SerialAt, SameEntries
  <1>7. lfw' = {} /\ ~Writing(t)' /\ mtx' # t
    BY <1>1, <1>3, <1>4 DEF SerialAt, Writing, InReset
  <1>8. LastChance => LastChance'
    BY ChanceKept DEF generate
  <1> QED BY <1>1, <1>3, <1>4, <1>5, <1>6, <1>7, <1>8 DEF SerialAt

LEMMA FailSerial ==
    ASSUME IInv, Serial, NEW t \in Threads, GenFailOver(t) \/ GenFailWritten(t)
    PROVE  SerialAt(t)' /\ ~lfRaced'
  <1>1. /\ UNCHANGED <<entries, mtx, cmtx, depth, snap>>
        /\ \/ pc[t] = "decide" /\ pc' = [pc EXCEPT ![t] = "fail_write"] /\ depth[t] = 0 /\ LfWriteBegin(t)
              /\ Len(entries) > 1
           \/ pc[t] = "fail_write" /\ pc' = [pc EXCEPT ![t] = "retry"] /\ LfWriteEnd(t, snap[t][0].id)
    BY DEF GenFailOver, GenFailWritten, registry, MustRetry
  <1>2. \/ pc[t] = "decide" /\ pc'[t] = "fail_write"
        \/ pc[t] = "fail_write" /\ pc'[t] = "retry"
    BY <1>1 DEF IInv, TypeOK
  <1>3. SerialAt(t) /\ ~lfRaced
    BY DEF Serial
  <1>4. /\ pc[t] = "decide" => lfw' = {t} /\ ~lfRaced'
        /\ pc[t] = "fail_write" => lfw' = {} /\ ~lfRaced' /\ last_failed_id' = snap[t][0].id
    <2>1. CASE pc[t] = "decide"
      <3>1. lfw = {} /\ LfWriteBegin(t)
        BY <1>1, <1>3, <2>1 DEF SerialAt, Writing
      <3>2. lfw' = {t}
        BY <3>1 DEF LfWriteBegin
      <3>3. ~lfRaced'
        BY <1>3, <3>1, Zenon DEF LfWriteBegin
      <3> QED BY <2>1, <3>2, <3>3
    <2>2. CASE pc[t] = "fail_write"
      <3>1. lfw = {t} /\ LfWriteEnd(t, snap[t][0].id)
        BY <1>1, <1>3, <2>2 DEF SerialAt, Writing
      <3>2. lfw' = {}
        BY <3>1 DEF LfWriteEnd
      <3>3. ~lfRaced' /\ last_failed_id' = snap[t][0].id
        BY <1>3, <3>1, Zenon DEF LfWriteEnd
      <3> QED BY <2>2, <3>2, <3>3
    <2> QED BY <1>2, <2>1, <2>2
  <1>5. \A m : Holds(t, m) => Holds(t, m)'
    BY <1>1, <1>2 DEF Holds, Computing, Outer
  <1>6. Listed(t)'
    BY <1>1, <1>2, <1>3 DEF Listed, SerialAt
  <1>7. mtx' # t /\ Len(entries') > 1
    BY <1>1, <1>2, <1>3 DEF SerialAt, InReset
  <1>8. LastChance => LastChance'
    BY ChanceKept DEF generate
  <1> QED BY <1>1, <1>2, <1>3, <1>4, <1>5, <1>6, <1>7, <1>8 DEF SerialAt, Writing

LEMMA RetrySerial ==
    ASSUME IInv, Serial, NEW t \in Threads, GenRetryPick(t)
    PROVE  SerialAt(t)' /\ ~lfRaced'
  <1>0. /\ SerialAt(t) /\ TurnAt(t) /\ ~lfRaced /\ Lanes /\ Distinct /\ pc[t] = "retry" /\ depth[t] = 0
        /\ ThreadLocks(t)
    <2>1. ThreadLocks(t) /\ depth[t] \in {0, 1} /\ pc[t] = "retry"
      BY DEF IInv, TypeOK, LocksHeld, GenRetryPick
    <2> QED BY <2>1 DEF ThreadLocks, Serial
  <1>1. lfw = {} /\ last_failed_id = snap[t][0].id /\ Len(entries) > 1 /\ entries \in Seq(Entry)
    BY <1>0 DEF SerialAt, Writing, IInv, TypeOK
  <1> DEFINE k == pick_backend_excluding(snap[t][0].id)
  <1>2. k \in DOMAIN entries /\ k # 0
    <2>1. k \in DOMAIN entries \cup {0}
      BY <1>1, PickInRange
    <2>2. k # 0
      <3>1. entries # <<>> /\ Len(entries) # 1
        BY <1>1, LongSequence, Zenon
      <3>2. ByStrategy(snap[t][0].id) = 0 => k = 1
        BY <3>1, Zenon DEF pick_backend_excluding
      <3>3. ByStrategy(snap[t][0].id) # 0 => k = ByStrategy(snap[t][0].id)
        BY <3>1, Zenon DEF pick_backend_excluding
      <3> QED BY <3>2, <3>3
    <2> QED BY <2>1, <2>2
  <1>3. entries[k].mtx # snap[t][0].mtx \/ LastChance
    <2> SUFFICES ASSUME ~LastChance PROVE entries[k].mtx # snap[t][0].mtx
      OBVIOUS
    <2>1. PICK i \in DOMAIN entries : entries[i].id = snap[t][0].id /\ entries[i].mtx = snap[t][0].mtx
      BY <1>0 DEF SerialAt, Listed
    <2>2. Cycling /\ i = 1 => rr = 0
      BY <1>0, <2>1 DEF TurnAt
    <2> QED BY <1>0, <1>1, <2>1, <2>2, RetryElsewhere
  <1>4. /\ pc' = [pc EXCEPT ![t] = "lock"] /\ snap' = [snap EXCEPT ![t][1] = SnapOf(k)]
        /\ depth' = [depth EXCEPT ![t] = 1] /\ UNCHANGED <<last_failed_id, lfw, lfRaced>>
        /\ UNCHANGED <<entries, mtx, cmtx>>
    BY <1>1, <1>2, Zenon DEF GenRetryPick, registry, lastFailed
  <1> HIDE DEF k
  <1>5. /\ pc'[t] = "lock" /\ depth'[t] = 1 /\ snap'[t][0] = snap[t][0]
        /\ snap'[t][1].mtx = entries[k].mtx
    BY <1>4 DEF IInv, TypeOK, SnapOf
  <1>6. \A m \in Mutexes : Holds(t, m) => Holds(t, m)'
    BY <1>0, <1>5 DEF Holds, Computing, Outer
  <1>7. Listed(t)'
    BY <1>0, <1>4, <1>5 DEF Listed, SerialAt
  <1>8. mtx' # t /\ lfw' = {} /\ ~Writing(t)' /\ ~lfRaced'
    BY <1>0, <1>1, <1>4, <1>5 DEF SerialAt, InReset, Writing
  <1>9. LastChance => LastChance'
    BY ChanceKept DEF generate
  <1> QED BY <1>0, <1>3, <1>4, <1>5, <1>6, <1>7, <1>8, <1>9 DEF SerialAt

\* The steps that give a compute mutex back.
LEMMA DoneSerial ==
    ASSUME IInv, Serial, NEW t \in Threads, GenDone(t)
    PROVE  SerialAt(t)' /\ ~lfRaced'
  <1> DEFINE m0 == snap[t][depth[t]].mtx
  <1>0. /\ SerialAt(t) /\ ~lfRaced /\ ThreadLocks(t) /\ pc[t] = "decide"
        /\ depth[t] \in {0, 1} /\ snap[t][0] \in Snap \cup {NoSnap}
    BY DEF Serial, GenDone, IInv, TypeOK, LocksHeld
  <1>1. /\ cmtx' = [cmtx EXCEPT ![m0] = Free] /\ snap' = [snap EXCEPT ![t][depth[t]] = NoSnap]
        /\ depth' = [depth EXCEPT ![t] = 0] /\ UNCHANGED <<entries, mtx>>
        /\ \/ depth[t] = 0 /\ pc' = [pc EXCEPT ![t] = "idle"] /\ UNCHANGED <<last_failed_id, lfw, lfRaced>>
           \/ depth[t] = 1 /\ pc' = [pc EXCEPT ![t] = "clear_write"] /\ LfWriteBegin(t)
    BY DEF GenDone, Release, registry, lastFailed
  <1>2. m0 \in Mutexes /\ cmtx \in [Mutexes -> Threads \cup {Free}]
    BY <1>0 DEF ThreadLocks, Computing, Snap, IInv, TypeOK
  <1>3. /\ depth'[t] = 0 /\ (depth[t] = 0 => pc'[t] = "idle") /\ (depth[t] = 1 => pc'[t] = "clear_write")
        /\ depth[t] = 1 => snap'[t][0] = snap[t][0]
    BY <1>1 DEF IInv, TypeOK
  <1>4. ASSUME NEW m \in Mutexes, cmtx'[m] = t PROVE Holds(t, m)'
    <2>1. m # m0 /\ cmtx[m] = t
      <3> HIDE DEF m0
      <3> QED BY <1>1, <1>2, <1>4, RouterAssumption
    <2>2. depth[t] = 1 /\ m = snap[t][0].mtx
      BY <1>0, <2>1 DEF SerialAt, Holds, Outer
    <2> QED BY <1>3, <2>2 DEF Holds, Outer
  <1>5. lfw = {}
    BY <1>0 DEF SerialAt, Writing
  <1>6. ~lfRaced' /\ (depth[t] = 0 => lfw' = {}) /\ (depth[t] = 1 => lfw' = {t})
    <2>1. CASE depth[t] = 0
      BY <1>0, <1>1, <1>5, <2>1
    <2>2. CASE depth[t] = 1
      <3>1. LfWriteBegin(t)
        BY <1>1, <2>2
      <3>2. lfw' = {t}
        BY <1>5, <3>1 DEF LfWriteBegin
      <3>3. ~lfRaced'
        BY <1>0, <1>5, <3>1, Zenon DEF LfWriteBegin
      <3> QED BY <2>2, <3>2, <3>3
    <2> QED BY <1>0, <2>1, <2>2
  <1>7. mtx' # t
    BY <1>0, <1>1 DEF SerialAt, InReset
  <1> QED BY <1>0, <1>3, <1>4, <1>6, <1>7 DEF SerialAt, Writing

LEMMA ReturnSerial ==
    ASSUME IInv, Serial, NEW t \in Threads, GenReturn(t) \/ ForwardRun(t) \/ LmHeadRun(t) \/ LmHeadNone(t)
    PROVE  SerialAt(t)' /\ ~lfRaced'
  <1> DEFINE m0 == snap[t][0].mtx
  <1>0. /\ SerialAt(t) /\ ~lfRaced /\ ThreadLocks(t) /\ depth[t] \in {0, 1}
        /\ pc[t] \in {"clear_write", "fwd_compute", "lm_compute", "hidden"}
    BY DEF Serial, GenReturn, ForwardRun, LmHeadRun, LmHeadNone, IInv, TypeOK, LocksHeld
  <1>1. depth[t] = 0
    BY <1>0 DEF ThreadLocks
  <1>2. /\ UNCHANGED <<entries, mtx, depth>>
        /\ \/ pc[t] # "hidden" /\ cmtx' = [cmtx EXCEPT ![m0] = Free]
           \/ pc[t] = "hidden" /\ cmtx' = cmtx
        /\ pc' = [pc EXCEPT ![t] = "idle"] \/ pc' = [pc EXCEPT ![t] = "hidden"]
    BY DEF GenReturn, ForwardRun, LmHeadRun, LmHeadNone, Release, registry
  <1>3. pc'[t] \in {"idle", "hidden"} /\ cmtx \in [Mutexes -> Threads \cup {Free}]
    BY <1>2 DEF IInv, TypeOK
  <1>4. pc[t] # "hidden" => m0 \in Mutexes
    BY <1>0, <1>1 DEF ThreadLocks, Computing, Outer, Snap
  <1>5. ASSUME NEW m \in Mutexes, cmtx'[m] = t PROVE FALSE
    <2>1. CASE pc[t] = "hidden"
      <3>1. cmtx[m] = t
        BY <1>2, <1>5, <2>1
      <3> QED BY <2>1, <3>1, <1>0, HoldsNone
    <2>2. CASE pc[t] # "hidden"
      <3>1. m # m0 /\ cmtx[m] = t
        <4>1. cmtx' = [cmtx EXCEPT ![m0] = Free]
          BY <1>2, <2>2
        <4> HIDE DEF m0
        <4> QED BY <1>3, <1>4, <1>5, <2>2, <4>1, RouterAssumption
      <3> QED BY <1>0, <1>1, <3>1 DEF SerialAt, Holds
    <2> QED BY <2>1, <2>2
  <1>6. lfw' = {} /\ ~lfRaced'
    <2>1. CASE GenReturn(t)
      <3>1. lfw = {t} /\ LfWriteEnd(t, NoId)
        BY <1>0, <2>1 DEF GenReturn, SerialAt, Writing
      <3>2. lfw' = {}
        BY <3>1 DEF LfWriteEnd
      <3>3. ~lfRaced'
        BY <1>0, <3>1, Zenon DEF LfWriteEnd
      <3> QED BY <3>2, <3>3
    <2>2. CASE ForwardRun(t) \/ LmHeadRun(t) \/ LmHeadNone(t)
      BY <1>0, <2>2 DEF ForwardRun, LmHeadRun, LmHeadNone, lastFailed, SerialAt, Writing
    <2> QED BY <2>1, <2>2
  <1>7. mtx' # t
    BY <1>0, <1>2 DEF SerialAt, InReset
  <1> QED BY <1>1, <1>2, <1>3, <1>5, <1>6, <1>7 DEF SerialAt, Writing

LEMMA ResetSerial ==
    ASSUME IInv, Serial, NEW t \in Threads, reset_all(t)
    PROVE  SerialAt(t)' /\ TurnAt(t)' /\ lfRaced' = lfRaced
  <1> DEFINE m0 == entries[ri[t]].mtx
  <1>0. /\ SerialAt(t) /\ ThreadLocks(t) /\ depth[t] \in {0, 1} /\ pc[t] \in {"idle", "reset", "resetting"}
        /\ cmtx \in [Mutexes -> Threads \cup {Free}] /\ entries \in Seq(Entry)
    BY DEF Serial, reset_all, ResetBegin, ResetSkip, ResetLock, ResetRun, ResetEnd, IInv, TypeOK, LocksHeld
  <1>1. UNCHANGED <<last_failed_id, lfw, lfRaced, depth, snap>>
    BY DEF reset_all, ResetBegin, ResetSkip, ResetLock, ResetRun, ResetEnd, lastFailed
  <1>2. depth[t] = 0
    BY <1>0 DEF ThreadLocks
  <1>3. lfw' = {} /\ pc'[t] \in {"idle", "reset", "resetting"}
    <2>1. lfw' = {}
      BY <1>0, <1>1 DEF SerialAt, Writing
    <2>2. pc'[t] \in {"idle", "reset", "resetting"}
      BY DEF reset_all, ResetBegin, ResetSkip, ResetLock, ResetRun, ResetEnd, IInv, TypeOK
    <2> QED BY <2>1, <2>2
  <1>4. mtx' = t => InReset(t)'
    BY <1>0, RouterAssumption DEF reset_all, ResetBegin, ResetSkip, ResetLock, ResetRun, ResetEnd,
                                  IInv, TypeOK, SerialAt, InReset
  <1>5. ASSUME NEW m \in Mutexes, cmtx'[m] = t PROVE Holds(t, m)'
    <2>1. CASE ResetBegin(t) \/ ResetSkip(t) \/ ResetEnd(t)
      <3>1. cmtx' = cmtx /\ pc[t] \in {"idle", "reset"}
        BY <2>1 DEF ResetBegin, ResetSkip, ResetEnd
      <3> QED BY <1>0, <1>5, <3>1, HoldsNone
    <2>2. CASE ResetLock(t)
      <3>1. /\ pc[t] = "reset" /\ pc'[t] = "resetting" /\ cmtx' = [cmtx EXCEPT ![m0] = t] /\ ri' = ri
            /\ entries' = entries
        BY <2>2 DEF ResetLock, Acquire, resets, registry, IInv, TypeOK
      <3>2. \A q \in Mutexes : cmtx[q] # t
        BY <1>0, <3>1, HoldsNone
      <3>3. m = m0
        <4> HIDE DEF m0
        <4> QED BY <1>0, <1>5, <3>1, <3>2
      <3> QED BY <1>1, <3>1, <3>3 DEF Holds
    <2>3. CASE ResetRun(t)
      <3>1. pc[t] = "resetting" /\ cmtx' = [cmtx EXCEPT ![m0] = Free]
        BY <2>3 DEF ResetRun, Release
      <3>2. cmtx[m] = t => m = m0
        BY <1>0, <1>2, <3>1 DEF SerialAt, Holds, Computing, Outer
      <3>3. cmtx'[m] # t
        <4> HIDE DEF m0
        <4> QED BY <1>0, <3>1, <3>2, RouterAssumption
      <3> QED BY <1>5, <3>3
    <2> QED BY <2>1, <2>2, <2>3 DEF reset_all
  <1> QED BY <1>1, <1>2, <1>3, <1>4, <1>5 DEF SerialAt, TurnAt, Writing

LEMMA SerialNext ==
    ASSUME OneCaller, Chosen = {}, IInv, Serial, [Next]_vars
    PROVE  Serial'
  <1>0. Lanes /\ Distinct /\ ~lfRaced /\ \A t \in Threads : SerialAt(t) /\ TurnAt(t)
    BY DEF Serial
  <1> DEFINE Registered == Lanes' /\ Distinct'
  <1>5. Registered
    BY <1>0, LanesNext
  <1> HIDE DEF Registered
  <1>1. CASE Reload
    <2>1. /\ \A t \in Threads : pc[t] = "idle"
          /\ UNCHANGED <<pc, depth, snap, cmtx, mtx, last_failed_id, lfw, lfRaced, ri>>
      BY <1>1 DEF OneCaller, Reload, add_backend, remove_backend, clear, set_strategy, lastFailed, resets
    <2>2. ASSUME NEW t \in Threads PROVE SerialAt(t)' /\ TurnAt(t)'
      <3>1. depth[t] = 0 /\ \A m \in Mutexes : cmtx[m] # t
        BY <1>0, <2>1, HoldsNone
      <3> QED BY <1>0, <2>1, <3>1 DEF SerialAt, TurnAt, Writing, InReset
    <2> QED BY <1>0, <1>5, <2>1, <2>2 DEF Serial, Registered
  <1>2. ASSUME NEW t \in Threads, generate(t) \/ forward(t) \/ lm_head(t) PROVE Serial'
    <2>1. TurnAt(t)'
      BY <1>0, <1>2, TurnKept
    <2>2. SerialAt(t)' /\ ~lfRaced'
      <3>1. CASE Pick(t, "idle", "lock") \/ Pick(t, "idle", "fwd_lock") \/ Pick(t, "hidden", "lm_lock")
        <4>1. lfRaced' = lfRaced
          BY <3>1 DEF Pick, lastFailed
        <4> QED BY <1>0, <3>1, <4>1, PickSerial
      <3>2. CASE Lock(t, "lock", "compute") \/ Lock(t, "fwd_lock", "fwd_compute") \/ Lock(t, "lm_lock", "lm_compute")
        <4>1. lfRaced' = lfRaced
          BY <3>2 DEF Lock, lastFailed
        <4> QED BY <1>0, <3>2, <4>1, LockSerial
      <3>3. CASE GenCompute(t) \/ GenRecord(t)
        <4>1. lfRaced' = lfRaced
          BY <3>3 DEF GenCompute, GenRecord, lastFailed
        <4> QED BY <1>0, <3>3, <4>1, ComputeSerial
      <3>4. CASE GenFailOver(t) \/ GenFailWritten(t)
        BY <3>4, FailSerial
      <3>5. CASE GenRetryPick(t)
        BY <3>5, RetrySerial
      <3>6. CASE GenDone(t)
        BY <3>6, DoneSerial
      <3>7. CASE GenReturn(t) \/ ForwardRun(t) \/ LmHeadRun(t) \/ LmHeadNone(t)
        BY <3>7, ReturnSerial
      <3> QED BY <1>2, <3>1, <3>2, <3>3, <3>4, <3>5, <3>6, <3>7 DEF generate, forward, lm_head
    <2> QED BY <1>5, <2>1, <2>2 DEF OneCaller, Serial, Registered
  <1>3. ASSUME NEW t \in Threads, reset_all(t) PROVE Serial'
    <2>1. SerialAt(t)' /\ TurnAt(t)' /\ ~lfRaced'
      BY <1>0, <1>3, ResetSerial
    <2> QED BY <1>5, <2>1 DEF OneCaller, Serial, Registered
  <1>4. CASE UNCHANGED vars
    <2>1. \A t \in Threads : TurnAt(t)'
      BY <1>0, <1>4 DEF vars, TurnAt, Cycling
    <2>2. \A t \in Threads : SerialAt(t)'
      BY <1>0, <1>4 DEF vars, SerialAt, LastChance, Writing, InReset, Listed, Holds, Computing, Outer
    <2> QED BY <1>0, <1>4, <1>5, <2>1, <2>2 DEF vars, Serial, Registered
  <1> QED BY <1>1, <1>2, <1>3, <1>4 DEF Next

\* With one caller at a time and the strategies init_in_order passes, no call
\* waits for a lock it holds itself, up to the last chance: the retry of a
\* failed generate() never picks the entry whose compute lock the first
\* attempt still has, wherever a 4:1 cycle stands, and reset_all() never finds
\* one of its own locks taken.
THEOREM NeverStalls ==
    ASSUME OneCaller, Chosen = {} PROVE Spec => []NoWaitCycle
  <1>1. Init => Serial
    <2> SUFFICES ASSUME Init PROVE Serial
      OBVIOUS
    <2>1. Lanes /\ Distinct /\ lfw = {} /\ mtx = Free
      <3>1. entries = <<>> /\ Len(entries) = 0 /\ DOMAIN entries = {}
        BY DEF Init
      <3> QED BY <3>1 DEF Init, Lanes, Distinct
    <2>2. ~lfRaced
      BY Zenon DEF Init
    <2>3. ASSUME NEW t \in Threads PROVE SerialAt(t) /\ TurnAt(t)
      BY <2>1, RouterAssumption DEF Init, SerialAt, TurnAt, Writing
    <2> QED BY <2>1, <2>2, <2>3 DEF Serial
  <1>2. IInv /\ Serial /\ [Next]_vars => Serial'
    BY SerialNext
  <1>3. IInv /\ Serial => NoWaitCycle
    <2> SUFFICES ASSUME IInv, Serial, ~LastChance, NEW S \in (SUBSET Threads) \ {{}} PROVE \E t \in S : WaitsFor(t) \cap S = {}
      BY DEF NoWaitCycle, Stuck
    <2>1. PICK t \in S : t \in Threads
      OBVIOUS
    <2>2. S = {t}
      BY <2>1 DEF OneCaller
    <2>3. SerialAt(t) /\ ThreadLocks(t) /\ depth[t] \in {0, 1} /\ entries \in Seq(Entry) /\ ri[t] \in Nat
      BY <2>1 DEF Serial, IInv, LocksHeld, TypeOK
    <2>4. t \notin WaitsFor(t)
      <3>1. CASE pc[t] \in {"lock", "fwd_lock", "lm_lock"}
        <4>1. snap[t][depth[t]].mtx \in Mutexes
          BY <2>3, <3>1 DEF ThreadLocks, Snap
        <4>2. cmtx[snap[t][depth[t]].mtx] # t
          BY <2>3, <3>1, <4>1 DEF SerialAt, Holds, Computing, Outer
        <4>3. WaitsFor(t) = {cmtx[snap[t][depth[t]].mtx]} \ {Free}
          BY <3>1 DEF WaitsFor
        <4> QED BY <4>2, <4>3
      <3>2. CASE pc[t] \in {"record", "retry"}
        <4>1. mtx # t
          BY <2>3, <3>2 DEF SerialAt, InReset
        <4>2. WaitsFor(t) = {mtx} \ {Free}
          BY <3>2 DEF WaitsFor
        <4> QED BY <4>1, <4>2
      <3>3. CASE pc[t] = "reset" /\ ri[t] <= Len(entries) /\ entries[ri[t]].alive
        <4>1. ri[t] \in DOMAIN entries
          BY <2>3, <3>3 DEF ThreadLocks
        <4>2. entries[ri[t]].mtx \in Mutexes
          BY <2>3, <4>1, SnapTyped DEF Entry
        <4>3. cmtx[entries[ri[t]].mtx] # t
          BY <2>1, <2>3, <3>3, <4>2, HoldsNone
        <4>4. WaitsFor(t) = {cmtx[entries[ri[t]].mtx]} \ {Free}
          BY <3>3 DEF WaitsFor
        <4> QED BY <4>3, <4>4
      <3>4. CASE /\ pc[t] \notin {"lock", "fwd_lock", "lm_lock", "record", "retry"}
                 /\ ~(pc[t] = "reset" /\ ri[t] <= Len(entries) /\ entries[ri[t]].alive)
        <4>1. WaitsFor(t) = {} \ {Free}
          BY <3>4 DEF WaitsFor
        <4> QED BY <4>1
      <3> QED BY <3>1, <3>2, <3>3, <3>4
    <2> QED BY <2>2, <2>4
  <1> QED BY <1>1, <1>2, <1>3, InitIInv, NextIInv, PTL DEF Spec
=============================================================================
