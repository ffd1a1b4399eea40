----------------------------- MODULE MeshProofs -----------------------------
(***************************************************************************)
(* Proofs about the conversation of mesh nodes, for any set of nodes and   *)
(* any number of lost messages, timeouts, restarts and expiries.           *)
(***************************************************************************)
EXTENDS Mesh, SequenceTheorems, FiniteSetTheorems, WellFoundedInduction,
        NaturalsInduction, TLAPS

Asks == [from : Nodes, n : Nat, epoch : Nat]
Records == [ask : Asks, kind : {"in", "out", "reply"}, answered : BOOLEAN]
Exchanges == [ask : Asks, to : Nodes, stage : Stages, waiting : BOOLEAN]

Types ==
    /\ peers \in [Nodes -> SUBSET Nodes] /\ greeted \in [Nodes -> SUBSET Nodes]
    /\ integrated \in [Nodes -> SUBSET Nodes] /\ todo \in [Nodes -> SUBSET Nodes]
    /\ inbox \in [Nodes -> Seq(Records)]
    /\ askSeq \in [Nodes -> Nat] /\ epoch \in [Nodes -> Nat]
    /\ calls \subseteq Exchanges /\ IsFiniteSet(calls)
    /\ faults \in 0 .. MaxFaults /\ raced \in BOOLEAN

(* No node talks to itself, flags are those of listed peers, and what is   *)
(* left of the agent's snapshot is neither greeted nor being asked.        *)
Peering ==
    /\ \A n \in Nodes : n \notin peers[n] /\ n \notin todo[n]
    /\ \A n \in Nodes : greeted[n] \subseteq peers[n] /\ integrated[n] \subseteq peers[n]
    /\ \A n \in Nodes : todo[n] \cap greeted[n] = {}
    /\ \A x \in calls : x.to # x.ask.from /\ (x.waiting => x.to \notin todo[x.ask.from])

(* The agent of a node waits for one exchange at a time.                   *)
OneWaiting ==
    \A x, y \in calls : x.waiting /\ y.waiting /\ x.ask.from = y.ask.from => x = y

(* What the exchange of an ask has left behind.                            *)
Traces ==
    /\ \A x \in calls : x.stage # "sent" =>
          \E r \in Log(x.to) : r.kind = "in" /\ r.ask = x.ask
    /\ \A x \in calls : x.stage = "answered" /\ epoch[x.ask.from] = 0 =>
          \E s \in Log(x.ask.from) : s.ask = x.ask /\ s.answered

(* Asks are of this epoch of the asker or of an earlier one, and a node    *)
(* has its own asks only among what it sent.                               *)
Origins ==
    /\ \A x \in calls : x.ask.epoch <= epoch[x.ask.from]
    /\ \A n \in Nodes : \A r \in Log(n) :
          r.ask.epoch <= epoch[r.ask.from] /\ (r.kind = "in" => r.ask.from # n)

Received(n, p) == {i \in 1 .. Len(inbox[n]) : inbox[n][i].kind = "in" /\ inbox[n][i].ask.from = p}
Sent(n, p)     == {x \in calls : x.ask.from = p /\ x.to = n /\ x.stage = "sent"}
Waits(n, p)    == \E x \in calls : x.ask.from = p /\ x.to = n /\ x.waiting

(* The asks to n that p may still send without a further fault.            *)
Owed(n, p) ==
    (IF n \in greeted[p] \/ (n \in peers[p] /\ Waits(n, p)) THEN 0 ELSE 1)
    + (IF n \in todo[p] \ peers[p] THEN 1 ELSE 0)

Budget ==
    \A n, p \in Nodes :
        Cardinality(Received(n, p)) + Cardinality(Sent(n, p)) + Owed(n, p) <= 1 + faults

IInv == Types /\ Peering /\ OneWaiting /\ Traces /\ Origins
        /\ GreetedHasAsk /\ AnswerVisible /\ Budget

-----------------------------------------------------------------------------
(* Lemmas about the log of a node.                                         *)

(* A set of positions that is not empty has a first one.                   *)
LEMMA FirstPosition ==
    ASSUME NEW S \in SUBSET Nat, S # {}
    PROVE  \E x \in S : \A y \in S : x <= y
<1>1. PICK x \in S : \A y \in S : ~(<<y, x>> \in OpToRel(<, Nat))
  BY NatLessThanWellFounded, WFMin, Zenon
<1> DEFINE R == {q \in Nat \X Nat : q[1] < q[2]}
<1>2. OpToRel(<, Nat) = R
  BY Zenon DEF OpToRel
<1>3. \A y \in S : <<y, x>> \notin R
  BY <1>1, <1>2, Zenon
<1>4. ASSUME NEW y \in S, y < x PROVE FALSE
  <2> DEFINE q == <<y, x>>
  <2>1. q \in Nat \X Nat /\ q[1] = y /\ q[2] = x
    OBVIOUS
  <2> HIDE DEF q
  <2>2. q \in R
    BY <1>4, <2>1
  <2> QED BY <2>2, <1>3 DEF q
<1> QED BY <1>4

(* The log `new` keeps every record of `log`; a record may become answered *)
(* if its id is that of a.                                                 *)
Keeps(log, new, a) ==
    /\ new \in Seq(Records) /\ Len(log) <= Len(new)
    /\ \A i \in 1 .. Len(log) :
          /\ new[i].ask = log[i].ask /\ new[i].kind = log[i].kind
          /\ log[i].answered => new[i].answered
          /\ new[i].answered => log[i].answered \/ SameId(log[i].ask, a)

(* record_answer(): the log keeps its records, an answered one with this   *)
(* id is there afterwards, and a new one is only made up when no record    *)
(* has the id.                                                             *)
LEMMA RecordAnswerKeeps ==
    ASSUME NEW log \in Seq(Records), NEW a \in Asks
    PROVE  LET new == RecordAnswer(log, a)
           IN  /\ Keeps(log, new, a)
               /\ \E i \in 1 .. Len(new) : SameId(new[i].ask, a) /\ new[i].answered
               /\ \A i \in 1 .. Len(new) : i > Len(log) =>
                     new[i].kind = "reply" /\ new[i].ask = a /\ new[i].answered
               /\ (\E i \in 1 .. Len(log) : SameId(log[i].ask, a)) => Len(new) = Len(log)
<1> DEFINE new == RecordAnswer(log, a)
           P(i) == SameId(log[i].ask, a) /\ \A j \in 1 .. i - 1 : ~SameId(log[j].ask, a)
<1>0. Len(log) \in Nat /\ \A i \in 1 .. Len(log) : log[i] \in Records
  OBVIOUS
<1>1. CASE \E i \in 1 .. Len(log) : SameId(log[i].ask, a)
  <2> DEFINE first == CHOOSE i \in 1 .. Len(log) : P(i)
             S == {i \in 1 .. Len(log) : SameId(log[i].ask, a)}
  <2>0. S \in SUBSET Nat /\ S # {}
    BY <1>0, <1>1
  <2>1. PICK m \in S : \A y \in S : m <= y
    <3> HIDE DEF S
    <3> QED BY <2>0, FirstPosition
  <2>2. P(m) /\ m \in 1 .. Len(log)
    BY <1>0, <2>1
  <2>3. first \in 1 .. Len(log) /\ P(first)
    BY <2>2, Zenon
  <2>4. new = [log EXCEPT ![first].answered = TRUE]
    BY <1>1, Zenon DEF RecordAnswer
  <2>5. PICK f \in 1 .. Len(log) : SameId(log[f].ask, a) /\ new = [log EXCEPT ![f].answered = TRUE]
    BY <2>3, <2>4
  <2> HIDE DEF new
  <2> DEFINE e == [log[f] EXCEPT !.answered = TRUE]
  <2>6. e \in Records /\ e.answered /\ e.ask = log[f].ask /\ e.kind = log[f].kind
    BY <1>0 DEF Records
  <2>7. new = [log EXCEPT ![f] = e]
    BY <2>5
  <2> HIDE DEF e
  <2>8. /\ new \in Seq(Records) /\ Len(new) = Len(log)
        /\ new[f] = e
        /\ \A j \in 1 .. Len(log) : j # f => new[j] = log[j]
    BY <1>0, <2>6, <2>7, ExceptSeq
  <2> QED BY <1>0, <2>5, <2>6, <2>8 DEF Keeps, new
<1>2. CASE ~ \E i \in 1 .. Len(log) : SameId(log[i].ask, a)
  <2>1. new = Append(log, Record(a, "reply", TRUE))
    BY <1>2, Zenon DEF RecordAnswer
  <2>2. Record(a, "reply", TRUE) \in Records
    BY DEF Record, Records
  <2> HIDE DEF new
  <2>3. /\ new \in Seq(Records) /\ Len(new) = Len(log) + 1
        /\ new[Len(log) + 1] = Record(a, "reply", TRUE)
        /\ \A j \in 1 .. Len(log) : new[j] = log[j]
    BY <2>1, <2>2, AppendProperties
  <2>4. /\ new[Len(log) + 1].answered /\ new[Len(log) + 1].ask = a
        /\ new[Len(log) + 1].kind = "reply" /\ SameId(a, a)
    BY <2>3 DEF Record, SameId
  <2>5. Keeps(log, new, a)
    BY <1>0, <2>3 DEF Keeps
  <2>6. \A i \in 1 .. Len(new) : i > Len(log) => i = Len(log) + 1
    BY <1>0, <2>3
  <2>7. Len(log) + 1 \in 1 .. Len(new)
    BY <1>0, <2>3
  <2> QED BY <1>2, <2>4, <2>5, <2>6, <2>7 DEF new
<1> QED BY <1>1, <1>2

(* A record is appended.                                                   *)
LEMMA AppendKeeps ==
    ASSUME NEW log \in Seq(Records), NEW r \in Records, NEW a
    PROVE  /\ Keeps(log, Append(log, r), a) /\ Len(Append(log, r)) = Len(log) + 1
           /\ Append(log, r)[Len(log) + 1] = r
           /\ \A i \in 1 .. Len(log) : Append(log, r)[i] = log[i]
  BY DEF Keeps

-----------------------------------------------------------------------------
(* An exchange changes its stage, or ends.                                 *)
LEMMA MoveFacts ==
    ASSUME Types, NEW x \in calls, NEW stage \in Stages
    PROVE  LET y == [x EXCEPT !.stage = stage]
               z == [x EXCEPT !.waiting = FALSE]
           IN  /\ y \in Exchanges /\ z \in Exchanges /\ x \in Exchanges
               /\ y.ask = x.ask /\ y.to = x.to /\ y.waiting = x.waiting /\ y.stage = stage
               /\ z.ask = x.ask /\ z.to = x.to /\ z.waiting = FALSE /\ z.stage = x.stage
               /\ x.ask \in Asks /\ x.to \in Nodes /\ x.ask.from \in Nodes
               /\ IsFiniteSet(calls \ {x}) /\ IsFiniteSet((calls \ {x}) \cup {y})
               /\ IsFiniteSet((calls \ {x}) \cup {z})
<1>1. x \in Exchanges /\ IsFiniteSet(calls)
  BY DEF Types
<1>2. IsFiniteSet(calls \ {x})
  BY <1>1, FS_RemoveElement
<1>3. /\ IsFiniteSet((calls \ {x}) \cup {[x EXCEPT !.stage = stage]})
      /\ IsFiniteSet((calls \ {x}) \cup {[x EXCEPT !.waiting = FALSE]})
  BY <1>2, FS_AddElement
<1>4. x.ask \in Asks /\ x.to \in Nodes /\ x.ask.from \in Nodes
  BY <1>1 DEF Exchanges, Asks
<1> QED BY <1>1, <1>2, <1>3, <1>4 DEF Exchanges

(* The exchanges stay typed when one is replaced or dropped.               *)
LEMMA CallsTyped ==
    ASSUME Types, NEW x \in calls, NEW y \in Exchanges, calls' \subseteq (calls \ {x}) \cup {y}
    PROVE  calls' \subseteq Exchanges /\ IsFiniteSet(calls')
<1>1. IsFiniteSet(calls) /\ calls \subseteq Exchanges
  BY DEF Types
<1>2. IsFiniteSet((calls \ {x}) \cup {y})
  BY <1>1, FS_RemoveElement, FS_AddElement
<1> QED BY <1>1, <1>2, FS_Subset

(* The exchanges a restart leaves: those to other nodes, nobody waiting    *)
(* for the ones it asked for.                                              *)
Orphan(x, n) == IF x.ask.from = n THEN [x EXCEPT !.waiting = FALSE] ELSE x

LEMMA OrphanFacts ==
    ASSUME Types, NEW n \in Nodes, NEW x \in calls
    PROVE  /\ Orphan(x, n) \in Exchanges /\ Orphan(x, n).ask = x.ask
           /\ Orphan(x, n).to = x.to /\ Orphan(x, n).stage = x.stage
           /\ Orphan(x, n).waiting => x.waiting /\ x.ask.from # n
           /\ x.ask.from # n => Orphan(x, n) = x
  BY DEF Orphan, Types, Exchanges

LEMMA RestartFacts ==
    ASSUME Types, NEW n \in Nodes, NEW C, C \subseteq calls
    PROVE  /\ IsFiniteSet({Orphan(x, n) : x \in C})
           /\ Cardinality({Orphan(x, n) : x \in C}) <= Cardinality(C)
<1> DEFINE f == [x \in C |-> Orphan(x, n)]
           T == {Orphan(x, n) : x \in C}
<1>1. IsFiniteSet(C)
  BY FS_Subset DEF Types
<1>2. f \in Surjection(C, T)
  BY DEF Surjection
<1> HIDE DEF f
<1> QED BY <1>1, <1>2, FS_Surjection

-----------------------------------------------------------------------------
(* Types.                                                                  *)
LEMMA TypesStep ==
    ASSUME Types, [Next]_vars
    PROVE  Types'
<1> USE FaultAssumption
<1>1. CASE UNCHANGED vars
  BY <1>1 DEF vars, Types
<1>2. ASSUME NEW n \in Nodes, NEW p \in Nodes, Learn(n, p) \/ Handshake(n, p) \/ Expire(n, p)
      PROVE  Types'
  <2>1. CASE Learn(n, p)
    BY <2>1 DEF Types, Learn
  <2>2. CASE Handshake(n, p)
    BY <2>2 DEF Types, Handshake
  <2>3. CASE Expire(n, p)
    <3>1. raced' \in BOOLEAN
      BY <2>3 DEF Expire
    <3> QED BY <2>3, <3>1 DEF Types, Expire, Fault
  <2> QED BY <1>2, <2>1, <2>2, <2>3
<1>3. ASSUME NEW n \in Nodes, Scan(n) PROVE Types'
  BY <1>3 DEF Types, Scan
<1>4. ASSUME NEW n \in Nodes, NEW p \in Nodes, AskPeer(n, p) PROVE Types'
  <2>1. IsFiniteSet(calls')
    BY <1>4, FS_AddElement DEF Types, AskPeer
  <2>2. [ask |-> Ask(n), to |-> p, stage |-> "sent", waiting |-> TRUE] \in Exchanges
    BY DEF Types, Exchanges, Asks, Ask, Stages
  <2>3. calls' \subseteq Exchanges
    BY <1>4, <2>2 DEF Types, AskPeer
  <2>4. askSeq' \in [Nodes -> Nat] /\ todo' \in [Nodes -> SUBSET Nodes]
    BY <1>4 DEF Types, AskPeer
  <2> QED BY <1>4, <2>1, <2>3, <2>4 DEF Types, AskPeer
<1>0. ASSUME NEW x \in calls
      PROVE  /\ x \in Exchanges /\ x.ask \in Asks /\ x.to \in Nodes /\ x.ask.from \in Nodes
             /\ [x EXCEPT !.waiting = FALSE] \in Exchanges
             /\ \A stage \in Stages : [x EXCEPT !.stage = stage] \in Exchanges
  BY <1>0, MoveFacts DEF Stages
<1>5. ASSUME NEW x \in calls, HandleAsk(x) PROVE Types'
  <2> DEFINE r == Record(x.ask, "in", FALSE)
  <2>1. /\ r \in Records
        /\ inbox' = [inbox EXCEPT ![x.to] = Append(inbox[x.to], r)]
    BY <1>5, <1>0 DEF HandleAsk, Record, Records
  <2> HIDE DEF r
  <2>2. inbox' \in [Nodes -> Seq(Records)]
    BY <2>1, AppendProperties DEF Types
  <2>3. calls' \subseteq Exchanges /\ IsFiniteSet(calls')
    BY <1>5, <1>0, CallsTyped DEF HandleAsk, Move, Stages
  <2>4. peers' \in [Nodes -> SUBSET Nodes]
    BY <1>5, <1>0 DEF Types, HandleAsk
  <2> QED BY <1>5, <2>2, <2>3, <2>4 DEF Types, HandleAsk
<1>6. ASSUME NEW x \in calls, HandleAnswer(x) \/ AnswerAccepted(x) PROVE Types'
  <2>1. x.ask \in Asks /\ x.to \in Nodes /\ x.ask.from \in Nodes
    BY <1>0
  <2>2. \A m \in Nodes : RecordAnswer(inbox[m], x.ask) \in Seq(Records)
    BY <2>1, RecordAnswerKeeps DEF Types, Keeps
  <2>3. inbox' \in [Nodes -> Seq(Records)]
    BY <1>6, <2>1, <2>2 DEF Types, HandleAnswer, AnswerAccepted
  <2>4. calls' \subseteq Exchanges /\ IsFiniteSet(calls')
    BY <1>6, <1>0, CallsTyped DEF HandleAnswer, AnswerAccepted, Move, Stages
  <2>5. integrated' \in [Nodes -> SUBSET Nodes]
    <3>1. \A m, q \in Nodes : Mark(integrated, m, q) \in [Nodes -> SUBSET Nodes]
      BY DEF Types, Mark
    <3> QED BY <1>6, <2>1, <3>1 DEF HandleAnswer, AnswerAccepted
  <2> QED BY <1>6, <2>3, <2>4, <2>5 DEF Types, HandleAnswer, AnswerAccepted
<1>7. ASSUME NEW x \in calls, Replied(x) PROVE Types'
  <2> DEFINE r == Record(x.ask, "out", FALSE)
  <2>1. /\ r \in Records
        /\ inbox' = [inbox EXCEPT ![x.ask.from] = Append(inbox[x.ask.from], r)]
    BY <1>7, <1>0 DEF Replied, Record, Records
  <2> HIDE DEF r
  <2>2. inbox' \in [Nodes -> Seq(Records)]
    BY <2>1, AppendProperties DEF Types
  <2>3. calls' \subseteq Exchanges /\ IsFiniteSet(calls')
    BY <1>7, <1>0, CallsTyped DEF Replied, End
  <2>4. greeted' \in [Nodes -> SUBSET Nodes]
    <3>1. \A m, q \in Nodes : Mark(greeted, m, q) \in [Nodes -> SUBSET Nodes]
      BY DEF Types, Mark
    <3> QED BY <1>7, <1>0, <3>1 DEF Replied
  <2> QED BY <1>7, <2>2, <2>3, <2>4 DEF Types, Replied
<1>8. ASSUME NEW x \in calls, ReplyDropped(x) \/ AskLost(x) PROVE Types'
  <2>1. calls' \subseteq Exchanges /\ IsFiniteSet(calls')
    BY <1>8, <1>0, CallsTyped DEF ReplyDropped, AskLost, End
  <2> QED BY <1>8, <2>1 DEF Types, ReplyDropped, AskLost, Fault
<1>9. ASSUME NEW x \in calls, AnswerLost(x) \/ AskTimesOut(x) PROVE Types'
  <2>1. calls' \subseteq Exchanges /\ IsFiniteSet(calls')
    BY <1>9, <1>0, CallsTyped DEF AnswerLost, AskTimesOut, Move, Stages
  <2> QED BY <1>9, <2>1 DEF Types, AnswerLost, AskTimesOut, Fault
<1>10. ASSUME NEW n \in Nodes, Restart(n) PROVE Types'
  <2> DEFINE C == {c \in calls : c.to # n}
  <2>1. calls' = {Orphan(x, n) : x \in C}
    BY <1>10 DEF Restart, Orphan
  <2>2. calls' \subseteq Exchanges /\ IsFiniteSet(calls')
    <3>1. C \subseteq calls
      OBVIOUS
    <3> HIDE DEF C
    <3>2. IsFiniteSet({Orphan(x, n) : x \in C})
      BY <3>1, RestartFacts
    <3>3. \A x \in C : Orphan(x, n) \in Exchanges
      BY <3>1, OrphanFacts
    <3> QED BY <2>1, <3>2, <3>3
  <2>3. <<>> \in Seq(Records)
    OBVIOUS
  <2>4. inbox' \in [Nodes -> Seq(Records)]
    BY <1>10, <2>3 DEF Types, Restart
  <2> QED BY <1>10, <2>2, <2>4 DEF Types, Restart, Fault
<1> QED BY <1>1, <1>2, <1>3, <1>4, <1>5, <1>6, <1>7, <1>8, <1>9, <1>10
        DEF Next, Agent, Handlers, Failures

-----------------------------------------------------------------------------
(* Exchange y takes the place of x: another stage, or given up.            *)
Replaced(x, y) ==
    /\ y.ask = x.ask /\ y.to = x.to /\ (y.waiting => x.waiting)
    /\ calls' = (calls \ {x}) \cup {y}

LEMMA Moved ==
    ASSUME Types, NEW x \in calls, NEW stage \in Stages, Move(x, stage)
    PROVE  \E y \in Exchanges : Replaced(x, y) /\ y.stage = stage /\ y.waiting = x.waiting
<1> DEFINE y == [x EXCEPT !.stage = stage]
<1>1. y \in Exchanges /\ y.ask = x.ask /\ y.to = x.to /\ y.waiting = x.waiting /\ y.stage = stage
  BY MoveFacts
<1>2. calls' = (calls \ {x}) \cup {y}
  BY DEF Move
<1> HIDE DEF y
<1> QED BY <1>1, <1>2 DEF Replaced

LEMMA TimedOut ==
    ASSUME Types, NEW x \in calls, AskTimesOut(x)
    PROVE  \E y \in Exchanges : Replaced(x, y) /\ y.stage = x.stage /\ ~y.waiting
<1> DEFINE y == [x EXCEPT !.waiting = FALSE]
<1>1. y \in Exchanges /\ y.ask = x.ask /\ y.to = x.to /\ ~y.waiting /\ y.stage = x.stage
  BY MoveFacts DEF Stages
<1>2. calls' = (calls \ {x}) \cup {y}
  BY DEF AskTimesOut
<1> HIDE DEF y
<1> QED BY <1>1, <1>2 DEF Replaced

(* The exchange ask_peer() starts.                                         *)
LEMMA Asked ==
    ASSUME Types, NEW n \in Nodes, NEW p \in Nodes, AskPeer(n, p)
    PROVE  \E y \in Exchanges :
              /\ y.ask = Ask(n) /\ y.to = p /\ y.stage = "sent" /\ y.waiting
              /\ y.ask.from = n /\ y.ask.epoch = epoch[n] /\ calls' = calls \cup {y}
<1> DEFINE y == [ask |-> Ask(n), to |-> p, stage |-> "sent", waiting |-> TRUE]
<1>1. /\ y \in Exchanges /\ y.ask = Ask(n) /\ y.to = p /\ y.stage = "sent" /\ y.waiting
      /\ y.ask.from = n /\ y.ask.epoch = epoch[n]
  BY DEF Types, Exchanges, Asks, Ask, Stages
<1>2. calls' = calls \cup {y}
  BY DEF AskPeer
<1> HIDE DEF y
<1> QED BY <1>1, <1>2

(* The exchanges after a restart.                                          *)
LEMMA Restarted ==
    ASSUME Types, NEW n \in Nodes, Restart(n)
    PROVE  /\ calls' = {Orphan(x, n) : x \in {c \in calls : c.to # n}}
           /\ \A y \in calls' : \E x \in calls :
                 /\ y = Orphan(x, n) /\ x.to # n
                 /\ y.ask = x.ask /\ y.to = x.to /\ y.stage = x.stage
                 /\ y.waiting => x.waiting /\ x.ask.from # n
                 /\ x.ask.from # n => y = x
<1>1. calls' = {Orphan(x, n) : x \in {c \in calls : c.to # n}}
  BY DEF Restart, Orphan
<1> QED BY <1>1, OrphanFacts

(* What a step does to the exchanges.                                      *)
LEMMA CallsChange ==
    ASSUME Types, [Next]_vars
    PROVE  \/ calls' = calls
           \/ \E n, p \in Nodes : AskPeer(n, p)
           \/ \E x \in calls, y \in Exchanges : Replaced(x, y)
           \/ \E x \in calls : End(x)
           \/ \E n \in Nodes : Restart(n)
<1>1. ASSUME NEW x \in calls, NEW stage \in Stages, Move(x, stage)
      PROVE  \E y \in Exchanges : Replaced(x, y)
  BY <1>1, Moved
<1>2. ASSUME NEW x \in calls, HandleAsk(x) \/ HandleAnswer(x) \/ AnswerAccepted(x) \/ AnswerLost(x)
      PROVE  \E y \in Exchanges : Replaced(x, y)
  BY <1>1, <1>2 DEF HandleAsk, HandleAnswer, AnswerAccepted, AnswerLost, Stages
<1>3. ASSUME NEW x \in calls, AskTimesOut(x)
      PROVE  \E y \in Exchanges : Replaced(x, y)
  BY <1>3, TimedOut
<1>4. ASSUME NEW x \in calls, Replied(x) \/ ReplyDropped(x) \/ AskLost(x)
      PROVE  End(x)
  BY <1>4 DEF Replied, ReplyDropped, AskLost
<1>5. ASSUME NEW n \in Nodes, NEW p \in Nodes, Learn(n, p) \/ Handshake(n, p) \/ Expire(n, p) \/ Scan(n)
      PROVE  calls' = calls
  BY <1>5 DEF Learn, Handshake, Expire, Scan
<1> QED BY <1>2, <1>3, <1>4, <1>5 DEF Next, Agent, Handlers, Failures, vars

(* The agent of a node waits for one exchange at a time.                   *)
LEMMA OneWaitingStep ==
    ASSUME Types, OneWaiting, [Next]_vars
    PROVE  OneWaiting'
<1>1. ASSUME NEW n \in Nodes, NEW p \in Nodes, AskPeer(n, p) PROVE OneWaiting'
  <2>1. PICK y \in Exchanges : y.ask.from = n /\ calls' = calls \cup {y}
    BY <1>1, Asked
  <2>2. \A x \in calls : ~(x.ask.from = n /\ x.waiting)
    BY <1>1 DEF AskPeer, Asking
  <2> QED BY <2>1, <2>2 DEF OneWaiting
<1>2. ASSUME NEW x \in calls, NEW y \in Exchanges, Replaced(x, y) PROVE OneWaiting'
  BY <1>2 DEF OneWaiting, Replaced
<1>3. ASSUME NEW x \in calls, End(x) PROVE OneWaiting'
  BY <1>3 DEF OneWaiting, End
<1>4. ASSUME NEW n \in Nodes, Restart(n) PROVE OneWaiting'
  BY <1>4, Restarted DEF OneWaiting
<1>5. CASE calls' = calls
  BY <1>5 DEF OneWaiting
<1> QED BY <1>1, <1>2, <1>3, <1>4, <1>5, CallsChange

(* Peering is kept.                                                        *)
LEMMA PeeringStep ==
    ASSUME Types, Peering, OneWaiting, [Next]_vars
    PROVE  Peering'
<1> DEFINE Parties == \A x \in calls : x.to # x.ask.from
           NotLeft == \A x \in calls : x.waiting => x.to \notin todo[x.ask.from]
           Flags == \A n \in Nodes : /\ n \notin peers[n] /\ n \notin todo[n]
                                     /\ greeted[n] \subseteq peers[n] /\ integrated[n] \subseteq peers[n]
                                     /\ todo[n] \cap greeted[n] = {}
<1>0. \A x \in calls : /\ x \in Exchanges /\ x.to \in Nodes /\ x.ask.from \in Nodes /\ x.to # x.ask.from
                       /\ x.waiting => x.to \notin todo[x.ask.from]
  BY DEF Types, Peering, Exchanges, Asks
<1>1. Parties'
  <2>1. ASSUME NEW n \in Nodes, NEW p \in Nodes, AskPeer(n, p) PROVE Parties'
    <3>1. p # n
      BY <2>1 DEF AskPeer, Peering
    <3> QED BY <2>1, <3>1, <1>0, Asked
  <2>2. ASSUME NEW x \in calls, NEW y \in Exchanges, Replaced(x, y) PROVE Parties'
    BY <2>2, <1>0 DEF Replaced
  <2>3. ASSUME NEW x \in calls, End(x) PROVE Parties'
    BY <2>3, <1>0 DEF End
  <2>4. ASSUME NEW n \in Nodes, Restart(n) PROVE Parties'
    BY <2>4, <1>0, Restarted
  <2>5. CASE calls' = calls
    BY <2>5, <1>0
  <2> QED BY <2>1, <2>2, <2>3, <2>4, <2>5, CallsChange
<1>2. NotLeft'
  <2>0. \/ todo' = todo
        \/ \E n \in Nodes : Scan(n) \/ Restart(n) \/ \E p \in Nodes : AskPeer(n, p)
    BY DEF Next, Agent, Handlers, Failures, vars, Learn, Handshake, Expire, HandleAsk, HandleAnswer,
           AnswerAccepted, AnswerLost, AskLost, AskTimesOut, Replied, ReplyDropped
  <2>1. ASSUME NEW n \in Nodes, NEW p \in Nodes, AskPeer(n, p) PROVE NotLeft'
    <3>1. PICK y \in Exchanges : y.ask.from = n /\ y.to = p /\ calls' = calls \cup {y}
      BY <2>1, Asked
    <3>2. p \notin todo'[n] /\ \A m \in Nodes : todo'[m] \subseteq todo[m]
      BY <2>1 DEF AskPeer, Types
    <3> QED BY <3>1, <3>2, <1>0
  <2>2. ASSUME NEW n \in Nodes, Scan(n) PROVE NotLeft'
    <3>1. /\ calls' = calls /\ \A m \in Nodes : m # n => todo'[m] = todo[m]
          /\ \A x \in calls : x.waiting => x.ask.from # n
      BY <2>2 DEF Scan, Types, Asking
    <3> QED BY <3>1, <1>0
  <2>3. ASSUME NEW n \in Nodes, Restart(n) PROVE NotLeft'
    <3>1. \A m \in Nodes : todo'[m] \subseteq todo[m]
      BY <2>3 DEF Restart, Types
    <3> QED BY <2>3, <3>1, <1>0, Restarted
  <2>4. CASE todo' = todo /\ ~ \E n \in Nodes : Restart(n) \/ \E p \in Nodes : AskPeer(n, p)
    <3>1. ASSUME NEW x \in calls, NEW y \in Exchanges, Replaced(x, y) PROVE NotLeft'
      BY <2>4, <3>1, <1>0 DEF Replaced
    <3>2. ASSUME NEW x \in calls, End(x) PROVE NotLeft'
      BY <2>4, <3>2, <1>0 DEF End
    <3> QED BY <2>4, <3>1, <3>2, <1>0, CallsChange
  <2> QED BY <2>0, <2>1, <2>2, <2>3, <2>4
<1>3. Flags'
  <2>0. Flags
    BY DEF Peering
  <2>1. ASSUME NEW n \in Nodes, NEW p \in Nodes, Learn(n, p) \/ Handshake(n, p) \/ Expire(n, p) PROVE Flags'
    <3>1. CASE Learn(n, p)
      BY <2>0, <3>1 DEF Learn, Types
    <3>2. CASE Handshake(n, p)
      BY <2>0, <3>2 DEF Handshake, Types
    <3>3. CASE Expire(n, p)
      BY <2>0, <3>3 DEF Expire, Types
    <3> QED BY <2>1, <3>1, <3>2, <3>3
  <2>2. ASSUME NEW n \in Nodes, Scan(n) PROVE Flags'
    BY <2>0, <2>2 DEF Scan, Types
  <2>3. ASSUME NEW n \in Nodes, NEW p \in Nodes, AskPeer(n, p) PROVE Flags'
    BY <2>0, <2>3 DEF AskPeer, Types
  <2>4. ASSUME NEW x \in calls, HandleAsk(x) PROVE Flags'
    BY <1>0, <2>0, <2>4 DEF HandleAsk, Types
  <2>5. ASSUME NEW x \in calls, HandleAnswer(x) \/ AnswerAccepted(x) PROVE Flags'
    <3>1. PICK m \in Nodes, q \in Nodes : integrated' = Mark(integrated, m, q)
      BY <2>5, <1>0 DEF HandleAnswer, AnswerAccepted
    <3>2. UNCHANGED <<peers, greeted, todo>>
      BY <2>5 DEF HandleAnswer, AnswerAccepted
    <3> QED BY <2>0, <3>1, <3>2 DEF Types, Mark
  <2>6. ASSUME NEW x \in calls, Replied(x) PROVE Flags'
    <3>1. greeted' = Mark(greeted, x.ask.from, x.to) /\ x.to \notin todo[x.ask.from]
      BY <2>6, <1>0 DEF Replied
    <3>2. UNCHANGED <<peers, integrated, todo>>
      BY <2>6 DEF Replied
    <3> QED BY <2>0, <1>0, <3>1, <3>2 DEF Types, Mark
  <2>7. ASSUME NEW n \in Nodes, Restart(n) PROVE Flags'
    BY <2>0, <2>7 DEF Restart, Types
  <2>8. CASE UNCHANGED <<peers, greeted, integrated, todo>>
    BY <2>0, <2>8
  <2>9. ASSUME NEW x \in calls, ReplyDropped(x) \/ AskLost(x) \/ AnswerLost(x) \/ AskTimesOut(x) PROVE Flags'
    BY <2>8, <2>9 DEF ReplyDropped, AskLost, AnswerLost, AskTimesOut
  <2> QED BY <2>1, <2>2, <2>3, <2>4, <2>5, <2>6, <2>7, <2>8, <2>9 DEF Next, Agent, Handlers, Failures, vars
<1> QED BY <1>1, <1>2, <1>3 DEF Peering

-----------------------------------------------------------------------------
(* What a step does to the logs.                                           *)
LEMMA LogsChange ==
    ASSUME Types, [Next]_vars
    PROVE  \/ inbox' = inbox
           \/ \E x \in calls : HandleAsk(x) \/ HandleAnswer(x) \/ AnswerAccepted(x) \/ Replied(x)
           \/ \E n \in Nodes : Restart(n)
  BY DEF Next, Agent, Handlers, Failures, vars, Learn, Handshake, Expire, Scan, AskPeer,
         AnswerLost, AskLost, AskTimesOut, ReplyDropped

(* A handler gets at the logs of the two nodes of its exchange.            *)
LEMMA AskLogged ==
    ASSUME Types, NEW x \in calls, HandleAsk(x)
    PROVE  /\ x.to \in Nodes /\ x.ask \in Asks
           /\ \A m \in Nodes : m # x.to => inbox'[m] = inbox[m]
           /\ Keeps(inbox[x.to], inbox'[x.to], x.ask)
           /\ Len(inbox'[x.to]) = Len(inbox[x.to]) + 1
           /\ inbox'[x.to][Len(inbox[x.to]) + 1] = Record(x.ask, "in", FALSE)
           /\ \A i \in 1 .. Len(inbox[x.to]) : inbox'[x.to][i] = inbox[x.to][i]
<1>1. x.to \in Nodes /\ x.ask \in Asks
  BY MoveFacts DEF Stages
<1> DEFINE r == Record(x.ask, "in", FALSE)
           log == inbox[x.to]
<1>2. r \in Records
  BY <1>1 DEF Record, Records
<1>3. log \in Seq(Records)
  BY <1>1 DEF Types
<1>4. inbox'[x.to] = Append(log, r) /\ \A m \in Nodes : m # x.to => inbox'[m] = inbox[m]
  BY <1>1 DEF HandleAsk, Types
<1> HIDE DEF r, log
<1>5. /\ Keeps(log, Append(log, r), x.ask) /\ Len(Append(log, r)) = Len(log) + 1
      /\ Append(log, r)[Len(log) + 1] = r
      /\ \A i \in 1 .. Len(log) : Append(log, r)[i] = log[i]
  BY <1>2, <1>3, AppendKeeps
<1> QED BY <1>1, <1>4, <1>5 DEF r, log

LEMMA OutLogged ==
    ASSUME Types, NEW x \in calls, Replied(x)
    PROVE  /\ x.ask.from \in Nodes /\ x.ask \in Asks
           /\ \A m \in Nodes : m # x.ask.from => inbox'[m] = inbox[m]
           /\ Keeps(inbox[x.ask.from], inbox'[x.ask.from], x.ask)
           /\ Len(inbox'[x.ask.from]) = Len(inbox[x.ask.from]) + 1
           /\ inbox'[x.ask.from][Len(inbox[x.ask.from]) + 1] = Record(x.ask, "out", FALSE)
           /\ \A i \in 1 .. Len(inbox[x.ask.from]) : inbox'[x.ask.from][i] = inbox[x.ask.from][i]
<1>1. x.ask.from \in Nodes /\ x.ask \in Asks
  BY MoveFacts DEF Stages
<1> DEFINE r == Record(x.ask, "out", FALSE)
           log == inbox[x.ask.from]
<1>2. r \in Records
  BY <1>1 DEF Record, Records
<1>3. log \in Seq(Records)
  BY <1>1 DEF Types
<1>4. inbox'[x.ask.from] = Append(log, r) /\ \A m \in Nodes : m # x.ask.from => inbox'[m] = inbox[m]
  BY <1>1 DEF Replied, Types
<1> HIDE DEF r, log
<1>5. /\ Keeps(log, Append(log, r), x.ask) /\ Len(Append(log, r)) = Len(log) + 1
      /\ Append(log, r)[Len(log) + 1] = r
      /\ \A i \in 1 .. Len(log) : Append(log, r)[i] = log[i]
  BY <1>2, <1>3, AppendKeeps
<1> QED BY <1>1, <1>4, <1>5 DEF r, log

(* The node whose log an answer goes to.                                   *)
Answers(x, m) ==
    \/ HandleAnswer(x) /\ m = x.ask.from
    \/ AnswerAccepted(x) /\ m = x.to

LEMMA AnswerLogged ==
    ASSUME Types, NEW x \in calls, HandleAnswer(x) \/ AnswerAccepted(x)
    PROVE  \E m \in Nodes :
              /\ Answers(x, m) /\ x.ask \in Asks
              /\ \A k \in Nodes : k # m => inbox'[k] = inbox[k]
              /\ Keeps(inbox[m], inbox'[m], x.ask)
              /\ \E i \in 1 .. Len(inbox'[m]) :
                    SameId(inbox'[m][i].ask, x.ask) /\ inbox'[m][i].answered
              /\ \A i \in 1 .. Len(inbox'[m]) : i > Len(inbox[m]) =>
                    inbox'[m][i].kind = "reply" /\ inbox'[m][i].ask = x.ask
<1>1. x.ask.from \in Nodes /\ x.to \in Nodes /\ x.ask \in Asks
  BY MoveFacts DEF Stages
<1>2. PICK m \in Nodes : Answers(x, m) /\ inbox' = [inbox EXCEPT ![m] = RecordAnswer(inbox[m], x.ask)]
  <2>1. CASE HandleAnswer(x)
    <3>1. Answers(x, x.ask.from)
      BY <2>1, Zenon DEF Answers
    <3>2. inbox' = [inbox EXCEPT ![x.ask.from] = RecordAnswer(inbox[x.ask.from], x.ask)]
      BY <2>1 DEF HandleAnswer
    <3> QED BY <1>1, <3>1, <3>2
  <2>2. CASE AnswerAccepted(x)
    BY <1>1, <2>2 DEF AnswerAccepted, Answers
  <2> QED BY <2>1, <2>2
<1>3. inbox[m] \in Seq(Records)
  BY DEF Types
<1>4. inbox'[m] = RecordAnswer(inbox[m], x.ask) /\ \A k \in Nodes : k # m => inbox'[k] = inbox[k]
  BY <1>2 DEF Types
<1> QED BY <1>1, <1>2, <1>3, <1>4, RecordAnswerKeeps

(* A record stays in the log of a node that does not restart.              *)
LEMMA RecordsStay ==
    ASSUME Types, [Next]_vars, NEW m \in Nodes, ~Restart(m), NEW r \in Log(m)
    PROVE  \E s \in Log(m)' : s.ask = r.ask /\ s.kind = r.kind /\ (r.answered => s.answered)
<1>0. inbox[m] \in Seq(Records) /\ Len(inbox[m]) \in Nat
  BY DEF Types
<1>1. PICK i \in 1 .. Len(inbox[m]) : r = inbox[m][i]
  BY DEF Log
<1>2. CASE inbox'[m] = inbox[m]
  BY <1>1, <1>2 DEF Log
<1>3. ASSUME NEW a, Keeps(inbox[m], inbox'[m], a)
      PROVE  \E s \in Log(m)' : s.ask = r.ask /\ s.kind = r.kind /\ (r.answered => s.answered)
  <2>1. i \in 1 .. Len(inbox'[m])
    BY <1>0, <1>1, <1>3 DEF Keeps
  <2> QED BY <1>1, <1>3, <2>1 DEF Keeps, Log
<1>4. ASSUME NEW x \in calls, HandleAsk(x)
      PROVE  inbox'[m] = inbox[m] \/ \E a : Keeps(inbox[m], inbox'[m], a)
  BY <1>4, AskLogged
<1>5. ASSUME NEW x \in calls, HandleAnswer(x) \/ AnswerAccepted(x)
      PROVE  inbox'[m] = inbox[m] \/ \E a : Keeps(inbox[m], inbox'[m], a)
  BY <1>5, AnswerLogged
<1>6. ASSUME NEW x \in calls, Replied(x)
      PROVE  inbox'[m] = inbox[m] \/ \E a : Keeps(inbox[m], inbox'[m], a)
  BY <1>6, OutLogged
<1>7. ASSUME NEW n \in Nodes, Restart(n) PROVE inbox'[m] = inbox[m]
  BY <1>7 DEF Restart, Types
<1> QED BY <1>2, <1>3, <1>4, <1>5, <1>6, <1>7, LogsChange

(* Where a record of the log comes from.                                   *)
LEMMA RecordsComeFrom ==
    ASSUME Types, [Next]_vars, NEW m \in Nodes, NEW s \in Log(m)'
    PROVE  \/ \E r \in Log(m) :
                 /\ s.ask = r.ask /\ s.kind = r.kind
                 /\ s.answered => \/ r.answered
                                  \/ \E x \in calls : Answers(x, m) /\ SameId(r.ask, x.ask)
           \/ \E x \in calls :
                 /\ s.ask = x.ask /\ s.kind # "in"
           \/ \E x \in calls :
                 HandleAsk(x) /\ m = x.to /\ s.ask = x.ask /\ s.kind = "in" /\ ~s.answered
<1> DEFINE Goal == \/ \E r \in Log(m) :
                         /\ s.ask = r.ask /\ s.kind = r.kind
                         /\ s.answered => \/ r.answered
                                          \/ \E x \in calls : Answers(x, m) /\ SameId(r.ask, x.ask)
                   \/ \E x \in calls :
                         /\ s.ask = x.ask /\ s.kind # "in"
                   \/ \E x \in calls :
                         HandleAsk(x) /\ m = x.to /\ s.ask = x.ask /\ s.kind = "in" /\ ~s.answered
<1>0. inbox[m] \in Seq(Records) /\ Len(inbox[m]) \in Nat
  BY DEF Types
<1>1. PICK i \in 1 .. Len(inbox'[m]) : s = inbox'[m][i]
  BY DEF Log
<1>2. CASE inbox'[m] = inbox[m]
  BY <1>1, <1>2 DEF Log
<1>3. ASSUME NEW x \in calls, HandleAsk(x), m = x.to PROVE Goal
  <2>1. CASE i \in 1 .. Len(inbox[m])
    BY <1>1, <1>3, <2>1, AskLogged DEF Log
  <2>2. CASE i = Len(inbox[m]) + 1
    <3>1. s = Record(x.ask, "in", FALSE)
      BY <1>1, <1>3, <2>2, AskLogged
    <3>2. s.ask = x.ask /\ s.kind = "in" /\ s.answered = FALSE
      BY <3>1 DEF Record
    <3> QED BY <1>3, <3>2
  <2>3. Len(inbox'[m]) = Len(inbox[m]) + 1
    BY <1>3, AskLogged
  <2> QED BY <1>0, <1>1, <2>1, <2>2, <2>3
<1>4. ASSUME NEW x \in calls, Replied(x), m = x.ask.from PROVE Goal
  <2>1. CASE i \in 1 .. Len(inbox[m])
    BY <1>1, <1>4, <2>1, OutLogged DEF Log
  <2>2. CASE i = Len(inbox[m]) + 1
    <3>1. s = Record(x.ask, "out", FALSE)
      BY <1>1, <1>4, <2>2, OutLogged
    <3>2. s.ask = x.ask /\ s.kind = "out" /\ s.answered = FALSE
      BY <3>1 DEF Record
    <3> QED BY <1>4, <3>2
  <2>3. Len(inbox'[m]) = Len(inbox[m]) + 1
    BY <1>4, OutLogged
  <2> QED BY <1>0, <1>1, <2>1, <2>2, <2>3
<1>5. ASSUME NEW x \in calls, HandleAnswer(x) \/ AnswerAccepted(x) PROVE Goal
  <2>1. PICK k \in Nodes :
              /\ Answers(x, k)
              /\ \A j \in Nodes : j # k => inbox'[j] = inbox[j]
              /\ Keeps(inbox[k], inbox'[k], x.ask)
              /\ \A j \in 1 .. Len(inbox'[k]) : j > Len(inbox[k]) =>
                    inbox'[k][j].kind = "reply" /\ inbox'[k][j].ask = x.ask
    BY <1>5, AnswerLogged
  <2>2. CASE k = m /\ i \in 1 .. Len(inbox[m])
    <3>1. inbox[m][i] \in Log(m)
      BY <2>2 DEF Log
    <3> QED BY <1>1, <2>1, <2>2, <3>1 DEF Keeps
  <2>3. CASE k = m /\ i > Len(inbox[m])
    BY <1>1, <2>1, <2>3
  <2>4. CASE k # m
    BY <1>2, <2>1, <2>4
  <2> QED BY <1>0, <1>1, <2>2, <2>3, <2>4
<1>6. ASSUME NEW n \in Nodes, Restart(n) PROVE Goal
  <2>1. inbox'[m] = IF m = n THEN <<>> ELSE inbox[m]
    BY <1>6 DEF Restart, Types
  <2> QED BY <1>1, <1>2, <2>1
<1> QED BY <1>2, <1>3, <1>4, <1>5, <1>6, LogsChange, AskLogged, OutLogged

-----------------------------------------------------------------------------
(* Restarts of a node are only ever counted up.                            *)
LEMMA EpochStep ==
    ASSUME Types, [Next]_vars, NEW m \in Nodes
    PROVE  /\ epoch[m] \in Nat /\ epoch'[m] \in Nat /\ epoch[m] <= epoch'[m]
           /\ Restart(m) => epoch'[m] # 0
           /\ epoch'[m] = 0 => epoch[m] = 0
<1>1. ASSUME NEW n \in Nodes, Restart(n)
      PROVE  epoch'[m] = IF m = n THEN epoch[m] + 1 ELSE epoch[m]
  BY <1>1 DEF Restart, Types
<1>2. epoch[m] \in Nat
  BY DEF Types
<1>3. (\E n \in Nodes : Restart(n)) \/ epoch' = epoch
  BY DEF Next, Agent, Handlers, Failures, vars, Learn, Handshake, Expire, Scan, AskPeer, HandleAsk,
         HandleAnswer, AnswerAccepted, AnswerLost, AskLost, AskTimesOut, Replied, ReplyDropped
<1>4. Restart(m) => epoch'[m] = epoch[m] + 1
  BY <1>1
<1> QED BY <1>1, <1>2, <1>3, <1>4

(* Asks of a node that never restarted are told apart by their id.         *)
LEMMA IdIsAsk ==
    ASSUME Types, NEW a \in Asks, NEW b \in Asks, SameId(a, b), a.epoch = 0, b.epoch = 0
    PROVE  a = b
  BY DEF Asks, SameId

LEMMA LogTyped ==
    ASSUME Types, NEW m \in Nodes, NEW r \in Log(m)
    PROVE  r \in Records /\ r.ask \in Asks /\ r.ask.from \in Nodes /\ r.ask.epoch \in Nat
<1>1. inbox[m] \in Seq(Records)
  BY DEF Types
<1>2. PICK i \in 1 .. Len(inbox[m]) : r = inbox[m][i]
  BY DEF Log
<1>3. r \in Records
  BY <1>1, <1>2
<1> QED BY <1>3 DEF Records, Asks

(* Origins.                                                                *)
LEMMA OriginsStep ==
    ASSUME Types, Types', Peering, Origins, [Next]_vars
    PROVE  Origins'
<1>0. ASSUME NEW x \in calls
      PROVE  /\ x.ask \in Asks /\ x.ask.from \in Nodes /\ x.ask.epoch \in Nat /\ x.to \in Nodes
             /\ x.ask.epoch <= epoch'[x.ask.from] /\ x.to # x.ask.from
  <2>1. /\ x.ask \in Asks /\ x.ask.from \in Nodes /\ x.ask.epoch \in Nat /\ x.to \in Nodes
        /\ x.ask.epoch <= epoch[x.ask.from] /\ x.to # x.ask.from
    BY <1>0 DEF Types, Exchanges, Asks, Origins, Peering
  <2> QED BY <2>1, EpochStep
<1>1. ASSUME NEW y \in calls' PROVE y.ask.epoch <= epoch'[y.ask.from]
  <2>1. ASSUME NEW n \in Nodes, NEW p \in Nodes, AskPeer(n, p) PROVE y.ask.epoch <= epoch'[y.ask.from]
    <3>1. y \in calls \/ (y.ask.from = n /\ y.ask.epoch = epoch[n])
      BY <1>1, <2>1, Asked
    <3> QED BY <1>0, <3>1, EpochStep
  <2>2. ASSUME NEW x \in calls, NEW z \in Exchanges, Replaced(x, z) PROVE y.ask.epoch <= epoch'[y.ask.from]
    BY <1>0, <1>1, <2>2 DEF Replaced
  <2>3. ASSUME NEW x \in calls, End(x) PROVE y.ask.epoch <= epoch'[y.ask.from]
    BY <1>0, <1>1, <2>3 DEF End
  <2>4. ASSUME NEW n \in Nodes, Restart(n) PROVE y.ask.epoch <= epoch'[y.ask.from]
    BY <1>0, <1>1, <2>4, Restarted
  <2>5. CASE calls' = calls
    BY <1>0, <1>1, <2>5
  <2> QED BY <2>1, <2>2, <2>3, <2>4, <2>5, CallsChange
<1>2. ASSUME NEW m \in Nodes, NEW s \in Log(m)'
      PROVE  s.ask.epoch <= epoch'[s.ask.from] /\ (s.kind = "in" => s.ask.from # m)
  <2>1. ASSUME NEW r \in Log(m), s.ask = r.ask, s.kind = r.kind
        PROVE  s.ask.epoch <= epoch'[s.ask.from] /\ (s.kind = "in" => s.ask.from # m)
    <3>1. r.ask.epoch <= epoch[r.ask.from] /\ (r.kind = "in" => r.ask.from # m)
      BY DEF Origins
    <3> QED BY <2>1, <3>1, LogTyped, EpochStep
  <2>2. ASSUME NEW x \in calls, s.ask = x.ask, s.kind # "in" \/ m = x.to
        PROVE  s.ask.epoch <= epoch'[s.ask.from] /\ (s.kind = "in" => s.ask.from # m)
    BY <1>0, <2>2
  <2> QED BY <1>2, <2>1, <2>2, RecordsComeFrom
<1> QED BY <1>1, <1>2 DEF Origins

(* Traces.                                                                 *)
LEMMA TracesStep ==
    ASSUME Types, Types', Peering, Traces, Origins, Origins', [Next]_vars
    PROVE  Traces'
<1> DEFINE Came(y) == y.stage # "sent" => \E r \in Log(y.to) : r.kind = "in" /\ r.ask = y.ask
           Shown(y) == y.stage = "answered" /\ epoch[y.ask.from] = 0 =>
                          \E s \in Log(y.ask.from) : s.ask = y.ask /\ s.answered
<1>0. ASSUME NEW x \in calls
      PROVE  x \in Exchanges /\ x.ask \in Asks /\ x.ask.from \in Nodes /\ x.ask.epoch \in Nat /\ x.to \in Nodes
  BY <1>0 DEF Types, Exchanges, Asks
<1>1. ASSUME NEW x \in calls, ~Restart(x.to), x.stage # "sent"
      PROVE  \E r \in Log(x.to)' : r.kind = "in" /\ r.ask = x.ask
  BY <1>0, <1>1, RecordsStay DEF Traces
<1>2. ASSUME NEW x \in calls, epoch'[x.ask.from] = 0, x.stage = "answered"
      PROVE  \E s \in Log(x.ask.from)' : s.ask = x.ask /\ s.answered
  <2>1. ~Restart(x.ask.from) /\ epoch[x.ask.from] = 0
    BY <1>0, <1>2, EpochStep
  <2>2. PICK s \in Log(x.ask.from) : s.ask = x.ask /\ s.answered
    BY <1>2, <2>1 DEF Traces
  <2> QED BY <1>0, <2>1, <2>2, RecordsStay
<1>3. ASSUME NEW x \in calls, HandleAsk(x)
      PROVE  \E r \in Log(x.to)' : r.kind = "in" /\ r.ask = x.ask
  <2> DEFINE k == Len(inbox[x.to]) + 1
  <2>1. inbox[x.to] \in Seq(Records)
    BY <1>0 DEF Types
  <2>2. k \in 1 .. Len(inbox'[x.to]) /\ inbox'[x.to][k] = Record(x.ask, "in", FALSE)
    <3>1. Len(inbox'[x.to]) = k /\ inbox'[x.to][k] = Record(x.ask, "in", FALSE)
      BY <1>3, AskLogged
    <3> QED BY <2>1, <3>1
  <2>3. inbox'[x.to][k].kind = "in" /\ inbox'[x.to][k].ask = x.ask
    BY <2>2 DEF Record
  <2> QED BY <2>2, <2>3 DEF Log
<1>4. ASSUME NEW x \in calls, HandleAnswer(x), epoch'[x.ask.from] = 0
      PROVE  \E s \in Log(x.ask.from)' : s.ask = x.ask /\ s.answered
  <2>1. PICK m \in Nodes : /\ Answers(x, m)
                           /\ \E i \in 1 .. Len(inbox'[m]) : SameId(inbox'[m][i].ask, x.ask) /\ inbox'[m][i].answered
    BY <1>4, AnswerLogged
  <2>2. m = x.ask.from
    BY <1>4, <2>1 DEF Answers, HandleAnswer, AnswerAccepted
  <2>3. PICK s \in Log(m)' : SameId(s.ask, x.ask) /\ s.answered
    BY <2>1 DEF Log
  <2>4. s \in Records /\ s.ask \in Asks /\ s.ask.epoch \in Nat
    <3>1. inbox'[m] \in Seq(Records)
      BY DEF Types
    <3>2. s \in Records
      BY <3>1 DEF Log
    <3> QED BY <3>2 DEF Records, Asks
  <2>5. s.ask.epoch <= epoch'[s.ask.from] /\ s.ask.from = x.ask.from
    BY <2>3 DEF Origins, SameId
  <2>6. x.ask.epoch <= epoch[x.ask.from] /\ epoch[x.ask.from] = 0
    BY <1>0, <1>4, EpochStep DEF Origins
  <2>7. s.ask = x.ask
    BY <1>0, <1>4, <2>3, <2>4, <2>5, <2>6, IdIsAsk
  <2> QED BY <2>2, <2>3, <2>7
<1>5. ASSUME NEW m \in Nodes, UNCHANGED epoch PROVE ~Restart(m)
  BY <1>5 DEF Restart, Types
<1>6. ASSUME NEW y \in calls' PROVE Came(y)' /\ Shown(y)'
  <2>1. CASE y \in calls /\ ~Restart(y.to)
    BY <1>1, <1>2, <2>1
  <2>2. ASSUME NEW n \in Nodes, NEW p \in Nodes, AskPeer(n, p) PROVE Came(y)' /\ Shown(y)'
    <3>1. ~Restart(y.to)
      BY <2>2 DEF AskPeer, Restart, Fault, Types
    <3>2. y \in calls \/ y.stage = "sent"
      BY <1>6, <2>2, Asked
    <3> QED BY <2>1, <3>1, <3>2
  <2>3. ASSUME NEW n \in Nodes, Restart(n) PROVE Came(y)' /\ Shown(y)'
    <3>1. PICK x \in calls : x.to # n /\ y.ask = x.ask /\ y.to = x.to /\ y.stage = x.stage
      BY <1>6, <2>3, Restarted
    <3>2. ~Restart(x.to)
      <4>1. SUFFICES ASSUME Restart(x.to) PROVE FALSE
        OBVIOUS
      <4>2. epoch'[x.to] = epoch[x.to] + 1 /\ epoch'[x.to] = epoch[x.to] /\ epoch[x.to] \in Nat
        BY <1>0, <2>3, <3>1, <4>1 DEF Restart, Types
      <4> QED BY <4>2
    <3> QED BY <1>1, <1>2, <3>1, <3>2
  <2>4. ASSUME NEW x \in calls, HandleAsk(x) PROVE Came(y)' /\ Shown(y)'
    <3>1. PICK z \in Exchanges : Replaced(x, z) /\ z.stage = "answering"
      BY <2>4, Moved DEF HandleAsk, Stages
    <3>2. CASE y \in calls
      BY <1>0, <1>5, <2>1, <2>4, <3>2 DEF HandleAsk
    <3>3. CASE y = z
      BY <1>3, <2>4, <3>1, <3>3 DEF Replaced
    <3> QED BY <1>6, <3>1, <3>2, <3>3 DEF Replaced
  <2>5. ASSUME NEW x \in calls, HandleAnswer(x) PROVE Came(y)' /\ Shown(y)'
    <3>1. PICK z \in Exchanges : Replaced(x, z) /\ z.stage = "answered"
      BY <2>5, Moved DEF HandleAnswer, Stages
    <3>2. CASE y \in calls
      BY <1>0, <1>5, <2>1, <2>5, <3>2 DEF HandleAnswer
    <3>3. CASE y = z
      <4>1. ~Restart(x.to) /\ x.stage # "sent"
        BY <1>0, <1>5, <2>5 DEF HandleAnswer
      <4> QED BY <1>1, <1>4, <2>5, <3>1, <3>3, <4>1 DEF Replaced
    <3> QED BY <1>6, <3>1, <3>2, <3>3 DEF Replaced
  <2>6. ASSUME NEW x \in calls, AnswerAccepted(x) \/ AnswerLost(x) PROVE Came(y)' /\ Shown(y)'
    <3>1. PICK z \in Exchanges : Replaced(x, z) /\ z.stage = "replied"
      BY <2>6, Moved DEF AnswerAccepted, AnswerLost, Stages
    <3>2. UNCHANGED epoch /\ x.stage # "sent"
      BY <2>6 DEF AnswerAccepted, AnswerLost
    <3>3. CASE y \in calls
      BY <1>0, <1>5, <2>1, <3>2, <3>3
    <3>4. CASE y = z
      BY <1>0, <1>1, <1>5, <3>1, <3>2, <3>4 DEF Replaced
    <3> QED BY <1>6, <3>1, <3>3, <3>4 DEF Replaced
  <2>7. ASSUME NEW x \in calls, AskTimesOut(x) PROVE Came(y)' /\ Shown(y)'
    <3>1. PICK z \in Exchanges : Replaced(x, z) /\ z.stage = x.stage
      BY <2>7, TimedOut
    <3>2. UNCHANGED epoch
      BY <2>7 DEF AskTimesOut
    <3>3. CASE y \in calls
      BY <1>0, <1>5, <2>1, <3>2, <3>3
    <3>4. CASE y = z
      BY <1>0, <1>1, <1>2, <1>5, <3>1, <3>2, <3>4 DEF Replaced
    <3> QED BY <1>6, <3>1, <3>3, <3>4 DEF Replaced
  <2>8. CASE UNCHANGED epoch /\ y \in calls
    BY <1>0, <1>5, <2>1, <2>8
  <2>9. ASSUME NEW x \in calls, Replied(x) \/ ReplyDropped(x) \/ AskLost(x) PROVE UNCHANGED epoch /\ y \in calls
    BY <1>6, <2>9 DEF Replied, ReplyDropped, AskLost, End
  <2>10. ASSUME NEW n \in Nodes, NEW p \in Nodes, Learn(n, p) \/ Handshake(n, p) \/ Expire(n, p) \/ Scan(n)
         PROVE  UNCHANGED epoch /\ y \in calls
    BY <1>6, <2>10 DEF Learn, Handshake, Expire, Scan
  <2> HIDE DEF Came, Shown
  <2> QED BY <1>6, <2>2, <2>3, <2>4, <2>5, <2>6, <2>7, <2>8, <2>9, <2>10
          DEF Next, Agent, Handlers, Failures, vars
<1> QED BY <1>6 DEF Traces

(* A greeted peer that has not restarted has the ask.                      *)
LEMMA GreetedHasAskStep ==
    ASSUME Types, Types', Traces, GreetedHasAsk, [Next]_vars
    PROVE  GreetedHasAsk'
<1>1. SUFFICES ASSUME NEW n \in Nodes, NEW p \in greeted'[n], epoch'[p] = 0
               PROVE  \E r \in Log(p)' : r.kind = "in" /\ r.ask.from = n
  BY DEF GreetedHasAsk
<1>2. p \in Nodes
  BY <1>1 DEF Types
<1>3. epoch[p] = 0 /\ ~Restart(p)
  BY <1>1, <1>2, EpochStep
<1>4. ASSUME NEW r \in Log(p), r.kind = "in", r.ask.from = n
      PROVE  \E s \in Log(p)' : s.kind = "in" /\ s.ask.from = n
  BY <1>2, <1>3, <1>4, RecordsStay
<1>5. CASE p \in greeted[n]
  BY <1>3, <1>4, <1>5 DEF GreetedHasAsk
<1>6. ASSUME NEW x \in calls, Replied(x), p \notin greeted[n]
      PROVE  \E r \in Log(p)' : r.kind = "in" /\ r.ask.from = n
  <2>1. x.ask.from = n /\ x.to = p
    BY <1>1, <1>6 DEF Replied, Mark, Types
  <2>2. x.stage = "replied"
    BY <1>6 DEF Replied
  <2> QED BY <1>4, <2>1, <2>2 DEF Traces
<1>7. ASSUME NEW m \in Nodes, Restart(m) \/ \E q \in Nodes : Expire(m, q)
      PROVE  p \in greeted[n]
  <2>1. CASE Restart(m)
    BY <1>1, <2>1 DEF Restart, Types
  <2>2. ASSUME NEW q \in Nodes, Expire(m, q) PROVE p \in greeted[n]
    BY <1>1, <2>2 DEF Expire, Types
  <2> QED BY <1>7, <2>1, <2>2
<1>8. CASE greeted' = greeted
  BY <1>1, <1>5, <1>8
<1> QED BY <1>5, <1>6, <1>7, <1>8
        DEF Next, Agent, Handlers, Failures, vars, Learn, Handshake, Scan, AskPeer, HandleAsk,
            HandleAnswer, AnswerAccepted, AnswerLost, AskLost, AskTimesOut, ReplyDropped

(* Both sides of the conversation stay visible.                            *)
LEMMA AnswerVisibleStep ==
    ASSUME Types, Types', Peering, Traces, Origins, AnswerVisible, [Next]_vars
    PROVE  AnswerVisible'
<1>1. SUFFICES ASSUME NEW n \in Nodes, NEW s \in Log(n)', s.kind = "in", s.answered,
                      s.ask.epoch = epoch'[s.ask.from], s.ask.epoch = 0
               PROVE  \E t \in Log(s.ask.from)' : t.ask = s.ask /\ t.answered
  BY DEF AnswerVisible
<1>2. PICK r \in Log(n) :
         /\ s.ask = r.ask /\ s.kind = r.kind
         /\ \/ r.answered
            \/ \E x \in calls : Answers(x, n) /\ SameId(r.ask, x.ask)
  BY <1>1, RecordsComeFrom
<1>3. /\ r.ask \in Asks /\ r.ask.from \in Nodes /\ r.ask.from # n
      /\ epoch[r.ask.from] = 0 /\ ~Restart(r.ask.from)
  <2>1. r.ask \in Asks /\ r.ask.from \in Nodes
    BY LogTyped
  <2>2. r.ask.from # n
    BY <1>1, <1>2 DEF Origins
  <2> QED BY <1>1, <1>2, <2>1, <2>2, EpochStep
<1>4. ASSUME NEW t \in Log(r.ask.from), t.ask = r.ask, t.answered
      PROVE  \E u \in Log(s.ask.from)' : u.ask = s.ask /\ u.answered
  BY <1>2, <1>3, <1>4, RecordsStay
<1>5. CASE r.answered
  <2>1. r.kind = "in" /\ r.ask.epoch = epoch[r.ask.from] /\ r.ask.epoch = 0
    BY <1>1, <1>2, <1>3
  <2> QED BY <1>4, <1>5, <2>1 DEF AnswerVisible
<1>6. ASSUME NEW x \in calls, Answers(x, n), SameId(r.ask, x.ask)
      PROVE  \E u \in Log(s.ask.from)' : u.ask = s.ask /\ u.answered
  <2>1. AnswerAccepted(x)
    BY <1>3, <1>6 DEF Answers, SameId
  <2>2. x.ask \in Asks /\ x.ask.epoch <= epoch[x.ask.from] /\ x.ask.epoch \in Nat
    BY DEF Types, Exchanges, Asks, Origins
  <2>3. x.ask.from = r.ask.from
    BY <1>6 DEF SameId
  <2>4. x.ask = r.ask
    <3>1. x.ask.epoch = 0 /\ r.ask.epoch = 0
      BY <1>1, <1>2, <1>3, <2>2, <2>3
    <3> QED BY <1>3, <1>6, <2>2, <3>1, IdIsAsk
  <2>5. x.stage = "answered"
    BY <2>1 DEF AnswerAccepted
  <2> QED BY <1>3, <1>4, <2>3, <2>4, <2>5 DEF Traces
<1> QED BY <1>2, <1>5, <1>6

-----------------------------------------------------------------------------
(* How many asks of p reach n.                                             *)

Counted ==
    \A n, p \in Nodes :
        /\ IsFiniteSet(Received(n, p)) /\ Cardinality(Received(n, p)) \in Nat
        /\ IsFiniteSet(Sent(n, p)) /\ Cardinality(Sent(n, p)) \in Nat
        /\ Owed(n, p) \in 0 .. 2 /\ faults \in Nat

LEMMA BudgetTypes == Types => Counted
<1>1. SUFFICES ASSUME Types, NEW n \in Nodes, NEW p \in Nodes
               PROVE  /\ IsFiniteSet(Received(n, p)) /\ Cardinality(Received(n, p)) \in Nat
                      /\ IsFiniteSet(Sent(n, p)) /\ Cardinality(Sent(n, p)) \in Nat
                      /\ Owed(n, p) \in 0 .. 2 /\ faults \in Nat
  BY DEF Counted
<1>2. Len(inbox[n]) \in Nat
  BY <1>1 DEF Types
<1>3. IsFiniteSet(1 .. Len(inbox[n]))
  BY <1>2, FS_Interval
<1>4. Received(n, p) \subseteq 1 .. Len(inbox[n])
  BY DEF Received
<1>5. IsFiniteSet(Received(n, p)) /\ Cardinality(Received(n, p)) \in Nat
  BY <1>3, <1>4, FS_Subset, FS_CardinalityType
<1>6. IsFiniteSet(Sent(n, p)) /\ Cardinality(Sent(n, p)) \in Nat
  BY <1>1, FS_Subset, FS_CardinalityType DEF Sent, Types
<1> QED BY <1>1, <1>5, <1>6, FaultAssumption DEF Owed, Types

LEMMA AtMostOneMore ==
    ASSUME NEW S, IsFiniteSet(S), NEW e, NEW T, T \subseteq S \cup {e}
    PROVE  Cardinality(T) <= Cardinality(S) + 1
<1>1. IsFiniteSet(S \cup {e}) /\ Cardinality(S) \in Nat
  BY FS_AddElement, FS_CardinalityType
<1>2. Cardinality(S \cup {e}) = Cardinality(S) \/ Cardinality(S \cup {e}) = Cardinality(S) + 1
  BY FS_AddElement
<1>3. Cardinality(T) <= Cardinality(S \cup {e}) /\ IsFiniteSet(T)
  BY <1>1, FS_Subset
<1>4. Cardinality(T) \in Nat
  BY <1>3, FS_CardinalityType
<1> QED BY <1>1, <1>2, <1>3, <1>4

(* Only the handler of an ask adds to what was received.                   *)
LEMMA ReceivedAsk ==
    ASSUME Types, NEW n \in Nodes, NEW p \in Nodes, NEW x \in calls, HandleAsk(x)
    PROVE  /\ Received(n, p)' \subseteq Received(n, p) \cup {Len(inbox[n]) + 1}
           /\ ~(x.to = n /\ x.ask.from = p) => Received(n, p)' \subseteq Received(n, p)
<1>0. inbox[n] \in Seq(Records) /\ Len(inbox[n]) \in Nat
  BY DEF Types
<1>1. CASE x.to # n
  <2>1. inbox'[n] = inbox[n]
    BY <1>1, AskLogged
  <2> QED BY <2>1 DEF Received
<1>2. CASE x.to = n
  <2> DEFINE k == Len(inbox[n]) + 1
  <2>1. /\ Len(inbox'[n]) = k /\ inbox'[n][k] = Record(x.ask, "in", FALSE)
        /\ \A i \in 1 .. Len(inbox[n]) : inbox'[n][i] = inbox[n][i]
    BY <1>2, AskLogged
  <2>2. inbox'[n][k].ask.from = x.ask.from
    BY <2>1 DEF Record
  <2>3. \A i \in 1 .. Len(inbox'[n]) : i = k \/ i \in 1 .. Len(inbox[n])
    BY <1>0, <2>1
  <2> HIDE DEF k
  <2>4. ASSUME NEW i \in Received(n, p)' PROVE (i = k /\ x.ask.from = p) \/ i \in Received(n, p)
    BY <2>1, <2>2, <2>3 DEF Received
  <2> QED BY <1>2, <2>4 DEF k
<1> QED BY <1>1, <1>2

LEMMA ReceivedOut ==
    ASSUME Types, NEW n \in Nodes, NEW p \in Nodes, NEW x \in calls, Replied(x)
    PROVE  Received(n, p)' \subseteq Received(n, p)
<1>0. inbox[n] \in Seq(Records) /\ Len(inbox[n]) \in Nat
  BY DEF Types
<1>1. CASE x.ask.from # n
  <2>1. inbox'[n] = inbox[n]
    BY <1>1, OutLogged
  <2> QED BY <2>1 DEF Received
<1>2. CASE x.ask.from = n
  <2> DEFINE k == Len(inbox[n]) + 1
  <2>1. /\ Len(inbox'[n]) = k /\ inbox'[n][k] = Record(x.ask, "out", FALSE)
        /\ \A i \in 1 .. Len(inbox[n]) : inbox'[n][i] = inbox[n][i]
    BY <1>2, OutLogged
  <2>2. inbox'[n][k].kind = "out"
    BY <2>1 DEF Record
  <2>3. \A i \in 1 .. Len(inbox'[n]) : i = k \/ i \in 1 .. Len(inbox[n])
    BY <1>0, <2>1
  <2> HIDE DEF k
  <2> QED BY <2>1, <2>2, <2>3 DEF Received
<1> QED BY <1>1, <1>2

LEMMA ReceivedAnswer ==
    ASSUME Types, NEW n \in Nodes, NEW p \in Nodes, NEW x \in calls, HandleAnswer(x) \/ AnswerAccepted(x)
    PROVE  Received(n, p)' \subseteq Received(n, p)
<1>0. inbox[n] \in Seq(Records) /\ Len(inbox[n]) \in Nat
  BY DEF Types
<1>1. PICK m \in Nodes :
            /\ \A k \in Nodes : k # m => inbox'[k] = inbox[k]
            /\ Keeps(inbox[m], inbox'[m], x.ask)
            /\ \A i \in 1 .. Len(inbox'[m]) : i > Len(inbox[m]) => inbox'[m][i].kind = "reply"
  BY AnswerLogged
<1>2. CASE m = n
  <2>1. \A i \in 1 .. Len(inbox'[n]) : i > Len(inbox[n]) \/ i \in 1 .. Len(inbox[n])
    BY <1>0
  <2> QED BY <1>1, <1>2, <2>1 DEF Received, Keeps
<1>3. CASE m # n
  <2>1. inbox'[n] = inbox[n]
    BY <1>1, <1>3
  <2> QED BY <2>1 DEF Received
<1> QED BY <1>2, <1>3

(* Owed under a step.                                                      *)
LEMMA OwedPlus ==
    ASSUME Types, Types', NEW n \in Nodes, NEW p \in Nodes,
           n \in todo'[p] \ peers'[p] => n \in todo[p] \ peers[p]
    PROVE  Owed(n, p)' <= Owed(n, p) + 1
  BY DEF Owed

LEMMA OwedKept ==
    ASSUME Types, Types', NEW n \in Nodes, NEW p \in Nodes,
           n \in todo'[p] \ peers'[p] => n \in todo[p] \ peers[p],
           n \in greeted[p] => n \in greeted'[p], n \in peers[p] => n \in peers'[p],
           n \in peers[p] /\ Waits(n, p) => Waits(n, p)' \/ n \in greeted'[p]
    PROVE  Owed(n, p)' <= Owed(n, p)
  BY DEF Owed

(* A message that is not there any more, or was replaced, is not another   *)
(* one on its way.                                                         *)
LEMMA SentSubset ==
    ASSUME Types, NEW n \in Nodes, NEW p \in Nodes, Sent(n, p)' \subseteq Sent(n, p)
    PROVE  Cardinality(Sent(n, p)') <= Cardinality(Sent(n, p))
  BY BudgetTypes, FS_Subset DEF Counted

LEMMA SentReplaced ==
    ASSUME Types, Types', NEW n \in Nodes, NEW p \in Nodes,
           NEW x \in calls, NEW y \in Exchanges, Replaced(x, y), y.stage = "sent" => x.stage = "sent"
    PROVE  /\ Cardinality(Sent(n, p)') <= Cardinality(Sent(n, p))
           /\ y.stage # "sent" /\ x \in Sent(n, p) =>
                 Cardinality(Sent(n, p)') + 1 <= Cardinality(Sent(n, p))
<1> DEFINE S == Sent(n, p)
           T == Sent(n, p)'
<1>1. IsFiniteSet(S) /\ Cardinality(S) \in Nat /\ IsFiniteSet(T) /\ Cardinality(T) \in Nat
  <2>1. IsFiniteSet(S) /\ Cardinality(S) \in Nat
    BY BudgetTypes DEF Counted
  <2>2. IsFiniteSet(calls') /\ T \subseteq calls'
    BY DEF Types, Sent
  <2> QED BY <2>1, <2>2, FS_Subset, FS_CardinalityType
<1>2. CASE x \in S
  <2>1. T \subseteq (S \ {x}) \cup {y} /\ (y.stage # "sent" => T \subseteq S \ {x})
    BY DEF Sent, Replaced
  <2> HIDE DEF S, T
  <2>2. IsFiniteSet(S \ {x}) /\ Cardinality(S \ {x}) = Cardinality(S) - 1
    BY <1>1, <1>2, FS_RemoveElement
  <2>3. /\ IsFiniteSet((S \ {x}) \cup {y})
        /\ Cardinality((S \ {x}) \cup {y}) <= Cardinality(S)
    BY <1>1, <2>2, FS_AddElement
  <2>4. Cardinality(T) <= Cardinality(S)
    <3>1. Cardinality(T) <= Cardinality((S \ {x}) \cup {y})
      BY <2>1, <2>3, FS_Subset
    <3>2. Cardinality((S \ {x}) \cup {y}) \in Nat
      BY <2>3, FS_CardinalityType
    <3> QED BY <1>1, <2>3, <3>1, <3>2
  <2>5. T \subseteq S \ {x} => Cardinality(T) <= Cardinality(S \ {x})
    BY <2>2, FS_Subset
  <2>6. y.stage # "sent" => Cardinality(T) + 1 <= Cardinality(S)
    BY <1>1, <2>1, <2>2, <2>5
  <2> QED BY <2>4, <2>6 DEF S, T
<1>3. CASE x \notin S
  <2>1. T \subseteq S
    BY <1>3 DEF Sent, Replaced
  <2> QED BY <1>3, <2>1, SentSubset
<1> QED BY <1>2, <1>3

LEMMA SentRestarted ==
    ASSUME Types, NEW n \in Nodes, NEW p \in Nodes, NEW m \in Nodes, Restart(m)
    PROVE  Cardinality(Sent(n, p)') <= Cardinality(Sent(n, p))
<1> DEFINE S == Sent(n, p)
           T == Sent(n, p)'
           U == {Orphan(x, m) : x \in S}
<1>1. T \subseteq U
  BY Restarted DEF Sent
<1>2. S \subseteq calls
  BY DEF Sent
<1>3. IsFiniteSet(S) /\ Cardinality(S) \in Nat
  BY BudgetTypes DEF Counted
<1> HIDE DEF S, T
<1>4. IsFiniteSet(U) /\ Cardinality(U) <= Cardinality(S)
  BY <1>2, RestartFacts
<1> HIDE DEF U
<1>5. /\ Cardinality(T) <= Cardinality(U) /\ Cardinality(U) \in Nat
      /\ IsFiniteSet(T) /\ Cardinality(T) \in Nat
  BY <1>1, <1>4, FS_Subset, FS_CardinalityType
<1> QED BY <1>3, <1>4, <1>5 DEF S, T

(* The budget of asks is kept: an ask is paid for by what was owed, and    *)
(* what becomes owed again is paid for by a fault.                         *)
LEMMA BudgetStep ==
    ASSUME Types, Types', Peering, OneWaiting, Budget, [Next]_vars
    PROVE  Budget'
<1>1. SUFFICES ASSUME NEW n \in Nodes, NEW p \in Nodes
               PROVE  Cardinality(Received(n, p)') + Cardinality(Sent(n, p)') + Owed(n, p)' <= 1 + faults'
  BY DEF Budget
<1> DEFINE r == Cardinality(Received(n, p))
           s == Cardinality(Sent(n, p))
           o == Owed(n, p)
           r1 == Cardinality(Received(n, p)')
           s1 == Cardinality(Sent(n, p)')
           o1 == Owed(n, p)'
           Paid == r1 + s1 + o1 <= 1 + faults'
<1>2. /\ r \in Nat /\ s \in Nat /\ o \in Nat /\ r1 \in Nat /\ s1 \in Nat /\ o1 \in Nat
      /\ faults \in Nat /\ r + s + o <= 1 + faults
      /\ IsFiniteSet(Received(n, p)) /\ IsFiniteSet(Sent(n, p))
  <2>1. r \in Nat /\ s \in Nat /\ o \in Nat /\ faults \in Nat /\ IsFiniteSet(Received(n, p)) /\ IsFiniteSet(Sent(n, p))
    BY BudgetTypes DEF Counted
  <2>2. Counted'
    BY BudgetTypes, PTL
  <2> QED BY <2>1, <2>2 DEF Budget, Counted
<1>3. ASSUME Received(n, p)' \subseteq Received(n, p) PROVE r1 <= r
  BY <1>3, <1>2, FS_Subset
<1>4. \A x \in calls : x.to \in Nodes /\ x.ask.from \in Nodes /\ x \in Exchanges
  BY DEF Types, Exchanges, Asks
<1>5. ASSUME r1 <= r, s1 <= s, o1 <= o + 1, faults' = faults + 1 PROVE Paid
  <2> HIDE DEF r, s, o, r1, s1, o1
  <2> QED BY <1>2, <1>5
<1>6. ASSUME r1 <= r, s1 <= s, o1 <= o, faults' = faults PROVE Paid
  <2> HIDE DEF r, s, o, r1, s1, o1
  <2> QED BY <1>2, <1>6
<1>7. ASSUME r1 <= r, s1 <= s + 1, o1 + 1 <= o, faults' = faults PROVE Paid
  <2> HIDE DEF r, s, o, r1, s1, o1
  <2> QED BY <1>2, <1>7
<1>8. ASSUME r1 <= r + 1, s1 + 1 <= s, o1 <= o, faults' = faults PROVE Paid
  <2> HIDE DEF r, s, o, r1, s1, o1
  <2> QED BY <1>2, <1>8
<1> HIDE DEF Paid
<1>9. ASSUME UNCHANGED vars PROVE Paid
  <2>1. Received(n, p)' = Received(n, p) /\ Sent(n, p)' = Sent(n, p) /\ o1 = o /\ faults' = faults
    BY <1>9 DEF vars, Received, Sent, Owed, Waits
  <2> QED BY <1>2, <1>6, <2>1
<1>10. ASSUME NEW a \in Nodes, NEW b \in Nodes, Learn(a, b) \/ Handshake(a, b) PROVE Paid
  <2>1. /\ UNCHANGED <<inbox, greeted, todo, calls, faults>> /\ peers[p] \subseteq peers'[p]
    <3>1. CASE Learn(a, b)
      BY <3>1 DEF Learn, Types
    <3>2. CASE Handshake(a, b)
      BY <3>2 DEF Handshake, Types
    <3> QED BY <1>10, <3>1, <3>2
  <2>2. Received(n, p)' = Received(n, p) /\ Sent(n, p)' = Sent(n, p) /\ Waits(n, p)' = Waits(n, p)
    BY <2>1 DEF Received, Sent, Waits
  <2>3. o1 <= o
    BY <2>1, <2>2, OwedKept
  <2> QED BY <1>2, <1>6, <2>1, <2>2, <2>3
<1>11. ASSUME NEW a \in Nodes, Scan(a) PROVE Paid
  <2>1. /\ UNCHANGED <<inbox, greeted, peers, calls, faults>>
        /\ todo'[p] = todo[p] \/ todo'[p] \subseteq peers[p]
    BY <1>11 DEF Scan, Types
  <2>2. Received(n, p)' = Received(n, p) /\ Sent(n, p)' = Sent(n, p) /\ Waits(n, p)' = Waits(n, p)
    BY <2>1 DEF Received, Sent, Waits
  <2>3. o1 <= o
    BY <2>1, <2>2, OwedKept
  <2> QED BY <1>2, <1>6, <2>1, <2>2, <2>3
<1>12. ASSUME NEW a \in Nodes, NEW b \in Nodes, Expire(a, b) PROVE Paid
  <2>1. UNCHANGED <<inbox, todo, calls>> /\ faults' = faults + 1
    BY <1>12 DEF Expire, Fault
  <2>2. Received(n, p)' = Received(n, p) /\ Sent(n, p)' = Sent(n, p) /\ Waits(n, p)' = Waits(n, p)
    BY <2>1 DEF Received, Sent, Waits
  <2>3. CASE p = a /\ n = b
    <3>1. n \in peers[p] /\ n \notin peers'[p] /\ n \notin greeted'[p] /\ todo' = todo
      BY <1>12, <2>3 DEF Expire, Types
    <3>2. n \in todo[p] => n \notin greeted[p] /\ ~Waits(n, p)
      BY DEF Peering, Waits
    <3> QED BY <1>2, <1>5, <2>1, <2>2, <3>1, <3>2 DEF Owed
  <2>4. CASE ~(p = a /\ n = b)
    <3>1. (n \in peers'[p] <=> n \in peers[p]) /\ (n \in greeted'[p] <=> n \in greeted[p])
      BY <1>12, <2>4 DEF Expire, Types
    <3>2. o1 <= o + 1
      BY <2>1, <3>1, OwedPlus
    <3> QED BY <1>2, <1>5, <2>1, <2>2, <3>2
  <2> QED BY <2>3, <2>4
<1>13. ASSUME NEW a \in Nodes, NEW b \in Nodes, AskPeer(a, b) PROVE Paid
  <2>1. PICK y \in Exchanges : y.to = b /\ y.stage = "sent" /\ y.waiting /\ y.ask.from = a /\ calls' = calls \cup {y}
    BY <1>13, Asked
  <2>2. /\ UNCHANGED <<inbox, greeted, peers, faults>> /\ todo'[p] \subseteq todo[p]
        /\ b \in todo[a] /\ b \notin todo'[a] /\ \A x \in calls : ~(x.ask.from = a /\ x.waiting)
    BY <1>13 DEF AskPeer, Asking, Types
  <2>3. Received(n, p)' = Received(n, p)
    BY <2>2 DEF Received
  <2>4. CASE p = a /\ n = b
    <3>1. Sent(n, p)' \subseteq Sent(n, p) \cup {y}
      BY <2>1 DEF Sent
    <3>2. s1 <= s + 1
      BY <1>2, <3>1, AtMostOneMore
    <3>3. Waits(n, p)' /\ ~Waits(n, p)
      BY <2>1, <2>2, <2>4 DEF Waits
    <3>4. n \notin greeted[p]
      BY <2>2, <2>4 DEF Peering
    <3>5. o1 + 1 <= o
      BY <2>2, <2>4, <3>3, <3>4 DEF Owed
    <3> QED BY <1>2, <1>7, <2>2, <2>3, <3>2, <3>5
  <2>5. CASE ~(p = a /\ n = b)
    <3>1. Sent(n, p)' = Sent(n, p) /\ (Waits(n, p) => Waits(n, p)')
      BY <2>1, <2>5 DEF Sent, Waits
    <3>2. o1 <= o
      BY <2>2, <3>1, OwedKept
    <3> QED BY <1>2, <1>6, <2>2, <2>3, <3>1, <3>2
  <2> QED BY <2>4, <2>5
<1>14. ASSUME NEW x \in calls, NEW y \in Exchanges, Replaced(x, y), y.waiting = x.waiting
       PROVE  Waits(n, p) => Waits(n, p)'
  BY <1>14 DEF Replaced, Waits
<1>15. ASSUME NEW x \in calls, HandleAsk(x) PROVE Paid
  <2>1. PICK y \in Exchanges : Replaced(x, y) /\ y.stage = "answering" /\ y.waiting = x.waiting
    BY <1>15, Moved DEF HandleAsk, Stages
  <2>2. UNCHANGED <<greeted, todo, faults>> /\ peers[p] \subseteq peers'[p] /\ x.stage = "sent"
    BY <1>4, <1>15 DEF HandleAsk, Types
  <2>3. o1 <= o
    BY <1>14, <2>1, <2>2, OwedKept
  <2>4. CASE x.to = n /\ x.ask.from = p
    <3>1. x \in Sent(n, p)
      BY <2>2, <2>4 DEF Sent
    <3>2. s1 + 1 <= s
      BY <2>1, <3>1, SentReplaced
    <3>3. Received(n, p)' \subseteq Received(n, p) \cup {Len(inbox[n]) + 1}
      BY <1>15, ReceivedAsk
    <3>4. r1 <= r + 1
      BY <1>2, <3>3, AtMostOneMore
    <3> QED BY <1>8, <2>2, <2>3, <3>2, <3>4
  <2>5. CASE ~(x.to = n /\ x.ask.from = p)
    <3>1. s1 <= s
      BY <2>1, SentReplaced
    <3>2. r1 <= r
      BY <1>3, <1>15, <2>5, ReceivedAsk
    <3> QED BY <1>6, <2>2, <2>3, <3>1, <3>2
  <2> QED BY <2>4, <2>5
<1>16. ASSUME NEW x \in calls, HandleAnswer(x) \/ AnswerAccepted(x) PROVE Paid
  <2>1. PICK y \in Exchanges : Replaced(x, y) /\ y.stage # "sent" /\ y.waiting = x.waiting
    BY <1>16, Moved DEF HandleAnswer, AnswerAccepted, Stages
  <2>2. UNCHANGED <<greeted, todo, peers, faults>>
    BY <1>16 DEF HandleAnswer, AnswerAccepted
  <2>3. o1 <= o
    BY <1>14, <2>1, <2>2, OwedKept
  <2>4. s1 <= s
    BY <2>1, SentReplaced
  <2>5. r1 <= r
    BY <1>3, <1>16, ReceivedAnswer
  <2> QED BY <1>6, <2>2, <2>3, <2>4, <2>5
<1>17. ASSUME NEW x \in calls, AnswerLost(x) PROVE Paid
  <2>1. PICK y \in Exchanges : Replaced(x, y) /\ y.stage # "sent"
    BY <1>17, Moved DEF AnswerLost, Stages
  <2>2. UNCHANGED <<greeted, todo, peers, inbox>> /\ faults' = faults + 1
    BY <1>17 DEF AnswerLost, Fault
  <2>3. o1 <= o + 1
    BY <2>2, OwedPlus
  <2>4. s1 <= s
    BY <2>1, SentReplaced
  <2>5. r1 <= r
    BY <1>3, <2>2 DEF Received
  <2> QED BY <1>5, <2>2, <2>3, <2>4, <2>5
<1>18. ASSUME NEW x \in calls, AskTimesOut(x) PROVE Paid
  <2>1. PICK y \in Exchanges : Replaced(x, y) /\ y.stage = x.stage
    BY <1>18, TimedOut
  <2>2. UNCHANGED <<greeted, todo, peers, inbox>> /\ faults' = faults + 1
    BY <1>18 DEF AskTimesOut, Fault
  <2>3. o1 <= o + 1
    BY <2>2, OwedPlus
  <2>4. s1 <= s
    BY <2>1, SentReplaced
  <2>5. r1 <= r
    BY <1>3, <2>2 DEF Received
  <2> QED BY <1>5, <2>2, <2>3, <2>4, <2>5
<1>19. ASSUME NEW x \in calls, End(x) PROVE s1 <= s
  <2>1. Sent(n, p)' \subseteq Sent(n, p)
    BY <1>19 DEF End, Sent
  <2> QED BY <2>1, SentSubset
<1>20. ASSUME NEW x \in calls, AskLost(x) PROVE Paid
  <2>1. UNCHANGED <<greeted, todo, peers, inbox>> /\ faults' = faults + 1 /\ End(x)
    BY <1>20 DEF AskLost, Fault
  <2>2. o1 <= o + 1
    BY <2>1, OwedPlus
  <2>3. r1 <= r
    BY <1>3, <2>1 DEF Received
  <2> QED BY <1>5, <1>19, <2>1, <2>2, <2>3
<1>21. ASSUME NEW x \in calls, ReplyDropped(x) PROVE Paid
  <2>1. UNCHANGED <<greeted, todo, peers, inbox, faults>> /\ End(x) /\ ~x.waiting
    BY <1>21 DEF ReplyDropped
  <2>2. Waits(n, p) => Waits(n, p)'
    BY <2>1 DEF Waits, End
  <2>3. o1 <= o
    BY <2>1, <2>2, OwedKept
  <2>4. r1 <= r
    BY <1>3, <2>1 DEF Received
  <2> QED BY <1>6, <1>19, <2>1, <2>3, <2>4
<1>22. ASSUME NEW x \in calls, Replied(x) PROVE Paid
  <2>1. UNCHANGED <<todo, peers, faults>> /\ End(x) /\ greeted' = Mark(greeted, x.ask.from, x.to)
    BY <1>22 DEF Replied
  <2>2. greeted[p] \subseteq greeted'[p] /\ (x.ask.from = p /\ x.to = n /\ n \in peers[p] => n \in greeted'[p])
    BY <1>4, <2>1 DEF Mark, Types
  <2>3. Waits(n, p) => Waits(n, p)' \/ (x.ask.from = p /\ x.to = n)
    BY <2>1 DEF Waits, End
  <2>4. o1 <= o
    BY <2>1, <2>2, <2>3, OwedKept
  <2>5. r1 <= r
    BY <1>3, <1>22, ReceivedOut
  <2> QED BY <1>6, <1>19, <2>1, <2>4, <2>5
<1>23. ASSUME NEW m \in Nodes, Restart(m) PROVE Paid
  <2>1. /\ todo'[p] = {} \/ (todo'[p] = todo[p] /\ peers'[p] = peers[p])
        /\ faults' = faults + 1 /\ inbox'[n] = IF m = n THEN <<>> ELSE inbox[n]
    BY <1>23 DEF Restart, Fault, Types
  <2>2. o1 <= o + 1
    BY <2>1, OwedPlus
  <2>3. Received(n, p)' \subseteq Received(n, p)
    BY <2>1 DEF Received
  <2>4. s1 <= s
    BY <1>23, SentRestarted
  <2> QED BY <1>3, <1>5, <2>1, <2>2, <2>3, <2>4
<1> HIDE DEF r, s, o, r1, s1, o1
<1>24. Paid
  <2>1. ASSUME NEW a \in Nodes, Agent(a) \/ \E b \in Nodes : Learn(a, b) \/ Handshake(a, b) PROVE Paid
    BY <2>1, <1>10, <1>11, <1>13 DEF Agent
  <2>2. CASE Handlers
    BY <2>2, <1>15, <1>16, <1>21, <1>22 DEF Handlers
  <2>3. CASE Failures
    BY <2>3, <1>12, <1>17, <1>18, <1>20, <1>23 DEF Failures
  <2>4. CASE Next
    BY <2>1, <2>2, <2>3, <2>4, Zenon DEF Next
  <2> QED BY <1>9, <2>4
<1> QED BY <1>24 DEF Paid, r1, s1, o1

-----------------------------------------------------------------------------
(* The invariant holds at the start and is kept.                           *)
LEMMA InitInv == Init => IInv
<1>1. SUFFICES ASSUME Init PROVE IInv
  OBVIOUS
<1>2. <<>> \in Seq(Records)
  OBVIOUS
<1>3. Types
  <2>1. IsFiniteSet(calls)
    BY <1>1, FS_EmptySet DEF Init
  <2>2. inbox \in [Nodes -> Seq(Records)]
    BY <1>1, <1>2 DEF Init
  <2>3. /\ peers \in [Nodes -> SUBSET Nodes] /\ greeted \in [Nodes -> SUBSET Nodes]
        /\ integrated \in [Nodes -> SUBSET Nodes] /\ todo \in [Nodes -> SUBSET Nodes]
        /\ askSeq \in [Nodes -> Nat] /\ epoch \in [Nodes -> Nat]
    BY <1>1 DEF Init
  <2>4. calls = {} /\ faults \in 0 .. MaxFaults
    BY <1>1, FaultAssumption DEF Init
  <2>5. raced \in BOOLEAN
    BY <1>1 DEF Init
  <2> QED BY <2>1, <2>2, <2>3, <2>4, <2>5 DEF Types
<1>4. \A n \in Nodes : Log(n) = {}
  BY <1>1 DEF Init, Log
<1>5. Budget
  <2>1. SUFFICES ASSUME NEW n \in Nodes, NEW p \in Nodes
                 PROVE  Cardinality(Received(n, p)) + Cardinality(Sent(n, p)) + Owed(n, p) <= 1 + faults
    BY DEF Budget
  <2>2. Received(n, p) = {} /\ Sent(n, p) = {}
    BY <1>1 DEF Init, Received, Sent
  <2>3. Cardinality(Received(n, p)) = 0 /\ Cardinality(Sent(n, p)) = 0
    BY <2>2, FS_EmptySet
  <2>4. Owed(n, p) = 1 /\ faults = 0
    BY <1>1 DEF Init, Owed, Waits
  <2> QED BY <2>3, <2>4
<1>6. Peering /\ OneWaiting /\ Traces
  BY <1>1 DEF Init, Peering, OneWaiting, Traces
<1>7. Origins /\ GreetedHasAsk /\ AnswerVisible
  BY <1>1, <1>4 DEF Init, Origins, GreetedHasAsk, AnswerVisible
<1> QED BY <1>3, <1>5, <1>6, <1>7 DEF IInv

LEMMA NextInv == IInv /\ [Next]_vars => IInv'
<1>1. SUFFICES ASSUME Types, Peering, OneWaiting, Traces, Origins, GreetedHasAsk, AnswerVisible, Budget,
                      [Next]_vars
               PROVE  IInv'
  BY DEF IInv
<1>2. Types'
  BY <1>1, TypesStep
<1>3. Peering' /\ OneWaiting'
  BY <1>1, PeeringStep, OneWaitingStep
<1>4. Origins'
  BY <1>1, <1>2, OriginsStep
<1>5. Traces'
  BY <1>1, <1>2, <1>4, TracesStep
<1>6. GreetedHasAsk' /\ AnswerVisible'
  BY <1>1, <1>2, GreetedHasAskStep, AnswerVisibleStep
<1>7. Budget'
  BY <1>1, <1>2, BudgetStep
<1> QED BY <1>2, <1>3, <1>4, <1>5, <1>6, <1>7 DEF IInv

LEMMA Inductive == Spec => []IInv
  BY InitInv, NextInv, PTL DEF Spec

LEMMA InvTypes == IInv => TypeOK
<1>1. SUFFICES ASSUME Types, Peering, OneWaiting PROVE TypeOK
  BY DEF IInv
<1>2. ASSUME NEW n \in Nodes PROVE Cardinality({x \in calls : x.ask.from = n /\ x.waiting}) <= 1
  <2> DEFINE W == {x \in calls : x.ask.from = n /\ x.waiting}
  <2>1. \A x, y \in W : x = y
    BY <1>1 DEF OneWaiting
  <2>2. CASE W = {}
    <3>1. Cardinality(W) = 0
      <4> HIDE DEF W
      <4> QED BY <2>2, FS_EmptySet
    <3> QED BY <3>1
  <2>3. ASSUME NEW x \in W PROVE Cardinality(W) <= 1
    <3>1. W = {x}
      BY <2>1, <2>3
    <3> HIDE DEF W
    <3> QED BY <3>1, FS_Singleton
  <2> QED BY <2>2, <2>3
<1>3. ASSUME NEW n \in Nodes, NEW i \in 1 .. Len(inbox[n]) PROVE inbox[n][i].kind \in {"in", "out", "reply"}
  <2>1. inbox[n] \in Seq(Records)
    BY <1>1 DEF Types
  <2>2. inbox[n][i] \in Records
    BY <2>1
  <2> QED BY <2>2 DEF Records
<1>4. \A x \in calls : x.stage \in Stages /\ x.to # x.ask.from
  BY <1>1 DEF Types, Exchanges, Peering
<1> QED BY <1>1, <1>2, <1>3, <1>4 DEF TypeOK, Types, Peering

(* Every node's state is well formed: flags belong to listed peers, no     *)
(* exchange is a node's with itself, and an agent waits for one exchange   *)
(* at a time, whatever is lost, late or restarted.                         *)
THEOREM TypeCorrect == Spec => []TypeOK
  BY Inductive, InvTypes, PTL

(* mark_greeted() (mesh_agent.cpp:53) is only reached with an ask that its *)
(* receiver has logged: a greeted peer that did not restart has the ask.   *)
THEOREM GreetingReached == Spec => []GreetedHasAsk
<1>1. IInv => GreetedHasAsk
  BY DEF IInv
<1> QED BY <1>1, Inductive, PTL

(* record_answer() on both sides (peer_discovery.cpp:299): what the        *)
(* receiver shows as answered, the asker shows as answered.                *)
THEOREM AnswersVisible == Spec => []AnswerVisible
<1>1. IInv => AnswerVisible
  BY DEF IInv
<1> QED BY <1>1, Inductive, PTL

(* The agent asks a peer once, and once more for each fault at most: the   *)
(* log of a node grows no faster than that.                                *)
THEOREM GreetsOnce == Spec => []NoRepeatedAsk
<1>1. IInv => NoRepeatedAsk
  <2>1. SUFFICES ASSUME Types, Budget, NEW n \in Nodes, NEW p \in Nodes
                 PROVE  Cardinality(Received(n, p)) <= 1 + faults
    BY DEF IInv, NoRepeatedAsk, Received
  <2>2. Cardinality(Received(n, p)) + Cardinality(Sent(n, p)) + Owed(n, p) <= 1 + faults
    BY <2>1 DEF Budget
  <2>3. /\ Cardinality(Received(n, p)) \in Nat /\ Cardinality(Sent(n, p)) \in Nat
        /\ Owed(n, p) \in 0 .. 2 /\ faults \in Nat
    BY <2>1, BudgetTypes DEF Counted
  <2> QED BY <2>2, <2>3
<1> QED BY <1>1, Inductive, PTL
=============================================================================
