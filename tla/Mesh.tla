-------------------------------- MODULE Mesh --------------------------------
(***************************************************************************)
(* The conversation of mesh nodes (src/mesh/mesh_agent.cpp, peer_api.cpp,  *)
(* the conversation log of peer_discovery.cpp).  The agent of a node sends *)
(* every peer it has not greeted an intro ask; the peer's handler records  *)
(* the ask, posts its answer to the asker's own HTTP server while the ask  *)
(* is still open, and only then replies to the ask.                        *)
(*                                                                         *)
(* An exchange is one POST /mesh/ask and the POST /mesh/answer nested in   *)
(* it.  What the registry lists is Membership's business: here a peer is   *)
(* learned from a beacon at any time and may be forgotten at any time.     *)
(* Every node runs the agent, as by default.                               *)
(***************************************************************************)
EXTENDS Naturals, Sequences, FiniteSets

CONSTANTS
    Nodes,
    MaxFaults   \* lost or late messages, restarts and expiries (bound)

ASSUME FaultAssumption == MaxFaults \in Nat

VARIABLES
    peers,       \* the ids in registry_
    greeted,     \* the peers whose PeerRecord::greeted is set
    integrated,  \* the peers whose PeerRecord::integrated is set
    inbox,       \* inbox_: the conversation log
    askSeq,      \* ask_seq_
    todo,        \* the peers left of the snapshot the agent is working on
    calls,       \* the exchanges in progress
    epoch,       \* history: restarts of the node
    faults,      \* history: faults so far
    raced        \* history: a peer was forgotten while the agent was on to it

vars == <<peers, greeted, integrated, inbox, askSeq, todo, calls, epoch,
          faults, raced>>

(* An ask as it really is; its id on the wire is "ask-<id8>-<n>", which    *)
(* says nothing of the epoch.                                              *)
Ask(n) == [from |-> n, n |-> askSeq[n], epoch |-> epoch[n]]
SameId(x, y) == x.from = y.from /\ x.n = y.n

(* A record of the log: of an ask that came in, of one that went out, or   *)
(* made up for an answer to an ask that is not in the log.                 *)
Record(x, kind, done) == [ask |-> x, kind |-> kind, answered |-> done]

Stages == {"sent", "answering", "answered", "replied"}

TypeOK ==
    /\ peers \in [Nodes -> SUBSET Nodes]
    /\ \A n \in Nodes : greeted[n] \subseteq peers[n] /\ integrated[n] \subseteq peers[n]
    /\ \A n \in Nodes : \A i \in 1 .. Len(inbox[n]) :
          inbox[n][i].kind \in {"in", "out", "reply"}
    /\ \A x \in calls : x.stage \in Stages /\ x.to # x.ask.from
    /\ \A n \in Nodes : Cardinality({x \in calls : x.ask.from = n /\ x.waiting}) <= 1
    /\ faults \in 0 .. MaxFaults

Init ==
    /\ peers = [n \in Nodes |-> {}] /\ greeted = peers /\ integrated = peers
    /\ inbox = [n \in Nodes |-> <<>>]
    /\ askSeq = [n \in Nodes |-> 0] /\ todo = peers
    /\ calls = {} /\ epoch = askSeq /\ faults = 0 /\ raced = FALSE

Move(x, stage) == calls' = (calls \ {x}) \cup {[x EXCEPT !.stage = stage]}
End(x) == calls' = calls \ {x}
Asking(n) == \E x \in calls : x.ask.from = n /\ x.waiting
Fault == faults < MaxFaults /\ faults' = faults + 1

(* Mutant: a record is made for a peer that is not listed any more.        *)
MutMark(flag, n, p) == [flag EXCEPT ![n] = @ \cup {p}]

(* mark_integrated() and mark_greeted() do nothing for a peer that is not  *)
(* in the registry.                                                        *)
Mark(flag, n, p) == [flag EXCEPT ![n] = @ \cup ({p} \cap peers[n])]

-----------------------------------------------------------------------------
(* listen_loop(): the beacon of a peer that is not in the registry.        *)
Learn(n, p) ==
    /\ p # n /\ p \notin peers[n]
    /\ peers' = [peers EXCEPT ![n] = @ \cup {p}]
    /\ UNCHANGED <<greeted, integrated, inbox, askSeq, todo, calls, epoch, faults, raced>>

(* The /v1/mesh/handshake handler: the card of another node is posted.     *)
Handshake(n, p) ==
    /\ p # n
    /\ peers' = [peers EXCEPT ![n] = @ \cup {p}]
    /\ integrated' = [integrated EXCEPT ![n] = @ \cup {p}]
    /\ UNCHANGED <<greeted, inbox, askSeq, todo, calls, epoch, faults, raced>>

(* sweeper_loop() drops a peer whose beacons were lost.                    *)
Expire(n, p) ==
    /\ p \in peers[n] /\ Fault
    /\ peers' = [peers EXCEPT ![n] = @ \ {p}]
    /\ greeted' = [greeted EXCEPT ![n] = @ \ {p}]
    /\ integrated' = [integrated EXCEPT ![n] = @ \ {p}]
    /\ raced' = (raced \/ p \in todo[n] \/ \E x \in calls : x.ask.from = n /\ x.to = p)
    /\ UNCHANGED <<inbox, askSeq, todo, calls, epoch>>

(* Mutant: one peer per scan has its greeted flag ignored.                 *)
MutScan(n) ==
    /\ todo[n] = {} /\ ~Asking(n)
    /\ \E p \in peers[n] : todo' = [todo EXCEPT ![n] = {p}] /\ askSeq[n] < 3
    /\ UNCHANGED <<peers, greeted, integrated, inbox, askSeq, calls, epoch, faults, raced>>

(* loop(): a snapshot of the registry.                                     *)
Scan(n) ==
    /\ todo[n] = {} /\ ~Asking(n)
    /\ peers[n] # greeted[n]
    /\ todo' = [todo EXCEPT ![n] = peers[n] \ greeted[n]]
    /\ UNCHANGED <<peers, greeted, integrated, inbox, askSeq, calls, epoch, faults, raced>>

(* Mutant: the peer counts as greeted when the ask is sent.                *)
MutAskPeer(n, p) ==
    /\ p \in todo[n] /\ ~Asking(n)
    /\ todo' = [todo EXCEPT ![n] = @ \ {p}]
    /\ askSeq' = [askSeq EXCEPT ![n] = @ + 1]
    /\ calls' = calls \cup {[ask |-> Ask(n), to |-> p, stage |-> "sent", waiting |-> TRUE]}
    /\ greeted' = Mark(greeted, n, p)
    /\ UNCHANGED <<peers, integrated, inbox, epoch, faults, raced>>

(* ask_peer(): a new id, and the agent's thread waits in http_post().      *)
AskPeer(n, p) ==
    /\ p \in todo[n] /\ ~Asking(n)
    /\ todo' = [todo EXCEPT ![n] = @ \ {p}]
    /\ askSeq' = [askSeq EXCEPT ![n] = @ + 1]
    /\ calls' = calls \cup {[ask |-> Ask(n), to |-> p, stage |-> "sent", waiting |-> TRUE]}
    /\ UNCHANGED <<peers, greeted, integrated, inbox, epoch, faults, raced>>

(* The /v1/mesh/ask handler registers the sender and records the ask; the  *)
(* agent finds the peer and posts its answer.                              *)
HandleAsk(x) ==
    /\ x \in calls /\ x.stage = "sent"
    /\ peers' = [peers EXCEPT ![x.to] = @ \cup {x.ask.from}]
    /\ inbox' = [inbox EXCEPT ![x.to] = Append(@, Record(x.ask, "in", FALSE))]
    /\ Move(x, "answering")
    /\ UNCHANGED <<greeted, integrated, askSeq, todo, epoch, faults, raced>>

(* Mutant: the answer to an ask that is not in the log is dropped.         *)
MutRecordAnswer(log, a) ==
    IF \E i \in 1 .. Len(log) : SameId(log[i].ask, a)
    THEN LET first == CHOOSE i \in 1 .. Len(log) :
                          /\ SameId(log[i].ask, a)
                          /\ \A j \in 1 .. i - 1 : ~SameId(log[j].ask, a)
         IN [log EXCEPT ![first].answered = TRUE]
    ELSE log

(* record_answer(): the first record with this id is answered; without one *)
(* a record is made up.                                                    *)
RecordAnswer(log, a) ==
    IF \E i \in 1 .. Len(log) : SameId(log[i].ask, a)
    THEN LET first == CHOOSE i \in 1 .. Len(log) :
                          /\ SameId(log[i].ask, a)
                          /\ \A j \in 1 .. i - 1 : ~SameId(log[j].ask, a)
         IN [log EXCEPT ![first].answered = TRUE]
    ELSE Append(log, Record(a, "reply", TRUE))

(* Mutant: an answer does not integrate the peer.                          *)
MutHandleAnswer(x) ==
    /\ x \in calls /\ x.stage = "answering"
    /\ inbox' = [inbox EXCEPT ![x.ask.from] = RecordAnswer(@, x.ask)]
    /\ Move(x, "answered")
    /\ UNCHANGED <<peers, greeted, integrated, askSeq, todo, epoch, faults, raced>>

(* The /v1/mesh/answer handler of the asker.                               *)
HandleAnswer(x) ==
    /\ x \in calls /\ x.stage = "answering"
    /\ inbox' = [inbox EXCEPT ![x.ask.from] = RecordAnswer(@, x.ask)]
    /\ integrated' = Mark(integrated, x.ask.from, x.to)
    /\ Move(x, "answered")
    /\ UNCHANGED <<peers, greeted, askSeq, todo, epoch, faults, raced>>

(* auto_answer() had its answer accepted; the ask handler then replies.    *)
AnswerAccepted(x) ==
    /\ x \in calls /\ x.stage = "answered"
    /\ integrated' = Mark(integrated, x.to, x.ask.from)
    /\ inbox' = [inbox EXCEPT ![x.to] = RecordAnswer(@, x.ask)]
    /\ Move(x, "replied")
    /\ UNCHANGED <<peers, greeted, askSeq, todo, epoch, faults, raced>>

(* The post of the answer, or its reply, is lost or times out: the ask     *)
(* handler replies all the same.                                           *)
AnswerLost(x) ==
    /\ x \in calls /\ x.stage \in {"answering", "answered"} /\ Fault
    /\ Move(x, "replied")
    /\ UNCHANGED <<peers, greeted, integrated, inbox, askSeq, todo, epoch, raced>>

(* The reply to the ask reaches ask_peer(), which notes the greeting and   *)
(* only now the outbound ask.                                              *)
Replied(x) ==
    /\ x \in calls /\ x.stage = "replied" /\ x.waiting
    /\ greeted' = Mark(greeted, x.ask.from, x.to)
    /\ inbox' = [inbox EXCEPT ![x.ask.from] = Append(@, Record(x.ask, "out", FALSE))]
    /\ End(x)
    /\ UNCHANGED <<peers, integrated, askSeq, todo, epoch, faults, raced>>

(* The asker has gone (a timeout, a restart) when the reply is sent.       *)
ReplyDropped(x) ==
    /\ x \in calls /\ x.stage = "replied" /\ ~x.waiting
    /\ End(x)
    /\ UNCHANGED <<peers, greeted, integrated, inbox, askSeq, todo, epoch, faults, raced>>

(* The request never arrives.                                              *)
AskLost(x) ==
    /\ x \in calls /\ x.stage = "sent" /\ Fault
    /\ End(x)
    /\ UNCHANGED <<peers, greeted, integrated, inbox, askSeq, todo, epoch, raced>>

(* The read timeout of http_post(): the asker gives up, the handler of the *)
(* peer goes on.  The loss of the reply looks the same.                    *)
AskTimesOut(x) ==
    /\ x \in calls /\ x.waiting /\ Fault
    /\ calls' = (calls \ {x}) \cup {[x EXCEPT !.waiting = FALSE]}
    /\ UNCHANGED <<peers, greeted, integrated, inbox, askSeq, todo, epoch, raced>>

(* The node restarts with its persistent id: registry, log and ask_seq_    *)
(* start empty, its handlers die, and nobody waits for its asks any more.  *)
Restart(n) ==
    /\ Fault
    /\ epoch' = [epoch EXCEPT ![n] = @ + 1]
    /\ peers' = [peers EXCEPT ![n] = {}]
    /\ greeted' = [greeted EXCEPT ![n] = {}]
    /\ integrated' = [integrated EXCEPT ![n] = {}]
    /\ inbox' = [inbox EXCEPT ![n] = <<>>]
    /\ askSeq' = [askSeq EXCEPT ![n] = 0]
    /\ todo' = [todo EXCEPT ![n] = {}]
    /\ calls' = {IF x.ask.from = n THEN [x EXCEPT !.waiting = FALSE] ELSE x :
                    x \in {c \in calls : c.to # n}}
    /\ UNCHANGED raced

Agent(n) == Scan(n) \/ \E p \in Nodes : AskPeer(n, p)

Handlers == \E x \in calls : HandleAsk(x) \/ HandleAnswer(x) \/ AnswerAccepted(x)
                             \/ Replied(x) \/ ReplyDropped(x)

Failures == \/ \E x \in calls : AskLost(x) \/ AnswerLost(x) \/ AskTimesOut(x)
            \/ \E n \in Nodes : Restart(n) \/ \E p \in Nodes : Expire(n, p)

Next ==
    \/ \E n \in Nodes : Agent(n) \/ \E p \in Nodes : Learn(n, p) \/ Handshake(n, p)
    \/ Handlers
    \/ Failures

Spec == Init /\ [][Next]_vars

(* Threads run, and beacons keep coming; no fault has to happen.           *)
FairSpec ==
    /\ Spec
    /\ WF_vars(Handlers)
    /\ \A n \in Nodes : WF_vars(Agent(n)) /\ \A p \in Nodes : WF_vars(Learn(n, p))

-----------------------------------------------------------------------------
Log(n) == {inbox[n][i] : i \in 1 .. Len(inbox[n])}

(* Incoming intros are answered "with a templated accept that completes    *)
(* the handshake (integrated = true on both sides)" (mesh-protocol.md,     *)
(* section 5): every two nodes end up integrated on both sides and stay    *)
(* so, even after one fault.  The exception is a peer that the sweeper     *)
(* drops between the agent's snapshot and the reply to the ask.            *)
EventuallyIntegrated ==
    <>[](raced \/ \A n \in Nodes : integrated[n] = Nodes \ {n})

(* greeted says the peer was reached (mesh_agent.cpp:53): a peer that has  *)
(* not restarted since has the ask in its log, so no greeting is lost.     *)
GreetedHasAsk ==
    \A n \in Nodes : \A p \in greeted[n] :
        epoch[p] = 0 => \E r \in Log(p) : r.kind = "in" /\ r.ask.from = n

(* Both sides of the conversation stay visible (peer_discovery.cpp:299):   *)
(* an ask that its receiver's log shows as answered is shown as answered   *)
(* in the log of the asker, too, unless that lost its log.                 *)
AnswerVisible ==
    \A n \in Nodes : \A r \in Log(n) :
        r.kind = "in" /\ r.answered /\ r.ask.epoch = epoch[r.ask.from] /\ r.ask.epoch = 0 =>
            \E s \in Log(r.ask.from) : s.ask = r.ask /\ s.answered

(* A peer is greeted once: the log of a node holds no more asks of one     *)
(* peer than one and one for each fault.                                   *)
NoRepeatedAsk ==
    \A n, p \in Nodes :
        Cardinality({i \in 1 .. Len(inbox[n]) :
            inbox[n][i].kind = "in" /\ inbox[n][i].ask.from = p}) <= 1 + faults

(* record_answer() makes up a record only when "the ask was sent by an     *)
(* external brain (not recorded locally as outbound)": never for an ask of *)
(* the node's own agent.                                                   *)
NoMadeUpRecord ==
    \A n \in Nodes : \A r \in Log(n) : r.kind # "reply"
=============================================================================
