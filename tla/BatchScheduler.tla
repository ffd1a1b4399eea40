--------------------------- MODULE BatchScheduler ---------------------------
(***************************************************************************)
(* BatchScheduler (src/include/batch_scheduler.h): the queue of submitted  *)
(* requests, the decode slots and the thread that serves them, on the      *)
(* manager the lambdas of src/tools/unified_server.cpp give it.  Every     *)
(* backend has one cache in the model; that is enough because only one     *)
(* slot is ever taken (SingleOccupancy in UnifiedServer).                  *)
(***************************************************************************)
EXTENDS BackendManager

CONSTANTS
    MaxSlots,    \* -B: the number of slots
    MaxTokens    \* max_tokens of every request

ASSUME SlotAssumption == MaxSlots \in Nat \ {0} /\ MaxTokens \in Nat \ {0}

VARIABLES
    pending,     \* pending_: the requests not admitted yet
    slots,       \* slots_
    admitted,    \* the decode thread is past admit_pending()
    answered,    \* the requests whose promise has a value
    unreset,     \* history: the requests whose slot was not reset
    inferLock    \* g_inference_mutex, which the gen_batch lambda takes

schedVars == <<pending, slots, admitted, answered, unreset>>

Slots == 1 .. MaxSlots

\* The prompt: its tokenisation starts with BOS.
Prompt == <<"bos", "text", "text">>

IdleSlot == [state |-> "idle", owner |-> None, pos |-> 0, n |-> 0]

SchedTypeOK ==
    /\ pending \in Seq(Owners)
    /\ slots \in [Slots -> [state : {"idle", "prefilling", "decoding"},
                            owner : Owners \cup {None},
                            pos : 0 .. Len(Prompt), n : 0 .. MaxTokens]]
    /\ admitted \in BOOLEAN
    /\ answered \subseteq Owners /\ unreset \subseteq Owners
    /\ inferLock \in Owners \cup {None}

SchedInit ==
    /\ pending = <<>>
    /\ slots = [i \in Slots |-> IdleSlot]
    /\ admitted = FALSE
    /\ answered = {} /\ unreset = {}
    /\ inferLock = None

InState(s) == {i \in Slots : slots[i].state = s}

submit(o) ==
    /\ pending' = Append(pending, o)
    /\ UNCHANGED <<slots, admitted, answered, unreset>>

\* Mutant: the slot is taken without its reset.
MutAdmit_pending ==
    LET idle    == InState("idle")
        rank(i) == Cardinality({h \in idle : h =< i})
        taken   == {i \in idle : rank(i) =< Len(pending)}
    IN  /\ ~admitted
        /\ pending # <<>> \/ idle # Slots
        /\ slots' = [i \in Slots |->
                        IF i \in taken
                        THEN [state |-> "prefilling", owner |-> pending[rank(i)], pos |-> 1, n |-> 0]
                        ELSE slots[i]]
        /\ pending' = SubSeq(pending, Cardinality(taken) + 1, Len(pending))
        /\ admitted' = TRUE
        /\ UNCHANGED <<mgrVars, answered, unreset, inferLock, used>>

\* The wait ends when something is pending or a slot is taken; then the idle
\* slots take the pending requests in order, each with its reset_slot_(),
\* whose result is not looked at.
admit_pending ==
    LET idle    == InState("idle")
        rank(i) == Cardinality({h \in idle : h =< i})
        taken   == {i \in idle : rank(i) =< Len(pending)}
    IN  /\ ~admitted
        /\ pending # <<>> \/ idle # Slots
        /\ slots' = [i \in Slots |->
                        IF i \in taken
                        THEN [state |-> "prefilling", owner |-> pending[rank(i)], pos |-> 1, n |-> 0]
                        ELSE slots[i]]
        /\ pending' = SubSeq(pending, Cardinality(taken) + 1, Len(pending))
        /\ admitted' = TRUE
        /\ IF taken = {} THEN UNCHANGED <<mgrVars, unreset>>
           ELSE \E ok \in BOOLEAN :
                   /\ reset_slot(ok)
                   /\ unreset' = IF ok THEN unreset ELSE unreset \cup {pending[rank(i)] : i \in taken}
        /\ UNCHANGED <<answered, inferLock, used>>

\* One token of the prompt of the first slot that is prefilling; whether
\* gen_single_() failed is not looked at.  The last token is left for decoding.
Prefill ==
    LET i == CHOOSE i \in InState("prefilling") : \A h \in InState("prefilling") : i =< h
        s == slots[i]
    IN  /\ admitted
        /\ InState("prefilling") # {}
        /\ \E by \in Backends \cup {None} : generate(<<s.owner, Prompt[s.pos]>>, by)
        /\ slots' = [slots EXCEPT ![i].pos = @ + 1,
                                  ![i].state = IF s.pos + 1 = Len(Prompt) THEN "decoding" ELSE @]
        /\ UNCHANGED <<pending, admitted, answered, unreset, inferLock, used>>

\* Mutant: the tokens of a slot are not counted.
MutDecode ==
    LET batch == InState("decoding")
        i     == CHOOSE i \in batch : \A h \in batch : i =< h
        s     == slots[i]
    IN  /\ admitted
        /\ InState("prefilling") = {} /\ batch # {}
        /\ Cardinality(batch) > 1 => inferLock = None
        /\ \E by \in Backends \cup {None}, eos \in BOOLEAN :
              /\ generate(<<s.owner, "text">>, by)
              /\ eos => by # None
              /\ IF by = None THEN UNCHANGED used ELSE Credit(s.owner, by)
              /\ LET done == {j \in batch : eos \/ slots[j].n + 1 >= MaxTokens}
                 IN  /\ slots' = [j \in Slots |->
                                    IF j \in done THEN IdleSlot
                                    ELSE IF j \in batch THEN slots[j]
                                    ELSE slots[j]]
                     /\ answered' = answered \cup {slots[j].owner : j \in done}
        /\ admitted' = FALSE
        /\ UNCHANGED <<pending, unreset, inferLock>>

\* One token for every decoding slot: gen_single_() for one slot, gen_batch_()
\* under g_inference_mutex for more.  -1 is a token like any other; a slot is
\* done at EOS or at max_tokens.
Decode ==
    LET batch == InState("decoding")
        i     == CHOOSE i \in batch : \A h \in batch : i =< h
        s     == slots[i]
    IN  /\ admitted
        /\ InState("prefilling") = {} /\ batch # {}
        /\ Cardinality(batch) > 1 => inferLock = None
        /\ \E by \in Backends \cup {None}, eos \in BOOLEAN :
              /\ generate(<<s.owner, "text">>, by)
              /\ eos => by # None
              /\ IF by = None THEN UNCHANGED used ELSE Credit(s.owner, by)
              /\ LET done == {j \in batch : eos \/ slots[j].n + 1 >= MaxTokens}
                 IN  /\ slots' = [j \in Slots |->
                                    IF j \in done THEN IdleSlot
                                    ELSE IF j \in batch THEN [slots[j] EXCEPT !.n = @ + 1]
                                    ELSE slots[j]]
                     /\ answered' = answered \cup {slots[j].owner : j \in done}
        /\ admitted' = FALSE
        /\ UNCHANGED <<pending, unreset, inferLock>>

DecodeThread == admit_pending \/ Prefill \/ Decode
=============================================================================
