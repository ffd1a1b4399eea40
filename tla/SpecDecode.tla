---------------------------- MODULE SpecDecode ----------------------------
(***************************************************************************)
(* Speculative decoding (run_spec_decode in tools/unified_server.cpp, and  *)
(* the part of generate_completion that calls it): a draft model proposes  *)
(* NDraft tokens, the target verifies them in one batch, the longest       *)
(* prefix that agrees with the target's own greedy choice is accepted, the *)
(* rejected tail is rolled back out of both caches and the target's token  *)
(* put in its place.                                                       *)
(*                                                                         *)
(* Logits are used only through their argmax, so the target is an operator *)
(* from contexts to tokens.  Nothing is assumed of the draft: each of its  *)
(* predictions is any token.  A key/value cache is the sequence of tokens  *)
(* it holds.                                                               *)
(***************************************************************************)
EXTENDS Integers, Sequences

CONSTANTS
    Tok,            \* token ids
    Bos, Eos,       \* bos_id (not part of a prompt that is prefilled), eos_id
    NDraft,         \* g_spec_n_draft
    MaxTokens,      \* max_tokens of the request
    Prompts,        \* prompts, after the BOS token that prefill_start skips
    Models,         \* the targets
    Argmax(_, _)    \* Argmax(m, c): the greedy token of target m after c

ASSUME SpecAssumption ==
    /\ Tok \subseteq Nat /\ 0 \in Tok /\ Eos \in Tok
    /\ NDraft \in Nat \ {0} /\ MaxTokens \in Nat \ {0}
    /\ Prompts \subseteq Seq(Tok)

(* An argmax is an index into the vocabulary, with BOS in front of the     *)
(* context or without it (TLC cannot enumerate the contexts, so the        *)
(* theorems that need it state it).                                        *)
ArgmaxInRange ==
    \A m \in Models : \A c \in Seq(Tok) :
        Argmax(m, c) \in Tok /\ Argmax(m, <<Bos>> \o c) \in Tok

VARIABLES
    pc,         \* prefill, first, round, propose, accept, sync, normal, done
    model, prompt,
    tkv, dkv,   \* the caches of the target and of the draft
    out,        \* the output tokens
    proposals,  \* the draft's proposals of this round
    vpred,      \* argmax of the verify batch's logits, per position
    prev,       \* argmax of prev_logits: the target's last real decode
    dnext,      \* argmax of the draft's last logits
    kv_base,    \* length of both caches at the start of the round
    tok,        \* the token that follows the accepted prefix
    late        \* the deadline passed

vars == <<pc, model, prompt, tkv, dkv, out, proposals, vpred, prev, dnext,
          kv_base, tok, late>>

Running == {"prefill", "first", "round", "propose", "accept", "sync"}

TypeOK ==
    /\ pc \in Running \cup {"normal", "done"}
    /\ model \in Models /\ prompt \in Prompts
    /\ tkv \in Seq(Tok) /\ dkv \in Seq(Tok)
    /\ out \in Seq(Tok) /\ Len(out) <= MaxTokens
    /\ proposals \in Seq(Tok) /\ Len(proposals) <= NDraft
    /\ prev \in Tok /\ dnext \in Tok /\ tok \in Tok
    /\ kv_base \in Nat /\ late \in BOOLEAN

(* The greedy token run_spec_decode computes after context c.  When no     *)
(* token was prefilled (the prompt was BOS alone) the target's logits were *)
(* empty, `vs` is 0 and every argmax is token 0.                           *)
Predict(c) == IF prompt = <<>> THEN 0 ELSE Argmax(model, c)

Init ==
    /\ pc = "prefill" /\ model \in Models /\ prompt \in Prompts
    /\ tkv = <<>> /\ dkv = <<>> /\ out = <<>> /\ proposals = <<>>
    /\ vpred = <<>> /\ prev = 0 /\ dnext = 0 /\ tok = 0
    /\ kv_base = 0 /\ late = FALSE

-----------------------------------------------------------------------------
(* Both contexts are fed the prompt, token by token.                       *)
Prefill ==
    /\ pc = "prefill"
    /\ tkv' = prompt /\ dkv' = prompt /\ pc' = "first"
    /\ UNCHANGED <<model, prompt, out, proposals, vpred, prev, dnext, kv_base, tok, late>>

(* The first output token is the target's, decoded into both caches.       *)
First ==
    /\ pc = "first"
    /\ tok' = Predict(tkv)
    /\ tkv' = Append(tkv, tok') /\ dkv' = Append(dkv, tok')
    /\ prev' = Predict(tkv') /\ dnext' \in Tok
    /\ out' = Append(out, tok')
    /\ kv_base' = Len(prompt) + 1
    /\ pc' = "round"
    /\ UNCHANGED <<model, prompt, proposals, vpred, late>>

(* Mutant: the loop is not left when the output is full.                   *)
MutRound ==
    /\ pc = "round"
    /\ \/ Len(out) >= MaxTokens /\ UNCHANGED <<pc, proposals, late>>
       \/ Len(out) < MaxTokens /\ late' = TRUE /\ pc' = "done" /\ UNCHANGED proposals
       \/ Len(out) < MaxTokens /\ proposals' = <<>> /\ pc' = "propose" /\ UNCHANGED late
    /\ UNCHANGED <<model, prompt, tkv, dkv, out, vpred, prev, dnext, kv_base, tok>>

(* The head of the loop: enough tokens, past the deadline, or a new round. *)
Round ==
    /\ pc = "round"
    /\ \/ Len(out) >= MaxTokens /\ pc' = "done" /\ UNCHANGED <<proposals, late>>
       \/ Len(out) < MaxTokens /\ late' = TRUE /\ pc' = "done" /\ UNCHANGED proposals
       \/ Len(out) < MaxTokens /\ proposals' = <<>> /\ pc' = "propose" /\ UNCHANGED late
    /\ UNCHANGED <<model, prompt, tkv, dkv, out, vpred, prev, dnext, kv_base, tok>>

(* Step 1: the draft proposes its own greedy token and decodes it.         *)
Propose ==
    /\ pc = "propose" /\ Len(proposals) < NDraft
    /\ proposals' = Append(proposals, dnext)
    /\ dkv' = Append(dkv, dnext) /\ dnext' \in Tok
    /\ UNCHANGED <<pc, model, prompt, tkv, out, vpred, prev, kv_base, tok, late>>

(* Step 2: the target decodes all proposals in one batch.                  *)
Verify ==
    /\ pc = "propose" /\ Len(proposals) = NDraft
    /\ vpred' = [i \in 1 .. NDraft |-> Predict(tkv \o SubSeq(proposals, 1, i))]
    /\ tkv' = tkv \o proposals
    /\ pc' = "accept"
    /\ UNCHANGED <<model, prompt, dkv, out, proposals, prev, dnext, kv_base, tok, late>>

(* What the target predicts at the position of proposal i.                 *)
Anchor(i) == IF i = 1 THEN prev ELSE vpred[i - 1]

(* Mutant: proposal i is compared with the logits after itself.            *)
MutAccepted(n) == \A i \in 1 .. n : vpred[i] = proposals[i]

(* Step 3: the first n proposals agree with the target.                    *)
Accepted(n) == \A i \in 1 .. n : Anchor(i) = proposals[i]

(* Mutant: the cap on the output is forgotten.                             *)
MutEmitted(n) == n

(* Step 4: how many of n accepted proposals still fit the output.          *)
Emitted(n) == IF Len(out) + n <= MaxTokens THEN n ELSE MaxTokens - Len(out)

(* Mutant: the draft keeps the first rejected proposal.                    *)
MutRewound(n) == SubSeq(dkv, 1, kv_base + n + 1)

(* The draft's cache, cut back to the accepted prefix.                     *)
Rewound(n) == SubSeq(dkv, 1, kv_base + n)

(* Steps 3 and 4: accept the longest prefix, emit it, and decode the       *)
(* target's next token behind it.                                          *)
AcceptAll ==
    /\ pc = "accept" /\ Accepted(NDraft)
    /\ out' = out \o SubSeq(proposals, 1, Emitted(NDraft))
    /\ tok' = vpred[NDraft]
    /\ tkv' = Append(tkv, tok')
    /\ prev' = Predict(tkv')
    /\ kv_base' = kv_base + NDraft + 1
    /\ pc' = "sync"
    /\ UNCHANGED <<model, prompt, dkv, proposals, vpred, dnext, late>>

Reject(n) ==
    /\ pc = "accept" /\ Accepted(n) /\ Anchor(n + 1) # proposals[n + 1]
    /\ out' = out \o SubSeq(proposals, 1, Emitted(n))
    /\ tok' = Anchor(n + 1)
    /\ tkv' = Append(SubSeq(tkv, 1, kv_base + n), tok')
    /\ prev' = Predict(tkv')
    /\ dkv' = Rewound(n)
    /\ kv_base' = kv_base + n + 1
    /\ pc' = "sync"
    /\ UNCHANGED <<model, prompt, proposals, vpred, dnext, late>>

(* The end of the loop's body: the target's token is emitted and put into  *)
(* the draft's cache; EOS is only looked for here.                         *)
Sync ==
    /\ pc = "sync"
    /\ IF Len(out) >= MaxTokens
       THEN pc' = "done" /\ UNCHANGED <<out, dkv, dnext>>
       ELSE /\ out' = Append(out, tok)
            /\ dkv' = Append(dkv, tok) /\ dnext' \in Tok
            /\ pc' = IF tok = Eos THEN "done" ELSE "round"
    /\ UNCHANGED <<model, prompt, tkv, proposals, vpred, prev, kv_base, tok, late>>

(* A decode, verify or rollback fails: the tokens are dropped, both caches *)
(* reset, and generate_completion falls through to its normal loop.        *)
Fail ==
    /\ pc \in Running
    /\ pc' = "normal"
    /\ tkv' = <<>> /\ dkv' = <<>> /\ out' = <<>>
    /\ UNCHANGED <<model, prompt, proposals, vpred, prev, dnext, kv_base, tok, late>>

(* What the normal loop has fed before its first token: a prompt that is   *)
(* BOS alone leaves BOS as the last token.                                 *)
Base == IF prompt = <<>> THEN <<Bos>> ELSE prompt

(* One token of the normal loop.                                           *)
Normal ==
    /\ pc = "normal"
    /\ LET t == Argmax(model, Base \o out) IN
       /\ out' = Append(out, t)
       /\ pc' = IF t = Eos \/ Len(out') = MaxTokens THEN "done" ELSE "normal"
    /\ UNCHANGED <<model, prompt, tkv, dkv, proposals, vpred, prev, dnext, kv_base, tok, late>>

Terminating == pc = "done" /\ UNCHANGED vars

(* The steps of the program; nothing makes a decode fail.                  *)
Step == Prefill \/ First \/ Round \/ Propose \/ Verify \/ AcceptAll
        \/ (\E n \in 0 .. NDraft - 1 : Reject(n)) \/ Sync \/ Normal

Next == Step \/ Fail \/ Terminating

Spec == Init /\ [][Next]_vars

FairSpec == Spec /\ WF_vars(Step)

-----------------------------------------------------------------------------
(* "Both contexts are kept symmetric so the draft's KV stays a valid       *)
(* prefix of the target's": when a round starts, both caches hold exactly  *)
(* the prompt and the output so far, and kv_base is their length.          *)
CachesAgree ==
    pc = "round" => /\ tkv = prompt \o out
                    /\ dkv = tkv
                    /\ kv_base = Len(tkv)

(* Acceptance is exact: every token of the output, accepted, corrected or  *)
(* from the normal loop, is the one the target would have chosen after the *)
(* prompt and the tokens before it.                                        *)
GreedyTokens ==
    \A i \in 1 .. Len(out) : out[i] = Argmax(model, Base \o SubSeq(out, 1, i - 1))

(* The output of the normal loop for this request.                         *)
Greedy ==
    LET g[n \in 0 .. MaxTokens] ==
          IF n = 0 THEN <<>>
          ELSE IF Len(g[n - 1]) = n - 1 /\ (n > 1 => g[n - 1][n - 1] # Eos)
               THEN Append(g[n - 1], Argmax(model, Base \o g[n - 1]))
               ELSE g[n - 1]
    IN  g[MaxTokens]

(* "Lossless vs greedy": a decode that meets no deadline returns the token *)
(* stream of the normal loop.                                              *)
Lossless == pc = "done" /\ ~late => out = Greedy

(* Every round emits at least one token, so the request is finished.       *)
Finishes == <>(pc = "done")
=============================================================================
