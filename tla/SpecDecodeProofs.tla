------------------------- MODULE SpecDecodeProofs -------------------------
(* Proofs about SpecDecode, for every vocabulary, number of drafts, target  *)
(* and prompt.                                                              *)
EXTENDS SpecDecode, SequenceTheorems, TLAPS

-----------------------------------------------------------------------------
(* Sequences *)

\* Cutting a concatenation inside its second part.
LEMMA CutConcat ==
    ASSUME NEW s \in Seq(Tok), NEW t \in Seq(Tok), NEW k \in 0 .. Len(t)
    PROVE  SubSeq(s \o t, 1, Len(s) + k) = s \o SubSeq(t, 1, k)
  <1> DEFINE a == SubSeq(s \o t, 1, Len(s) + k)
             c == SubSeq(t, 1, k)
             b == s \o c
  <1>0. Len(s) \in Nat /\ Len(t) \in Nat /\ k \in Nat /\ k =< Len(t)
    OBVIOUS
  <1>1. /\ s \o t \in Seq(Tok) /\ Len(s \o t) = Len(s) + Len(t)
        /\ \A i \in 1 .. Len(s) + Len(t) :
              (s \o t)[i] = IF i <= Len(s) THEN s[i] ELSE t[i - Len(s)]
    BY ConcatProperties
  <1>2. \A i \in 1 .. Len(s) + k : (s \o t)[i] \in Tok
    BY <1>0, <1>1, ElementOfSeq
  <1>3. /\ a \in Seq(Tok) /\ Len(a) = Len(s) + k
        /\ \A i \in 1 .. Len(s) + k : a[i] = (s \o t)[i]
    BY <1>0, <1>2, SubSeqProperties
  <1>4. \A i \in 1 .. k : t[i] \in Tok
    BY <1>0, ElementOfSeq
  <1>5. /\ c \in Seq(Tok) /\ Len(c) = k
        /\ \A i \in 1 .. k : c[i] = t[i]
    BY <1>0, <1>4, SubSeqProperties
  <1>6. /\ b \in Seq(Tok) /\ Len(b) = Len(s) + k
        /\ \A i \in 1 .. Len(s) + k : b[i] = IF i <= Len(s) THEN s[i] ELSE c[i - Len(s)]
    BY <1>5, ConcatProperties
  <1>7. \A i \in 1 .. Len(s) + k : a[i] = b[i]
    <2> TAKE i \in 1 .. Len(s) + k
    <2>1. a[i] = IF i <= Len(s) THEN s[i] ELSE t[i - Len(s)]
      BY <1>0, <1>1, <1>3
    <2>2. b[i] = IF i <= Len(s) THEN s[i] ELSE c[i - Len(s)]
      BY <1>6
    <2>3. ~(i <= Len(s)) => i - Len(s) \in 1 .. k
      BY <1>0
    <2> QED BY <2>1, <2>2, <2>3, <1>5
  <1> HIDE DEF a, b
  <1>8. a = b
    BY <1>3, <1>6, <1>7, SeqEqual
  <1> QED BY <1>8 DEF a, b

\* The two ends of the cut: nothing or all of the second part.
LEMMA CutEnds ==
    ASSUME NEW s \in Seq(Tok), NEW t \in Seq(Tok)
    PROVE  /\ s \o SubSeq(t, 1, 0) = s
           /\ SubSeq(t, 1, Len(t)) = t
           /\ SubSeq(s \o t, 1, Len(s)) = s
  <1>1. SubSeq(t, 1, 0) = <<>>
    BY SubSeqEmpty
  <1>2. s \o <<>> = s
    BY ConcatEmptySeq
  <1>3. SubSeq(s \o t, 1, Len(s) + 0) = s \o SubSeq(t, 1, 0)
    BY CutConcat, 0 \in 0 .. Len(t)
  <1> QED BY <1>1, <1>2, <1>3, SubSeqFull

\* A proposal decoded into the draft's cache.
LEMMA AppendConcat ==
    ASSUME NEW s \in Seq(Tok), NEW t \in Seq(Tok), NEW e \in Tok
    PROVE  Append(s \o t, e) = s \o Append(t, e)
  <1>1. s \o t \in Seq(Tok) /\ <<e>> \in Seq(Tok)
    BY ConcatProperties
  <1>2. Append(s \o t, e) = (s \o t) \o <<e>> /\ Append(t, e) = t \o <<e>>
    BY <1>1, AppendIsConcat
  <1>3. (s \o t) \o <<e>> = s \o (t \o <<e>>)
    BY <1>1, ConcatAssociative
  <1> QED BY <1>2, <1>3

\* Concatenation is associative (ConcatAssociative for tokens).
LEMMA ConcatAssoc ==
    ASSUME NEW s \in Seq(Tok), NEW t \in Seq(Tok), NEW u \in Seq(Tok)
    PROVE  (s \o t) \o u = s \o (t \o u)
  BY ConcatAssociative

\* Appending a token to tokens (AppendProperties for tokens).
LEMMA AppendTyped ==
    ASSUME NEW s \in Seq(Tok), NEW e \in Tok
    PROVE  /\ Append(s, e) \in Seq(Tok) /\ Len(Append(s, e)) = Len(s) + 1
           /\ \A i \in 1 .. Len(s) : Append(s, e)[i] = s[i]
           /\ Append(s, e)[Len(s) + 1] = e
  BY AppendProperties

-----------------------------------------------------------------------------
(* The inductive invariant *)

\* What the caches should hold between rounds.
Context == prompt \o out

\* At each point of the round: what both caches hold in terms of the prompt,
\* the output and the proposals.  After a truncated emission the caches are
\* ahead of the output and are not used again.
CacheShape ==
    /\ pc = "prefill" => out = <<>>
    /\ pc = "first" => tkv = prompt /\ dkv = prompt /\ out = <<>>
    /\ pc = "round" => tkv = Context /\ dkv = tkv /\ kv_base = Len(tkv)
    /\ pc = "propose" => tkv = Context /\ dkv = tkv \o proposals /\ kv_base = Len(tkv)
    /\ pc = "accept" => /\ tkv = Context \o proposals /\ dkv = tkv
                        /\ kv_base = Len(Context) /\ Len(proposals) = NDraft
                        /\ vpred \in [1 .. NDraft -> Tok]
    /\ pc = "sync" /\ Len(out) < MaxTokens =>
          dkv = Context /\ tkv = Append(dkv, tok) /\ kv_base = Len(tkv)
    /\ pc \in {"propose", "accept", "normal"} => Len(out) < MaxTokens

\* The logits kept across steps are the target's for the context they are
\* compared at, and every token of the output is the target's.
Predicted ==
    /\ pc \in {"round", "propose", "accept"} => prev = Predict(Context)
    /\ pc = "accept" =>
          \A i \in 1 .. NDraft : vpred[i] = Predict(Context \o SubSeq(proposals, 1, i))
    /\ pc = "sync" /\ Len(out) < MaxTokens =>
          tok = Predict(Context) /\ prev = Predict(Append(Context, tok))
    /\ \A i \in 1 .. Len(out) : out[i] = Predict(prompt \o SubSeq(out, 1, i - 1))

CInv == TypeOK /\ CacheShape

-----------------------------------------------------------------------------
(* The caches *)

\* A prediction is a token, also when there were no logits.
LEMMA PredictTok ==
    ASSUME ArgmaxInRange, model \in Models, NEW c \in Seq(Tok)
    PROVE  Predict(c) \in Tok
  BY SpecAssumption DEF Predict, ArgmaxInRange

LEMMA InitCInv == Init => CInv
  <1> SUFFICES ASSUME Init PROVE CInv OBVIOUS
  <1>1. <<>> \in Seq(Tok) /\ Len(<<>>) = 0
    BY EmptySeq
  <1>2. TypeOK
    <2>1. late \in BOOLEAN BY Zenon DEF Init
    <2> QED BY <1>1, <2>1, SpecAssumption DEF Init, TypeOK, Running
  <1>3. CacheShape
    BY DEF Init, CacheShape
  <1> QED BY <1>2, <1>3 DEF CInv

\* The context between rounds is a sequence of tokens.
LEMMA ContextTyped ==
    ASSUME TypeOK
    PROVE  /\ prompt \in Seq(Tok) /\ Context \in Seq(Tok)
           /\ Len(Context) = Len(prompt) + Len(out)
           /\ \A e \in Tok : Append(Context, e) = prompt \o Append(out, e)
  <1>1. prompt \in Seq(Tok) /\ out \in Seq(Tok)
    BY SpecAssumption DEF TypeOK
  <1>2. Context \in Seq(Tok) /\ Len(Context) = Len(prompt) + Len(out)
    BY <1>1, ConcatProperties DEF Context
  <1>3. \A e \in Tok : Append(Context, e) = prompt \o Append(out, e)
    BY <1>1, AppendConcat DEF Context
  <1> QED BY <1>1, <1>2, <1>3

LEMMA PrefillCInv ==
    ASSUME CInv, Prefill PROVE CInv'
  <1>1. TypeOK'
    BY SpecAssumption DEF CInv, TypeOK, Prefill, Running
  <1>2. CacheShape'
    BY DEF CInv, CacheShape, Prefill
  <1> QED BY <1>1, <1>2 DEF CInv

LEMMA FirstCInv ==
    ASSUME ArgmaxInRange, CInv, First PROVE CInv'
  <1> USE DEF CInv
  <1>1. tkv = prompt /\ dkv = prompt /\ out = <<>> /\ prompt \in Seq(Tok)
    BY ContextTyped DEF CacheShape, First
  <1>2. tok' \in Tok
    BY <1>1, PredictTok DEF First, TypeOK
  <1>3. /\ tkv' = Append(prompt, tok') /\ dkv' = Append(prompt, tok')
        /\ out' = Append(out, tok') /\ out' = <<tok'>>
    BY <1>1 DEF First
  <1>4. tkv' \in Seq(Tok) /\ Len(tkv') = Len(prompt) + 1
    BY <1>1, <1>2, <1>3, AppendProperties
  <1>5. prev' \in Tok
    BY <1>4, PredictTok DEF First, TypeOK
  <1>6. TypeOK'
    <2>1. out' \in Seq(Tok) /\ Len(out') = 1
      BY <1>2, <1>3
    <2>2. Len(prompt) + 1 \in Nat
      BY <1>1
    <2> QED BY <1>2, <1>3, <1>4, <1>5, <2>1, <2>2, SpecAssumption DEF TypeOK, First, Running
  <1>7. tkv' = Context'
    <2>1. Append(Context, tok') = prompt \o Append(out, tok')
      BY <1>2, ContextTyped
    <2>2. Context = prompt
      BY <1>1, ConcatEmptySeq DEF Context
    <2>3. Context' = prompt \o Append(out, tok')
      BY <1>3 DEF Context, First
    <2> QED BY <1>3, <2>1, <2>2, <2>3
  <1>8. CacheShape'
    BY <1>3, <1>4, <1>7 DEF CacheShape, First
  <1> QED BY <1>6, <1>8

LEMMA RoundCInv ==
    ASSUME CInv, Round PROVE CInv'
  <1> USE DEF CInv
  <1>0. Context' = Context /\ Len(Context) \in Nat
    BY ContextTyped DEF Context, Round
  <1>1. TypeOK'
    <2>1. CASE proposals' = proposals
      BY <2>1 DEF TypeOK, Round, Running
    <2>2. CASE proposals' = <<>>
      <3>1. proposals' \in Seq(Tok) /\ Len(proposals') <= NDraft
        BY <2>2, EmptySeq, SpecAssumption
      <3>2. late' \in BOOLEAN
        BY DEF Round, TypeOK
      <3> QED BY <3>1, <3>2 DEF TypeOK, Round, Running
    <2> QED BY <2>1, <2>2 DEF Round
  <1>2. CacheShape'
    <2>1. CASE pc' = "done"
      BY <2>1 DEF CacheShape
    <2>2. CASE pc' = "propose" /\ proposals' = <<>>
      <3>1. tkv \o <<>> = tkv
        BY ConcatEmptySeq DEF TypeOK
      <3> QED BY <2>2, <3>1, <1>0 DEF CacheShape, Round
    <2> QED BY <2>1, <2>2 DEF Round
  <1> QED BY <1>1, <1>2

LEMMA ProposeCInv ==
    ASSUME CInv, Propose PROVE CInv'
  <1> USE DEF CInv
  <1>0. Context' = Context
    BY DEF Context, Propose
  <1>1. /\ proposals' \in Seq(Tok) /\ Len(proposals') = Len(proposals) + 1
        /\ dkv' \in Seq(Tok)
    BY AppendProperties DEF Propose, TypeOK
  <1>2. TypeOK'
    BY <1>1, SpecAssumption DEF TypeOK, Propose, Running
  <1>3. Append(tkv \o proposals, dnext) = tkv \o Append(proposals, dnext)
    BY AppendConcat DEF TypeOK
  <1>4. CacheShape'
    BY <1>0, <1>3 DEF CacheShape, Propose
  <1> QED BY <1>2, <1>4

LEMMA VerifyCInv ==
    ASSUME ArgmaxInRange, CInv, Verify PROVE CInv'
  <1> USE DEF CInv
  <1>0. Context' = Context
    BY DEF Context, Verify
  <1>1. \A i \in 1 .. NDraft : Predict(tkv \o SubSeq(proposals, 1, i)) \in Tok
    <2> TAKE i \in 1 .. NDraft
    <2>1. \A j \in 1 .. i : proposals[j] \in Tok
      BY ElementOfSeq, SpecAssumption DEF TypeOK, Verify
    <2>2. SubSeq(proposals, 1, i) \in Seq(Tok)
      BY <2>1, SubSeqProperties
    <2>3. tkv \o SubSeq(proposals, 1, i) \in Seq(Tok)
      BY <2>2, ConcatProperties DEF TypeOK
    <2> QED BY <2>3, PredictTok DEF TypeOK
  <1>2. vpred' \in [1 .. NDraft -> Tok]
    BY <1>1 DEF Verify
  <1>3. tkv' \in Seq(Tok)
    BY ConcatProperties DEF Verify, TypeOK
  <1>4. TypeOK'
    BY <1>3 DEF TypeOK, Verify, Running
  <1>5. CacheShape'
    BY <1>0, <1>2 DEF CacheShape, Verify
  <1> QED BY <1>4, <1>5

\* The first n proposals are a sequence of n tokens.
LEMMA PrefixTyped ==
    ASSUME CInv, pc = "accept", NEW n \in 0 .. NDraft
    PROVE  /\ SubSeq(proposals, 1, n) \in Seq(Tok)
           /\ Len(SubSeq(proposals, 1, n)) = n
           /\ \A i \in 1 .. n : SubSeq(proposals, 1, n)[i] = proposals[i]
           /\ Context \o SubSeq(proposals, 1, n) \in Seq(Tok)
           /\ Len(Context \o SubSeq(proposals, 1, n)) = Len(Context) + n
  <1>1. proposals \in Seq(Tok) /\ Len(proposals) = NDraft /\ NDraft \in Nat
    BY SpecAssumption DEF CInv, TypeOK, CacheShape
  <1>2. \A i \in 1 .. n : proposals[i] \in Tok
    BY <1>1, ElementOfSeq
  <1>3. /\ SubSeq(proposals, 1, n) \in Seq(Tok)
        /\ Len(SubSeq(proposals, 1, n)) = n
        /\ \A i \in 1 .. n : SubSeq(proposals, 1, n)[i] = proposals[i]
    BY <1>1, <1>2, SubSeqProperties
  <1>4. Context \in Seq(Tok)
    BY ContextTyped DEF CInv
  <1> QED BY <1>3, <1>4, ConcatProperties

\* Emitting n accepted proposals: the output stays within max_tokens, and if
\* it is not full then all of them were emitted.
LEMMA EmittedPrefix ==
    ASSUME CInv, pc = "accept", NEW n \in 0 .. NDraft, NEW o,
           o = out \o SubSeq(proposals, 1, Emitted(n))
    PROVE  /\ Emitted(n) \in 0 .. n
           /\ o \in Seq(Tok) /\ Len(o) <= MaxTokens
           /\ Len(o) < MaxTokens => prompt \o o = Context \o SubSeq(proposals, 1, n)
  <1>1. /\ out \in Seq(Tok) /\ Len(out) \in Nat /\ Len(out) < MaxTokens
        /\ MaxTokens \in Nat /\ NDraft \in Nat
    BY SpecAssumption DEF CInv, TypeOK, CacheShape
  <1>2. Emitted(n) \in 0 .. n /\ Len(out) + Emitted(n) <= MaxTokens
    BY <1>1 DEF Emitted
  <1>3. Emitted(n) \in 0 .. NDraft
    BY <1>1, <1>2
  <1> DEFINE P(k) == SubSeq(proposals, 1, k)
  <1>4. P(Emitted(n)) \in Seq(Tok) /\ Len(P(Emitted(n))) = Emitted(n)
    BY <1>3, PrefixTyped
  <1>5. o \in Seq(Tok) /\ Len(o) = Len(out) + Emitted(n)
    BY <1>1, <1>4, ConcatProperties
  <1>6. ASSUME Len(o) < MaxTokens
        PROVE  prompt \o o = Context \o P(n)
    <2>1. Emitted(n) = n
      BY <1>1, <1>2, <1>5, <1>6 DEF Emitted
    <2>2. P(n) \in Seq(Tok) /\ prompt \in Seq(Tok)
      BY <1>4, <2>1, ContextTyped DEF CInv
    <2>3. (prompt \o out) \o P(n) = prompt \o (out \o P(n))
      BY <1>1, <2>2, ConcatAssoc
    <2> QED BY <2>1, <2>3 DEF Context
  <1> QED BY <1>1, <1>2, <1>5, <1>6

LEMMA AcceptAllCInv ==
    ASSUME ArgmaxInRange, CInv, AcceptAll PROVE CInv'
  <1> USE DEF CInv
  <1>0. pc = "accept" /\ NDraft \in 1 .. NDraft /\ NDraft \in 0 .. NDraft
    BY SpecAssumption DEF AcceptAll
  <1>1. /\ tkv = Context \o proposals /\ dkv = tkv
        /\ kv_base = Len(Context) /\ Len(proposals) = NDraft
        /\ vpred \in [1 .. NDraft -> Tok]
    BY <1>0 DEF CacheShape
  <1>2. SubSeq(proposals, 1, NDraft) = proposals
    BY <1>1, CutEnds DEF TypeOK
  <1>3. /\ out' \in Seq(Tok) /\ Len(out') <= MaxTokens
        /\ Len(out') < MaxTokens => Context' = tkv
    BY <1>0, <1>1, <1>2, EmittedPrefix DEF AcceptAll, Context
  <1>4. tok' \in Tok
    BY <1>0, <1>1 DEF AcceptAll
  <1>5. tkv' \in Seq(Tok) /\ Len(tkv') = Len(tkv) + 1
    BY <1>4, AppendProperties DEF AcceptAll, TypeOK
  <1>6. prev' \in Tok
    BY <1>5, PredictTok DEF AcceptAll, TypeOK
  <1>7. kv_base' = Len(tkv') /\ kv_base' \in Nat
    <2>1. Len(tkv) = Len(Context) + NDraft /\ Len(Context) \in Nat
      BY <1>1, ContextTyped, ConcatProperties DEF TypeOK
    <2> QED BY <1>1, <1>5, <2>1, SpecAssumption DEF AcceptAll
  <1>8. TypeOK'
    BY <1>3, <1>4, <1>5, <1>6, <1>7 DEF TypeOK, AcceptAll, Running
  <1>9. CacheShape'
    BY <1>1, <1>3, <1>7 DEF CacheShape, AcceptAll
  <1> QED BY <1>8, <1>9

LEMMA RejectCInv ==
    ASSUME ArgmaxInRange, CInv, NEW n \in 0 .. NDraft - 1, Reject(n) PROVE CInv'
  <1> USE DEF CInv
  <1> DEFINE P == SubSeq(proposals, 1, n)
  <1>0. pc = "accept" /\ n \in 0 .. NDraft /\ n + 1 \in 1 .. NDraft /\ NDraft \in Nat /\ n \in Nat
    BY SpecAssumption DEF Reject
  <1>1. /\ tkv = Context \o proposals /\ dkv = tkv
        /\ kv_base = Len(Context) /\ Len(proposals) = NDraft
        /\ vpred \in [1 .. NDraft -> Tok]
    BY <1>0 DEF CacheShape
  <1>2. SubSeq(tkv, 1, kv_base + n) = Context \o P
    BY <1>0, <1>1, CutConcat, ContextTyped DEF TypeOK
  <1>3. /\ out' \in Seq(Tok) /\ Len(out') <= MaxTokens
        /\ Len(out') < MaxTokens => Context' = Context \o P
    BY <1>0, EmittedPrefix DEF Reject, Context
  <1>4. tok' \in Tok
    <2>1. CASE n = 0
      BY <2>1 DEF Reject, Anchor, TypeOK
    <2>2. CASE n # 0
      <3>1. n \in 1 .. NDraft /\ (n + 1) - 1 = n /\ n + 1 # 1
        BY <1>0, <2>2
      <3>2. vpred[n] \in Tok
        BY <1>1, <3>1
      <3> QED BY <3>1, <3>2 DEF Reject, Anchor
    <2> QED BY <2>1, <2>2
  <1>5. Context \o P \in Seq(Tok) /\ Len(Context \o P) = Len(Context) + n
    BY <1>0, PrefixTyped
  <1>6. dkv' = Context \o P /\ tkv' = Append(Context \o P, tok')
    BY <1>1, <1>2 DEF Reject, Rewound
  <1>7. tkv' \in Seq(Tok) /\ Len(tkv') = Len(Context) + n + 1
    BY <1>4, <1>5, <1>6, AppendProperties
  <1>8. prev' \in Tok
    BY <1>7, PredictTok DEF Reject, TypeOK
  <1>9. kv_base' = Len(tkv') /\ kv_base' \in Nat
    BY <1>0, <1>1, <1>7, ContextTyped DEF Reject, TypeOK
  <1> HIDE DEF P
  <1>10. TypeOK'
    BY <1>3, <1>4, <1>5, <1>6, <1>7, <1>8, <1>9 DEF TypeOK, Reject, Running
  <1>11. CacheShape'
    BY <1>3, <1>6, <1>9 DEF CacheShape, Reject
  <1> QED BY <1>10, <1>11

LEMMA SyncCInv ==
    ASSUME CInv, Sync PROVE CInv'
  <1> USE DEF CInv
  <1>1. CASE Len(out) >= MaxTokens
    BY <1>1 DEF CacheShape, TypeOK, Sync, Running
  <1>2. CASE ~(Len(out) >= MaxTokens)
    <2>1. Len(out) < MaxTokens /\ MaxTokens \in Nat /\ Len(out) \in Nat
      BY <1>2, SpecAssumption DEF TypeOK
    <2>2. dkv = Context /\ tkv = Append(dkv, tok) /\ kv_base = Len(tkv)
      BY <2>1 DEF CacheShape, Sync
    <2>0. out' = Append(out, tok) /\ dkv' = Append(dkv, tok)
      BY <1>2 DEF Sync
    <2>3. /\ out' \in Seq(Tok) /\ Len(out') = Len(out) + 1
          /\ dkv' \in Seq(Tok)
      BY <2>0, AppendTyped DEF TypeOK
    <2>4. Context' = Append(Context, tok)
      BY <1>2, ContextTyped DEF Sync, Context, TypeOK
    <2>5. pc' \in {"done", "round"}
      BY <1>2 DEF Sync
    <2>6. TypeOK'
      BY <1>2, <2>1, <2>3, <2>5 DEF TypeOK, Sync, Running
    <2>7. CacheShape'
      BY <1>2, <2>2, <2>4, <2>5 DEF CacheShape, Sync
    <2> QED BY <2>6, <2>7
  <1> QED BY <1>1, <1>2

LEMMA FailCInv ==
    ASSUME CInv, Fail PROVE CInv'
  <1>1. <<>> \in Seq(Tok) /\ Len(<<>>) = 0
    BY EmptySeq
  <1>2. TypeOK'
    BY <1>1, SpecAssumption DEF CInv, TypeOK, Fail, Running
  <1>3. CacheShape'
    BY <1>1, SpecAssumption DEF CacheShape, Fail
  <1> QED BY <1>2, <1>3 DEF CInv

LEMMA NormalCInv ==
    ASSUME ArgmaxInRange, CInv, Normal PROVE CInv'
  <1> USE DEF CInv
  <1>1. prompt \in Seq(Tok) /\ out \in Seq(Tok)
    BY ContextTyped DEF TypeOK
  <1>2. prompt \o out \in Seq(Tok) /\ model \in Models
    BY <1>1, ConcatProperties DEF TypeOK
  <1>3. Argmax(model, Base \o out) \in Tok
    BY <1>1, <1>2 DEF ArgmaxInRange, Base
  <1>4. out' \in Seq(Tok) /\ Len(out') = Len(out) + 1
    BY <1>1, <1>3, AppendProperties DEF Normal
  <1>5. Len(out) < MaxTokens /\ MaxTokens \in Nat /\ Len(out) \in Nat
    BY <1>1, SpecAssumption DEF CacheShape, Normal
  <1>6. pc' \in {"done", "normal"} /\ (pc' = "normal" => Len(out') # MaxTokens)
    BY DEF Normal
  <1>7. TypeOK'
    BY <1>4, <1>5, <1>6 DEF TypeOK, Normal, Running
  <1>8. CacheShape'
    BY <1>4, <1>5, <1>6 DEF CacheShape
  <1> QED BY <1>7, <1>8

LEMMA NextCInv ==
    ASSUME ArgmaxInRange, CInv, [Next]_vars PROVE CInv'
  <1>1. CASE UNCHANGED vars
    BY <1>1 DEF CInv, TypeOK, CacheShape, Context, vars
  <1>2. CASE Terminating
    BY <1>1, <1>2 DEF Terminating
  <1>3. CASE Fail
    BY <1>3, FailCInv
  <1>4. CASE Step
    <2>1. CASE \E n \in 0 .. NDraft - 1 : Reject(n)
      BY <2>1, RejectCInv
    <2> QED BY <1>4, <2>1, PrefillCInv, FirstCInv, RoundCInv, ProposeCInv,
               VerifyCInv, AcceptAllCInv, SyncCInv, NormalCInv DEF Step
  <1> QED BY <1>1, <1>2, <1>3, <1>4 DEF Next

\* The core invariant of the caches holds throughout a request.
LEMMA SpecCInv ==
    ASSUME ArgmaxInRange PROVE Spec => []CInv
  <1>1. CInv /\ [Next]_vars => CInv'
    BY NextCInv
  <1> QED BY InitCInv, <1>1, PTL DEF Spec

(* Every variable of a request keeps its type, the output never exceeds    *)
(* max_tokens and a round never holds more proposals than g_spec_n_draft.  *)
THEOREM TypeCorrect ==
    ASSUME ArgmaxInRange PROVE Spec => []TypeOK
  <1>1. CInv => TypeOK
    BY DEF CInv
  <1> QED BY SpecCInv, <1>1, PTL

(* Whenever run_spec_decode is back at the head of its loop, after any     *)
(* number of full acceptances, rejections and roll-backs, both caches hold *)
(* exactly the prompt and the output, and kv_base is their length.         *)
THEOREM CachesStayAgreed ==
    ASSUME ArgmaxInRange PROVE Spec => []CachesAgree
  <1>1. CInv => CachesAgree
    BY DEF CInv, CacheShape, CachesAgree, Context
  <1> QED BY SpecCInv, <1>1, PTL
-----------------------------------------------------------------------------
(* The tokens *)

\* Cutting a concatenation inside its first part.
LEMMA CutFirst ==
    ASSUME NEW s \in Seq(Tok), NEW t \in Seq(Tok), NEW k \in 0 .. Len(s)
    PROVE  SubSeq(s \o t, 1, k) = SubSeq(s, 1, k)
  <1> DEFINE a == SubSeq(s \o t, 1, k)
             b == SubSeq(s, 1, k)
  <1>0. Len(s) \in Nat /\ Len(t) \in Nat /\ k \in Nat /\ k =< Len(s)
    OBVIOUS
  <1>1. /\ s \o t \in Seq(Tok) /\ Len(s \o t) = Len(s) + Len(t)
        /\ \A i \in 1 .. Len(s) + Len(t) :
              (s \o t)[i] = IF i <= Len(s) THEN s[i] ELSE t[i - Len(s)]
    BY ConcatProperties
  <1>2. \A i \in 1 .. k : (s \o t)[i] \in Tok /\ (s \o t)[i] = s[i] /\ s[i] \in Tok
    BY <1>0, <1>1, ElementOfSeq
  <1>3. a \in Seq(Tok) /\ Len(a) = k /\ \A i \in 1 .. k : a[i] = (s \o t)[i]
    BY <1>0, <1>2, SubSeqProperties
  <1>4. b \in Seq(Tok) /\ Len(b) = k /\ \A i \in 1 .. k : b[i] = s[i]
    BY <1>0, <1>2, SubSeqProperties
  <1> HIDE DEF a, b
  <1>5. a = b
    BY <1>2, <1>3, <1>4, SeqEqual
  <1> QED BY <1>5 DEF a, b

\* Cutting twice.
LEMMA CutCut ==
    ASSUME NEW t \in Seq(Tok), NEW n \in 0 .. Len(t), NEW k \in 0 .. n
    PROVE  SubSeq(SubSeq(t, 1, n), 1, k) = SubSeq(t, 1, k)
  <1> DEFINE c == SubSeq(t, 1, n)
             a == SubSeq(c, 1, k)
             b == SubSeq(t, 1, k)
  <1>0. Len(t) \in Nat /\ n \in Nat /\ n =< Len(t) /\ k \in Nat /\ k =< n
    OBVIOUS
  <1>1. \A i \in 1 .. n : t[i] \in Tok
    BY <1>0, ElementOfSeq
  <1>2. c \in Seq(Tok) /\ Len(c) = n /\ \A i \in 1 .. n : c[i] = t[i]
    BY <1>0, <1>1, SubSeqProperties
  <1>3. \A i \in 1 .. k : t[i] \in Tok /\ c[i] = t[i] /\ c[i] \in Tok
    BY <1>0, <1>1, <1>2
  <1>4. b \in Seq(Tok) /\ Len(b) = k /\ \A i \in 1 .. k : b[i] = t[i]
    BY <1>0, <1>3, SubSeqProperties
  <1> HIDE DEF c
  <1>5. a \in Seq(Tok) /\ Len(a) = k /\ \A i \in 1 .. k : a[i] = c[i]
    BY <1>0, <1>2, <1>3, SubSeqProperties
  <1> HIDE DEF a, b
  <1>6. a = b
    BY <1>3, <1>4, <1>5, SeqEqual
  <1> QED BY <1>6 DEF a, b, c

\* Extending an output of the target's tokens by more of them.
LEMMA ExtendTokens ==
    ASSUME prompt \in Seq(Tok), NEW o \in Seq(Tok), NEW q \in Seq(Tok),
           \A i \in 1 .. Len(o) : o[i] = Predict(prompt \o SubSeq(o, 1, i - 1)),
           \A k \in 1 .. Len(q) : q[k] = Predict(prompt \o (o \o SubSeq(q, 1, k - 1)))
    PROVE  \A i \in 1 .. Len(o \o q) :
              (o \o q)[i] = Predict(prompt \o SubSeq(o \o q, 1, i - 1))
  <1>0. Len(o) \in Nat /\ Len(q) \in Nat
    OBVIOUS
  <1>1. /\ Len(o \o q) = Len(o) + Len(q)
        /\ \A i \in 1 .. Len(o) + Len(q) :
              (o \o q)[i] = IF i <= Len(o) THEN o[i] ELSE q[i - Len(o)]
    BY ConcatProperties
  <1> TAKE i \in 1 .. Len(o \o q)
  <1>2. CASE i <= Len(o)
    <2>1. i - 1 \in 0 .. Len(o) /\ i \in 1 .. Len(o)
      BY <1>0, <1>1, <1>2
    <2>2. SubSeq(o \o q, 1, i - 1) = SubSeq(o, 1, i - 1)
      BY <2>1, CutFirst
    <2>3. (o \o q)[i] = o[i]
      BY <1>1, <1>2
    <2> QED BY <2>1, <2>2, <2>3
  <1>3. CASE ~(i <= Len(o))
    <2> DEFINE k == i - Len(o)
    <2>1. k \in 1 .. Len(q) /\ k - 1 \in 0 .. Len(q) /\ Len(o) + (k - 1) = i - 1
      BY <1>0, <1>1, <1>3
    <2>2. (o \o q)[i] = q[k]
      BY <1>1, <1>3
    <2> HIDE DEF k
    <2>3. SubSeq(o \o q, 1, Len(o) + (k - 1)) = o \o SubSeq(q, 1, k - 1)
      BY <2>1, CutConcat
    <2> QED BY <2>1, <2>2, <2>3
  <1> QED BY <1>2, <1>3

\* The case of a single token.
LEMMA AppendToken ==
    ASSUME prompt \in Seq(Tok), out \in Seq(Tok), NEW t \in Tok, t = Predict(Context),
           \A i \in 1 .. Len(out) : out[i] = Predict(prompt \o SubSeq(out, 1, i - 1))
    PROVE  \A i \in 1 .. Len(Append(out, t)) :
              Append(out, t)[i] = Predict(prompt \o SubSeq(Append(out, t), 1, i - 1))
  <1> DEFINE q == <<t>>
  <1>1. q \in Seq(Tok) /\ Len(q) = 1 /\ q[1] = t
    OBVIOUS
  <1>2. Append(out, t) = out \o q
    BY AppendIsConcat
  <1> HIDE DEF q
  <1>3. out \o SubSeq(q, 1, 0) = out
    BY <1>1, CutEnds
  <1>4. \A k \in 1 .. Len(q) : q[k] = Predict(prompt \o (out \o SubSeq(q, 1, k - 1)))
    <2> TAKE k \in 1 .. Len(q)
    <2>1. k = 1 /\ k - 1 = 0
      BY <1>1
    <2>2. out \o SubSeq(q, 1, k - 1) = out
      BY <1>3, <2>1
    <2> QED BY <1>1, <2>1, <2>2 DEF Context
  <1>5. \A i \in 1 .. Len(out \o q) :
           (out \o q)[i] = Predict(prompt \o SubSeq(out \o q, 1, i - 1))
    BY <1>1, <1>4, ExtendTokens
  <1> QED BY <1>2, <1>5

\* What proposal k is compared with is the target's token after the prompt,
\* the output and the proposals before it.
LEMMA AnchorPredicts ==
    ASSUME CInv, Predicted, pc = "accept", NEW k \in 1 .. NDraft
    PROVE  Anchor(k) = Predict(Context \o SubSeq(proposals, 1, k - 1))
  <1>0. NDraft \in Nat
    BY SpecAssumption
  <1>1. CASE k = 1
    <2>1. Context \o SubSeq(proposals, 1, 0) = Context
      BY CutEnds, ContextTyped DEF CInv, TypeOK
    <2>2. k - 1 = 0 /\ Anchor(k) = prev
      BY <1>1 DEF Anchor
    <2>3. prev = Predict(Context)
      BY DEF Predicted
    <2> QED BY <2>1, <2>2, <2>3
  <1>2. CASE k # 1
    <2>1. k - 1 \in 1 .. NDraft /\ Anchor(k) = vpred[k - 1]
      BY <1>0, <1>2 DEF Anchor
    <2> QED BY <2>1 DEF Predicted
  <1> QED BY <1>1, <1>2

\* Accepted proposals are the target's tokens, however many are emitted.
LEMMA EmitTokens ==
    ASSUME CInv, Predicted, pc = "accept", NEW n \in 0 .. NDraft, Accepted(n), NEW o,
           o = out \o SubSeq(proposals, 1, Emitted(n))
    PROVE  \A i \in 1 .. Len(o) : o[i] = Predict(prompt \o SubSeq(o, 1, i - 1))
  <1> DEFINE e == Emitted(n)
             q == SubSeq(proposals, 1, e)
  <1>1. /\ prompt \in Seq(Tok) /\ out \in Seq(Tok) /\ proposals \in Seq(Tok)
        /\ Len(proposals) = NDraft /\ NDraft \in Nat
    BY ContextTyped, SpecAssumption DEF CInv, TypeOK, CacheShape
  <1>2. e \in 0 .. n
    BY EmittedPrefix
  <1>3. e \in 0 .. NDraft
    BY <1>1, <1>2
  <1> HIDE DEF e
  <1>4. q \in Seq(Tok) /\ Len(q) = e /\ \A i \in 1 .. e : q[i] = proposals[i]
    BY <1>3, PrefixTyped
  <1>5. \A k \in 1 .. Len(q) : q[k] = Predict(prompt \o (out \o SubSeq(q, 1, k - 1)))
    <2> TAKE k \in 1 .. Len(q)
    <2>1. k \in 1 .. n /\ k \in 1 .. NDraft /\ k \in 1 .. e
          /\ k - 1 \in 0 .. e /\ k - 1 \in 0 .. NDraft
      BY <1>1, <1>2, <1>4
    <2>2. q[k] = proposals[k] /\ proposals[k] = Anchor(k)
      BY <1>4, <2>1 DEF Accepted
    <2>3. Anchor(k) = Predict(Context \o SubSeq(proposals, 1, k - 1))
      BY <2>1, AnchorPredicts
    <2>4. SubSeq(q, 1, k - 1) = SubSeq(proposals, 1, k - 1)
      BY <1>1, <1>3, <2>1, CutCut
    <2>5. SubSeq(proposals, 1, k - 1) \in Seq(Tok)
      BY <2>1, PrefixTyped
    <2>6. Context \o SubSeq(proposals, 1, k - 1)
             = prompt \o (out \o SubSeq(proposals, 1, k - 1))
      BY <1>1, <2>5, ConcatAssoc DEF Context
    <2> QED BY <2>2, <2>3, <2>4, <2>6
  <1> HIDE DEF q
  <1>6. o = out \o q
    BY DEF q, e
  <1>7. \A i \in 1 .. Len(out) : out[i] = Predict(prompt \o SubSeq(out, 1, i - 1))
    BY DEF Predicted
  <1>8. \A i \in 1 .. Len(out \o q) :
           (out \o q)[i] = Predict(prompt \o SubSeq(out \o q, 1, i - 1))
    BY <1>1, <1>4, <1>5, <1>7, ExtendTokens
  <1> QED BY <1>6, <1>8

\* A step keeps the target and the prompt, so predictions are unchanged.
LEMMA SameTarget ==
    ASSUME [Next]_vars PROVE prompt' = prompt /\ model' = model
  BY DEF Next, Step, Prefill, First, Round, Propose, Verify, AcceptAll, Reject,
         Sync, Normal, Fail, Terminating, vars

\* Predicted's last conjunct, of any output o.
OutPredicted(o) == \A i \in 1 .. Len(o) : o[i] = Predict(prompt \o SubSeq(o, 1, i - 1))

\* The inductive invariant of the tokens.
PInv == CInv /\ Predicted /\ prompt # <<>>

LEMMA InitPredicted == Init => Predicted
  BY EmptySeq DEF Init, Predicted

LEMMA FirstPredicted ==
    ASSUME ArgmaxInRange, PInv, First PROVE Predicted'
  <1> USE DEF PInv
  <1>0. prompt' = prompt /\ model' = model
    BY DEF First
  <1>1. tkv = prompt /\ out = <<>> /\ prompt \in Seq(Tok) /\ out \in Seq(Tok)
    BY ContextTyped DEF CInv, CacheShape, First, TypeOK
  <1>2. Context = prompt
    BY <1>1, ConcatEmptySeq DEF Context
  <1>3. tok' = Predict(Context) /\ tok' \in Tok
    BY <1>1, <1>2, PredictTok DEF First, CInv, TypeOK
  <1>4. out' = Append(out, tok')
    BY DEF First
  <1>5. OutPredicted(out')
    BY <1>1, <1>3, <1>4, AppendToken DEF OutPredicted, Predicted
  <1>6. tkv' = Context'
    <2>1. CInv'
      BY FirstCInv
    <2> QED BY <2>1 DEF CInv, CacheShape, First
  <1>7. prev' = Predict(Context') /\ pc' = "round"
    BY <1>6 DEF First
  <1> QED BY <1>0, <1>5, <1>7 DEF Predicted, Predict, OutPredicted

LEMMA VerifyPredicted ==
    ASSUME PInv, Verify PROVE Predicted'
  <1> USE DEF PInv
  <1>0. prompt' = prompt /\ model' = model /\ out' = out /\ prev' = prev
        /\ proposals' = proposals /\ pc' = "accept"
    BY DEF Verify
  <1>1. Context' = Context /\ tkv = Context
    BY <1>0 DEF Context, Verify, CInv, CacheShape
  <1>2. \A i \in 1 .. NDraft : vpred'[i] = Predict(Context \o SubSeq(proposals, 1, i))
    BY <1>1 DEF Verify
  <1>3. prev = Predict(Context) /\ OutPredicted(out)
    BY DEF Verify, Predicted, OutPredicted
  <1> QED BY <1>0, <1>1, <1>2, <1>3 DEF Predicted, Predict, OutPredicted

LEMMA AcceptAllPredicted ==
    ASSUME ArgmaxInRange, PInv, AcceptAll PROVE Predicted'
  <1> USE DEF PInv
  <1>0. prompt' = prompt /\ model' = model /\ pc = "accept" /\ pc' = "sync"
        /\ NDraft \in 0 .. NDraft /\ NDraft \in 1 .. NDraft
    BY SpecAssumption DEF AcceptAll
  <1>1. OutPredicted(out')
    BY <1>0, EmitTokens DEF AcceptAll, OutPredicted
  <1>2. CacheShape'
    BY AcceptAllCInv DEF CInv
  <1>3. ASSUME Len(out') < MaxTokens
        PROVE  tok' = Predict(Context') /\ prev' = Predict(Append(Context', tok'))
    <2>1. dkv' = Context' /\ tkv' = Append(dkv', tok')
      BY <1>0, <1>2, <1>3 DEF CacheShape
    <2>2. dkv' = Context \o proposals
      BY <1>0 DEF AcceptAll, CInv, CacheShape
    <2>3. SubSeq(proposals, 1, NDraft) = proposals
      BY <1>0, CutEnds DEF CInv, TypeOK, CacheShape
    <2>4. tok' = Predict(Context \o SubSeq(proposals, 1, NDraft))
      BY <1>0 DEF AcceptAll, Predicted
    <2> QED BY <2>1, <2>2, <2>3, <2>4 DEF AcceptAll
  <1> QED BY <1>0, <1>1, <1>3 DEF Predicted, Predict, OutPredicted

LEMMA RejectPredicted ==
    ASSUME ArgmaxInRange, PInv, NEW n \in 0 .. NDraft - 1, Reject(n) PROVE Predicted'
  <1> USE DEF PInv
  <1>0. prompt' = prompt /\ model' = model /\ pc = "accept" /\ pc' = "sync"
        /\ n \in 0 .. NDraft /\ n + 1 \in 1 .. NDraft /\ (n + 1) - 1 = n
    BY SpecAssumption DEF Reject
  <1>1. OutPredicted(out')
    BY <1>0, EmitTokens DEF Reject, OutPredicted
  <1>2. CacheShape'
    BY RejectCInv DEF CInv
  <1>3. ASSUME Len(out') < MaxTokens
        PROVE  tok' = Predict(Context') /\ prev' = Predict(Append(Context', tok'))
    <2>1. dkv' = Context' /\ tkv' = Append(dkv', tok')
      BY <1>0, <1>2, <1>3 DEF CacheShape
    <2>2. dkv' = Context \o SubSeq(proposals, 1, n)
      <3>1. /\ dkv = Context \o proposals /\ kv_base = Len(Context)
            /\ Len(proposals) = NDraft /\ proposals \in Seq(Tok)
        BY <1>0 DEF CInv, CacheShape, TypeOK
      <3>2. dkv' = SubSeq(dkv, 1, kv_base + n)
        BY DEF Reject, Rewound
      <3> QED BY <1>0, <3>1, <3>2, CutConcat, ContextTyped DEF CInv
    <2>3. Anchor(n + 1) = Predict(Context \o SubSeq(proposals, 1, (n + 1) - 1))
      BY <1>0, AnchorPredicts
    <2>4. tok' = Predict(Context \o SubSeq(proposals, 1, n))
      BY <1>0, <2>3 DEF Reject
    <2> QED BY <2>1, <2>2, <2>4 DEF Reject
  <1> QED BY <1>0, <1>1, <1>3 DEF Predicted, Predict, OutPredicted

LEMMA SyncPredicted ==
    ASSUME PInv, Sync PROVE Predicted'
  <1> USE DEF PInv
  <1>0. prompt' = prompt /\ model' = model /\ prev' = prev /\ pc = "sync"
    BY DEF Sync
  <1>1. CASE Len(out) >= MaxTokens
    BY <1>0, <1>1 DEF Sync, Predicted, Predict
  <1>2. CASE ~(Len(out) >= MaxTokens)
    <2>1. Len(out) < MaxTokens
      BY <1>2, SpecAssumption DEF CInv, TypeOK
    <2>2. out' = Append(out, tok) /\ pc' \in {"done", "round"}
      BY <1>2 DEF Sync
    <2>3. /\ tok = Predict(Context) /\ prev = Predict(Append(Context, tok))
          /\ tok \in Tok /\ out \in Seq(Tok) /\ prompt \in Seq(Tok)
      BY <1>0, <2>1, ContextTyped DEF Predicted, CInv, TypeOK
    <2>4. OutPredicted(out')
      BY <2>2, <2>3, AppendToken DEF OutPredicted, Predicted
    <2>5. Context' = Append(Context, tok)
      BY <1>0, <2>2, <2>3, ContextTyped DEF Context, CInv
    <2> QED BY <1>0, <2>2, <2>3, <2>4, <2>5 DEF Predicted, Predict, OutPredicted
  <1> QED BY <1>1, <1>2

LEMMA NormalPredicted ==
    ASSUME ArgmaxInRange, PInv, Normal PROVE Predicted'
  <1> USE DEF PInv
  <1>0. prompt' = prompt /\ model' = model /\ pc' \in {"done", "normal"}
    BY DEF Normal
  <1> DEFINE t == Argmax(model, Base \o out)
  <1>1. t = Predict(Context) /\ out' = Append(out, t)
    BY DEF Normal, Base, Predict, Context
  <1>2. out \in Seq(Tok) /\ prompt \in Seq(Tok) /\ t \in Tok
    BY <1>1, ContextTyped, PredictTok DEF CInv, TypeOK
  <1> HIDE DEF t
  <1>3. OutPredicted(out')
    BY <1>1, <1>2, AppendToken DEF OutPredicted, Predicted
  <1> QED BY <1>0, <1>3 DEF Predicted, Predict, OutPredicted

LEMMA NextPInv ==
    ASSUME ArgmaxInRange, PInv, [Next]_vars PROVE PInv'
  <1> USE DEF PInv
  <1>1. CInv' /\ prompt' = prompt /\ model' = model
    BY NextCInv, SameTarget
  <1>2. CASE UNCHANGED vars
    BY <1>1, <1>2 DEF vars, Predicted, Predict, Context
  <1>3. CASE Terminating
    BY <1>2, <1>3 DEF Terminating
  <1>4. CASE Fail
    BY <1>1, <1>4, EmptySeq DEF Fail, Predicted
  <1>5. CASE Prefill
    BY <1>1, <1>5 DEF Prefill, Predicted, Predict
  <1>6. CASE Round
    BY <1>1, <1>6 DEF Round, Predicted, Predict, Context
  <1>7. CASE Propose
    BY <1>1, <1>7 DEF Propose, Predicted, Predict, Context
  <1>8. CASE \E n \in 0 .. NDraft - 1 : Reject(n)
    BY <1>1, <1>8, RejectPredicted
  <1> QED BY <1>1, <1>2, <1>3, <1>4, <1>5, <1>6, <1>7, <1>8, FirstPredicted,
             VerifyPredicted, AcceptAllPredicted, SyncPredicted, NormalPredicted
          DEF Next, Step

(* Acceptance is exact for any draft: every token of the output is the     *)
(* target's greedy choice after the prompt and the tokens before it.  The  *)
(* prompt is not BOS alone: then the code compares against logits it does  *)
(* not have.                                                               *)
THEOREM OutputIsGreedy ==
    ASSUME ArgmaxInRange, <<>> \notin Prompts PROVE Spec => []GreedyTokens
  <1>1. Init => PInv
    BY InitCInv, InitPredicted DEF PInv, Init
  <1>2. PInv /\ [Next]_vars => PInv'
    BY NextPInv
  <1>3. PInv => GreedyTokens
    BY DEF PInv, Predicted, Predict, GreedyTokens, Base
  <1> QED BY <1>1, <1>2, <1>3, PTL DEF Spec


=============================================================================
