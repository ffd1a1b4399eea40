---------------------------- MODULE MCSpecDecode ----------------------------
(* Targets whose greedy token depends on the last token of the context and *)
(* on the parity of its length: every such table over the vocabulary, with *)
(* the tokens after EOS fixed.                                             *)
EXTENDS SpecDecode

MCTok    == 0 .. 2
MCModels == {m \in [{0, 1} \X MCTok -> MCTok] : m[<<0, Eos>>] = 0 /\ m[<<1, Eos>>] = 1}
MCArgmax(m, c) == IF c = <<>> THEN 0
                  ELSE m[<<Len(c) % 2, IF c[Len(c)] \in MCTok THEN c[Len(c)] ELSE 0>>]
MCPrompts     == {<<1>>}
MCBosOnly     == {<<>>}
=============================================================================
