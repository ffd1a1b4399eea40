------------------------------ MODULE MCServer ------------------------------
(* Requests and settings for model checking UnifiedServer. *)
EXTENDS UnifiedServer, TLC

CONSTANTS A, B      \* two models

TwoBackends == <<"acc", "cpu">>
OneBackend == <<"acc">>

SameDims == A :> 1 @@ B :> 1
OwnDims == A :> 1 @@ B :> 2

Plain == [kind |-> "completions", model |-> None, spelled |-> "name", raw |-> FALSE,
          image |-> FALSE, sampled |-> FALSE, backend |-> None, strategy |-> "fastest"]
Chat == [Plain EXCEPT !.kind = "chat", !.raw = TRUE]

\* Two chats and a completion that make the server switch models.
MixedRequests == <<[Chat EXCEPT !.model = A, !.sampled = TRUE, !.image = TRUE],
                   [Plain EXCEPT !.model = B], Chat>>
\* Completions whose prompt is a token array, and a manual selection.
TokenRequests == <<[Plain EXCEPT !.model = B], [Plain EXCEPT !.sampled = TRUE, !.backend = "acc"],
                   [Plain EXCEPT !.strategy = "manual"],
                   [Plain EXCEPT !.kind = "select", !.backend = "cpu"]>>
BatchRequests == <<Plain, [Plain EXCEPT !.model = B], [Chat EXCEPT !.model = A]>>
ChatRequests == <<Chat, Chat, Chat>>
SampledRequests == <<Plain, [Plain EXCEPT !.sampled = TRUE]>>
ImageRequests == <<[Chat EXCEPT !.image = TRUE], Plain>>
DefaultRequests == <<Chat, [Plain EXCEPT !.model = B]>>
NamedRequests == <<[Chat EXCEPT !.model = A], [Plain EXCEPT !.model = B]>>
FixedRequests == <<Plain, [Chat EXCEPT !.backend = "cpu"]>>
FileRequests == <<Plain, [Chat EXCEPT !.model = A, !.spelled = "file"]>>
=============================================================================
