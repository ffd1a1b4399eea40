------------------------------- MODULE MCRouter -------------------------------
(* Instances of DynamicRouter for TLC.                                       *)
EXTENDS DynamicRouter, TLC

\* Threads, backend objects and mutex objects are interchangeable; ids are not.
Symm == Permutations(Threads) \cup Permutations(Insts) \cup Permutations(Mutexes)
=============================================================================
