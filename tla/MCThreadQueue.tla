---------------------------- MODULE MCThreadQueue ----------------------------
(* ThreadQueue for TLC: threads, and processors, are interchangeable. *)
EXTENDS ThreadQueue, TLC

Symmetry == Permutations(Threads) \cup Permutations(CPUs)
=============================================================================
