---------------------------- MODULE MCLoopWorker ----------------------------
(* Two machines and two runs: one run that is left behind and one that     *)
(* must not start beside it.                                               *)
EXTENDS LoopWorker, TLC

Symmetry == Permutations(Workers) \cup Permutations(Runs)
=============================================================================
