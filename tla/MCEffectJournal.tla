--------------------------- MODULE MCEffectJournal ---------------------------
(* Three processes: one that is left behind, one that takes over and one   *)
(* that waits; a dead one is replaced.  Two receipts, so that a target     *)
(* can drift.                                                              *)
EXTENDS EffectJournal, TLC

Symmetry == Permutations(Procs) \cup Permutations(Receipts)
=============================================================================
