--------------------------- MODULE MCPMTransaction ---------------------------
(* Two workers, two runs, two stages of one card: enough for two claims of *)
(* one card to race, for one to replace the expired lease of the other,    *)
(* and for a delayed push to arrive after the run was closed.              *)
EXTENDS PMTransaction, TLC

WorkerSymmetry == Permutations(Workers) \cup Permutations(Runs) \cup Permutations(Stages)
=============================================================================
