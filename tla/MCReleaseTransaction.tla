------------------------ MODULE MCReleaseTransaction ------------------------
EXTENDS ReleaseTransaction, TLC

(* Retries where something hangs on an attempt's number.                   *)
Tries == [e \in Effects |-> IF e \in {"create-pr", "merge"} THEN 2 ELSE 1]

Symmetry == Permutations(Bodies) \cup Permutations(Commits) \cup Permutations(Starters)
=============================================================================
