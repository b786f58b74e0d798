---------------------------- MODULE MCRfcSession ----------------------------
(* Three runs: one that is approved, one that amends or replaces it, and   *)
(* one that amends either.  The two designs differ in what an amendment    *)
(* may change; an amendment that changes nothing is out of scope.          *)
EXTENDS RfcSession, TLC

CONSTANTS plain, amended

MCInScope == {<<plain, amended>>, <<amended, plain>>}

Symmetry == Permutations(Runs)
=============================================================================
