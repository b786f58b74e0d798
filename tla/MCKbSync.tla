------------------------------ MODULE MCKbSync ------------------------------
EXTENDS KbSync, TLC

(* Two clones edit the same file, and one of them another; pull runs as a  *)
(* part of sync.                                                           *)
ThreeEdits == {[by |-> "here", file |-> "f"], [by |-> "there", file |-> "f"],
               [by |-> "here", file |-> "g"]}
SyncHere(m) == IF m = "here" THEN {"push", "sync"} ELSE {"push"}
=============================================================================
