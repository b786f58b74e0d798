---------------------------- MODULE OutwardEffect ----------------------------
(***************************************************************************)
(* What runOperationalEffect promises of one outward effect, without       *)
(* processes, locks or files: it is attempted only when it is not in place *)
(* and no attempt is under way, an attempt puts it in place at most once,  *)
(* and what is put on record was in place at that moment and stays on      *)
(* record.  Others may change or undo what is in place at any time.        *)
(***************************************************************************)
CONSTANTS Receipts, None

VARIABLES
    target,    \* what observing the effect in place reports, or None
    underway,  \* an attempt can still put it in place
    recorded   \* receipts on record

effectVars == <<target, underway, recorded>>

Init == target = None /\ underway = FALSE /\ recorded = {}

Attempt ==
    /\ target = None /\ ~underway
    /\ underway' = TRUE
    /\ UNCHANGED <<target, recorded>>

Land ==
    /\ underway
    /\ underway' = FALSE /\ target' \in Receipts
    /\ UNCHANGED recorded

Fail ==
    /\ underway
    /\ underway' = FALSE
    /\ UNCHANGED <<target, recorded>>

Record ==
    /\ target # None
    /\ recorded' = recorded \cup {target}
    /\ UNCHANGED <<target, underway>>

Drift ==
    /\ target # None
    /\ target' \in Receipts \cup {None}
    /\ UNCHANGED <<underway, recorded>>

Next == Attempt \/ Land \/ Fail \/ Record \/ Drift

Spec == Init /\ [][Next]_effectVars
=============================================================================
