---------------------------- MODULE RunLifecycle ----------------------------
(***************************************************************************)
(* What the loop's durable transactions promise, without leases, recovery  *)
(* files, git or workers: a run is claimed once, is marked dispatched or   *)
(* suppressed once, commits to one result, and either is released before   *)
(* that or replaces exactly the card revision it claimed by exactly that   *)
(* result.  Cards may be edited by others at any time.                     *)
(***************************************************************************)
CONSTANTS Runs, Cards, Contents, Outcomes, None

VARIABLES life, card

lifeVars == <<life, card>>

Results == [content : Contents, outcome : Outcomes]

Phases == {"claimed", "dispatched", "suppressed", "finalizing", "released", "finalized"}
Life == [phase : Phases, card : Cards, rev : Contents, result : Results \cup {None}]

Init ==
    /\ life = [r \in Runs |-> None]
    /\ card \in [Cards -> Contents \cup {None}]

Claim(r, c) ==
    /\ life[r] = None
    /\ card[c] # None
    /\ life' = [life EXCEPT
                  ![r] = [phase |-> "claimed", card |-> c, rev |-> card[c], result |-> None]]
    /\ UNCHANGED card

Mark(r, phase) ==
    /\ life[r] # None /\ life[r].phase = "claimed"
    /\ life' = [life EXCEPT ![r].phase = phase]
    /\ UNCHANGED card

Commit(r, result) ==
    /\ life[r] # None /\ life[r].phase \in {"dispatched", "suppressed"}
    /\ life' = [life EXCEPT ![r].phase = "finalizing", ![r].result = result]
    /\ UNCHANGED card

Finish(r) ==
    /\ life[r] # None /\ life[r].phase = "finalizing"
    /\ card[life[r].card] = life[r].rev
    /\ life' = [life EXCEPT ![r].phase = "finalized"]
    /\ card' = [card EXCEPT ![life[r].card] = life[r].result.content]

Release(r) ==
    /\ life[r] # None /\ life[r].phase \in {"claimed", "dispatched", "suppressed"}
    /\ life' = [life EXCEPT ![r].phase = "released"]
    /\ UNCHANGED card

Edit(c, v) ==
    /\ card' = [card EXCEPT ![c] = v]
    /\ UNCHANGED life

Next ==
    \/ \E r \in Runs, c \in Cards : Claim(r, c)
    \/ \E r \in Runs, p \in {"dispatched", "suppressed"} : Mark(r, p)
    \/ \E r \in Runs, result \in Results : Commit(r, result)
    \/ \E r \in Runs : Finish(r) \/ Release(r)
    \/ \E c \in Cards, v \in Contents \cup {None} : Edit(c, v)

Spec == Init /\ [][Next]_lifeVars
=============================================================================
