----------------------------- MODULE RunRecords -----------------------------
(***************************************************************************)
(* The durable records of the PM loop, as one commit of the PM repository  *)
(* holds them, and what each transaction of scripts/loop-pm-transaction.js *)
(* reads and writes in them.                                               *)
(*                                                                         *)
(* A record set is [card, lease, event, recovery, stop, reconciled]:       *)
(*   card[c]      the content of pm/backlog/<c>.md (its revision is the    *)
(*                hash of the content, so the content stands for both)     *)
(*   lease[k]     pm/loop/leases/<card>-<stage>.json, one file per key     *)
(*   event[r]     pm/loop/events/<r>.json                                  *)
(*   recovery[r]  pm/loop/recovery/<r>.json                                *)
(*   stop         pm/loop/STOP exists                                      *)
(*   reconciled   the runs named by a terminal "reconciled" event          *)
(* None is the absence of a file.                                          *)
(***************************************************************************)
EXTENDS Naturals

CONSTANTS
    Runs,       \* run ids (createRunId)
    Cards,      \* backlog card ids
    Stages,     \* loop stages: dev, ship, review, rfc, research
    Contents,   \* contents (equivalently revisions) of a card file
    Parked,     \* the content reconciliation gives a card: needs-human
    Outcomes,   \* statuses of a terminal event
    None

(* A lease file is named after the card and the stage, so a new claim of   *)
(* the same pair replaces it.                                              *)
Keys == Cards \X Stages

OpenPhases == {"claimed", "dispatched", "suppressed", "finalizing"}
TerminalPhases == {"released", "finalized"}

(* What a run wants to commit: the card content and the terminal status.   *)
(* result_hash, artifact_hashes, transition_hash and terminal_event_hash   *)
(* identify exactly this value.                                            *)
Results == [content : Contents, outcome : Outcomes]

Lease == [run : Runs, phase : OpenPhases, rev : Contents, result : Results \cup {None}]
Event == [key : Keys, phase : OpenPhases \cup TerminalPhases, rev : Contents,
          result : Results \cup {None}]
Recovery == [key : Keys, rev : Contents, result : Results]

Records ==
    [card : [Cards -> Contents \cup {None}],
     lease : [Keys -> Lease \cup {None}],
     event : [Runs -> Event \cup {None}],
     recovery : [Runs -> Recovery \cup {None}],
     stop : BOOLEAN,
     reconciled : SUBSET Runs]

(* No file, content, result or operation is mistaken for its absence.      *)
ASSUME NoneIsFresh ==
    /\ None \notin Contents /\ None \notin Results
    /\ None \notin Lease /\ None \notin Event /\ None \notin Recovery

ASSUME ParkedIsContent == Parked \in Contents

-----------------------------------------------------------------------------
(* What a transaction is asked to do.                                      *)
Kinds == {"claim", "dispatched", "suppressed", "checkpoint", "finalize",
          "release", "reconcile"}

Op == [kind : Kinds, run : Runs, key : Keys, rev : Contents \cup {None},
       result : Results \cup {None}, outcome : Outcomes \cup {None}, stopAbsent : BOOLEAN]

RunOp(kind, r, k) ==
    [kind |-> kind, run |-> r, key |-> k, rev |-> None, result |-> None,
     outcome |-> None, stopAbsent |-> FALSE]

ClaimOp(r, k, v) == [RunOp("claim", r, k) EXCEPT !.rev = v]
PhaseOp(phase, r, k) == RunOp(phase, r, k)
CheckpointOp(r, k, res) == [RunOp("checkpoint", r, k) EXCEPT !.result = res]
FinalizeOp(r, k, o, stopAbsent) ==
    [RunOp("finalize", r, k) EXCEPT !.outcome = o, !.stopAbsent = stopAbsent]
ReleaseOp(r, k) == RunOp("release", r, k)
ReconcileOp(r, k, v) == [RunOp("reconcile", r, k) EXCEPT !.rev = v]

-----------------------------------------------------------------------------
(* Reading the records.                                                    *)

Terminal(s, r) == s.event[r] # None /\ s.event[r].phase \in TerminalPhases
OpenRun(s, r) == s.event[r] # None /\ s.event[r].phase \notin TerminalPhases

(* leaseForRun: the lease file of the key exists and carries this run id.  *)
OwnsLease(s, r, k) == s.lease[k] # None /\ s.lease[k].run = r

EventMatchesLease(s, r, k) ==
    /\ s.event[r] # None
    /\ s.event[r].key = k
    /\ s.event[r].rev = s.lease[k].rev

(* The lease and the event every later transaction of the run asks for.    *)
HoldsRun(s, r, k) ==
    OwnsLease(s, r, k) /\ EventMatchesLease(s, r, k) /\ ~Terminal(s, r)

(* findActiveCardLease: some stage of the card is leased and not expired.  *)
ActiveCardLease(s, expired, c) ==
    \E k \in Keys : k[1] = c /\ s.lease[k] # None /\ s.lease[k].run \notin expired

LeasesOf(s, r) == {k \in Keys : OwnsLease(s, r, k)}

(* Mutant: takes the phase of a dispatched run for that of a checkpointed  *)
(* one.                                                                    *)
RecoveryReadyBeforeCheckpoint(s, r) ==
    /\ s.recovery[r] # None
    /\ s.event[r] # None /\ s.event[r].phase = "dispatched"

RecoveryReady(s, r) ==
    /\ s.recovery[r] # None
    /\ LET k == s.recovery[r].key IN
        /\ LeasesOf(s, r) = {k}
        /\ HoldsRun(s, r, k)
        /\ s.lease[k].phase = "finalizing"
        /\ s.event[r].phase = "finalizing"
        /\ s.recovery[r].rev = s.lease[k].rev
        /\ s.recovery[r].result = s.lease[k].result
        /\ s.recovery[r].result = s.event[r].result

(* inspectSnapshotRunState: how a wake classifies a run it finds.  A run   *)
(* whose lease and event agree on "suppressed" matches no case of the code *)
(* and falls through to "ambiguous".                                       *)
RunState(s, r) ==
    LET held(p) == \E k \in Keys : /\ LeasesOf(s, r) = {k}
                                   /\ HoldsRun(s, r, k)
                                   /\ s.lease[k].phase = p
                                   /\ s.event[r].phase = p
        bare == s.recovery[r] = None /\ LeasesOf(s, r) = {}
    IN  CASE Terminal(s, r) /\ bare -> "finalized"
          [] RecoveryReady(s, r) -> "recovery-ready"
          [] s.recovery[r] = None /\ held("claimed") -> "never-dispatched"
          [] s.recovery[r] = None /\ held("dispatched") -> "dispatched-without-terminal-result"
          [] s.event[r] = None /\ bare -> "absent"
          [] OTHER -> "ambiguous"

(* Mutant: a wake does not wait for a run that was dispatched.             *)
PendingUnlessDispatched(s) ==
    {r \in Runs : RunState(s, r) \notin
                   {"absent", "finalized", "dispatched-without-terminal-result"}}

(* The runs that make a wake return "recovery-required".                   *)
PendingRuns(s) == {r \in Runs : RunState(s, r) \notin {"absent", "finalized"}}

-----------------------------------------------------------------------------
(* Each transaction: Allowed is the conjunction of the checks it makes on  *)
(* the fetched commit (any failing one aborts it), Done the case in which  *)
(* it finds its own effect already durable, Effect the tree it commits.    *)

(* claimRun.  The lease of an expired claim of the same card and stage is  *)
(* replaced; its event and its recovery record stay behind.                *)
ClaimAllowed(s, expired, op) ==
    /\ s.card[op.key[1]] # None
    /\ s.card[op.key[1]] = op.rev
    /\ ~ActiveCardLease(s, expired, op.key[1])
    /\ s.event[op.run] = None

ClaimEffect(s, op) ==
    [s EXCEPT
        !.lease[op.key] = [run |-> op.run, phase |-> "claimed", rev |-> op.rev, result |-> None],
        !.event[op.run] = [key |-> op.key, phase |-> "claimed", rev |-> op.rev, result |-> None]]

(* Mutant: a phase is recorded whatever the phase of the run is.           *)
PhaseAllowedAnytime(s, op) == HoldsRun(s, op.run, op.key)

(* updateRunPhase, for markRunDispatched and markRunSuppressed.            *)
PhaseAllowed(s, op) ==
    /\ HoldsRun(s, op.run, op.key)
    /\ s.lease[op.key].phase = "claimed"
    /\ s.event[op.run].phase = "claimed"

PhaseDone(s, op) ==
    /\ HoldsRun(s, op.run, op.key)
    /\ s.lease[op.key].phase = op.kind
    /\ s.event[op.run].phase = op.kind

PhaseEffect(s, op) ==
    [s EXCEPT !.lease[op.key].phase = op.kind, !.event[op.run].phase = op.kind]

(* checkpointRecovery.                                                     *)
CheckpointAllowed(s, op) ==
    /\ HoldsRun(s, op.run, op.key)
    /\ s.lease[op.key].phase \in {"dispatched", "suppressed"}
    /\ s.event[op.run].phase = s.lease[op.key].phase
    /\ s.recovery[op.run] = None

CheckpointDone(s, op) ==
    /\ HoldsRun(s, op.run, op.key)
    /\ s.lease[op.key].phase = "finalizing"
    /\ s.event[op.run].phase = "finalizing"
    /\ s.event[op.run].result = op.result
    /\ s.recovery[op.run] = [key |-> op.key, rev |-> s.lease[op.key].rev, result |-> op.result]

CheckpointEffect(s, op) ==
    [s EXCEPT
        !.recovery[op.run] = [key |-> op.key, rev |-> s.lease[op.key].rev, result |-> op.result],
        !.lease[op.key] = [@ EXCEPT !.phase = "finalizing", !.result = op.result],
        !.event[op.run] = [@ EXCEPT !.phase = "finalizing", !.result = op.result]]

(* Mutants: finalization without the check of the card revision, and       *)
(* without the check of STOP.                                              *)
FinalizeAllowedOnAnyCard(s, op) ==
    /\ op.stopAbsent => ~s.stop
    /\ HoldsRun(s, op.run, op.key)
    /\ s.recovery[op.run] # None
    /\ s.recovery[op.run].result.outcome = op.outcome

FinalizeAllowedDuringStop(s, op) ==
    /\ HoldsRun(s, op.run, op.key)
    /\ s.recovery[op.run] # None
    /\ s.recovery[op.run].result.outcome = op.outcome
    /\ s.card[op.key[1]] = s.recovery[op.run].rev

(* finalizeRun.  The transition is the stored one; the caller supplies the *)
(* terminal event, which must equal the checkpointed one.                  *)
FinalizeAllowed(s, op) ==
    /\ op.stopAbsent => ~s.stop
    /\ HoldsRun(s, op.run, op.key)
    /\ s.recovery[op.run] # None
    /\ s.recovery[op.run].key = op.key
    /\ s.recovery[op.run].rev = s.lease[op.key].rev
    /\ s.lease[op.key].phase = "finalizing"
    /\ s.event[op.run].phase = "finalizing"
    /\ s.recovery[op.run].result = s.lease[op.key].result
    /\ s.event[op.run].result = s.recovery[op.run].result
    /\ s.recovery[op.run].result.outcome = op.outcome
    /\ s.card[op.key[1]] = s.recovery[op.run].rev

FinalizeEffect(s, op) ==
    [s EXCEPT
        !.card[op.key[1]] = s.recovery[op.run].result.content,
        !.event[op.run].phase = "finalized",
        !.recovery[op.run] = None,
        !.lease[op.key] = None]

(* Mutants: a checkpointed run may be released; a release keeps the lease, *)
(* or marks it instead of deleting it.                                     *)
ReleaseAllowedAnytime(s, op) == HoldsRun(s, op.run, op.key)

ReleaseKeepsLease(s, op) == [s EXCEPT !.event[op.run].phase = "released"]

ReleaseMarksLease(s, op) ==
    [s EXCEPT !.event[op.run].phase = "released", !.lease[op.key].phase = "released"]

(* releaseClaim: a checkpointed run cannot be released.                    *)
ReleaseAllowed(s, op) ==
    /\ HoldsRun(s, op.run, op.key)
    /\ s.lease[op.key].phase \in {"claimed", "dispatched", "suppressed"}
    /\ s.recovery[op.run] = None

ReleaseEffect(s, op) ==
    [s EXCEPT !.event[op.run].phase = "released", !.lease[op.key] = None]

(* The runs reconciliation weighs for a card: those whose recovery record  *)
(* or lease names it (evidenceCardId).                                     *)
RunsOfCard(s, c) ==
    {r \in Runs : \/ s.recovery[r] # None /\ s.recovery[r].key[1] = c
                  \/ \E k \in LeasesOf(s, r) : k[1] = c}

(* loop-reconcile.js on an expired lease (classifyStaleCard and            *)
(* applyCardChanges): park the card, delete the lease, add a terminal      *)
(* "reconciled" event of a new run id that names this run.  The event of   *)
(* the run itself is not written.                                          *)
ReconcileAllowed(s, expired, op) ==
    /\ s.card[op.key[1]] \notin {None, Parked}
    /\ s.card[op.key[1]] = op.rev
    /\ ~ActiveCardLease(s, expired, op.key[1])
    /\ OwnsLease(s, op.run, op.key)
    /\ \A r \in RunsOfCard(s, op.key[1]) :
         s.recovery[r] = None /\ RunState(s, r) # "ambiguous"

ReconcileEffect(s, op) ==
    [s EXCEPT
        !.card[op.key[1]] = Parked,
        !.lease[op.key] = None,
        !.reconciled = @ \cup {op.run}]

Allowed(s, expired, op) ==
    CASE op.kind = "claim" -> ClaimAllowed(s, expired, op)
      [] op.kind \in {"dispatched", "suppressed"} -> PhaseAllowed(s, op)
      [] op.kind = "checkpoint" -> CheckpointAllowed(s, op)
      [] op.kind = "finalize" -> FinalizeAllowed(s, op)
      [] op.kind = "release" -> ReleaseAllowed(s, op)
      [] op.kind = "reconcile" -> ReconcileAllowed(s, expired, op)

(* A transaction that changes nothing and is idempotent counts as pushed.  *)
Done(s, op) ==
    \/ op.kind \in {"dispatched", "suppressed"} /\ PhaseDone(s, op)
    \/ op.kind = "checkpoint" /\ CheckpointDone(s, op)

Effect(s, op) ==
    CASE op.kind = "claim" -> ClaimEffect(s, op)
      [] op.kind \in {"dispatched", "suppressed"} -> PhaseEffect(s, op)
      [] op.kind = "checkpoint" -> CheckpointEffect(s, op)
      [] op.kind = "finalize" -> FinalizeEffect(s, op)
      [] op.kind = "release" -> ReleaseEffect(s, op)
      [] op.kind = "reconcile" -> ReconcileEffect(s, op)

(* A repository in which the loop has not run yet.                         *)
FreshRecords(cards) ==
    [card |-> cards,
     lease |-> [k \in Keys |-> None],
     event |-> [r \in Runs |-> None],
     recovery |-> [r \in Runs |-> None],
     stop |-> FALSE,
     reconciled |-> {}]
=============================================================================
