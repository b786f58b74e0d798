----------------------------- MODULE LoopWorker -----------------------------
(***************************************************************************)
(* Wakes of the PM loop on several machines: runWorker of                  *)
(* scripts/loop-worker.js with runLoop of scripts/loop-runner.js, and an   *)
(* operator's `loop reconcile --apply`, over the transactions of           *)
(* PMTransaction.  A wake reads one upstream commit, plans on it, claims   *)
(* the run pinned to that commit, records the dispatch, runs the engine,   *)
(* checkpoints its result and finalizes it; it can die at any point.       *)
(***************************************************************************)
EXTENDS PMTransaction, FiniteSets

CONSTANTS
    Eligible,   \* card contents whose column selectNextCard dispatches
    Progress,   \* contents a transition other than failed/noop may write
    KeepsCard,  \* outcomes that leave the card as it is: failed, noop
    Crashes,    \* TRUE: a worker process may die
    Reconciles  \* TRUE: an operator may run reconcile --apply

ASSUME LoopConstants ==
    /\ Eligible \in SUBSET (Contents \ {Parked})
    /\ Progress \in SUBSET Contents
    /\ KeepsCard \in SUBSET Outcomes
    /\ Crashes \in BOOLEAN /\ Reconciles \in BOOLEAN

VARIABLES
    pc,      \* per worker, where its wake is
    plan,    \* per worker, the plan it works on, or None
    pin,     \* workers whose planned upstream commit is still the tip: what
             \* the expected head of a claim or of a reconciliation asks for
    issued,  \* run ids handed out (createRunId never repeats one)
    engine,  \* per run, its engine process: none, running, over
    ledger   \* per run, its local .pm/loop-runs record: none, running, done

workVars == <<pc, plan, pin, issued, engine, ledger>>
vars == <<txVars, workVars>>

Waiting == {"claiming", "suppressing", "dispatching", "checkpointing",
            "finalizing", "releasing", "resuming", "reconciling"}
Points == {"idle", "planned", "claimed", "bootstrap", "spawn", "engine",
           "ended", "checkpoint", "finalize", "release", "resume"} \cup Waiting

Plan == [run : Runs, key : Keys, rev : Contents \cup {None},
         outcome : Outcomes \cup {None}, result : Results \cup {None}]

WorkTypeOK ==
    /\ TypeOK
    /\ pc \in [Workers -> Points]
    /\ plan \in [Workers -> Plan \cup {None}]
    /\ pin \in SUBSET Workers
    /\ issued \in SUBSET Runs
    /\ engine \in [Runs -> {"none", "running", "over"}]
    /\ ledger \in [Runs -> {"none", "running", "done"}]

WorkInit ==
    /\ \E cards \in [Cards -> Eligible] : TxInit(cards)
    /\ pc = [w \in Workers |-> "idle"]
    /\ plan = [w \in Workers |-> None]
    /\ pin = {}
    /\ issued = {}
    /\ engine = [r \in Runs |-> "none"]
    /\ ledger = [r \in Runs |-> "none"]

-----------------------------------------------------------------------------
(* Mutants: the engine starts although the dispatch could not be recorded; *)
(* a run whose checkpoint failed is released.                              *)
AfterTxSpawnsAnyway(point, ok) ==
    CASE point = "claiming"      -> IF ok THEN "claimed" ELSE "idle"
      [] point = "suppressing"   -> IF ok THEN "ended" ELSE "release"
      [] point = "dispatching"   -> "spawn"
      [] point = "checkpointing" -> IF ok THEN "finalize" ELSE "idle"
      [] OTHER                   -> "idle"

AfterTxReleasesRun(point, ok) ==
    CASE point = "claiming"      -> IF ok THEN "claimed" ELSE "idle"
      [] point = "suppressing"   -> IF ok THEN "ended" ELSE "release"
      [] point = "dispatching"   -> IF ok THEN "spawn" ELSE "release"
      [] point = "checkpointing" -> IF ok THEN "finalize" ELSE "release"
      [] OTHER                   -> "idle"

(* Where the wake goes when its transaction ends.                          *)
AfterTx(point, ok) ==
    CASE point = "claiming"      -> IF ok THEN "claimed" ELSE "idle"
      [] point = "suppressing"   -> IF ok THEN "ended" ELSE "release"
      [] point = "dispatching"   -> IF ok THEN "spawn" ELSE "release"
      [] point = "checkpointing" -> IF ok THEN "finalize" ELSE "idle"
      [] OTHER                   -> "idle"

(* The wake is over: its run's ledger is closed when there is one to write *)
(* (a refused claim and a resumed recovery write none).                    *)
Closes(point) == point \in {"checkpointing", "finalizing", "releasing"}

Proceed(w, point, fate) ==
    LET next == IF fate \in {"push", "retry"} THEN point ELSE AfterTx(point, fate = "ok")
    IN  /\ pc' = [pc EXCEPT ![w] = next]
        /\ plan' = IF next = "idle" THEN [plan EXCEPT ![w] = None] ELSE plan
        /\ ledger' = IF next = "idle" /\ Closes(point)
                     THEN [ledger EXCEPT ![plan[w].run] = "done"] ELSE ledger

Start(w, op, headOk, point) ==
    Call(w, op, headOk) /\ Proceed(w, point, AttemptFate(op, headOk))

(* A planned tip is the tip until anyone commits.                          *)
Repin == pin' = IF upstream' = upstream THEN {w \in pin : pc'[w] # "idle"} ELSE {}

Transact(w) ==
    /\ pc[w] \in Waiting
    /\ \/ LET headOk == pc[w] = "reconciling" => w \in pin
          IN  Retry(w, headOk) /\ Proceed(w, pc[w], AttemptFate(tx[w].op, headOk))
       \/ \E seen \in Answers :
            PushLands(w, seen) /\ Proceed(w, pc[w], PushFate(w, seen))
       \/ \E seen \in Answers :
            PushFails(w, seen) /\ Proceed(w, pc[w], PushFate(w, seen))
       \/ (PushOutstanding(w) \/ Timeout(w)) /\ Proceed(w, pc[w], "failed")
    /\ Repin
    /\ UNCHANGED <<issued, engine>>

Late(w) ==
    /\ LateLands(w) \/ LateLost(w)
    /\ UNCHANGED <<pc, plan, issued, engine, ledger>>
    /\ Repin

-----------------------------------------------------------------------------
NewPlan(r, k, v, o) == [run |-> r, key |-> k, rev |-> v, outcome |-> o, result |-> None]

(* A wake that finds no STOP and no unfinished run plans an eligible card  *)
(* (selectNextCard) under a fresh run id.                                  *)
WakePlans(w) ==
    /\ pc[w] = "idle"
    /\ ~upstream.stop
    /\ PendingRuns(upstream) = {}
    /\ \E r \in Runs \ issued, k \in Keys :
         /\ upstream.card[k[1]] \in Eligible
         /\ ~ActiveCardLease(upstream, expired, k[1])
         /\ plan' = [plan EXCEPT ![w] = NewPlan(r, k, upstream.card[k[1]], None)]
         /\ issued' = issued \cup {r}
    /\ pin' = pin \cup {w}
    /\ pc' = [pc EXCEPT ![w] = "planned"]
    /\ UNCHANGED <<txVars, engine, ledger>>

(* A wake that finds a run ready to be finalized takes that over; any      *)
(* other unfinished run makes it return recovery-required.  The scan takes *)
(* the first unfinished run; there is only one (OneOpenRun).               *)
WakeResumes(w) ==
    /\ pc[w] = "idle"
    /\ ~upstream.stop
    /\ \E r \in PendingRuns(upstream) :
         /\ RunState(upstream, r) = "recovery-ready"
         /\ plan' = [plan EXCEPT ![w] =
                       NewPlan(r, upstream.recovery[r].key, None,
                               upstream.recovery[r].result.outcome)]
    /\ pc' = [pc EXCEPT ![w] = "resume"]
    /\ UNCHANGED <<txVars, pin, issued, engine, ledger>>

Resume(w) ==
    /\ pc[w] = "resume"
    /\ Start(w, FinalizeOp(plan[w].run, plan[w].key, plan[w].outcome, TRUE), TRUE, "resuming")
    /\ UNCHANGED <<pin, issued, engine>>

(* Mutant: a claim that is not pinned to the planned commit.               *)
ClaimUnpinned(w) ==
    /\ pc[w] = "planned"
    /\ Start(w, ClaimOp(plan[w].run, plan[w].key, plan[w].rev), TRUE, "claiming")
    /\ pin' = pin \ {w}
    /\ UNCHANGED <<issued, engine>>

(* Preflight passed, the second runLoop found the same plan on the same    *)
(* commit: claim it, pinned to that commit.                                *)
Claim(w) ==
    /\ pc[w] = "planned"
    /\ Start(w, ClaimOp(plan[w].run, plan[w].key, plan[w].rev), w \in pin, "claiming")
    /\ pin' = pin \ {w}
    /\ UNCHANGED <<issued, engine>>

(* Preflight, STOP, a budget or a changed selection ends the wake instead. *)
GiveUp(w) ==
    /\ pc[w] = "planned"
    /\ pc' = [pc EXCEPT ![w] = "idle"]
    /\ plan' = [plan EXCEPT ![w] = None]
    /\ pin' = pin \ {w}
    /\ UNCHANGED <<txVars, issued, engine, ledger>>

(* bail: an undispatchable command, no git root, a failed no-progress      *)
(* check, no result capability.  The release comes first, then the ledger. *)
Bail(w) ==
    /\ pc[w] = "claimed"
    /\ pc' = [pc EXCEPT ![w] = "release"]
    /\ UNCHANGED <<txVars, plan, pin, issued, engine, ledger>>

(* A repeated no-progress signature: the run is suppressed, and finalized  *)
(* as needs-human without an engine.                                       *)
Suppress(w) ==
    /\ pc[w] = "claimed"
    /\ \E o \in Outcomes \ KeepsCard :
         /\ Call(w, PhaseOp("suppressed", plan[w].run, plan[w].key), TRUE)
         /\ LET fate == AttemptFate(PhaseOp("suppressed", plan[w].run, plan[w].key), TRUE)
            IN  pc' = [pc EXCEPT ![w] = IF fate = "push" THEN "suppressing"
                                        ELSE AfterTx("suppressing", fate = "ok")]
         /\ plan' = [plan EXCEPT ![w].outcome = o]
    /\ ledger' = [ledger EXCEPT ![plan[w].run] = "running"]
    /\ UNCHANGED <<pin, issued, engine>>

WriteLedger(w) ==
    /\ pc[w] = "claimed"
    /\ pc' = [pc EXCEPT ![w] = "bootstrap"]
    /\ ledger' = [ledger EXCEPT ![plan[w].run] = "running"]
    /\ UNCHANGED <<txVars, plan, pin, issued, engine>>

BootstrapFails(w) ==
    /\ pc[w] = "bootstrap"
    /\ pc' = [pc EXCEPT ![w] = "release"]
    /\ UNCHANGED <<txVars, plan, pin, issued, engine, ledger>>

Dispatch(w) ==
    /\ pc[w] = "bootstrap"
    /\ Start(w, PhaseOp("dispatched", plan[w].run, plan[w].key), TRUE, "dispatching")
    /\ UNCHANGED <<pin, issued, engine>>

Release(w) ==
    /\ pc[w] = "release"
    /\ Start(w, ReleaseOp(plan[w].run, plan[w].key), TRUE, "releasing")
    /\ UNCHANGED <<pin, issued, engine>>

(* The engine starts, unless the protected snapshot or the remote STOP     *)
(* monitor cannot be set up; then the run ends as failed-contract.         *)
Spawn(w) ==
    /\ pc[w] = "spawn"
    /\ pc' = [pc EXCEPT ![w] = "engine"]
    /\ engine' = [engine EXCEPT ![plan[w].run] = "running"]
    /\ UNCHANGED <<txVars, plan, pin, issued, ledger>>

SpawnRefused(w) ==
    /\ pc[w] = "spawn"
    /\ pc' = [pc EXCEPT ![w] = "ended"]
    /\ \E o \in Outcomes \ KeepsCard : plan' = [plan EXCEPT ![w].outcome = o]
    /\ UNCHANGED <<txVars, pin, issued, engine, ledger>>

(* The engine exits, by itself, on its timeout or on STOP, and its result  *)
(* is verified.                                                            *)
EngineExits(w) ==
    /\ pc[w] = "engine"
    /\ pc' = [pc EXCEPT ![w] = "ended"]
    /\ engine' = [engine EXCEPT ![plan[w].run] = "over"]
    /\ \E o \in Outcomes : plan' = [plan EXCEPT ![w].outcome = o]
    /\ UNCHANGED <<txVars, pin, issued, ledger>>

(* claimedCardSnapshot and buildStageTransition: the new card content is   *)
(* made from the card as it is upstream now, not as it was claimed.        *)
BuildTransition(w) ==
    /\ pc[w] = "ended"
    /\ LET v == upstream.card[plan[w].key[1]]
           o == plan[w].outcome
       IN  \/ Proceed(w, "finalizing", "failed")  \* card missing or unreadable
           \/ /\ v # None
              /\ \E content \in (IF o \in KeepsCard THEN {v} ELSE Progress) :
                   plan' = [plan EXCEPT ![w].result = [content |-> content, outcome |-> o]]
              /\ pc' = [pc EXCEPT ![w] = "checkpoint"]
              /\ UNCHANGED ledger
    /\ UNCHANGED <<txVars, pin, issued, engine>>

Checkpoint(w) ==
    /\ pc[w] = "checkpoint"
    /\ Start(w, CheckpointOp(plan[w].run, plan[w].key, plan[w].result), TRUE, "checkpointing")
    /\ UNCHANGED <<pin, issued, engine>>

Finalize(w) ==
    /\ pc[w] = "finalize"
    /\ Start(w, FinalizeOp(plan[w].run, plan[w].key, plan[w].outcome, FALSE), TRUE, "finalizing")
    /\ UNCHANGED <<pin, issued, engine>>

-----------------------------------------------------------------------------
(* One change of reconcile --apply, pinned to the commit it was planned on *)
(* or, after an earlier change, to that one: finish a run that is ready to *)
(* be finalized, or park the card of an expired lease.                     *)
Reconcile(w) ==
    /\ Reconciles
    /\ pc[w] = "idle"
    /\ \E r \in Runs, k \in Keys :
         \E op \in {FinalizeOp(r, k, o, FALSE) : o \in Outcomes}
                     \cup {ReconcileOp(r, k, v) : v \in Contents} :
           /\ AttemptFate(op, TRUE) = "push"
           /\ Call(w, op, TRUE)
           /\ plan' = [plan EXCEPT ![w] = NewPlan(r, k, None, None)]
    /\ pc' = [pc EXCEPT ![w] = "reconciling"]
    /\ pin' = pin \cup {w}
    /\ UNCHANGED <<issued, engine, ledger>>

(* The worker process dies.  Its engine is a process group of its own and  *)
(* may outlive it.                                                         *)
Crash(w) ==
    /\ Crashes
    /\ pc[w] # "idle"
    /\ TxCrash(w)
    /\ pc' = [pc EXCEPT ![w] = "idle"]
    /\ plan' = [plan EXCEPT ![w] = None]
    /\ pin' = pin \ {w}
    /\ UNCHANGED <<issued, engine, ledger>>

Attended(r) == \E w \in Workers : plan[w] # None /\ plan[w].run = r

OrphanExits(r) ==
    /\ engine[r] = "running"
    /\ ~Attended(r)
    /\ engine' = [engine EXCEPT ![r] = "over"]
    /\ UNCHANGED <<txVars, pc, plan, pin, issued, ledger>>

Others ==
    /\ Environment
    /\ UNCHANGED <<pc, plan, issued, engine, ledger>>
    /\ Repin

Work(w) ==
    \/ Claim(w) \/ Resume(w) \/ WriteLedger(w) \/ Suppress(w) \/ Bail(w)
    \/ BootstrapFails(w) \/ Dispatch(w) \/ Release(w) \/ Spawn(w)
    \/ SpawnRefused(w) \/ EngineExits(w) \/ BuildTransition(w)
    \/ Checkpoint(w) \/ Finalize(w)

WorkNext ==
    \/ \E w \in Workers :
         \/ WakePlans(w) \/ WakeResumes(w) \/ GiveUp(w) \/ Work(w)
         \/ Transact(w) \/ Late(w) \/ Reconcile(w) \/ Crash(w)
    \/ \E r \in Runs : OrphanExits(r)
    \/ Others

LoopSpec == WorkInit /\ [][WorkNext]_vars

(* The scheduler (launchd, cron) wakes every machine again and again and a *)
(* wake runs on once started; a machine does not die at the same step of   *)
(* every wake, and the remote does not refuse every push for ever.         *)
LoopFairness ==
    \A w \in Workers :
        /\ WF_vars(WakeResumes(w))
        /\ WF_vars(Work(w))
        /\ WF_vars(Transact(w))
        /\ SF_vars(Resume(w))
        /\ SF_vars(Transact(w) /\ upstream' # upstream)

FairLoopSpec == LoopSpec /\ LoopFairness

-----------------------------------------------------------------------------
(* Across all machines at most one run is unfinished: a claim is pinned to *)
(* a commit on which the scan found none.  This is what makes an expired   *)
(* lease harmless.                                                         *)
OneOpenRun ==
    \A r1, r2 \in Runs : OpenRun(upstream, r1) /\ OpenRun(upstream, r2) => r1 = r2

(* Two engines never run at once, not even when a worker died and left its *)
(* engine running, its lease expired, and the operator reconciled.         *)
OneEngine ==
    \A r1, r2 \in Runs : engine[r1] = "running" /\ engine[r2] = "running" => r1 = r2

(* No dispatch without a durable record: as long as an engine runs, its    *)
(* run is recorded as dispatched upstream (SKILL.md: NEVER DISPATCH        *)
(* WITHOUT A DURABLE LEASE), whatever pushes arrive late.                  *)
EngineIsRecorded ==
    \A r \in Runs :
        engine[r] = "running" => upstream.event[r] # None /\ upstream.event[r].phase = "dispatched"

(* A run that was ever dispatched by an engine is never released: its      *)
(* outcome is a checkpoint, or stays open for a human.  And it has its     *)
(* ledger, from which budgets and the attempts backstop count.             *)
EngineIsAnswered ==
    \A r \in Runs :
        engine[r] # "none" =>
            /\ upstream.event[r].phase \in {"dispatched", "finalizing", "finalized"}
            /\ ledger[r] # "none"

(* While pm/loop/STOP is upstream nothing is claimed and no other wake's   *)
(* recovery is finished, wherever the push was when STOP arrived.          *)
StopHolds ==
    [][upstream.stop =>
         \A r \in Runs :
           /\ ~(upstream.event[r] = None /\ upstream'.event[r] # None)
           /\ OpenRun(upstream, r) /\ Terminal(upstream', r) /\ upstream'.event[r].phase = "finalized"
                => \E w \in Workers :
                     \/ tx[w].state = "push" /\ tx[w].op.run = r /\ ~tx[w].op.stopAbsent
                     \/ sent[w] # None /\ sent[w].run = r /\ ~sent[w].stopAbsent]_vars

(* A checkpointed run is finalized, by its own worker or by a later wake,  *)
(* however often workers die.                                              *)
CheckpointIsFinalized ==
    \A r \in Runs : upstream.recovery[r] # None ~> Terminal(upstream, r)

=============================================================================
