# Formal models of Product Memory (pm)

pm is a plugin of agent skills with a JavaScript runtime under `scripts/`. Most of
it is sequential: it validates documents, renders a board, generates platform
files. A part of it coordinates processes, machines, a git remote and a pull request
that fail independently of each other, and keeps durable state that must survive
that: the PM loop, which hands backlog cards to coding agents; the sessions and the
release journal by which one piece of work is developed, reviewed and delivered; the
sync of the knowledge base; the journal of operational effects; and the lock files.
This directory holds TLA+ models of that part,
TLC configurations that check them on small instances, and proofs of
the central theorems.

Paths below are relative to the repository root. In PROJECT.json they carry the
prefix `src/`.

## 1. Inventory

### Durable records of the loop: `scripts/loop-pm-transaction.js`, `scripts/loop-git.js`

State: files committed to the PM repository. `pm/backlog/<card>.md` (the card),
`pm/loop/leases/<card>-<stage>.json`, `pm/loop/events/<run>.json`,
`pm/loop/recovery/<run>.json`, `pm/loop/STOP`.

Operations: `claimRun`, `markRunDispatched`, `markRunSuppressed`,
`checkpointRecovery`, `finalizeRun`, `releaseClaim`, `inspectRunState`, all of them
transactions of `runIsolatedTransaction`: fetch the upstream tip, validate and
mutate it in a detached worktree, commit, `git push --force-with-lease` on the
fetched tip, retry a bounded number of times.

Interaction: any number of machines share the upstream branch and nothing else.
People edit cards and STOP in the same repository.

Hard: two transactions race; a push lands and its answer is lost; a push killed by
the deadline is still accepted later; leases expire while their worker runs; a
retried transaction meets its own effect.

Correct when: a card has one unexpired claim; the three files of a run agree; a
checkpoint is never altered or lost and is consumed by one commit that replaces
exactly the claimed revision.

### A wake of the loop: `scripts/loop-worker.js`, `scripts/loop-runner.js`

State: none between wakes but the records above and the local ledgers
`.pm/loop-runs/<run>/`. During a wake: the plan, the planned upstream commit, the
outcome of the engine.

Operations: scan for STOP and for unfinished runs (`runLoop`), plan, claim pinned to
the planned commit, write the ledger, record the dispatch, run the engine,
checkpoint its result, finalize; or resume someone else's checkpoint; or suppress a
repeated failure; or release.

Hard: wakes of several machines overlap; a worker dies at any point and its engine,
a process group of its own, lives on; the plan is stale when claimed; STOP arrives
between a fetch and a push.

Correct when: no two runs are open and no two engines run; an engine runs only when
its dispatch is durable; a run an engine worked on is never silently released; STOP
binds; a checkpoint is finalized eventually.

### Reconciliation: `scripts/loop-reconcile.js`

An operator's `loop reconcile --apply`: proposes changes from one upstream commit
and applies them pinned to it: finish a run that is ready, park the card of an
expired lease. It competes with wakes. Each change is carried out through the effect
journal.

### Engine supervision: `scripts/loop-process.js`

The process that runs an engine: its timeout, its output limit, the local STOP file and
the polled remote STOP, SIGTERM and later SIGKILL to the engine's process group.

Hard: all of these race with each other and with the exit of the engine, whose
descendants may ignore SIGTERM and may hold its pipes.

### Operational effects: `scripts/lib/operational-effect-journal.js`

State: a journal file per effect, a lock file. `runOperationalEffect` takes the lock,
reads the journal, recovers by observing the target when an attempt was left open,
otherwise journals an attempt, mutates, observes, records the receipt.

Hard: death between any two of these; `mutate` throws, returns or is killed while what
it started still takes effect; the lock file is created and named in two steps;
a person deletes the lock file when told to.

Correct when: the effect is not put in place a second time while a first attempt is in
place or can still land; it is journaled before it is attempted; verified receipts are
not lost.

### Owned lock: `scripts/lib/owned-lock.js`

A lock file that names its owner (pid and token), and the reclamation of one whose
owner died, under a chain of guard files that are themselves owned and may
be abandoned. Used by notes, evidence, backlog capture, sessions and project writes.

Hard: reclaimers race each other, new owners and the ends of processes; an owner is
read first and probed afterwards.

### Release transaction: `scripts/release-transaction.js`, `scripts/lib/release-transaction-schema.js`

State: one journal file per delivery, read and written under the owned lock: the prepared
commit and its generation, per effect a frozen target, its attempts and its status,
bound evidence, the attestation of the pull request's body.

Operations: create, plan, begin, reconcile, attest-pr-body, bind evidence, advance,
migrate-pr-body, and the migration every command starts with. The effects (push,
create-pr, ready-pr, merge, place-main-tag, tracker-update) are performed by the agent
between `begin` and `reconcile`.

Hard: nobody knows whether an effect that was begun took place; the commit advances
in the middle; journals written by earlier schemas are migrated while a pull request
is open; a refused command still writes the migrated journal; an attestation is good for
five minutes and for one merge attempt; the two commands that make a journal look for one and
write it later, without the lock.

Correct when: an effect follows what it depends on; a merge spends the attestation of
the body it merges; outcomes are not rewritten; every journal a command leaves can be read
by the next.

### Candidate delivery: `scripts/delivery-attestation.js`

State: `session.candidate`, `final-certification.json`, `delivery-attestation.json`.

`finalize-candidate` reads session and journal without a lock, runs the complete gate plan
for up to an hour, then writes certification, attestation and the session it had read.

Hard: anything may be written in that hour.

Correct when: what it writes back does not undo what others decided.

### Dev session: `scripts/dev-session.js`, `scripts/lib/dev-session-schema.js`

State: `session.json` and `gates.json` of one run: status, phase and attempt, results,
blockers, evidence by gate, the ledger of QA runs, work units with their owned paths.

Operations: routing, recording a result, blocking, resuming, skipping a UI gate,
recertification after a fix, moving and rebinding work units. The route
(`lib/dev-risk.js`) decides the phases and gates a run needs.

Hard: HEAD moves at any time; results arrive again or late; three commands append QA runs;
an amended RFC changes what running units own.

Correct when: a run completes only with every gate at the commit it is completed at, which is
HEAD where the last result names one; retries stay in their budget and attempt numbers are not reused; the QA ledger stays a chain
later reports can continue; units that run do not share paths.

### Knowledge-base sync: `scripts/kb-sync-git.js`

State: a git clone with its index, worktree and stash, one remote branch, and one effect
journal per command.

Operations: `pull` (rebase with autostash), `push` (add, commit, push), `sync` (both),
each an effect of the journal; people edit, stage, resolve and finish rebases meanwhile.

Hard: every git command may fail, or its process die, at any point; conflicts arise in
the rebase and again when the stash comes back; a push lands and its answer is lost.

Correct when: no edit is lost; conflict markers are never committed; "verified" means
published.

### RFC sessions: `scripts/rfc-session.js`, `scripts/lib/rfc-session-schema.js`, `scripts/lib/rfc-amendment.js`

State: the active session of a slug, archived and withdrawn ones, the RFC's HTML and
sidecar and the approval audit beside them.

Operations: initialize, amend, review, revise, approve (by a person or delegated by the
proposal), hand off, archive, withdraw.

Hard: the document is edited beside the session; a command dies between two file
operations; amendments form lineages in which "latest" is decided by timestamps.

Correct when: what is archived is what was reviewed and approved; an amendment stays in
its scope; the audit belongs to a run that stands; no run is lost.

### The rest

| component | state | why it is not modelled |
|---|---|---|
| Loop selection, budgets, quarantine (`loop-runner.js`, `loop-card-state.js`, `loop-config.js`) | none of its own | functions of the records; LoopWorker chooses among all eligible cards |
| Engine commands and protected state, stage results | none | validation of environments and documents |
| Loop install, canary, board, arguments | scheduler files | text generation and a read-only view |
| Atomic project writes (`lib/project-atomic-write.js`) | one file or bundle directory | planned |
| Local writers under the owned lock (notes, evidence, backlog) | one file each | read-modify-write inside the lock OwnedLock models |
| Review, QA, design critique, quality gates | none | functions of their input documents and browser probes |
| Board server, previews | none | read-only views |
| Plugin generation, validation, hooks | none | build-time |
| ProductMemory bridge | remote | client of an external service |
| Evaluations | none | test harness |

PROJECT.json lists them with their sources, and the hazards with their lines.

## 2. Modules

| module | models | extends or instances |
|---|---|---|
| `RunRecords` | the records of one commit and, per transaction, what it requires (`...Allowed`), when it is already done (`...Done`) and what it writes (`...Effect`) | |
| `RunLifecycle` | what the transactions promise about a run, without leases, recovery files, git or workers | |
| `PMTransaction` | the transactions of any number of workers through git | RunRecords, RunLifecycle as an instance |
| `LoopWorker` | wakes and reconciliation, as callers of the transactions | PMTransaction |
| `LoopWorker_proof` | part one, the inductive invariant and theorems of PMTransaction; part two, those of LoopWorker, and that it implements PMTransaction's specification | LoopWorker |
| `EngineSupervisor`, `EngineSupervisor_proof` | one engine run under its supervisor | |
| `OutwardEffect` | what the journal promises of one effect, without processes, locks or files | |
| `EffectJournal`, `EffectJournal_proof` | runOperationalEffect by any number of processes | OutwardEffect as an instance |
| `OwnedLock`, `OwnedLock_proof` | the lock, its guards and their reclamation | |
| `ReleaseTransaction` | the journal of one delivery | |
| `CandidateDelivery` | the candidate machine and finalize-candidate around that journal | ReleaseTransaction |
| `ReleaseTransaction_proof` | the inductive invariant and theorems of the journal, and that CandidateDelivery keeps to it | CandidateDelivery |
| `DevSession`, `DevSession_proof` | one run of a Dev session | |
| `KbSync`, `KbSync_proof` | pull, push and sync of any number of clones | |
| `RfcSession`, `RfcSession_proof` | all runs of one RFC's slug | |
| `MC...` | bounds, symmetry and the reasons for them | the module named |

### RunRecords and PMTransaction

The upstream tip is one record set `upstream`. A card's revision is the hash of its
content, so one value stands for both; `result` stands for the four hashes that
identify what a run wants to commit. `None` is the absence of a file.

A transaction is two steps: an attempt up to the push (`Call`, `Retry`: fetch,
validate, mutate, commit) and the push. The committed tree is a function of the
fetched tree, and the push is accepted only while the fetched commit is the tip;
so the model keeps no copy of the fetched tree but a bit, `tip`, that any commit by
anyone clears (`TxMoved`). A push lands with its answer seen, lost or too late
(`PushLands`), fails (`PushFails`), or is left behind by a killed client
(`PushOutstanding`) and lands or is lost later (`LateLands`, `LateLost`). Every check
a transaction makes on the fetched commit is a conjunct of its `Allowed`; a failing
one ends it without a commit, which changes nothing.

`PMTransaction!Next` lets every worker ask for any transaction on any run at any
time. So what is checked and proved of it holds whatever the callers do;
`LoopWorker` then adds what depends on the callers.

Expiry is one event per run (`LeaseExpires`), enabled as soon as the lease exists:
leases are never renewed, and how long a lease lasts is not modelled. One event for
all machines leaves out clocks that disagree.

### LoopWorker

`pc` follows `runWorker`; each action is the stretch of code between two points
at which others can interfere. `Start` calls a transaction, `Transact` takes its
later steps and `AfterTx` says where the wake goes when it has ended. `pin` holds
the workers whose planned commit is still the tip, which is what `expectedUpstreamOid`
asks of a claim or a reconciliation. Which eligible card is selected, budgets, preflight
and the no-progress signature are nondeterministic choices: a wake may take any eligible
card and may give up at any point where the code may.

Engine runs are `EngineExits` with any outcome; `Crash` leaves an engine running
(`OrphanExits` ends it some time). Run ids are never repeated (`issued`).

### EngineSupervisor

A process of the engine is in the group, out of it (`setsid`) or gone, and may hold
the engine's pipes. It may exit at any time, so SIGTERM needs no step; SIGKILL
(`GraceEnds`) removes the group. The close event (`Closes`) comes when the engine is gone
and nobody holds its pipes. The remote probe is three steps, as its three git commands
are (`Lists`, `Fetches`, `Looks`), with the tip moving in between. `CutOff` is the deadline
of `spawnSync`; it lies five seconds after timeout and grace, so it comes after SIGKILL.
`Dies` is a supervisor that ends of itself; its engine lives on, which
`NoSurvivors` cannot exclude. LoopWorker assumes that this does not happen: its `EngineExits`
is the end of the supervisor and of the engine. A process that an engine left behind by
itself (no termination) is not counted as an engine either.

### EffectJournal

Actions follow `runOperationalEffect` between the points at which a process can
die. `observe` and `mutate` belong to the caller. Of `observe` the model assumes what the
journal relies on: it says "verified" only of a target in place, and "absent, safe to
retry" only when the target is not in place and no earlier attempt can still put
it there. Of `mutate` it assumes nothing: the effect may land then, later or never,
whatever it returns or throws. Reuse of process ids is left out: a dead owner never
looks alive.

### OwnedLock

A guard's path is the base path or is derived from the token of a dead owner;
`guard` maps paths to owners. A process publishes one lock and one guard at a time, so its
latest token of each is written as the process; who read an earlier one is in `late`, and
compares and derives paths from `Past`. Reading an owner and probing it (`kill(pid, 0)`) are
two steps, and in between a process may let the file go and end. `strayed` is a history
variable: it records that a walk has gone on behind a guard that was dropped in this way, and
nothing reads it but the properties. `Mortal` are the processes that may end. Left out:
unreadable or directory lock files and their grace time, limits on attempts, the limit of 32
guards, reuse of inodes and pids; a release reads the owner and removes the file in one step.

### ReleaseTransaction and CandidateDelivery

The journal is one record `tx`; a command is one action, because it runs under the lock.
`Normalized` is the migration a command starts with and `Valid` is `transactionIssues`; an
action reads `Normalized(tx)` and writes only what is `Valid`, while `Load` is a command
that is refused after reading and still writes the migration. `Init` has, beside no
journal, those an earlier schema may have left in the middle of a pull request
(`LegacyJournals`). `Age` is the end of the attestation's five minutes. A body is its
hash. What a command merely compares with the journal's own identities always matches.
`initialize` and the preparation of a versioned release take no lock: a process of `Starters`
finds no journal (`InitializeFinds`) and later writes one over whatever there is
(`InitializeWrites`), or does not (`InitializeStops`, also when a command that had read the file
before writes after it). Of the preparation no more than that is modelled.

`CandidateDelivery` takes the commands of the journal as they are (`JournalCommand`,
`Initialize`) and
adds the candidate's states (`Transition`) and the finalizer, in the steps between which
others can write. Gates either pass or the finalizer stops.

### DevSession

A command is one action, as it runs under the session's lock (that lock's own protocol
is not modelled). Commits are numbered in order and `head` moves on at any time. A
result is refused or recorded (`Pass`, `Block`, `Fail`); a repeated one changes nothing and
has no action. Reports and receipts are what they are checked to be: the commit they
name, a verdict and, for QA, the runs they list. Work units are in the order of the task,
with dependencies and owned paths as constants; a rebinding (`Rebind`) may add paths and reopen
units as the code allows. The order of the phases is `Later`; `Successor` is the first required
phase later than the present one, which is what the code's search through the list finds.

### KbSync

A clone is its branch (a sequence of commits, each a set of edits), index, worktree, stash,
tracking ref, and whether it is unmerged or rebasing. `Markers` is what git leaves in a
file with a conflict. The points of `call` are those of the effect journal: refresh,
recognize an earlier attempt, begin, the git commands, observe. So this module gives the
`observe` and `mutate` that EffectJournal leaves open. One command runs in a clone at a
time, which is EffectJournal's `OneHolder`. Network failures and deaths are possible at
every step; a lost answer of a push leaves the tracking ref behind. Of git it assumes
that edits of one file made apart conflict, that a push must be a fast forward, and that
`rebase --abort` puts back what the autostash took.

### RfcSession

A document is its design and the lifecycle its HTML shows. `active`, `completed` and
`withdrawn` are the three places of a session; `command` holds what a command has yet to do
after its first durable write, so that `Die` can leave it half done. `Now` stands for the
time of an approval; a delegated one has the time of the proposal's decision. A command
may always be refused on account of a file, the branch or the proposal.

## 3. Runs

| run | configuration | states | shows |
|---|---|---|---|
| `records` | 2 workers, 2 runs, 2 stages of one card that others delete and put back, 2 attempts | 522,903 | RecoveryMatchesEvent, OneActiveLease, LeaseMatchesEvent, CheckpointSurvives; the records implement RunLifecycle |
| `wakes` | 2 workers, 2 runs, 1 card, 2 outcomes, crashes, edits, STOP, reconciliation | 648,775 | OneOpenRun, OneEngine, EngineIsRecorded, EngineIsAnswered, StopHolds |
| `recovery` | 2 workers, 2 runs, crashes, reconciliation, no edits and no STOP | 47,772 | CheckpointIsFinalized, under fairness |
| `supervisor` | the engine and 2 descendants, 2 commits | 384,228 | NoSurvivors, SuccessIsUndisturbed, and StopEndsEngine under fairness |
| `journal` | 3 processes, 2 receipts, 3 attempts | 35,020 | OneHolder, AtMostOnce, EffectIsJournaled, ReceiptsKept; the processes implement OutwardEffect |
| `lock` | 4 processes, 2 of which may end, and one that is gone | 570,242 | OneOwner and LiveLockIsSafe until a walk strays, and AbandonedIsReclaimed under fairness, strayed or not |
| `release` | 2 commits, 2 bodies, 2 generations, 2 attempts at create-pr and merge, 2 processes that initialize | 102,732 | Loadable, ChainHolds, MergeIsAttested, AuditKept |
| `session` | 2 units in a row or a small UI change, 2 commits, 7 results, 2 QA runs | 1,315,694 | SessionTypeOK, CompleteIsCurrent, RetryBudget, FreshAttempts, QaLedgerAgrees, UnitsSafe |
| `kb` | 2 clones, 3 edits of 2 files, push and sync in one, push in the other | 3,299,657 | MarkersStayLocal, NothingLost, VerifiedIsPublished |
| `rfc` | 3 runs, 2 designs, both kinds of amendment, delegation, 2 hops | 3,046,326 | ArchivedIsReviewed, AmendmentsStayInScope, AuditIsGenuine, LatestIsAmended, NothingDiscarded |
| `straying`, `finalizer` | see section 6 | | one violated property each |

Why these bounds are enough to be interesting.

- Two runs on two stages of one card are what a race for a card needs: leases are keyed by
  card and stage, so the second claim neither replaces nor collides with the first one's
  file. Two runs also give the replacement of an expired lease, a push of the first run
  that arrives in the time of the second, and a recovery record left behind. Two attempts
  give a retry that meets its own effect. A third run or worker repeats these pairs: every
  property of the records relates at most two runs. In `records` the card exists or not;
  its contents differ in `wakes`. All contents are parked in `records`, so that no reconciliation
  is allowed there; that a checkpoint survives one is the theorem `CheckpointKept`.
- In the journal, three processes are one that dies with an attempt in flight, one that is
  cut off, and one that recovers after it; three attempts allow an effect to be done, to
  drift, and to be done again.
- In the lock, four processes are one that reclaims and dies, two that read its guard on
  either side of that, and one that takes the lock; with three nobody's lock is lost after a
  stray walk. Which two may end does not matter, for the processes are alike.
- A second generation shows what an advance carries over and what it drops; a second
  attempt at create-pr and at merge is what ages an attestation and what might reuse one;
  a second body is the pull request rewritten after its attestation; two processes that
  initialize are one that overwrites what the other made.
- Seven results take a session through all phases with a failure and a resumption, or
  through the three attempts of one phase; two QA runs fill the ledger; two
  units in a row wait for each other, and an amendment may give both one path.
- Three edits give one conflict while rebasing or taking the stash out, and one change that
  goes along with it. `pull` is run as part of `sync`; alone it is in the theorems.
- Three RFC runs are one that is approved, one that amends or replaces it, and one that amends
  either; with two hops the limit of a lineage is met.

The theorems of section 5 do not depend on these bounds, nor on any other constant.

`MaxTries`, `sent` (one outstanding push per worker), `MaxGenerations`, `MaxAttempts`,
`MaxCommit`, `MaxResults`, `Fallible`, `Uncommitted`, `Recertified`, `Edits`, `Used`, `Mortal`,
`Shown`, `Kinds`, `Starters` and `Delegated` are the bounds the modules add. They bound what the world
may do; limits of the code (`MaxRuns`, `Hops`, three attempts of a phase, the attempts of a
transaction) are constants where they are parameters of it.

Deadlock is checked in `lock`. Elsewhere `CHECK_DEADLOCK` is off, because the modelled
system really stops: all runs have been used, the delivery is merged, the engine
has been reported, and nothing is left to do.

Each property has, in PROJECT.json, a mutation of the code's model that breaks
it: a dropped guard, a reset that is missing, an order that is swapped. The type invariants
of modules with proofs are theorems; `SessionTypeOK` is checked by a run as well.

## 4. Fairness

`LoopFairness`: the scheduler (launchd, cron) wakes each machine again and again, so
a wake that stays possible happens, and a wake that runs goes on (weak fairness of
`WakeResumes`, `Work`, `Transact`). Death and refused pushes can interrupt every
attempt, and no code prevents that for ever; strong fairness of `Resume` and of a push
that changes the upstream says that a machine does not die at the same step of every
wake and that a remote does not refuse every push. No fairness is assumed of claims,
of people or of the clock. The run has no edits: a card that is edited after
the claim stops finalization for good, by design.

`OwnedLock`: weak fairness of each live process's step. `Ends` is never required.

`SupervisorFairness`: timers fire and close events are delivered (weak fairness); the three
git commands of a probe each succeed again and again if they are tried again and again
(strong fairness). Neither the engine's exit nor its timeout is assumed to come, so
that `StopEndsEngine` shows what STOP does by itself.

The release journal, the sessions and the knowledge base have no fairness: their
commands are given by people and agents, and nothing makes anyone give the next one.

## 5. Proofs

TLAPS proves these for all values of the constants, given the named assumptions
(`None` is not a value, bounds and attempts are numbers, the environment edits within
`Contents`, sets of runs are finite where runs are counted). None of the invariants below
is inductive as the runs state it; the strengthening is the content of each proof.

`LoopWorker_proof`, part one: the records. `IInv` is `TypeOK`, `Sound(upstream, expired)` and
`SafePushes`. `Sound` collects the agreement of the three files of each run:
`LeaseMatchesEvent`, `RecoveryMatchesEvent`, `OneActiveLease`, and what they need.
It is not inductive by itself: a push changes the upstream long after its
checks. `SafePushes` bridges that. For every push that can still be accepted, waiting or
left behind, the checks it passed still hold of the *current* records, because the tip
has not moved, so `Effect(upstream, op)` is again `Sound`. Expiry is the one step that
changes what a check reads without moving the tip; it only makes `ActiveCardLease`
smaller, so that an allowed claim stays allowed. The proof has one lemma per transaction
(`Effect` keeps `Sound` when `Allowed` holds), then one step per action.
`CheckpointKept` and `Refinement` (Spec implements RunLifecycle) follow step by step.

`LoopWorker_proof`, part two: the wakes. Every step of a wake is a step of `PMTransaction!Next`
(`WakesAreTransactions`), so that everything proved there, `LifecycleSpec` included,
holds of the loop. `WorkInv` adds what the callers add. Per worker: what its plan says of its
run at each point of the wake (`PlanSound`), what transaction it waits for (`TxSound`), that a
push it left behind can only be one its own run still allows (`SentSound`), and that an
engine runs only for a dispatched run (`EngineSound`). Of two workers (`Apart`): a run has
one owning worker, a late push for it by anyone else is a finalization or a
reconciliation, and a claim can land only on a tip without an open run; here the pin on the
planned commit is the key fact. `OpenRunIsOne`, `EngineIsOne`, `EngineRecorded` and
`EngineAnswered` follow. `StopIsHeld` needs one more invariant, `ClaimsUnstopped`: wherever a
claim can still come to rest on the tip (planned on it and pinned to it, about to be pushed, or
left behind by a killed client) the tip has no STOP. It is inductive because every commit, the one
that adds STOP included, takes the pin and the tip away from everyone (`CommitsReset`).

`EffectJournal_proof`. `IInv` is `TypeOK`, `HolderOwnsLock` (a process past the lock is
the one its file names) and `Sound`: for the disk, what a journal on disk means for the
target; for each process, what it may believe at its point of the call (`CallSound`).
`AppliedAtMostOnce`, `Journaled`, `AnswersAreRecorded` and `NoReceiptLost` follow. `Refinement`: in
`OutwardEffect` an attempt is under way while anything is `live`, and on record are the receipt
and the history of the journal file. Each step is one of its actions or a stutter; the
attempt needs that what a call is about to write has the same receipts as the file
(`BeginSound`), as it does because the call has held the lock since it read it.

`EngineSupervisor_proof`. `NoSurvivors` is not inductive: a group could be refilled by a
fork. `GroupEnded` says that it is empty once SIGKILL was sent or the run was closed after a
termination, and only members fork into it. `ReportSound` says that a report is
what the supervisor knew when it settled (`report = ReportNow`), which cannot change later
because the engine was gone when its pipes closed. `NobodySurvives` and
`AcceptedIsUndisturbed` follow.

`OwnedLock_proof`. The guards of dead owners form a chain that only grows, so a walk along it
that was true once stays true; it has one end, and at most one live process holds
the guard there (`GuardsSound`, `WalksSound`, `LockSound`, together `Sound`). All this holds as long
as no walk has strayed: the one step that breaks it is the one that sets `strayed`, and the
invariant is `~strayed => Sound` beside the types. `MutualExclusion` and `LiveLockIsKept` follow,
which are about the states before that, for processes that may all end at any point; what happens
afterwards is the run `straying` (section 6).

`ReleaseTransaction_proof`. Beside `Valid`: an effect under way or done has what it depends on
verified (`Chain`), a merge under way or done with a body holds the attestation it spent (`Spent`), and a
create-pr of an earlier schema is bound to no body (`LegacyUnbound`), without which a
migration could reopen what a merge rests on. One lemma says that migration keeps all
three, so each command is proved from the journal it read. `AlwaysLoadable`, `Chained` and
`MergeAttested` follow. `AuditIsKept` is an action property: what a command keeps of the journal
it read (`Keeps`) composes with what the migration before it kept (`KeepsTwice`), because the only
attempt that may change is the last one while it is open, and because what the target of
create-pr records stays recorded (`Recorded`): the planned merge that may go, goes only with
the step that completes that target. A write of `initialize` is excepted, as section 6 says. Planning
gives an effect a new list of attempts and so needs an invariant of its own, that an effect which is not planned has
none (`Blank`). `DeliveryIsTransaction`: the steps of `CandidateDelivery` are commands on the
journal or leave it alone, so all this holds of it, whatever a finalizer has read before.

`DevSession_proof`. The six properties of the run are parts of one invariant, and none is inductive
without the rest. A session moves forward only through the phases it is routed through, so
what a phase established when it was left is not established again: at its phase no later one has
attempts (`AttemptsPast`), only the last blocker can be unresolved and it is of the
present phase (`BlockersSound`), of the attempts counted since the last resolution all but the
present one failed (`BudgetSound`), the present number is greater than those recorded
(`NumbersSound`), until QA is left the ledger holds its attempts and nothing else (`QaCounted`), and
evidence is of an attempt that passed (`EvidenceEarned`). A handoff ends with a result of ship,
which must name a commit (`CommitsRequired`), so the commit of its gates is HEAD (`EndsAt`).
`CompletionIsCurrent`, `BudgetIsKept`,
`AttemptsAreFresh`, `LedgerAgrees` and `UnitsAreSafe` hold for any units, dependencies, paths,
routings and skip policy.

`KbSync_proof`. Per clone: markers only where it is unmerged and nothing staged beside
them, a stash only while it is rebasing or unmerged, a rebase only at the points of a command
that rebases or after one was interrupted (`CloneSound`). Lemmas on sequences say what rebasing
and a common prefix keep. `EditsAreKept`, `MarkersNeverCommitted`, `SuccessIsPublished` follow.

`RfcSession_proof`. An approval exists only at the handoff and is of the reviewed design; a
session that is complete but not yet moved holds exactly what its archive will hold
(`ActiveSound`, `CommandSound`, `ArchiveSound`), so that a death between writing and
renaming archives nothing unreviewed. `ArchiveIsReviewed`, `AmendmentsInScope`,
`AuditGenuine` and `RunsAreKept` follow. `LatestAmended` rests on a second invariant about the
archived runs as a whole (`LineageSound`, `ActiveLineage`; theorem `Lineage`): the times of
completion number the archived runs without a gap, no two runs amend the same one, a successor comes
directly after its predecessor, and every run but the last has a successor or was superseded.
Each part about the order of approvals is conditional on no archived run being approved by a
product decision (`Undelegated`), as the property is; section 6 says why.

Every safety property that a run checks is a theorem. Only model-checked are the three liveness
properties, `CheckpointIsFinalized`, `StopEndsEngine` and `AbandonedIsReclaimed` (the prover does
not reach properties under fairness), and the two runs of section 6, whose properties are false.
Proved without a run of their own: `AnswersAreRecorded`, `WakesAreTransactions`,
`DeliveryIsTransaction`, `Lineage`, the inductive invariants and all type invariants but
`SessionTypeOK`, which `session` checks too.

## 6. Where the code and its documents disagree

Two are runs that TLC ends with a counterexample.

- `straying` (LiveLockStays): a guard's owner that drops the guard and ends between being read
  and being probed is taken for one that died with it (`owned-lock.js:84`), and the walk goes on
  to a path off the chain. Two reclaimers are then at work, and the slower one removes the
  lock of a live owner, although the comment at `owned-lock.js:151` says a new owner's file
  must stay.
- `finalizer` (InvalidatedReturns): a candidate that is invalidated while
  `finalize-candidate` runs its gates is moved on to certifying, because the finalizer
  writes back the session it read at its start (`delivery-attestation.js:768`);
  `skills/dev/references/state-schema.md:98` says an invalidated candidate must return to
  implementation.

Met on the way, and not runs of their own:

- Reconciliation of an expired lease deletes the lease and leaves the event of its run open
  (`loop-reconcile.js:610`). The run is then ambiguous for ever and every later wake returns
  recovery-required, even after the card was edited, which `skills/loop/SKILL.md:46` says
  makes it eligible. `upstream.reconciled` names such runs.
- A failed run writes the card from the one it read when the engine had ended
  (`loop-worker.js:949`); if someone had edited it by then and withdraws the edit, the
  run writes the withdrawn edit back. `skills/loop/steps/06-work.md:130` says the card stays at its pre-claim state.
- The expired claim of a deleted card keeps every wake in recovery-required;
  `skills/loop/steps/01-route.md:32` says the claim frees at TTL.
- A caller of the effect journal at its lock deadline reads the owner after its last attempt; a
  lock just released is reported as one whose "owner is no longer running"
  (`operational-effect-journal.js:482`).
- Completing the target of create-pr in a journal of an earlier schema, by the migration every
  command starts with or by migrate-pr-body, discards a planned merge
  (`release-transaction-schema.js:316`). The merge may be planned because it was attempted and not
  observed to have happened, and then that attempt is discarded with it: an open merge of
  the oldest schema, reconciled as absent, is gone after the next command. The comment at
  `release-transaction-schema.js:311` calls only a never-started plan safe to discard, and
  attempted state audit evidence. `AuditKept` excepts exactly this step.
- `initialize` and prepare-release look for a journal and write one later without the lock
  (`release-transaction.js:363`, `:395`): two of them, or one whose write comes late, overwrite a
  journal with all that commands have recorded in it. `AuditKept` excepts their writes; the
  invariants hold across them.
- A claim whose push landed without its answer has no ledger, although the comment at
  `loop-worker.js:1276` promises one for every claim.
- A Dev session completes with HEAD ahead of its gates: after ship somebody commits, and the result
  of the retro names no commit. `assertFinalGates` then takes the newest commit that a result has
  named (`dev-session-schema.js:3584`), while `skills/dev/references/state-schema.md:53` asks for
  evidence at the current HEAD. `CompleteIsCurrent` asks for HEAD when the session is handed off or
  its last result names a commit, and otherwise for what the code does.
- RFC sessions. "Only the latest completed run may be amended" (`skills/rfc/references/state-schema.md:45`,
  `rfc-session.js:352`) is judged by the time of approval, which for a delegated run is the
  time of the product decision; `LatestIsAmended` therefore states only that a run has one
  successor where a decision delegates approvals. A phase
  result retried after an unblock or a revision is not idempotent (`state-schema.md:10`): it
  blocks again or undoes the revision. A death between writing a session complete and renaming
  its directory (`state-schema.md:11` says both move atomically) leaves one every command
  refuses. A withdrawal interrupted after it made its directory (`rfc-session.js:199`) can
  never be withdrawn again, but may still complete.

## 7. What is not modelled

Of the modelled components:

- Loop: the contents of stage results, artifact hashes and front matter; the worktree
  and index operations of git below a transaction; file permissions, containment and symlink
  checks; the duration of leases and timeouts; clocks that disagree; the ranking of cards and
  budgets; several reconciliation changes as one sequence with a partial receipt.
- Owned lock: the limit of 32 guards, unreadable lock files, reuse of inodes and pids.
- Supervision: a supervisor that dies of an exception in its own logging is only `Dies`.
- Release: the versioned files of prepare-release, identities of repositories.
- Dev session: authority grants, versions of decisions, the workspace command, schema migration;
  the archive of a finished run and the session lock, which is a directory with an owner
  file inside the directory that is renamed (a hazard of its own, listed). The final gates
  are compared with the commit the code compares them with (section 6). The
  number of times a failed unit may be reset to pending has no limit in the code; the
  model follows it.
- Knowledge base: setup, clone, status, the ProductMemory backend, write-back. What a command
  observes it observes in one step: an edit between the git commands of one observation is
  not covered. A sync that was
  interrupted and then followed by further edits is answered as ambiguous, by the code's design.
- RFC: grants of authority, migration of legacy Markdown, a handoff retried after it
  was archived. Groom sessions.

Of the others see the table in section 1. Most of the repository's lines
are validators of report formats, browser probes, evaluations and generators: sequential functions
of one document, whose every branch is a rule about a field. A model of them would repeat
them, and unit tests reach them well. What keeps state or coordinates is what is modelled here.

## 8. Plan

1. Done: the loop (RunRecords, PMTransaction, LoopWorker) up to the proof that wakes implement
   the transactions; EffectJournal, EngineSupervisor, OwnedLock, ReleaseTransaction, DevSession,
   KbSync and RfcSession, every safety property of them proved; CandidateDelivery model-checked.
2. The session lock and the archive of a Dev session: a directory that is renamed with its lock
   inside it while another `init` creates the next.
3. Atomic project writes: the publication of a file and of a bundle, death between the
   steps, reconciliation of the outcome.
4. Selection and the card state table of the loop as pure operators, checked against
   a declarative definition; LoopWorker's eligibility taken from them.
5. Groom sessions.
6. Proofs: what holds of the certification and the attestation in CandidateDelivery in spite of
   section 6, for several finalizers at once; that a clone's calls in KbSync keep to what
   EffectJournal assumes of `observe`.
