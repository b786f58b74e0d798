--------------------------- MODULE LoopWorker_proof ---------------------------
(***************************************************************************)
(* The loop's records and its wakes, for any number of workers, runs,      *)
(* cards, stages and contents.                                             *)
(*                                                                         *)
(* Part one is about PMTransaction.  The invariants of the records hold    *)
(* for one reason: whatever push the remote accepts, now or late, its      *)
(* transaction is still allowed on the tip it lands on (SafePushes below). *)
(* First, with no state machine in sight, an allowed Effect keeps the      *)
(* records sound; then, no step takes SafePushes away.                     *)
(*                                                                         *)
(* Part two is about LoopWorker.  Every step of a wake is a step of        *)
(* PMTransaction, so that what is proved of the records holds there.  What *)
(* the wakes add is an order: a run has one worker that may claim, mark,   *)
(* checkpoint or release it, a push of that worker that is still on its    *)
(* way cannot undo what the worker did since, and a claim only lands on a  *)
(* commit without an unfinished run.                                       *)
(***************************************************************************)
EXTENDS LoopWorker, TLAPS

(* The record invariants, of any record set.                               *)
LeaseAgrees(s, k) ==
    s.lease[k] # None =>
        /\ s.event[s.lease[k].run] # None
        /\ s.event[s.lease[k].run].key = k
        /\ s.event[s.lease[k].run].phase = s.lease[k].phase
        /\ s.event[s.lease[k].run].rev = s.lease[k].rev
        /\ s.event[s.lease[k].run].result = s.lease[k].result

RecoveryAgrees(s, r) ==
    /\ s.recovery[r] # None => s.event[r] # None /\ s.event[r].phase = "finalizing"
    /\ s.event[r] # None /\ s.event[r].phase = "finalizing" => s.recovery[r] # None
    /\ s.recovery[r] # None =>
         /\ s.recovery[r].key = s.event[r].key
         /\ s.recovery[r].rev = s.event[r].rev
         /\ s.recovery[r].result = s.event[r].result

LeasesAgree(s) == \A k \in Keys : LeaseAgrees(s, k)
RecoveriesAgree(s) == \A r \in Runs : RecoveryAgrees(s, r)

OneActive(s, gone) ==
    \A k1, k2 \in Keys :
        /\ k1[1] = k2[1]
        /\ s.lease[k1] # None /\ s.lease[k1].run \notin gone
        /\ s.lease[k2] # None /\ s.lease[k2].run \notin gone
        => k1 = k2

Sound(s, gone) ==
    s \in Records /\ LeasesAgree(s) /\ RecoveriesAgree(s) /\ OneActive(s, gone)

(* An operation the transactions are really asked for: a checkpoint brings *)
(* a result.                                                               *)
Asked == {op \in Op : op.kind = "checkpoint" => op.result \in Results}

-----------------------------------------------------------------------------
(* Every operation of the specification is one of these.                   *)
LEMMA OpsAreAsked == Ops \subseteq Asked
<1> USE DEF Asked, Op, Kinds, RunOp
<1>1. ASSUME NEW r \in Runs, NEW k \in Keys, NEW v \in Contents
      PROVE  ClaimOp(r, k, v) \in Asked /\ ReconcileOp(r, k, v) \in Asked
  BY DEF ClaimOp, ReconcileOp
<1>2. ASSUME NEW p \in {"dispatched", "suppressed"}, NEW r \in Runs, NEW k \in Keys
      PROVE  PhaseOp(p, r, k) \in Asked
  BY DEF PhaseOp
<1>3. ASSUME NEW r \in Runs, NEW k \in Keys, NEW res \in Results
      PROVE  CheckpointOp(r, k, res) \in Asked
  BY DEF CheckpointOp
<1>4. ASSUME NEW r \in Runs, NEW k \in Keys, NEW o \in Outcomes, NEW b \in BOOLEAN
      PROVE  FinalizeOp(r, k, o, b) \in Asked
  BY DEF FinalizeOp
<1>5. ASSUME NEW r \in Runs, NEW k \in Keys
      PROVE  ReleaseOp(r, k) \in Asked
  BY DEF ReleaseOp
<1> HIDE DEF Asked, Op, Kinds, RunOp
<1>6. QED
  BY <1>1, <1>2, <1>3, <1>4, <1>5 DEF Ops

(* Every transaction writes the lease of one key and the event and the     *)
(* recovery of one run, and that run has no other lease.  So it is enough  *)
(* to look at what it makes of these.                                      *)
LEMMA OneKeyOneRun ==
  ASSUME NEW s, NEW t, NEW gone, NEW r \in Runs, NEW k \in Keys,
         Sound(s, gone), t \in Records,
         \A j \in Keys : j # k => t.lease[j] = s.lease[j],
         \A q \in Runs : q # r => t.event[q] = s.event[q] /\ t.recovery[q] = s.recovery[q],
         s.event[r] # None => s.event[r].key = k,
         LeaseAgrees(t, k), RecoveryAgrees(t, r),
         \/ t.lease[k] = None
         \/ s.lease[k] # None /\ t.lease[k].run = s.lease[k].run
         \/ ~ActiveCardLease(s, gone, k[1])
  PROVE  Sound(t, gone)
<1>1. ASSUME NEW j \in Keys, j # k
      PROVE  LeaseAgrees(t, j)
  <2>1. t.lease[j] = s.lease[j] /\ LeaseAgrees(s, j)
    BY <1>1 DEF Sound, LeasesAgree
  <2>2. s.lease[j] # None => s.lease[j].run \in Runs /\ s.lease[j].run # r
    BY <1>1, <2>1 DEF LeaseAgrees, Sound, Records, Lease
  <2>3. QED
    BY <2>1, <2>2 DEF LeaseAgrees
<1>2. ASSUME NEW q \in Runs, q # r
      PROVE  RecoveryAgrees(t, q)
  <2>1. t.event[q] = s.event[q] /\ t.recovery[q] = s.recovery[q] /\ RecoveryAgrees(s, q)
    BY <1>2 DEF Sound, RecoveriesAgree
  <2>2. QED
    BY <2>1 DEF RecoveryAgrees
<1>3. OneActive(t, gone)
  BY DEF Sound, OneActive, ActiveCardLease
<1>4. QED
  BY <1>1, <1>2, <1>3 DEF Sound, LeasesAgree, RecoveriesAgree

(* A claim adds a lease and an event of a fresh run where none is active.  *)
LEMMA ClaimIsSound ==
  ASSUME NEW s, NEW gone, NEW op \in Asked, Sound(s, gone), ClaimAllowed(s, gone, op)
  PROVE  Sound(ClaimEffect(s, op), gone)
<1> DEFINE t == ClaimEffect(s, op)
           l == [run |-> op.run, phase |-> "claimed", rev |-> op.rev, result |-> None]
           e == [key |-> op.key, phase |-> "claimed", rev |-> op.rev, result |-> None]
<1>1. /\ op.run \in Runs /\ op.key \in Keys /\ op.key[1] \in Cards
  BY DEF Asked, Op, Keys
<1>2. op.rev \in Contents
  BY <1>1 DEF Sound, Records, ClaimAllowed
<1>3. l \in Lease /\ e \in Event
  BY <1>1, <1>2 DEF Lease, Event, OpenPhases, Keys
<1>4. /\ t \in Records
      /\ t.lease = [s.lease EXCEPT ![op.key] = l]
      /\ t.event = [s.event EXCEPT ![op.run] = e]
      /\ t.recovery = s.recovery
  BY <1>1, <1>3 DEF Sound, Records, ClaimEffect
<1> HIDE DEF t
<1>5. t.lease[op.key] = l /\ t.event[op.run] = e /\ t.recovery[op.run] = None
  BY <1>1, <1>4 DEF Sound, Records, RecoveriesAgree, RecoveryAgrees, ClaimAllowed
<1>6. LeaseAgrees(t, op.key) /\ RecoveryAgrees(t, op.run)
  BY <1>3, <1>5, NoneIsFresh DEF LeaseAgrees, RecoveryAgrees
<1>7. /\ \A j \in Keys : j # op.key => t.lease[j] = s.lease[j]
      /\ \A q \in Runs : q # op.run => t.event[q] = s.event[q] /\ t.recovery[q] = s.recovery[q]
  BY <1>4 DEF Sound, Records
<1> HIDE DEF l, e
<1>8. s.event[op.run] = None /\ ~ActiveCardLease(s, gone, op.key[1]) /\ t \in Records
  BY <1>4 DEF ClaimAllowed
<1>9. Sound(t, gone)
  BY <1>1, <1>6, <1>7, <1>8, OneKeyOneRun
<1>10. QED
  BY <1>9 DEF t

(* What HoldsRun gives a transaction: the run's own lease and event.       *)
Held(s, op) ==
    /\ op.run \in Runs /\ op.key \in Keys /\ op.key[1] \in Cards
    /\ s.lease[op.key] # None
    /\ s.lease[op.key] \in Lease /\ s.lease[op.key].run = op.run
    /\ s.event[op.run] \in Event /\ s.event[op.run].key = op.key
    /\ s.event[op.run].phase = s.lease[op.key].phase
    /\ s.event[op.run].rev = s.lease[op.key].rev
    /\ s.event[op.run].result = s.lease[op.key].result

LEMMA HeldRun ==
  ASSUME NEW s, NEW gone, NEW op \in Asked, Sound(s, gone), HoldsRun(s, op.run, op.key)
  PROVE  Held(s, op)
<1>1. op.run \in Runs /\ op.key \in Keys /\ op.key[1] \in Cards
  BY DEF Asked, Op, Keys
<1>2. /\ s.lease[op.key] \in Lease /\ s.lease[op.key].run = op.run
      /\ s.event[op.run] \in Event /\ s.lease[op.key] # None
  BY <1>1 DEF Sound, Records, HoldsRun, OwnsLease, EventMatchesLease
<1>3. QED
  BY <1>1, <1>2 DEF Sound, LeasesAgree, LeaseAgrees, Held

(* A phase change writes the same phase into both files.                   *)
LEMMA PhaseIsSound ==
  ASSUME NEW s, NEW gone, NEW op \in Asked, Sound(s, gone),
         op.kind \in {"dispatched", "suppressed"}, PhaseAllowed(s, op)
  PROVE  Sound(PhaseEffect(s, op), gone)
<1> DEFINE t == PhaseEffect(s, op)
           l == [s.lease[op.key] EXCEPT !.phase = op.kind]
           e == [s.event[op.run] EXCEPT !.phase = op.kind]
<1>1. Held(s, op)
  BY HeldRun DEF PhaseAllowed
<1>2. l \in Lease /\ e \in Event
  BY <1>1 DEF Held, Lease, Event, OpenPhases
<1>3. /\ t \in Records
      /\ t.lease = [s.lease EXCEPT ![op.key] = l]
      /\ t.event = [s.event EXCEPT ![op.run] = e]
      /\ t.recovery = s.recovery
  BY <1>1, <1>2 DEF Held, Sound, Records, PhaseEffect
<1> HIDE DEF t
<1>4. t.lease[op.key] = l /\ t.event[op.run] = e /\ t.recovery[op.run] = None
  BY <1>1, <1>3 DEF Held, Sound, Records, RecoveriesAgree, RecoveryAgrees, PhaseAllowed
<1>5. LeaseAgrees(t, op.key) /\ RecoveryAgrees(t, op.run)
  <2>1. /\ l.run = op.run /\ e.key = op.key /\ e.phase = l.phase
        /\ e.rev = l.rev /\ e.result = l.result /\ e # None
    BY <1>1, <1>2, NoneIsFresh DEF Held, Lease, Event
  <2>2. LeaseAgrees(t, op.key)
    <3> HIDE DEF l, e
    <3>1. QED
      BY <1>4, <2>1 DEF LeaseAgrees
  <2>3. e.phase # "finalizing"
    BY <1>1 DEF Held, Event
  <2>4. RecoveryAgrees(t, op.run)
    BY <1>4, <2>3 DEF RecoveryAgrees
  <2>5. QED
    BY <2>2, <2>4
<1>6. /\ \A j \in Keys : j # op.key => t.lease[j] = s.lease[j]
      /\ \A q \in Runs : q # op.run => t.event[q] = s.event[q] /\ t.recovery[q] = s.recovery[q]
  BY <1>3 DEF Sound, Records
<1>7. s.lease[op.key] # None /\ t.lease[op.key].run = s.lease[op.key].run
  BY <1>1, <1>4 DEF Held, Lease
<1>8. t \in Records /\ op.run \in Runs /\ op.key \in Keys /\ s.event[op.run].key = op.key
  BY <1>1, <1>3 DEF Held
<1>9. Sound(t, gone)
  BY <1>5, <1>6, <1>7, <1>8, OneKeyOneRun
<1>10. QED
  BY <1>9 DEF t

(* A checkpoint writes one result into all three files.                    *)
LEMMA CheckpointIsSound ==
  ASSUME NEW s, NEW gone, NEW op \in Asked, Sound(s, gone),
         op.kind = "checkpoint", CheckpointAllowed(s, op)
  PROVE  Sound(CheckpointEffect(s, op), gone)
<1> DEFINE t == CheckpointEffect(s, op)
           l == [s.lease[op.key] EXCEPT !.phase = "finalizing", !.result = op.result]
           e == [s.event[op.run] EXCEPT !.phase = "finalizing", !.result = op.result]
           v == [key |-> op.key, rev |-> s.lease[op.key].rev, result |-> op.result]
<1>1. Held(s, op)
  BY HeldRun DEF CheckpointAllowed
<1>2. l \in Lease /\ e \in Event /\ v \in Recovery
  BY <1>1 DEF Held, Lease, Event, Recovery, OpenPhases, Asked
<1>3. /\ t \in Records
      /\ t.lease = [s.lease EXCEPT ![op.key] = l]
      /\ t.event = [s.event EXCEPT ![op.run] = e]
      /\ t.recovery = [s.recovery EXCEPT ![op.run] = v]
  <2>1. s \in Records /\ op.run \in Runs /\ op.key \in Keys
    BY <1>1 DEF Held, Sound
  <2>2. t = [s EXCEPT !.recovery[op.run] = v, !.lease[op.key] = l, !.event[op.run] = e]
    BY <2>1 DEF Records, CheckpointEffect
  <2> HIDE DEF t, l, e, v
  <2>3. QED
    BY <1>2, <2>1, <2>2 DEF Records
<1> HIDE DEF t
<1>4. t.lease[op.key] = l /\ t.event[op.run] = e /\ t.recovery[op.run] = v
  BY <1>1, <1>3 DEF Held, Sound, Records
<1>5. LeaseAgrees(t, op.key) /\ RecoveryAgrees(t, op.run)
  <2>1. /\ l.run = op.run /\ e.key = op.key /\ e.phase = l.phase
        /\ e.rev = l.rev /\ e.result = l.result /\ e # None
    BY <1>1, <1>2, NoneIsFresh DEF Held, Lease, Event
  <2>2. LeaseAgrees(t, op.key)
    <3> HIDE DEF l, e
    <3>1. QED
      BY <1>4, <2>1 DEF LeaseAgrees
  <2>3. /\ e.phase = "finalizing" /\ v # None
        /\ v.key = e.key /\ v.rev = e.rev /\ v.result = e.result
    BY <1>1, <1>2, NoneIsFresh DEF Held, Event
  <2>4. RecoveryAgrees(t, op.run)
    BY <1>4, <2>1, <2>3 DEF RecoveryAgrees
  <2>5. QED
    BY <2>2, <2>4
<1>6. /\ \A j \in Keys : j # op.key => t.lease[j] = s.lease[j]
      /\ \A q \in Runs : q # op.run => t.event[q] = s.event[q] /\ t.recovery[q] = s.recovery[q]
  BY <1>3 DEF Sound, Records
<1>7. s.lease[op.key] # None /\ t.lease[op.key].run = s.lease[op.key].run
  BY <1>1, <1>4 DEF Held, Lease
<1>8. t \in Records /\ op.run \in Runs /\ op.key \in Keys /\ s.event[op.run].key = op.key
  BY <1>1, <1>3 DEF Held
<1>9. Sound(t, gone)
  BY <1>5, <1>6, <1>7, <1>8, OneKeyOneRun
<1>10. QED
  BY <1>9 DEF t

(* Finalizing, releasing and reconciling take the lease away.              *)
LEMMA FinalizeIsSound ==
  ASSUME NEW s, NEW gone, NEW op \in Asked, Sound(s, gone), FinalizeAllowed(s, op)
  PROVE  Sound(FinalizeEffect(s, op), gone)
<1> DEFINE t == FinalizeEffect(s, op)
           e == [s.event[op.run] EXCEPT !.phase = "finalized"]
<1>1. Held(s, op)
  BY HeldRun DEF FinalizeAllowed
<1>2. e \in Event
  BY <1>1 DEF Held, Event, TerminalPhases
<1>3. s.recovery[op.run].result.content \in Contents
  BY <1>1 DEF Held, Sound, Records, Recovery, Results, FinalizeAllowed
<1>4. /\ t \in Records
      /\ t.lease = [s.lease EXCEPT ![op.key] = None]
      /\ t.event = [s.event EXCEPT ![op.run] = e]
      /\ t.recovery = [s.recovery EXCEPT ![op.run] = None]
  BY <1>1, <1>2, <1>3 DEF Held, Sound, Records, FinalizeEffect
<1> HIDE DEF t
<1>5. t.lease[op.key] = None /\ t.event[op.run] = e /\ t.recovery[op.run] = None
  BY <1>1, <1>4 DEF Held, Sound, Records
<1>6. LeaseAgrees(t, op.key) /\ RecoveryAgrees(t, op.run)
  BY <1>1, <1>5 DEF Held, LeaseAgrees, RecoveryAgrees, Event
<1>7. /\ \A j \in Keys : j # op.key => t.lease[j] = s.lease[j]
      /\ \A q \in Runs : q # op.run => t.event[q] = s.event[q] /\ t.recovery[q] = s.recovery[q]
  BY <1>4 DEF Sound, Records
<1>8. t \in Records /\ op.run \in Runs /\ op.key \in Keys /\ s.event[op.run].key = op.key
  BY <1>1, <1>4 DEF Held
<1>9. Sound(t, gone)
  BY <1>5, <1>6, <1>7, <1>8, OneKeyOneRun
<1>10. QED
  BY <1>9 DEF t

LEMMA ReleaseIsSound ==
  ASSUME NEW s, NEW gone, NEW op \in Asked, Sound(s, gone), ReleaseAllowed(s, op)
  PROVE  Sound(ReleaseEffect(s, op), gone)
<1> DEFINE t == ReleaseEffect(s, op)
           e == [s.event[op.run] EXCEPT !.phase = "released"]
<1>1. Held(s, op)
  BY HeldRun DEF ReleaseAllowed
<1>2. e \in Event
  BY <1>1 DEF Held, Event, TerminalPhases
<1>3. /\ t \in Records
      /\ t.lease = [s.lease EXCEPT ![op.key] = None]
      /\ t.event = [s.event EXCEPT ![op.run] = e]
      /\ t.recovery = s.recovery
  BY <1>1, <1>2 DEF Held, Sound, Records, ReleaseEffect
<1> HIDE DEF t
<1>4. t.lease[op.key] = None /\ t.event[op.run] = e /\ t.recovery[op.run] = None
  BY <1>1, <1>3 DEF Held, Sound, Records, ReleaseAllowed
<1>5. LeaseAgrees(t, op.key) /\ RecoveryAgrees(t, op.run)
  BY <1>1, <1>4 DEF Held, LeaseAgrees, RecoveryAgrees, Event
<1>6. /\ \A j \in Keys : j # op.key => t.lease[j] = s.lease[j]
      /\ \A q \in Runs : q # op.run => t.event[q] = s.event[q] /\ t.recovery[q] = s.recovery[q]
  BY <1>3 DEF Sound, Records
<1> HIDE DEF e
<1>7. t \in Records /\ op.run \in Runs /\ op.key \in Keys /\ s.event[op.run].key = op.key
  BY <1>1, <1>3 DEF Held
<1>8. Sound(t, gone)
  BY <1>4, <1>5, <1>6, <1>7, OneKeyOneRun
<1>9. QED
  BY <1>8 DEF t

LEMMA ReconcileIsSound ==
  ASSUME NEW s, NEW gone, NEW op \in Asked, Sound(s, gone), ReconcileAllowed(s, gone, op)
  PROVE  Sound(ReconcileEffect(s, op), gone)
<1> DEFINE t == ReconcileEffect(s, op)
<1>1. op.run \in Runs /\ op.key \in Keys /\ op.key[1] \in Cards
  BY DEF Asked, Op, Keys
<1>2. s.event[op.run].key = op.key
  BY <1>1 DEF Sound, LeasesAgree, LeaseAgrees, ReconcileAllowed, OwnsLease
<1>3. /\ t \in Records
      /\ t.lease = [s.lease EXCEPT ![op.key] = None]
      /\ t.event = s.event
      /\ t.recovery = s.recovery
  BY <1>1, ParkedIsContent DEF Sound, Records, ReconcileEffect
<1> HIDE DEF t
<1>4. t.lease[op.key] = None
  BY <1>1, <1>3 DEF Sound, Records
<1>5. LeaseAgrees(t, op.key) /\ RecoveryAgrees(t, op.run)
  BY <1>1, <1>3, <1>4 DEF LeaseAgrees, RecoveryAgrees, Sound, RecoveriesAgree
<1>6. \A j \in Keys : j # op.key => t.lease[j] = s.lease[j]
  BY <1>3 DEF Sound, Records
<1>7. Sound(t, gone)
  BY <1>1, <1>2, <1>3, <1>4, <1>5, <1>6, OneKeyOneRun
<1>8. QED
  BY <1>7 DEF t

(* Whatever lands on the tip it was checked against leaves sound records.  *)
LEMMA EffectIsSound ==
  ASSUME NEW s, NEW gone, NEW op \in Asked, Sound(s, gone), Allowed(s, gone, op)
  PROVE  Sound(Effect(s, op), gone)
<1>1. op.kind \in Kinds
  BY DEF Asked, Op
<1>2. CASE op.kind = "claim"
  BY <1>2, ClaimIsSound DEF Allowed, Effect
<1>3. CASE op.kind \in {"dispatched", "suppressed"}
  BY <1>3, PhaseIsSound DEF Allowed, Effect
<1>4. CASE op.kind = "checkpoint"
  BY <1>4, CheckpointIsSound DEF Allowed, Effect
<1>5. CASE op.kind = "finalize"
  BY <1>5, FinalizeIsSound DEF Allowed, Effect
<1>6. CASE op.kind = "release"
  BY <1>6, ReleaseIsSound DEF Allowed, Effect
<1>7. CASE op.kind = "reconcile"
  BY <1>7, ReconcileIsSound DEF Allowed, Effect
<1>8. QED
  BY <1>1, <1>2, <1>3, <1>4, <1>5, <1>6, <1>7 DEF Kinds

-----------------------------------------------------------------------------
(* The compare-and-swap: a transaction that is at its push, or whose push  *)
(* is still on its way, is allowed on the tip as long as the tip is the    *)
(* one it fetched.                                                         *)
SafeTx(s, gone, x) ==
    /\ x.state # "idle" => x.op \in Asked
    /\ x.state = "push" /\ x.tip => Allowed(s, gone, x.op)

SafeSent(s, gone, op) ==
    op # None => op \in Asked /\ Allowed(s, gone, op)

SafePushes ==
    \A w \in Workers : SafeTx(upstream, expired, tx[w]) /\ SafeSent(upstream, expired, sent[w])

IInv == TypeOK /\ Sound(upstream, expired) /\ SafePushes

(* A repository in which the loop has not run is sound.                    *)
LEMMA FreshIsSound ==
  ASSUME NEW cards \in [Cards -> Contents \cup {None}]
  PROVE  Sound(FreshRecords(cards), {})
<1>1. FreshRecords(cards) \in Records
  BY DEF FreshRecords, Records
<1>2. /\ LeasesAgree(FreshRecords(cards))
      /\ OneActive(FreshRecords(cards), {})
  BY DEF FreshRecords, LeasesAgree, LeaseAgrees, OneActive
<1>3. RecoveriesAgree(FreshRecords(cards))
  BY DEF FreshRecords, RecoveriesAgree, RecoveryAgrees
<1>4. QED
  BY <1>1, <1>2, <1>3 DEF Sound

(* Time only takes leases out of force, so it refutes no check.            *)
LEMMA TimePasses ==
  ASSUME NEW s, NEW gone, NEW r
  PROVE  /\ Sound(s, gone) => Sound(s, gone \cup {r})
         /\ \A op \in Asked : Allowed(s, gone, op) => Allowed(s, gone \cup {r}, op)
<1>1. Sound(s, gone) => Sound(s, gone \cup {r})
  BY DEF Sound, OneActive
<1>2. \A c : ~ActiveCardLease(s, gone, c) => ~ActiveCardLease(s, gone \cup {r}, c)
  BY DEF ActiveCardLease
<1>3. ASSUME NEW op \in Asked, Allowed(s, gone, op)
      PROVE  Allowed(s, gone \cup {r}, op)
  <2>1. op.kind \in Kinds
    BY DEF Asked, Op
  <2>2. CASE op.kind = "claim"
    BY <1>2, <1>3, <2>2 DEF Allowed, ClaimAllowed
  <2>3. CASE op.kind = "reconcile"
    BY <1>2, <1>3, <2>3 DEF Allowed, ReconcileAllowed
  <2>4. CASE op.kind \in Kinds \ {"claim", "reconcile"}
    BY <1>3, <2>4 DEF Allowed, Kinds
  <2>5. QED
    BY <2>1, <2>2, <2>3, <2>4
<1>4. QED
  BY <1>1, <1>3

(* People edit card files and STOP, which no record invariant reads.       *)
LEMMA OthersAreSound ==
  ASSUME NEW s, NEW gone, NEW t, Sound(s, gone), t \in Records,
         t.lease = s.lease, t.event = s.event, t.recovery = s.recovery
  PROVE  Sound(t, gone)
BY DEF Sound, LeasesAgree, LeaseAgrees, RecoveriesAgree, RecoveryAgrees, OneActive

(* An attempt that goes on to push has just checked the tip.               *)
LEMMA AttemptIsSafe ==
  ASSUME NEW op \in Asked, NEW n \in Nat, NEW headOk \in BOOLEAN
  PROVE  /\ Attempted(op, n, headOk) \in Tx
         /\ SafeTx(upstream, expired, Attempted(op, n, headOk))
<1>1. op \in Op
  BY DEF Asked
<1>2. Idle \in Tx /\ SafeTx(upstream, expired, Idle)
  BY DEF Idle, Tx, TxStates, SafeTx
<1>3. Pushing(op, n) \in Tx
  BY <1>1 DEF Pushing, Tx, TxStates
<1>4. Allowed(upstream, expired, op) => SafeTx(upstream, expired, Pushing(op, n))
  BY DEF Pushing, SafeTx
<1>5. AttemptFate(op, headOk) = "push" => Allowed(upstream, expired, op)
  BY DEF AttemptFate
<1>6. QED
  BY <1>2, <1>3, <1>4, <1>5 DEF Attempted

(* When the tip has moved, no fetched tip is current.                      *)
LEMMA MovedIsSafe ==
  ASSUME TypeOK, SafePushes, NEW s, NEW gone, NEW w \in Workers
  PROVE  TxMoved[w] \in Tx /\ SafeTx(s, gone, TxMoved[w])
BY DEF TypeOK, SafePushes, TxMoved, Tx, SafeTx

LEMMA AnswerIsSafe ==
  ASSUME TypeOK, SafePushes, NEW s, NEW gone, NEW w \in Workers, NEW seen \in Answers,
         tx[w].state = "push"
  PROVE  Answered(w, seen) \in Tx /\ SafeTx(s, gone, Answered(w, seen))
<1>1. Idle \in Tx /\ SafeTx(s, gone, Idle)
  BY DEF Idle, Tx, TxStates, SafeTx
<1>2. tx[w] \in Tx /\ tx[w].op \in Asked
  BY DEF TypeOK, SafePushes, SafeTx
<1>3. LET x == [tx[w] EXCEPT !.state = "retry", !.tip = FALSE]
      IN  x \in Tx /\ SafeTx(s, gone, x)
  BY <1>2 DEF Tx, TxStates, SafeTx
<1>4. QED
  BY <1>1, <1>3 DEF Answered

-----------------------------------------------------------------------------
(* The four kinds of step: upstream stays and one worker moves on; a push  *)
(* lands; someone else commits; a lease expires.                           *)
LEMMA WorkerMoves ==
  ASSUME IInv, NEW w \in Workers, NEW x \in Tx, NEW y \in Op \cup {None},
         SafeTx(upstream, expired, x), SafeSent(upstream, expired, y),
         tx' = [tx EXCEPT ![w] = x], sent' = [sent EXCEPT ![w] = y],
         UNCHANGED <<upstream, expired>>
  PROVE  IInv'
<1>1. TypeOK'
  BY DEF IInv, TypeOK
<1>2. SafePushes'
  BY DEF IInv, TypeOK, SafePushes
<1>3. Sound(upstream, expired)'
  BY DEF IInv
<1>4. QED
  BY <1>1, <1>2, <1>3 DEF IInv

LEMMA SomeoneCommits ==
  ASSUME IInv, NEW f \in [Workers -> Tx], upstream' \in Records, Sound(upstream', expired),
         \A w \in Workers : SafeTx(upstream', expired, f[w]),
         tx' = f, sent' = NoneSent, UNCHANGED expired
  PROVE  IInv'
<1>1. TypeOK'
  BY DEF IInv, TypeOK, NoneSent
<1>2. SafePushes'
  BY DEF SafePushes, SafeSent, NoneSent
<1>3. QED
  BY <1>1, <1>2 DEF IInv

LEMMA PushCommits ==
  ASSUME IInv, NEW w \in Workers, NEW op \in Asked, Allowed(upstream, expired, op),
         NEW f \in [Workers -> Tx], \A v \in Workers : SafeTx(Effect(upstream, op), expired, f[v]),
         upstream' = Effect(upstream, op), tx' = f, sent' = NoneSent, UNCHANGED expired
  PROVE  IInv'
<1>1. Sound(upstream', expired)
  BY EffectIsSound DEF IInv
<1>2. QED
  BY <1>1, SomeoneCommits DEF Sound

LEMMA HumanCommits ==
  ASSUME IInv, NEW next \in Records, HumanCommit(next),
         next.lease = upstream.lease, next.event = upstream.event,
         next.recovery = upstream.recovery
  PROVE  IInv'
<1>1. Sound(next, expired)
  BY OthersAreSound DEF IInv
<1>2. TxMoved \in [Workers -> Tx] /\ \A w \in Workers : SafeTx(next, expired, TxMoved[w])
  <2>1. \A w \in Workers : TxMoved[w] \in Tx /\ SafeTx(next, expired, TxMoved[w])
    BY MovedIsSafe DEF IInv
  <2>2. QED
    BY <2>1 DEF TxMoved
<1>3. QED
  BY <1>1, <1>2, SomeoneCommits DEF HumanCommit

LEMMA Invariance == IInv /\ [Next]_txVars => IInv'
<1> SUFFICES ASSUME IInv, [Next]_txVars
             PROVE  IInv'
  OBVIOUS
<1>0. \A w \in Workers :
        /\ tx[w] \in Tx /\ sent[w] \in Op \cup {None}
        /\ SafeTx(upstream, expired, tx[w]) /\ SafeSent(upstream, expired, sent[w])
  BY DEF IInv, TypeOK, SafePushes
<1>s. \A w \in Workers : sent = [sent EXCEPT ![w] = sent[w]]
  BY DEF IInv, TypeOK
<1>t. \A w \in Workers : tx = [tx EXCEPT ![w] = tx[w]]
  BY DEF IInv, TypeOK
<1>i. Idle \in Tx /\ SafeTx(upstream, expired, Idle)
  BY DEF Idle, Tx, TxStates, SafeTx
<1>1. ASSUME NEW w \in Workers, NEW op \in Ops, Call(w, op, TRUE)
      PROVE  IInv'
  BY <1>0, <1>1, <1>s, OpsAreAsked, AttemptIsSafe, WorkerMoves DEF Call
<1>2. ASSUME NEW w \in Workers, Retry(w, TRUE)
      PROVE  IInv'
  <2>1. tx[w].op \in Asked /\ tx[w].tries + 1 \in Nat
    BY <1>0, <1>2 DEF Retry, SafeTx, Tx
  <2>2. QED
    BY <1>0, <1>2, <1>s, <2>1, AttemptIsSafe, WorkerMoves DEF Retry
<1>3. ASSUME NEW w \in Workers, NEW seen \in Answers, PushLands(w, seen)
      PROVE  IInv'
  <2>1. tx[w].op \in Asked /\ Allowed(upstream, expired, tx[w].op)
    BY <1>0, <1>3 DEF PushLands, SafeTx
  <2>2. \A v \in Workers : /\ tx'[v] \in Tx
                           /\ SafeTx(Effect(upstream, tx[w].op), expired, tx'[v])
    BY <1>3, MovedIsSafe, AnswerIsSafe DEF IInv, PushLands, TxMoved
  <2>3. tx' \in [Workers -> Tx]
    BY <1>3, <2>2 DEF PushLands, TxMoved
  <2>4. QED
    BY <1>3, <2>1, <2>2, <2>3, PushCommits DEF PushLands
<1>4. ASSUME NEW w \in Workers, NEW seen \in Answers, PushFails(w, seen)
      PROVE  IInv'
  BY <1>0, <1>4, <1>s, AnswerIsSafe, WorkerMoves DEF IInv, PushFails
<1>5. ASSUME NEW w \in Workers, PushOutstanding(w)
      PROVE  IInv'
  <2>1. tx[w].op \in Op /\ SafeSent(upstream, expired, tx[w].op)
    BY <1>0, <1>5 DEF PushOutstanding, SafeTx, SafeSent, Asked
  <2>2. QED
    BY <1>5, <1>i, <2>1, WorkerMoves DEF PushOutstanding
<1>6. ASSUME NEW w \in Workers, LateLands(w)
      PROVE  IInv'
  <2>1. sent[w] \in Asked /\ Allowed(upstream, expired, sent[w])
    BY <1>0, <1>6 DEF LateLands, SafeSent
  <2>2. \A v \in Workers : /\ TxMoved[v] \in Tx
                           /\ SafeTx(Effect(upstream, sent[w]), expired, TxMoved[v])
    BY MovedIsSafe DEF IInv
  <2>3. TxMoved \in [Workers -> Tx]
    BY <2>2 DEF TxMoved
  <2>4. QED
    BY <1>6, <2>1, <2>2, <2>3, PushCommits DEF LateLands
<1>7. ASSUME NEW w \in Workers, LateLost(w)
      PROVE  IInv'
  BY <1>0, <1>7, <1>t, WorkerMoves DEF LateLost, SafeSent
<1>8. ASSUME NEW w \in Workers, Timeout(w)
      PROVE  IInv'
  BY <1>0, <1>8, <1>i, <1>s, WorkerMoves DEF Timeout
<1>9. ASSUME NEW w \in Workers, TxCrash(w)
      PROVE  IInv'
  <2>1. CASE UNCHANGED sent
    BY <1>0, <1>9, <1>i, <1>s, <2>1, WorkerMoves DEF TxCrash
  <2>2. CASE /\ tx[w].state = "push" /\ tx[w].tip
             /\ sent' = [sent EXCEPT ![w] = tx[w].op]
    <3>1. tx[w].op \in Op /\ SafeSent(upstream, expired, tx[w].op)
      BY <1>0, <2>2 DEF SafeTx, SafeSent, Asked
    <3>2. QED
      BY <1>9, <1>i, <2>2, <3>1, WorkerMoves DEF TxCrash
  <2>3. QED
    BY <1>9, <2>1, <2>2 DEF TxCrash
<1>10. ASSUME NEW c \in Cards, NEW v \in Edits, EditCard(c, v)
       PROVE  IInv'
  <2>1. v \in Contents \cup {None}
    BY EnvironmentBounds
  <2>2. LET next == [upstream EXCEPT !.card[c] = v]
        IN  /\ next \in Records /\ next.lease = upstream.lease
            /\ next.event = upstream.event /\ next.recovery = upstream.recovery
    BY <2>1 DEF IInv, Sound, Records
  <2>3. QED
    BY <1>10, <2>2, HumanCommits DEF EditCard
<1>11. ASSUME NEW b \in Stops, SetStop(b)
       PROVE  IInv'
  <2>1. b \in BOOLEAN
    BY EnvironmentBounds
  <2>2. LET next == [upstream EXCEPT !.stop = b]
        IN  /\ next \in Records /\ next.lease = upstream.lease
            /\ next.event = upstream.event /\ next.recovery = upstream.recovery
    BY <2>1 DEF IInv, Sound, Records
  <2>3. QED
    BY <1>11, <2>2, HumanCommits DEF SetStop
<1>12. ASSUME NEW r \in Runs, LeaseExpires(r)
       PROVE  IInv'
  <2>1. TypeOK'
    BY <1>12 DEF IInv, TypeOK, LeaseExpires
  <2>2. SafePushes'
    BY <1>0, <1>12, TimePasses DEF LeaseExpires, SafePushes, SafeTx, SafeSent
  <2>3. Sound(upstream, expired)'
    BY <1>12, TimePasses DEF IInv, LeaseExpires
  <2>4. QED
    BY <2>1, <2>2, <2>3 DEF IInv
<1>13. CASE UNCHANGED txVars
  BY <1>13 DEF txVars, IInv, TypeOK, SafePushes
<1>14. QED
  BY <1>1, <1>2, <1>3, <1>4, <1>5, <1>6, <1>7, <1>8, <1>9, <1>10, <1>11, <1>12, <1>13
  DEF Next, TxStep, Environment

(* The records are sound and every push is safe, whatever the workers ask, *)
(* whichever pushes are lost, delayed or answered wrongly, and whoever     *)
(* dies (runIsolatedTransaction and the six transactions on it).           *)
THEOREM Inductive == Spec => []IInv
<1>1. Init => IInv
  <2>1. ASSUME NEW cards \in [Cards -> Contents \cup {None}], TxInit(cards)
        PROVE  IInv
    <3>1. TypeOK
      BY <2>1, FreshIsSound DEF TxInit, TypeOK, Sound, Idle, Tx, TxStates
    <3>2. SafePushes
      BY <2>1 DEF TxInit, SafePushes, SafeTx, SafeSent, Idle
    <3>3. QED
      BY <2>1, <3>1, <3>2, FreshIsSound DEF TxInit, IInv
  <2>2. QED
    BY <2>1 DEF Init
<1>2. QED
  BY <1>1, Invariance, PTL DEF Spec

(* Type correctness of the records, the transactions and the late pushes.  *)
THEOREM TypeCorrect == Spec => []TypeOK
BY Inductive, PTL DEF IInv

(* Two claims of one card are never both in force (findActiveCardLease and *)
(* --force-with-lease together).                                           *)
THEOREM LeaseExclusion == Spec => []OneActiveLease
<1>1. IInv => OneActiveLease
  BY DEF IInv, Sound, OneActive, OneActiveLease
<1>2. QED
  BY <1>1, Inductive, PTL

(* Every lease file agrees with the event of the live run it names.        *)
THEOREM LeaseAgreement == Spec => []LeaseMatchesEvent
<1>1. IInv => LeaseMatchesEvent
  BY DEF IInv, Sound, LeasesAgree, LeaseAgrees, LeaseMatchesEvent
<1>2. QED
  BY <1>1, Inductive, PTL

(* A recovery record exists exactly while its run is finalizing, and holds *)
(* what its event was checkpointed with.                                   *)
THEOREM RecoveryAgreement == Spec => []RecoveryMatchesEvent
<1>1. ASSUME IInv, NEW r \in Runs
      PROVE  LET e == upstream.event[r]
                 v == upstream.recovery[r]
             IN  /\ (v # None) <=> (e # None /\ e.phase = "finalizing")
                 /\ v # None => v = [key |-> e.key, rev |-> e.rev, result |-> e.result]
  <2>1. RecoveryAgrees(upstream, r) /\ upstream.recovery[r] \in Recovery \cup {None}
    BY <1>1 DEF IInv, Sound, Records, RecoveriesAgree
  <2>2. QED
    BY <2>1 DEF RecoveryAgrees, Recovery
<1>2. IInv => RecoveryMatchesEvent
  BY <1>1 DEF RecoveryMatchesEvent
<1>3. QED
  BY <1>2, Inductive, PTL

-----------------------------------------------------------------------------
(* What one commit may do to the checkpoint v of a run.                    *)
Kept(s, t, r) ==
    s.recovery[r] # None =>
      \/ t.recovery[r] = s.recovery[r]
      \/ /\ t.recovery[r] = None
         /\ t.event[r].phase = "finalized"
         /\ t.lease[s.recovery[r].key] = None
         /\ s.card[s.recovery[r].key[1]] = s.recovery[r].rev
         /\ t.card[s.recovery[r].key[1]] = s.recovery[r].result.content

LEMMA EffectKeepsCheckpoint ==
  ASSUME NEW s, NEW gone, NEW op \in Asked, Sound(s, gone), Allowed(s, gone, op),
         NEW r \in Runs
  PROVE  Kept(s, Effect(s, op), r)
<1>1. op.kind \in Kinds
  BY DEF Asked, Op
<1>2. CASE op.kind = "claim"
  BY <1>2 DEF Effect, ClaimEffect, Kept, Sound, Records
<1>3. CASE op.kind \in {"dispatched", "suppressed"}
  BY <1>3 DEF Effect, PhaseEffect, Kept, Sound, Records
<1>4. CASE op.kind = "checkpoint"
  <2>1. s.recovery[op.run] = None
    BY <1>4 DEF Allowed, CheckpointAllowed
  <2>2. QED
    BY <1>4, <2>1 DEF Effect, CheckpointEffect, Kept, Sound, Records
<1>5. CASE op.kind = "finalize"
  <2>1. FinalizeAllowed(s, op)
    BY <1>5 DEF Allowed
  <2>2. Held(s, op)
    BY <2>1, HeldRun DEF FinalizeAllowed
  <2>3. CASE r = op.run
    BY <1>5, <2>1, <2>2, <2>3
    DEF FinalizeAllowed, Held, Effect, FinalizeEffect, Kept, Sound, Records, Event
  <2>4. CASE r # op.run
    BY <1>5, <2>4 DEF Effect, FinalizeEffect, Kept, Sound, Records
  <2>5. QED
    BY <2>3, <2>4
<1>6. CASE op.kind = "release"
  BY <1>6 DEF Effect, ReleaseEffect, Kept, Sound, Records
<1>7. CASE op.kind = "reconcile"
  BY <1>7 DEF Effect, ReconcileEffect, Kept, Sound, Records
<1>8. QED
  BY <1>1, <1>2, <1>3, <1>4, <1>5, <1>6, <1>7 DEF Kinds

(* Who moves the tip: a push that is allowed on it, or someone else's      *)
(* commit to a card file or to STOP.                                       *)
LEMMA WhoCommits ==
  ASSUME IInv, Next
  PROVE  \/ UNCHANGED upstream
         \/ \E op \in Asked : Allowed(upstream, expired, op) /\ upstream' = Effect(upstream, op)
         \/ \E c \in Cards, v \in Contents \cup {None} : upstream' = [upstream EXCEPT !.card[c] = v]
         \/ \E b \in BOOLEAN : upstream' = [upstream EXCEPT !.stop = b]
<1>1. ASSUME NEW w \in Workers, TxStep(w)
      PROVE  \/ UNCHANGED upstream
             \/ \E op \in Asked : Allowed(upstream, expired, op) /\ upstream' = Effect(upstream, op)
  <2>1. SafeTx(upstream, expired, tx[w]) /\ SafeSent(upstream, expired, sent[w])
    BY DEF IInv, SafePushes
  <2>2. QED
    BY <1>1, <2>1 DEF TxStep, Retry, PushLands, PushFails, PushOutstanding, LateLands, LateLost,
       Timeout, SafeTx, SafeSent
<1>2. ASSUME Environment
      PROVE  \/ UNCHANGED upstream
             \/ \E c \in Cards, v \in Contents \cup {None} : upstream' = [upstream EXCEPT !.card[c] = v]
             \/ \E b \in BOOLEAN : upstream' = [upstream EXCEPT !.stop = b]
  BY <1>2, EnvironmentBounds DEF Environment, EditCard, SetStop, LeaseExpires, HumanCommit
<1>3. QED
  BY <1>1, <1>2 DEF Next, Call, TxCrash

(* Only the finalizing commit of its own run consumes a checkpoint.        *)
THEOREM CheckpointKept == Spec => CheckpointSurvives
<1>1. ASSUME IInv, Next, NEW r \in Runs
      PROVE  Kept(upstream, upstream', r)
  <2>1. ASSUME NEW op \in Asked, Allowed(upstream, expired, op), upstream' = Effect(upstream, op)
        PROVE  Kept(upstream, upstream', r)
    BY <1>1, <2>1, EffectKeepsCheckpoint DEF IInv
  <2>2. ASSUME upstream'.recovery = upstream.recovery
        PROVE  Kept(upstream, upstream', r)
    BY <2>2 DEF Kept
  <2>3. QED
    BY <1>1, <2>1, <2>2, WhoCommits DEF IInv, Sound, Records
<1>2. IInv /\ [Next]_txVars =>
        [\A r \in Runs : LET v == upstream.recovery[r] IN
          v # None =>
            \/ upstream'.recovery[r] = v
            \/ /\ upstream'.recovery[r] = None
               /\ upstream'.event[r].phase = "finalized"
               /\ upstream'.lease[v.key] = None
               /\ upstream.card[v.key[1]] = v.rev
               /\ upstream'.card[v.key[1]] = v.result.content]_txVars
  BY <1>1 DEF Kept
<1>3. QED
  BY <1>2, Inductive, PTL DEF Spec, CheckpointSurvives

-----------------------------------------------------------------------------
(* The refinement.                                                         *)
Lives(s) == [r \in Runs |-> LifeOf(s.event[r])]

LEMMA LivesAreLives ==
  ASSUME NEW e \in Event
  PROVE  LifeOf(e) # None /\ LifeOf(e) = [phase |-> e.phase, card |-> e.key[1], rev |-> e.rev,
                                          result |-> e.result]
<1>1. [phase |-> e.phase, card |-> e.key[1], rev |-> e.rev, result |-> e.result] \in Lifecycle!Life
  BY DEF Event, Keys, OpenPhases, TerminalPhases, Results, Lifecycle!Life, Lifecycle!Phases,
     Lifecycle!Results
<1>2. QED
  BY <1>1, LifeIsFresh, NoneIsFresh DEF LifeOf

LEMMA LifeChanges ==
  ASSUME NEW s, NEW t, NEW r \in Runs, NEW e, s \in Records, t.event = [s.event EXCEPT ![r] = e]
  PROVE  Lives(t) = [Lives(s) EXCEPT ![r] = LifeOf(e)]
BY DEF Lives, Records

(* Every transaction, when it lands, is the abstract operation of its name *)
(* on the life of its run; reconciliation edits a card.                    *)
LEMMA EffectRefines ==
  ASSUME NEW op \in Asked, Sound(upstream, expired), Allowed(upstream, expired, op),
         upstream' = Effect(upstream, op)
  PROVE  Lifecycle!Next
<1> DEFINE r == op.run
           c == op.key[1]
           life == Lives(upstream)
           old == upstream.event[r]
<1>0. upstream \in Records
  BY DEF Sound
<1>1. op.kind \in Kinds /\ op.run \in Runs /\ op.key \in Keys /\ c \in Cards
  BY DEF Asked, Op, Keys
<1>2. CASE op.kind = "claim"
  <2> DEFINE e == [key |-> op.key, phase |-> "claimed", rev |-> op.rev, result |-> None]
  <2>1. ClaimAllowed(upstream, expired, op) /\ upstream' = ClaimEffect(upstream, op)
    BY <1>2 DEF Allowed, Effect
  <2>2. /\ upstream'.event = [upstream.event EXCEPT ![r] = e]
        /\ upstream'.card = upstream.card
    BY <2>1 DEF ClaimEffect, Sound, Records
  <2>3. Lives(upstream') = [life EXCEPT ![r] = LifeOf(e)]
    <3> HIDE DEF e
    <3>1. QED
      BY <1>0, <1>1, <2>2, LifeChanges
  <2>4. e # None
    BY <1>1, <2>1, NoneIsFresh DEF ClaimAllowed, Sound, Records, Event, OpenPhases
  <2>5. LifeOf(e) = [phase |-> "claimed", card |-> c, rev |-> upstream.card[c], result |-> None]
    BY <2>1, <2>4 DEF LifeOf, ClaimAllowed
  <2>6. life[r] = None /\ upstream.card[c] # None
    BY <1>1, <2>1 DEF ClaimAllowed, Lives, LifeOf
  <2>7. Lifecycle!Claim(r, c)
    BY <2>2, <2>3, <2>5, <2>6 DEF Lifecycle!Claim, Lives
  <2>8. QED
    BY <1>1, <2>7 DEF Lifecycle!Next
<1>3. CASE op.kind \in {"dispatched", "suppressed"}
  <2> DEFINE e == [old EXCEPT !.phase = op.kind]
  <2>1. PhaseAllowed(upstream, op) /\ upstream' = PhaseEffect(upstream, op)
    BY <1>3 DEF Allowed, Effect
  <2>2. Held(upstream, op)
    BY <2>1, HeldRun DEF PhaseAllowed
  <2>3. /\ upstream'.event = [upstream.event EXCEPT ![r] = e]
        /\ upstream'.card = upstream.card
    BY <2>1 DEF PhaseEffect, Sound, Records
  <2>4. Lives(upstream') = [life EXCEPT ![r] = LifeOf(e)]
    BY <1>0, <1>1, <2>3, LifeChanges
  <2>5. e \in Event /\ old \in Event /\ old.phase = "claimed"
    BY <1>3, <2>1, <2>2 DEF Held, Event, OpenPhases, PhaseAllowed
  <2>6. LifeOf(e) = [LifeOf(old) EXCEPT !.phase = op.kind]
    BY <2>5, LivesAreLives DEF Event
  <2>7. life[r] # None /\ life[r].phase = "claimed"
    BY <1>1, <2>5, LivesAreLives DEF Lives
  <2>8. Lifecycle!Mark(r, op.kind)
    BY <1>1, <2>3, <2>4, <2>6, <2>7 DEF Lifecycle!Mark, Lives
  <2>9. QED
    BY <1>1, <1>3, <2>8 DEF Lifecycle!Next
<1>4. CASE op.kind = "checkpoint"
  <2> DEFINE e == [old EXCEPT !.phase = "finalizing", !.result = op.result]
  <2>1. CheckpointAllowed(upstream, op) /\ upstream' = CheckpointEffect(upstream, op)
    BY <1>4 DEF Allowed, Effect
  <2>2. Held(upstream, op) /\ op.result \in Results
    BY <1>4, <2>1, HeldRun DEF CheckpointAllowed, Asked
  <2>3. /\ upstream'.event = [upstream.event EXCEPT ![r] = e]
        /\ upstream'.card = upstream.card
    BY <1>1, <2>1 DEF CheckpointEffect, Sound, Records
  <2>4. Lives(upstream') = [life EXCEPT ![r] = LifeOf(e)]
    BY <1>0, <1>1, <2>3, LifeChanges
  <2>5. e \in Event /\ old \in Event /\ old.phase \in {"dispatched", "suppressed"}
    BY <2>1, <2>2 DEF Held, Event, OpenPhases, CheckpointAllowed
  <2>6. LifeOf(e) = [LifeOf(old) EXCEPT !.phase = "finalizing", !.result = op.result]
    <3>1. LifeOf(old) = [phase |-> old.phase, card |-> old.key[1], rev |-> old.rev,
                         result |-> old.result]
      BY <2>5, LivesAreLives
    <3>2. LifeOf(e) = [phase |-> "finalizing", card |-> old.key[1], rev |-> old.rev,
                       result |-> op.result]
      BY <2>5, LivesAreLives DEF Event
    <3> DEFINE x == LifeOf(old)
               y == [x EXCEPT !.phase = "finalizing"]
    <3>3. y = [phase |-> "finalizing", card |-> old.key[1], rev |-> old.rev,
               result |-> old.result]
      BY <3>1
    <3>4. [y EXCEPT !.result = op.result] = LifeOf(e)
      <4> HIDE DEF y
      <4>1. QED
        BY <3>2, <3>3
    <3>5. [x EXCEPT !.phase = "finalizing", !.result = op.result] = [y EXCEPT !.result = op.result]
      OBVIOUS
    <3>6. QED
      BY <3>4, <3>5
  <2>7. life[r] # None /\ life[r].phase \in {"dispatched", "suppressed"}
    BY <1>1, <2>5, LivesAreLives DEF Lives
  <2>8. Lifecycle!Commit(r, op.result)
    BY <1>1, <2>3, <2>4, <2>6, <2>7 DEF Lifecycle!Commit, Lives
  <2>9. op.result \in Lifecycle!Results
    BY <2>2 DEF Results, Lifecycle!Results
  <2>10. QED
    BY <1>1, <2>8, <2>9 DEF Lifecycle!Next
<1>5. CASE op.kind = "finalize"
  <2> DEFINE e == [old EXCEPT !.phase = "finalized"]
  <2>1. FinalizeAllowed(upstream, op) /\ upstream' = FinalizeEffect(upstream, op)
    BY <1>5 DEF Allowed, Effect
  <2>2. Held(upstream, op)
    BY <2>1, HeldRun DEF FinalizeAllowed
  <2>3. /\ upstream'.event = [upstream.event EXCEPT ![r] = e]
        /\ upstream'.card = [upstream.card EXCEPT ![c] = upstream.recovery[r].result.content]
    BY <2>1 DEF FinalizeEffect, Sound, Records
  <2>4. Lives(upstream') = [life EXCEPT ![r] = LifeOf(e)]
    BY <1>0, <1>1, <2>3, LifeChanges
  <2>5. e \in Event /\ old \in Event /\ old.phase = "finalizing" /\ old.key = op.key
    BY <2>1, <2>2 DEF Held, Event, TerminalPhases, FinalizeAllowed
  <2>6. LifeOf(e) = [LifeOf(old) EXCEPT !.phase = "finalized"]
    BY <2>5, LivesAreLives DEF Event
  <2>7. /\ life[r] # None /\ life[r].phase = "finalizing" /\ life[r].card = c
        /\ life[r].rev = old.rev /\ life[r].result = old.result
    BY <1>1, <2>5, LivesAreLives DEF Lives
  <2>8. /\ upstream.card[c] = old.rev
        /\ upstream.recovery[r].result.content = old.result.content
    BY <2>1, <2>2 DEF Held, FinalizeAllowed
  <2>9. Lifecycle!Finish(r)
    BY <1>1, <2>3, <2>4, <2>6, <2>7, <2>8 DEF Lifecycle!Finish, Lives
  <2>10. QED
    BY <1>1, <2>9 DEF Lifecycle!Next
<1>6. CASE op.kind = "release"
  <2> DEFINE e == [old EXCEPT !.phase = "released"]
  <2>1. ReleaseAllowed(upstream, op) /\ upstream' = ReleaseEffect(upstream, op)
    BY <1>6 DEF Allowed, Effect
  <2>2. Held(upstream, op)
    BY <2>1, HeldRun DEF ReleaseAllowed
  <2>3. /\ upstream'.event = [upstream.event EXCEPT ![r] = e]
        /\ upstream'.card = upstream.card
    BY <2>1 DEF ReleaseEffect, Sound, Records
  <2>4. Lives(upstream') = [life EXCEPT ![r] = LifeOf(e)]
    BY <1>0, <1>1, <2>3, LifeChanges
  <2>5. e \in Event /\ old \in Event /\ old.phase \in {"claimed", "dispatched", "suppressed"}
    BY <2>1, <2>2 DEF Held, Event, TerminalPhases, ReleaseAllowed
  <2>6. LifeOf(e) = [LifeOf(old) EXCEPT !.phase = "released"]
    BY <2>5, LivesAreLives DEF Event
  <2>7. life[r] # None /\ life[r].phase \in {"claimed", "dispatched", "suppressed"}
    BY <1>1, <2>5, LivesAreLives DEF Lives
  <2>8. Lifecycle!Release(r)
    BY <1>1, <2>3, <2>4, <2>6, <2>7 DEF Lifecycle!Release, Lives
  <2>9. QED
    BY <1>1, <2>8 DEF Lifecycle!Next
<1>7. CASE op.kind = "reconcile"
  <2>1. /\ upstream'.event = upstream.event
        /\ upstream'.card = [upstream.card EXCEPT ![c] = Parked]
    BY <1>7 DEF Effect, ReconcileEffect, Sound, Records
  <2>2. Lifecycle!Edit(c, Parked)
    BY <2>1 DEF Lifecycle!Edit
  <2>3. QED
    BY <1>1, <2>2, ParkedIsContent DEF Lifecycle!Next
<1>8. QED
  BY <1>1, <1>2, <1>3, <1>4, <1>5, <1>6, <1>7 DEF Kinds

(* The records in git, changed by any number of workers through pushes     *)
(* that race, fail and arrive late, implement the lives of RunLifecycle.   *)
THEOREM Refinement == Spec => LifecycleSpec
<1>1. Init => Lifecycle!Init
  <2>1. ASSUME NEW cards \in [Cards -> Contents \cup {None}], TxInit(cards)
        PROVE  Lifecycle!Init
    BY <2>1 DEF TxInit, FreshRecords, LifeOf, Lifecycle!Init
  <2>2. QED
    BY <2>1 DEF Init
<1>2. IInv /\ [Next]_txVars => [Lifecycle!Next]_(Lifecycle!lifeVars)
  <2>1. ASSUME IInv, Next
        PROVE  [Lifecycle!Next]_(Lifecycle!lifeVars)
    <3>1. CASE UNCHANGED upstream
      BY <3>1 DEF Lifecycle!lifeVars
    <3>2. ASSUME NEW op \in Asked, Allowed(upstream, expired, op), upstream' = Effect(upstream, op)
          PROVE  Lifecycle!Next
      BY <2>1, <3>2, EffectRefines DEF IInv
    <3>3. ASSUME NEW c \in Cards, NEW v \in Contents \cup {None},
                 upstream' = [upstream EXCEPT !.card[c] = v]
          PROVE  Lifecycle!Next
      <4>1. upstream'.event = upstream.event /\ upstream'.card = [upstream.card EXCEPT ![c] = v]
        BY <2>1, <3>3 DEF IInv, Sound, Records
      <4>2. Lifecycle!Edit(c, v)
        BY <4>1 DEF Lifecycle!Edit
      <4>3. QED
        BY <4>2 DEF Lifecycle!Next
    <3>4. ASSUME NEW b \in BOOLEAN, upstream' = [upstream EXCEPT !.stop = b]
          PROVE  UNCHANGED Lifecycle!lifeVars
      <4>1. upstream'.event = upstream.event /\ upstream'.card = upstream.card
        BY <2>1, <3>4 DEF IInv, Sound, Records
      <4>2. QED
        BY <4>1 DEF Lifecycle!lifeVars
    <3>5. QED
      BY <2>1, <3>1, <3>2, <3>3, <3>4, WhoCommits
  <2>2. ASSUME UNCHANGED txVars
        PROVE  UNCHANGED Lifecycle!lifeVars
    BY <2>2 DEF txVars, Lifecycle!lifeVars
  <2>3. QED
    BY <2>1, <2>2
<1>3. QED
  BY <1>1, <1>2, Inductive, PTL DEF Spec, LifecycleSpec, Lifecycle!Spec

-----------------------------------------------------------------------------
(***************************************************************************)
(* Part two: the wakes.                                                    *)
(***************************************************************************)

(* Where the worker is the one of its run.                                 *)
Owning == Points \ {"idle", "resume", "resuming", "reconciling"}

(* Where the run's engine was never started.                               *)
Unstarted == {"planned", "claiming", "claimed", "suppressing", "bootstrap", "dispatching",
              "spawn", "release", "releasing"}

(* Where there is an outcome, and where a ledger.                          *)
Concluding == {"suppressing", "ended", "checkpoint", "checkpointing", "finalize", "resume"}
Ledgered == {"bootstrap", "dispatching", "spawn"}

(* The transactions of the waiting points.                                 *)
Serves ==
    {<<"claiming", "claim">>, <<"suppressing", "suppressed">>, <<"dispatching", "dispatched">>,
     <<"checkpointing", "checkpoint">>, <<"releasing", "release">>, <<"finalizing", "finalize">>,
     <<"resuming", "finalize">>, <<"reconciling", "finalize">>, <<"reconciling", "reconcile">>}

NoOpen(s) == \A r \in Runs : ~OpenRun(s, r)

PlanSound(w) ==
    /\ pc[w] # "idle" => plan[w] \in Plan /\ plan[w].run \in issued
    /\ pc[w] = "planned" => plan[w].rev \in Contents
    /\ pc[w] \in Concluding => plan[w].outcome \in Outcomes
    /\ pc[w] = "checkpoint" => plan[w].result \in Results
    /\ pc[w] = "planned" /\ w \in pin => NoOpen(upstream)

TxSound(w) ==
    IF tx[w].state = "idle" THEN tx[w] = Idle /\ pc[w] \notin Waiting
    ELSE /\ tx[w].op.run = plan[w].run /\ <<pc[w], tx[w].op.kind>> \in Serves
         /\ tx[w].tries > 0
         /\ tx[w].state = "retry" => tx[w].op.kind \notin {"claim", "reconcile"}
         /\ tx[w].op.kind = "claim" /\ tx[w].tip => NoOpen(upstream)

SentSound(w) ==
    sent[w] # None =>
        /\ sent[w].run \in issued
        /\ sent[w].kind = "claim" => NoOpen(upstream)
        /\ sent[w].kind = "release" => engine[sent[w].run] = "none"
        /\ sent[w].kind = "checkpoint" => engine[sent[w].run] # "running"

EngineSound(w) ==
    /\ pc[w] \in Unstarted => engine[plan[w].run] = "none"
    /\ pc[w] \in Owning \ {"engine"} => engine[plan[w].run] # "running"
    /\ pc[w] = "engine" => engine[plan[w].run] # "none"
    /\ pc[w] \in Ledgered => ledger[plan[w].run] # "none"
    /\ pc[w] = "spawn" => upstream.event[plan[w].run] # None
                             /\ upstream.event[plan[w].run].phase = "dispatched"

(* Of two workers: neither may do what the other's run depends on.         *)
Apart(w, v) ==
    /\ w # v /\ pc[w] \in Owning /\ pc[v] \in Owning => plan[w].run # plan[v].run
    /\ /\ pc[w] \in Owning \ {"release", "releasing"}
       /\ sent[v] # None /\ sent[v].run = plan[w].run
       => sent[v].kind \in {"finalize", "reconcile"}

RunsSound ==
    /\ \A r \in Runs : upstream.event[r] # None => r \in issued
    /\ \A r \in Runs : engine[r] # "none" => upstream.event[r] # None
    /\ OneOpenRun
    /\ EngineIsRecorded
    /\ EngineIsAnswered

WorkInv ==
    /\ IInv
    /\ WorkTypeOK
    /\ RunsSound
    /\ \A w \in Workers : PlanSound(w) /\ TxSound(w) /\ SentSound(w) /\ EngineSound(w)
    /\ \A w, v \in Workers : Apart(w, v)

-----------------------------------------------------------------------------
(* What a transaction does to the events.                                  *)
EventMoves(s, t, op) ==
    /\ \A q \in Runs : q # op.run => t.event[q] = s.event[q]
    /\ op.kind = "claim" =>
           s.event[op.run] = None /\ t.event[op.run] # None /\ t.event[op.run].phase = "claimed"
    /\ op.kind = "reconcile" => s.event[op.run] # None /\ t.event[op.run] = s.event[op.run]
    /\ op.kind \notin {"claim", "reconcile"} =>
           /\ OpenRun(s, op.run) /\ t.event[op.run] # None
           /\ op.kind \in {"dispatched", "suppressed"} =>
                  s.event[op.run].phase = "claimed" /\ t.event[op.run].phase = op.kind
           /\ op.kind = "checkpoint" =>
                  /\ s.event[op.run].phase \in {"dispatched", "suppressed"}
                  /\ t.event[op.run].phase = "finalizing"
           /\ op.kind = "finalize" =>
                  /\ s.event[op.run].phase = "finalizing"
                  /\ t.event[op.run].phase = "finalized"
           /\ op.kind = "release" => t.event[op.run].phase = "released"

LEMMA EventIsEvent ==
  ASSUME NEW e \in Event
  PROVE  e # None
BY NoneIsFresh

LEMMA EffectMoves ==
  ASSUME NEW s, NEW gone, NEW op \in Asked, Sound(s, gone), Allowed(s, gone, op)
  PROVE  EventMoves(s, Effect(s, op), op)
<1>1. op.run \in Runs /\ op.key \in Keys /\ op.kind \in Kinds /\ s.event \in [Runs -> Event \cup {None}]
  BY DEF Asked, Op, Sound, Records
<1>2. CASE op.kind = "claim"
  <2> DEFINE e == [key |-> op.key, phase |-> "claimed", rev |-> op.rev, result |-> None]
  <2>1. s.event[op.run] = None /\ op.rev \in Contents
    BY <1>1, <1>2 DEF Allowed, ClaimAllowed, Sound, Records, Keys, Asked, Op
  <2>2. e \in Event
    BY <1>1, <2>1 DEF Event, OpenPhases
  <2>3. Effect(s, op).event = [s.event EXCEPT ![op.run] = e]
    BY <1>2 DEF Effect, ClaimEffect, Sound, Records
  <2>4. QED
    BY <1>1, <1>2, <2>1, <2>2, <2>3, EventIsEvent DEF EventMoves
<1>3. CASE op.kind \in {"dispatched", "suppressed"}
  <2> DEFINE e == [s.event[op.run] EXCEPT !.phase = op.kind]
  <2>1. Held(s, op) /\ s.event[op.run].phase = "claimed" /\ ~Terminal(s, op.run)
    BY <1>3, HeldRun DEF Allowed, PhaseAllowed, HoldsRun
  <2>2. e \in Event /\ e.phase = op.kind
    BY <1>3, <2>1 DEF Held, Event, OpenPhases
  <2>3. Effect(s, op).event = [s.event EXCEPT ![op.run] = e]
    BY <1>3 DEF Effect, PhaseEffect, Sound, Records
  <2>4. QED
    BY <1>1, <1>3, <2>1, <2>2, <2>3, EventIsEvent DEF EventMoves, Held, OpenRun, Terminal
<1>4. CASE op.kind = "checkpoint"
  <2> DEFINE e == [s.event[op.run] EXCEPT !.phase = "finalizing", !.result = op.result]
  <2>1. Held(s, op) /\ s.event[op.run].phase \in {"dispatched", "suppressed"} /\ ~Terminal(s, op.run)
    BY <1>4, HeldRun DEF Allowed, CheckpointAllowed, HoldsRun
  <2>2. e \in Event /\ e.phase = "finalizing"
    BY <1>4, <2>1 DEF Held, Event, OpenPhases, Asked
  <2>3. Effect(s, op).event = [s.event EXCEPT ![op.run] = e]
    BY <1>4 DEF Effect, CheckpointEffect, Sound, Records
  <2>4. QED
    BY <1>1, <1>4, <2>1, <2>2, <2>3, EventIsEvent DEF EventMoves, Held, OpenRun, Terminal
<1>5. CASE op.kind = "finalize"
  <2> DEFINE e == [s.event[op.run] EXCEPT !.phase = "finalized"]
  <2>1. Held(s, op) /\ s.event[op.run].phase = "finalizing" /\ ~Terminal(s, op.run)
    BY <1>5, HeldRun DEF Allowed, FinalizeAllowed, HoldsRun
  <2>2. e \in Event /\ e.phase = "finalized"
    BY <1>5, <2>1 DEF Held, Event, TerminalPhases
  <2>3. Effect(s, op).event = [s.event EXCEPT ![op.run] = e]
    BY <1>5 DEF Effect, FinalizeEffect, Sound, Records
  <2>4. QED
    BY <1>1, <1>5, <2>1, <2>2, <2>3, EventIsEvent DEF EventMoves, Held, OpenRun, Terminal
<1>6. CASE op.kind = "release"
  <2> DEFINE e == [s.event[op.run] EXCEPT !.phase = "released"]
  <2>1. Held(s, op) /\ ~Terminal(s, op.run)
    BY <1>6, HeldRun DEF Allowed, ReleaseAllowed, HoldsRun
  <2>2. e \in Event /\ e.phase = "released"
    BY <1>6, <2>1 DEF Held, Event, TerminalPhases
  <2>3. Effect(s, op).event = [s.event EXCEPT ![op.run] = e]
    BY <1>6 DEF Effect, ReleaseEffect, Sound, Records
  <2>4. QED
    BY <1>1, <1>6, <2>1, <2>2, <2>3, EventIsEvent DEF EventMoves, Held, OpenRun, Terminal
<1>7. CASE op.kind = "reconcile"
  <2>1. s.event[op.run] # None
    BY <1>1, <1>7 DEF Allowed, ReconcileAllowed, OwnsLease, Sound, LeasesAgree, LeaseAgrees
  <2>2. Effect(s, op).event = s.event
    BY <1>7 DEF Effect, ReconcileEffect, Sound, Records
  <2>3. QED
    BY <1>1, <1>7, <2>1, <2>2 DEF EventMoves
<1>8. QED
  BY <1>1, <1>2, <1>3, <1>4, <1>5, <1>6, <1>7 DEF Kinds

(* A wake that finds nothing pending finds no unfinished run.              *)
LEMMA NothingPending ==
  ASSUME NEW s, PendingRuns(s) = {}
  PROVE  NoOpen(s)
<1> SUFFICES ASSUME NEW r \in Runs, OpenRun(s, r) PROVE FALSE
  BY DEF NoOpen
<1>1. RunState(s, r) \in {"absent", "finalized"}
  BY DEF PendingRuns
<1>2. s.event[r] # None /\ ~Terminal(s, r)
  BY DEF OpenRun, Terminal
<1>3. QED
  BY <1>1, <1>2 DEF RunState

LEMMA ReadyRun ==
  ASSUME NEW s, NEW gone, Sound(s, gone), NEW r \in Runs, RunState(s, r) = "recovery-ready"
  PROVE  /\ s.event[r] # None
         /\ s.recovery[r].key \in Keys /\ s.recovery[r].result.outcome \in Outcomes
<1>1. RecoveryReady(s, r)
  BY DEF RunState
<1>2. s.recovery[r] \in Recovery /\ s.event[r] # None
  BY <1>1 DEF RecoveryReady, Sound, Records, RecoveriesAgree, RecoveryAgrees
<1>3. QED
  BY <1>2 DEF Recovery, Results

-----------------------------------------------------------------------------
(* Every step of a wake is one of PMTransaction.                           *)
LEMMA OpsInclude ==
  ASSUME NEW r \in Runs, NEW k \in Keys
  PROVE  /\ \A v \in Contents : ClaimOp(r, k, v) \in Ops /\ ReconcileOp(r, k, v) \in Ops
         /\ PhaseOp("dispatched", r, k) \in Ops /\ PhaseOp("suppressed", r, k) \in Ops
         /\ \A res \in Results : CheckpointOp(r, k, res) \in Ops
         /\ \A o \in Outcomes, b \in BOOLEAN : FinalizeOp(r, k, o, b) \in Ops
         /\ ReleaseOp(r, k) \in Ops
BY DEF Ops

LEMMA CallsAreTransactions ==
  ASSUME WorkInv, NEW w \in Workers, NEW op \in Ops, NEW headOk \in BOOLEAN, Call(w, op, headOk)
  PROVE  [Next]_txVars
<1>1. tx[w] = Idle /\ tx = [tx EXCEPT ![w] = tx[w]]
  BY DEF Call, WorkInv, TxSound, IInv, TypeOK
<1>2. CASE headOk
  BY <1>2 DEF Next
<1>3. CASE ~headOk
  <2>1. Attempted(op, 1, headOk) = Idle
    BY <1>3 DEF Attempted, AttemptFate
  <2>2. QED
    BY <1>1, <2>1 DEF Call, txVars
<1>4. QED
  BY <1>2, <1>3

LEMMA RetriesAreTransactions ==
  ASSUME WorkInv, NEW w \in Workers, NEW headOk \in BOOLEAN, Retry(w, headOk)
  PROVE  [Next]_txVars
<1>1. CASE headOk
  BY <1>1 DEF Next, TxStep
<1>2. CASE ~headOk
  <2>1. Attempted(tx[w].op, tx[w].tries + 1, headOk) = Idle
    BY <1>2 DEF Attempted, AttemptFate
  <2>2. Timeout(w)
    BY <2>1 DEF Retry, Timeout
  <2>3. QED
    BY <2>2 DEF Next, TxStep
<1>3. QED
  BY <1>1, <1>2

LEMMA StepsAreTransactions ==
  WorkInv /\ [WorkNext]_vars => [Next]_txVars
<1> SUFFICES ASSUME WorkInv, [WorkNext]_vars PROVE [Next]_txVars
  OBVIOUS
<1>1. ASSUME NEW w \in Workers, Work(w)
      PROVE  [Next]_txVars
  <2>1. \A p \in Points \ {"idle"} : pc[w] = p => plan[w] \in Plan
    BY DEF WorkInv, PlanSound
  <2>2. plan[w] \in Plan => plan[w].run \in Runs /\ plan[w].key \in Keys
    BY DEF Plan
  <2>3. PlanSound(w)
    BY DEF WorkInv
  <2>4. CASE Claim(w)
    <3>1. ClaimOp(plan[w].run, plan[w].key, plan[w].rev) \in Ops
      BY <2>1, <2>2, <2>3, <2>4, OpsInclude DEF Claim, Points, PlanSound
    <3>2. (w \in pin) \in BOOLEAN
      OBVIOUS
    <3>3. Call(w, ClaimOp(plan[w].run, plan[w].key, plan[w].rev), w \in pin)
      BY <2>4 DEF Claim, Start
    <3>4. QED
      BY <3>1, <3>2, <3>3, CallsAreTransactions
  <2>5. CASE Resume(w)
    BY <2>1, <2>2, <2>3, <2>5, OpsInclude, CallsAreTransactions
       DEF Resume, Start, Points, PlanSound, Concluding
  <2>6. CASE Suppress(w)
    BY <2>1, <2>2, <2>6, OpsInclude, CallsAreTransactions DEF Suppress, Points
  <2>7. CASE Dispatch(w)
    BY <2>1, <2>2, <2>7, OpsInclude, CallsAreTransactions DEF Dispatch, Start, Points
  <2>8. CASE Release(w)
    BY <2>1, <2>2, <2>8, OpsInclude, CallsAreTransactions DEF Release, Start, Points
  <2>9. CASE Checkpoint(w)
    BY <2>1, <2>2, <2>3, <2>9, OpsInclude, CallsAreTransactions
       DEF Checkpoint, Start, Points, PlanSound
  <2>10. CASE Finalize(w)
    BY <2>1, <2>2, <2>3, <2>10, OpsInclude, CallsAreTransactions
       DEF Finalize, Start, Points, PlanSound, Concluding
  <2>11. QED
    BY <1>1, <2>4, <2>5, <2>6, <2>7, <2>8, <2>9, <2>10
       DEF Work, WriteLedger, Bail, BootstrapFails, Spawn, SpawnRefused, EngineExits,
           BuildTransition
<1>2. ASSUME NEW w \in Workers, Transact(w)
      PROVE  [Next]_txVars
  BY <1>2, RetriesAreTransactions DEF Transact, Next, TxStep
<1>3. ASSUME NEW w \in Workers, Late(w) \/ Crash(w)
      PROVE  [Next]_txVars
  BY <1>3 DEF Late, Crash, Next, TxStep
<1>4. ASSUME NEW w \in Workers, Reconcile(w)
      PROVE  [Next]_txVars
  <2>1. PICK r \in Runs, k \in Keys :
          \E op \in {FinalizeOp(r, k, o, FALSE) : o \in Outcomes}
                       \cup {ReconcileOp(r, k, v) : v \in Contents} : Call(w, op, TRUE)
    BY <1>4 DEF Reconcile
  <2>2. PICK op \in {FinalizeOp(r, k, o, FALSE) : o \in Outcomes}
                       \cup {ReconcileOp(r, k, v) : v \in Contents} : Call(w, op, TRUE)
    BY <2>1
  <2>3. op \in Ops
    BY OpsInclude
  <2>4. QED
    BY <2>2, <2>3, CallsAreTransactions
<1>5. ASSUME NEW w \in Workers, WakePlans(w) \/ WakeResumes(w) \/ GiveUp(w)
      PROVE  [Next]_txVars
  BY <1>5 DEF WakePlans, WakeResumes, GiveUp
<1>6. ASSUME NEW r \in Runs, OrphanExits(r)
      PROVE  [Next]_txVars
  BY <1>6 DEF OrphanExits
<1>7. CASE Others
  BY <1>7 DEF Others, Next
<1>8. CASE UNCHANGED vars
  BY <1>8 DEF vars
<1>9. QED
  BY <1>1, <1>2, <1>3, <1>4, <1>5, <1>6, <1>7, <1>8 DEF WorkNext

-----------------------------------------------------------------------------
(* One worker moves.                                                       *)
OthersStay(w) == \A v \in Workers \ {w} : pc'[v] = pc[v] /\ plan'[v] = plan[v]

(* No worker becomes that of a run it was not, or of one it was to give up.*)
StaysOwner(w) ==
    /\ pc'[w] \in Owning => pc[w] \in Owning /\ plan'[w].run = plan[w].run
    /\ pc'[w] \in Owning \ {"release", "releasing"} => pc[w] \notin {"release", "releasing"}

LedgersStay == \A r \in Runs : ledger[r] # "none" => ledger'[r] # "none"

LEMMA ApartStay ==
  ASSUME WorkInv, NEW w \in Workers, OthersStay(w), StaysOwner(w),
         \A v \in Workers \ {w} : sent'[v] = sent[v],
         \/ sent'[w] \in {sent[w], None}
         \/ /\ tx[w].state # "idle" /\ sent'[w] = tx[w].op
            /\ pc'[w] \notin Owning \ {"release", "releasing"},
         NEW v \in Workers
  PROVE  Apart(w, v)' /\ Apart(v, w)'
<1>1. /\ Apart(w, v) /\ Apart(v, w) /\ Apart(w, w) /\ TxSound(w)
      /\ v # w => pc'[v] = pc[v] /\ plan'[v] = plan[v] /\ sent'[v] = sent[v]
  BY DEF WorkInv, OthersStay
<1>2. CASE sent'[w] \in {sent[w], None}
  BY <1>1, <1>2 DEF Apart, StaysOwner
<1>3. CASE /\ tx[w].state # "idle" /\ sent'[w] = tx[w].op
           /\ pc'[w] \notin Owning \ {"release", "releasing"}
  <2>1. /\ sent'[w].run = plan[w].run
        /\ sent'[w].kind \in {"finalize", "reconcile"} \/ pc[w] \in Owning
    BY <1>1, <1>3 DEF TxSound, Serves, Owning, Points, Waiting
  <2>2. QED
    BY <1>1, <1>3, <2>1 DEF Apart, StaysOwner
<1>4. QED
  BY <1>2, <1>3

LEMMA WorkerActs ==
  ASSUME WorkInv, NEW w \in Workers, IInv', WorkTypeOK', UNCHANGED <<upstream, engine>>,
         issued \subseteq issued', LedgersStay, OthersStay(w),
         \A v \in Workers \ {w} : tx'[v] = tx[v] /\ sent'[v] = sent[v] /\ (v \in pin' => v \in pin),
         PlanSound(w)', TxSound(w)', SentSound(w)', EngineSound(w)',
         \A v \in Workers : Apart(w, v)' /\ Apart(v, w)'
  PROVE  WorkInv'
<1>1. RunsSound'
  BY DEF WorkInv, RunsSound, OneOpenRun, EngineIsRecorded, EngineIsAnswered, LedgersStay
<1>2. ASSUME NEW v \in Workers \ {w}
      PROVE  PlanSound(v)' /\ TxSound(v)' /\ SentSound(v)' /\ EngineSound(v)'
  <2>1. /\ pc'[v] = pc[v] /\ plan'[v] = plan[v] /\ tx'[v] = tx[v] /\ sent'[v] = sent[v]
        /\ v \in pin' => v \in pin
        /\ PlanSound(v) /\ TxSound(v) /\ SentSound(v) /\ EngineSound(v)
    BY DEF WorkInv, OthersStay
  <2>2. PlanSound(v)' /\ TxSound(v)' /\ SentSound(v)'
    BY <2>1 DEF PlanSound, TxSound, SentSound
  <2>3. pc[v] \in Ledgered => plan[v].run \in Runs
    BY <2>1 DEF PlanSound, Plan, Ledgered
  <2>4. EngineSound(v)'
    BY <2>1, <2>3 DEF EngineSound, LedgersStay
  <2>5. QED
    BY <2>2, <2>4
<1>3. \A u, v \in Workers : Apart(u, v)'
  <2> TAKE u, v \in Workers
  <2>1. CASE u = w \/ v = w
    BY <2>1
  <2>2. CASE u # w /\ v # w
    BY <2>2 DEF WorkInv, Apart, OthersStay
  <2>3. QED
    BY <2>1, <2>2
<1>4. QED
  BY <1>1, <1>2, <1>3 DEF WorkInv

(* The transaction of a wake ends, or goes on.                             *)
Leads ==
    {<<"planned", "claiming">>, <<"bootstrap", "dispatching">>, <<"release", "releasing">>,
     <<"checkpoint", "checkpointing">>, <<"finalize", "finalizing">>, <<"resume", "resuming">>}

LEMMA ProceedStays ==
  ASSUME WorkInv, NEW w \in Workers, NEW point \in Waiting,
         pc[w] = point \/ <<pc[w], point>> \in Leads,
         NEW fate \in {"ok", "push", "retry", "failed"}, Proceed(w, point, fate)
  PROVE  /\ StaysOwner(w) /\ OthersStay(w) /\ LedgersStay
         /\ pc' \in [Workers -> Points] /\ plan' \in [Workers -> Plan \cup {None}]
         /\ ledger' \in [Runs -> {"none", "running", "done"}]
         /\ pc'[w] = IF fate \in {"push", "retry"} THEN point ELSE AfterTx(point, fate = "ok")
         /\ pc'[w] # "idle" => plan'[w] = plan[w]
<1> DEFINE next == IF fate \in {"push", "retry"} THEN point ELSE AfterTx(point, fate = "ok")
<1>1. /\ pc \in [Workers -> Points] /\ plan \in [Workers -> Plan \cup {None}]
      /\ ledger \in [Runs -> {"none", "running", "done"}]
  BY DEF WorkInv, WorkTypeOK
<1>2. /\ pc' = [pc EXCEPT ![w] = next]
      /\ plan' = IF next = "idle" THEN [plan EXCEPT ![w] = None] ELSE plan
      /\ ledger' = IF next = "idle" /\ Closes(point)
                   THEN [ledger EXCEPT ![plan[w].run] = "done"] ELSE ledger
  BY DEF Proceed
<1>3. next \in {point, "claimed", "idle", "ended", "release", "spawn", "finalize"}
  BY DEF AfterTx
<1>4. next \in Points
  BY <1>3 DEF Points
<1>5. pc[w] \in Owning /\ next \in Owning \ {"release", "releasing"} => pc[w] \notin {"release", "releasing"}
  BY <1>3 DEF Leads, Waiting, AfterTx, Owning
<1>6. next \in Owning => pc[w] \in Owning
  BY DEF Leads, Waiting, AfterTx, Owning, Points
<1> HIDE DEF next
<1>7. plan[w].run \in Runs \/ pc[w] = "idle"
  BY DEF WorkInv, PlanSound, Plan
<1>8. pc[w] # "idle"
  BY DEF Leads, Waiting
<1>9. pc'[w] = next /\ (next # "idle" => plan'[w] = plan[w])
  BY <1>1, <1>2
<1>10. StaysOwner(w)
  BY <1>5, <1>6, <1>9 DEF StaysOwner, Owning
<1>11. /\ OthersStay(w) /\ pc' \in [Workers -> Points] /\ plan' \in [Workers -> Plan \cup {None}]
  BY <1>1, <1>2, <1>4 DEF OthersStay
<1>12. LedgersStay /\ ledger' \in [Runs -> {"none", "running", "done"}]
  BY <1>1, <1>2, <1>7, <1>8 DEF LedgersStay
<1>13. QED
  BY <1>9, <1>10, <1>11, <1>12 DEF next

LEMMA ProceedSound ==
  ASSUME WorkInv, NEW w \in Workers, NEW point \in Waiting,
         pc[w] = point \/ <<pc[w], point>> \in Leads,
         NEW fate \in {"ok", "push", "retry", "failed"}, Proceed(w, point, fate),
         UNCHANGED <<issued, engine>>,
         fate = "ok" /\ point = "dispatching" =>
             /\ upstream'.event[plan[w].run] # None
             /\ upstream'.event[plan[w].run].phase = "dispatched"
  PROVE  PlanSound(w)' /\ EngineSound(w)'
<1>1. /\ pc'[w] = IF fate \in {"push", "retry"} THEN point ELSE AfterTx(point, fate = "ok")
      /\ pc'[w] # "idle" => plan'[w] = plan[w]
      /\ LedgersStay
  BY ProceedStays
<1>2. PlanSound(w) /\ EngineSound(w)
  BY DEF WorkInv
<1>3. pc[w] # "idle" /\ plan[w] \in Plan /\ plan[w].run \in issued /\ plan[w].run \in Runs
  BY <1>2 DEF Leads, Waiting, PlanSound, Plan
<1>4. /\ pc'[w] \notin {"planned", "checkpoint"}
      /\ pc'[w] \in Concluding => pc[w] \in Concluding
  BY <1>1 DEF Leads, Waiting, AfterTx, Concluding
<1>5. PlanSound(w)'
  BY <1>1, <1>2, <1>3, <1>4 DEF PlanSound, Concluding
<1>6. /\ pc'[w] \in Unstarted => pc[w] \in Unstarted
      /\ pc'[w] \in Owning => pc[w] \in Owning \ {"engine"}
      /\ pc'[w] \in Ledgered => pc[w] \in Ledgered
      /\ pc'[w] # "engine"
      /\ pc'[w] = "spawn" => fate = "ok" /\ point = "dispatching"
  <2>1. CASE fate \in {"push", "retry"}
    BY <1>1, <2>1 DEF Leads, Waiting, Unstarted, Owning, Points, Ledgered
  <2>2. CASE fate \notin {"push", "retry"}
    BY <1>1, <2>2 DEF Leads, Waiting, Unstarted, Owning, Points, Ledgered, AfterTx
  <2>3. QED
    BY <2>1, <2>2
<1>7. EngineSound(w)'
  <2>1. pc'[w] \in Unstarted \cup Owning \cup Ledgered => pc'[w] # "idle"
    BY DEF Unstarted, Owning, Ledgered
  <2>2. QED
    BY <1>1, <1>2, <1>3, <1>6, <2>1 DEF EngineSound, LedgersStay
<1>8. QED
  BY <1>5, <1>7

(* The steps that leave upstream alone and have no transaction.            *)
LEMMA QuietStep ==
  ASSUME WorkInv, NEW w \in Workers, UNCHANGED <<txVars, issued, engine>>, WorkTypeOK',
         OthersStay(w), LedgersStay, StaysOwner(w), pin' \subseteq pin,
         pc[w] \notin Waiting, pc'[w] \notin Waiting, PlanSound(w)', EngineSound(w)'
  PROVE  WorkInv'
<1>1. UNCHANGED <<upstream, expired, tx, sent>>
  BY DEF txVars
<1>2. IInv'
  <2>1. [Next]_txVars /\ IInv
    BY DEF WorkInv
  <2>2. QED
    BY <2>1, Invariance
<1>3. TxSound(w) /\ SentSound(w)
  BY DEF WorkInv
<1>4. tx[w].state = "idle"
  BY <1>3 DEF TxSound, Serves, Waiting
<1>5. TxSound(w)' /\ SentSound(w)'
  BY <1>1, <1>3, <1>4 DEF TxSound, SentSound
<1>6. \A v \in Workers : Apart(w, v)' /\ Apart(v, w)'
  BY <1>1, ApartStay
<1>7. QED
  BY <1>1, <1>2, <1>5, <1>6, WorkerActs

(* What a worker's push may do, to whoever it is left.                     *)
LEMMA PushIsSound ==
  ASSUME WorkInv, NEW w \in Workers, tx[w].state # "idle"
  PROVE  /\ tx[w].op.run \in issued
         /\ tx[w].op.kind = "claim" /\ tx[w].tip => NoOpen(upstream)
         /\ tx[w].op.kind = "release" => engine[tx[w].op.run] = "none"
         /\ tx[w].op.kind = "checkpoint" => engine[tx[w].op.run] # "running"
<1>1. PlanSound(w) /\ TxSound(w) /\ EngineSound(w)
  BY DEF WorkInv
<1>2. /\ tx[w].op.run = plan[w].run /\ <<pc[w], tx[w].op.kind>> \in Serves
      /\ tx[w].op.kind = "claim" /\ tx[w].tip => NoOpen(upstream)
  BY <1>1 DEF TxSound
<1>3. /\ pc[w] # "idle"
      /\ tx[w].op.kind = "release" => pc[w] \in Unstarted
      /\ tx[w].op.kind = "checkpoint" => pc[w] \in Owning \ {"engine"}
  BY <1>2 DEF Serves, Unstarted, Owning, Points, Waiting
<1>4. QED
  BY <1>1, <1>2, <1>3 DEF PlanSound, EngineSound

(* A transaction starts, goes on or ends without anything landing.         *)
LEMMA MovesOn ==
  ASSUME WorkInv, IInv', NEW w \in Workers, NEW point \in Waiting,
         pc[w] = point \/ <<pc[w], point>> \in Leads,
         NEW fate \in {"ok", "push", "retry", "failed"}, Proceed(w, point, fate),
         UNCHANGED <<upstream, issued, engine>>, pin' \subseteq pin,
         NEW x \in Tx, tx' = [tx EXCEPT ![w] = x],
         fate \in {"ok", "failed"} => x = Idle,
         fate \in {"push", "retry"} =>
             /\ x.state # "idle" /\ x.op.run = plan[w].run /\ <<point, x.op.kind>> \in Serves
             /\ x.tries > 0
             /\ x.state = "retry" => x.op.kind \notin {"claim", "reconcile"}
             /\ x.op.kind = "claim" /\ x.tip => NoOpen(upstream),
         fate = "ok" /\ point = "dispatching" =>
             upstream.event[plan[w].run] # None /\ upstream.event[plan[w].run].phase = "dispatched",
         \/ sent' = sent
         \/ /\ fate = "failed" /\ tx[w].state # "idle" /\ tx[w].tip
            /\ sent' = [sent EXCEPT ![w] = tx[w].op]
  PROVE  WorkInv'
<1>1. /\ StaysOwner(w) /\ OthersStay(w) /\ LedgersStay
      /\ pc' \in [Workers -> Points] /\ plan' \in [Workers -> Plan \cup {None}]
      /\ ledger' \in [Runs -> {"none", "running", "done"}]
      /\ pc'[w] = IF fate \in {"push", "retry"} THEN point ELSE AfterTx(point, fate = "ok")
      /\ pc'[w] # "idle" => plan'[w] = plan[w]
  BY ProceedStays
<1>2. WorkTypeOK'
  BY <1>1 DEF WorkInv, WorkTypeOK, IInv
<1>3. PlanSound(w)' /\ EngineSound(w)'
  BY ProceedSound
<1>4. tx \in [Workers -> Tx] /\ sent \in [Workers -> Op \cup {None}]
  BY DEF WorkInv, WorkTypeOK, TypeOK
<1>5. tx'[w] = x /\ \A v \in Workers \ {w} : tx'[v] = tx[v] /\ sent'[v] = sent[v]
  BY <1>4
<1>6. TxSound(w)'
  <2>1. CASE fate \in {"push", "retry"}
    <3>1. pc'[w] = point /\ plan'[w] = plan[w]
      BY <1>1, <2>1 DEF Waiting
    <3>2. QED
      BY <1>5, <2>1, <3>1 DEF TxSound
  <2>2. CASE fate \in {"ok", "failed"}
    <3>1. pc'[w] \notin Waiting
      BY <1>1, <2>2 DEF AfterTx, Waiting
    <3>2. x = Idle /\ Idle.state = "idle"
      BY <2>2 DEF Idle
    <3>3. tx'[w] = Idle /\ tx'[w].state = "idle"
      BY <1>5, <3>2
    <3>4. QED
      BY <3>1, <3>3 DEF TxSound
  <2>3. QED
    BY <2>1, <2>2
<1>7. SentSound(w)'
  <2>1. CASE sent' = sent
    BY <2>1 DEF WorkInv, SentSound
  <2>2. CASE tx[w].state # "idle" /\ tx[w].tip /\ sent' = [sent EXCEPT ![w] = tx[w].op]
    <3>1. sent'[w] = tx[w].op
      BY <1>4, <2>2
    <3>2. QED
      BY <2>2, <3>1, PushIsSound DEF SentSound
  <2>3. QED
    BY <2>1, <2>2
<1>8. \/ sent'[w] \in {sent[w], None}
      \/ /\ tx[w].state # "idle" /\ sent'[w] = tx[w].op
         /\ pc'[w] \notin Owning \ {"release", "releasing"}
  <2>1. fate = "failed" => pc'[w] \notin Owning \ {"release", "releasing"}
    BY <1>1 DEF AfterTx, Owning
  <2>2. QED
    BY <1>4, <2>1
<1>9. \A v \in Workers : Apart(w, v)' /\ Apart(v, w)'
  BY <1>1, <1>5, <1>8, ApartStay
<1>10. QED
  BY <1>1, <1>2, <1>3, <1>5, <1>6, <1>7, <1>9, WorkerActs

(* A transaction is asked for.                                             *)
LEMMA StartKeeps ==
  ASSUME WorkInv, IInv', NEW w \in Workers, NEW point \in Waiting,
         <<pc[w], point>> \in Leads, NEW op \in Ops, NEW headOk \in BOOLEAN,
         <<point, op.kind>> \in Serves, op.run = plan[w].run,
         op.kind = "claim" /\ headOk => NoOpen(upstream),
         Start(w, op, headOk, point), UNCHANGED <<issued, engine>>, pin' \subseteq pin
  PROVE  WorkInv'
<1> DEFINE fate == AttemptFate(op, headOk)
           x == Attempted(op, 1, headOk)
<1>1. op \in Asked
  BY OpsAreAsked
<1>2. x \in Tx
  BY <1>1, AttemptIsSafe
<1>3. /\ tx' = [tx EXCEPT ![w] = x] /\ UNCHANGED <<upstream, expired, sent>>
      /\ Proceed(w, point, fate)
  BY DEF Start, Call
<1>4. fate \in {"ok", "push", "failed"}
  BY DEF AttemptFate
<1>5. fate # "push" => x = Idle
  BY DEF Attempted
<1>6. fate = "push" => /\ x.state = "push" /\ x.op = op /\ x.tries = 1 /\ headOk
  BY DEF Attempted, AttemptFate, Pushing
<1>7. fate = "ok" /\ point = "dispatching" =>
          upstream.event[plan[w].run] # None /\ upstream.event[plan[w].run].phase = "dispatched"
  <2>1. point = "dispatching" => op.kind = "dispatched"
    BY DEF Serves
  <2>2. fate = "ok" => Done(upstream, op)
    BY DEF AttemptFate
  <2>3. QED
    BY <2>1, <2>2 DEF Done, PhaseDone, HoldsRun, EventMatchesLease
<1>8. fate \in {"push", "retry"} =>
          /\ x.state # "idle" /\ x.op.run = plan[w].run /\ <<point, x.op.kind>> \in Serves
          /\ x.tries > 0
          /\ x.state = "retry" => x.op.kind \notin {"claim", "reconcile"}
          /\ x.op.kind = "claim" /\ x.tip => NoOpen(upstream)
  BY <1>4, <1>6
<1> HIDE DEF fate, x
<1>9. fate \in {"ok", "push", "retry", "failed"} /\ (fate \in {"ok", "failed"} => x = Idle)
  BY <1>4, <1>5
<1>10. UNCHANGED <<upstream, issued, engine>> /\ sent' = sent
  BY <1>3
<1>11. QED
  BY <1>2, <1>3, <1>7, <1>8, <1>9, <1>10, MovesOn

-----------------------------------------------------------------------------
(* An engine starts or exits: no other worker, and no push on its way, has *)
(* to do with its run.                                                     *)
LEMMA EngineMoves ==
  ASSUME WorkInv, WorkTypeOK', NEW w \in Workers, UNCHANGED <<txVars, issued, pin, ledger>>,
         NEW p \in {"engine", "ended"}, pc' = [pc EXCEPT ![w] = p],
         pc[w] \in {"spawn", "engine"}, plan'[w] \in Plan, plan'[w].run = plan[w].run,
         OthersStay(w), NEW e \in {"running", "over"}, p = "ended" => e = "over",
         engine' = [engine EXCEPT ![plan[w].run] = e], PlanSound(w)',
         e = "running" => /\ upstream.event[plan[w].run] # None
                          /\ upstream.event[plan[w].run].phase = "dispatched",
         /\ upstream.event[plan[w].run] # None /\ ledger[plan[w].run] # "none"
         /\ upstream.event[plan[w].run].phase \in {"dispatched", "finalizing", "finalized"}
  PROVE  WorkInv'
<1> DEFINE r == plan[w].run
<1>1. UNCHANGED <<upstream, expired, tx, sent>> /\ pc'[w] = p
  BY DEF txVars, WorkInv, WorkTypeOK
<1>2. IInv'
  <2>1. [Next]_txVars /\ IInv
    BY DEF WorkInv
  <2>2. QED
    BY <2>1, Invariance
<1>3. PlanSound(w) /\ TxSound(w) /\ RunsSound
  BY DEF WorkInv
<1>4. r \in Runs /\ r \in issued /\ engine \in [Runs -> {"none", "running", "over"}]
  BY <1>3 DEF PlanSound, Plan, WorkInv, WorkTypeOK
<1>5. engine'[r] = e /\ \A q \in Runs : q # r => engine'[q] = engine[q]
  BY <1>4
<1>6. RunsSound'
  <2>1. /\ (\A q \in Runs : upstream.event[q] # None => q \in issued)'
        /\ (\A q \in Runs : engine[q] # "none" => upstream.event[q] # None)'
        /\ OneOpenRun'
    BY <1>1, <1>3, <1>5 DEF RunsSound, OneOpenRun
  <2>2. EngineIsRecorded'
    BY <1>1, <1>3, <1>4, <1>5 DEF RunsSound, EngineIsRecorded
  <2>3. EngineIsAnswered'
    BY <1>1, <1>3, <1>4, <1>5 DEF RunsSound, EngineIsAnswered
  <2>4. QED
    BY <2>1, <2>2, <2>3 DEF RunsSound
<1>7. TxSound(w)'
  <2>1. tx[w].state = "idle" /\ tx[w] = Idle
    BY <1>3 DEF TxSound, Serves
  <2>2. QED
    BY <1>1, <2>1 DEF TxSound, Waiting
<1>8. EngineSound(w)'
  BY <1>1, <1>5 DEF EngineSound, Unstarted, Owning, Points, Ledgered
<1>9. pc[w] \in Owning \ {"release", "releasing"} /\ p \in Owning \ {"release", "releasing"}
  BY DEF Owning, Points
<1>10. ASSUME NEW v \in Workers
       PROVE  SentSound(v)'
  <2>1. SentSound(v) /\ Apart(w, v)
    BY DEF WorkInv
  <2>2. sent[v] # None /\ sent[v].run = r => sent[v].kind \in {"finalize", "reconcile"}
    BY <1>9, <2>1 DEF Apart
  <2>3. sent[v] # None => sent[v].run \in Runs
    BY <2>1 DEF SentSound, WorkInv, WorkTypeOK
  <2>4. QED
    BY <1>1, <1>5, <2>1, <2>2, <2>3 DEF SentSound
<1>11. ASSUME NEW v \in Workers \ {w}
       PROVE  PlanSound(v)' /\ TxSound(v)' /\ EngineSound(v)'
  <2>1. pc'[v] = pc[v] /\ plan'[v] = plan[v] /\ PlanSound(v) /\ TxSound(v) /\ EngineSound(v)
        /\ Apart(w, v)
    BY DEF WorkInv, OthersStay
  <2>2. PlanSound(v)' /\ TxSound(v)'
    BY <1>1, <2>1 DEF PlanSound, TxSound
  <2>3. pc[v] \in Owning => plan[v].run # r /\ plan[v].run \in Runs
    BY <1>9, <2>1 DEF Apart, PlanSound, Plan, Owning
  <2>4. pc[v] \in Unstarted \cup Ledgered \cup {"spawn", "engine"} => pc[v] \in Owning
    BY DEF Unstarted, Ledgered, Owning, Points, Waiting
  <2>5. QED
    BY <1>1, <1>5, <2>1, <2>2, <2>3, <2>4 DEF EngineSound
<1>12. \A u, v \in Workers : Apart(u, v)'
  <2>1. StaysOwner(w)
    BY <1>1, <1>9 DEF StaysOwner
  <2>2. \A v \in Workers : Apart(w, v)' /\ Apart(v, w)'
    BY <1>1, <2>1, ApartStay
  <2>3. \A u, v \in Workers \ {w} : Apart(u, v)'
    BY <1>1 DEF WorkInv, Apart, OthersStay
  <2>4. QED
    BY <2>2, <2>3
<1>13. QED
  BY <1>2, <1>6, <1>7, <1>8, <1>10, <1>11, <1>12 DEF WorkInv

LEMMA EngineKeeps ==
  ASSUME WorkInv, NEW w \in Workers, Spawn(w) \/ EngineExits(w)
  PROVE  WorkInv'
<1>1. /\ pc \in [Workers -> Points] /\ plan \in [Workers -> Plan \cup {None}]
      /\ engine \in [Runs -> {"none", "running", "over"}]
      /\ PlanSound(w) /\ EngineSound(w) /\ RunsSound
  BY DEF WorkInv, WorkTypeOK
<1>2. pc[w] \in {"spawn", "engine"}
  BY DEF Spawn, EngineExits
<1>3. plan[w] \in Plan /\ plan[w].run \in issued /\ plan[w].run \in Runs
  BY <1>1, <1>2 DEF PlanSound, Plan
<1>4. CASE Spawn(w)
  <2>1. /\ pc[w] = "spawn" /\ pc' = [pc EXCEPT ![w] = "engine"] /\ pc'[w] = "engine"
        /\ engine' = [engine EXCEPT ![plan[w].run] = "running"]
        /\ UNCHANGED <<txVars, plan, pin, issued, ledger>>
    BY <1>1, <1>4 DEF Spawn
  <2>2. WorkTypeOK'
    BY <1>1, <1>3, <2>1 DEF WorkInv, WorkTypeOK, TypeOK, txVars, Points
  <2>3. OthersStay(w) /\ PlanSound(w)'
    BY <1>1, <1>3, <2>1 DEF OthersStay, PlanSound, Concluding
  <2>4. /\ upstream.event[plan[w].run] # None
        /\ upstream.event[plan[w].run].phase = "dispatched"
        /\ ledger[plan[w].run] # "none"
    BY <1>1, <2>1 DEF EngineSound, Ledgered
  <2>5. QED
    BY <1>3, <2>1, <2>2, <2>3, <2>4, EngineMoves
<1>5. CASE EngineExits(w)
  <2>1. PICK o \in Outcomes : plan' = [plan EXCEPT ![w].outcome = o]
    BY <1>5 DEF EngineExits
  <2>2. /\ pc[w] = "engine" /\ pc' = [pc EXCEPT ![w] = "ended"] /\ pc'[w] = "ended"
        /\ engine' = [engine EXCEPT ![plan[w].run] = "over"]
        /\ UNCHANGED <<txVars, pin, issued, ledger>>
    BY <1>1, <1>5 DEF EngineExits
  <2>3. /\ plan'[w] = [plan[w] EXCEPT !.outcome = o] /\ plan'[w] \in Plan
        /\ plan' \in [Workers -> Plan \cup {None}]
        /\ plan'[w].run = plan[w].run /\ plan'[w].outcome = o
    BY <1>1, <1>3, <2>1 DEF Plan
  <2>4. WorkTypeOK'
    BY <1>1, <1>3, <2>2, <2>3 DEF WorkInv, WorkTypeOK, TypeOK, txVars, Points
  <2>5. OthersStay(w) /\ PlanSound(w)'
    BY <1>1, <1>3, <2>1, <2>2, <2>3 DEF OthersStay, PlanSound
  <2>6. engine[plan[w].run] # "none"
    BY <1>1, <2>2 DEF EngineSound
  <2>7. /\ upstream.event[plan[w].run] # None /\ ledger[plan[w].run] # "none"
        /\ upstream.event[plan[w].run].phase \in {"dispatched", "finalizing", "finalized"}
    BY <1>1, <1>3, <2>6 DEF RunsSound, EngineIsAnswered
  <2>8. QED
    BY <2>2, <2>3, <2>4, <2>5, <2>7, EngineMoves
<1>6. QED
  BY <1>4, <1>5

LEMMA BuildKeeps ==
  ASSUME WorkInv, NEW w \in Workers, BuildTransition(w)
  PROVE  WorkInv'
<1> DEFINE v == upstream.card[plan[w].key[1]]
           o == plan[w].outcome
<1>1. /\ pc \in [Workers -> Points] /\ plan \in [Workers -> Plan \cup {None}]
      /\ ledger \in [Runs -> {"none", "running", "done"}]
      /\ PlanSound(w) /\ EngineSound(w) /\ upstream \in Records
  BY DEF WorkInv, WorkTypeOK, TypeOK
<1>2. pc[w] = "ended" /\ UNCHANGED <<txVars, pin, issued, engine>>
  BY DEF BuildTransition
<1>3. /\ plan[w] \in Plan /\ plan[w].run \in issued /\ plan[w].run \in Runs
      /\ plan[w].key[1] \in Cards /\ plan[w].outcome \in Outcomes
  BY <1>1, <1>2 DEF PlanSound, Plan, Keys, Concluding
<1>4. CASE Proceed(w, "finalizing", "failed")
  <2>1. /\ pc' = [pc EXCEPT ![w] = "idle"] /\ plan' = [plan EXCEPT ![w] = None]
        /\ ledger' = [ledger EXCEPT ![plan[w].run] = "done"] /\ pc'[w] = "idle"
    BY <1>1, <1>4 DEF Proceed, AfterTx, Closes
  <2>2. WorkTypeOK'
    BY <1>1, <1>2, <1>3, <2>1 DEF WorkInv, WorkTypeOK, TypeOK, txVars, Points
  <2>3. OthersStay(w) /\ LedgersStay /\ StaysOwner(w)
    BY <1>1, <1>3, <2>1 DEF OthersStay, LedgersStay, StaysOwner, Owning
  <2>4. PlanSound(w)' /\ EngineSound(w)'
    BY <2>1 DEF PlanSound, EngineSound, Concluding, Unstarted, Owning, Ledgered
  <2>5. pc[w] \notin Waiting /\ pc'[w] \notin Waiting /\ pin' \subseteq pin
    BY <1>2, <2>1 DEF Waiting
  <2>6. QED
    BY <1>2, <2>2, <2>3, <2>4, <2>5, QuietStep
<1>5. ASSUME v # None, NEW content \in (IF o \in KeepsCard THEN {v} ELSE Progress),
             plan' = [plan EXCEPT ![w].result = [content |-> content, outcome |-> o]],
             pc' = [pc EXCEPT ![w] = "checkpoint"], UNCHANGED ledger
      PROVE  WorkInv'
  <2>1. content \in Contents
    BY <1>1, <1>3, <1>5, LoopConstants DEF Records
  <2>2. [content |-> content, outcome |-> o] \in Results
    BY <1>3, <2>1 DEF Results
  <2>3. /\ plan'[w] = [plan[w] EXCEPT !.result = [content |-> content, outcome |-> o]]
        /\ plan'[w] \in Plan /\ plan' \in [Workers -> Plan \cup {None}]
        /\ plan'[w].run = plan[w].run /\ plan'[w].outcome = plan[w].outcome
        /\ plan'[w].result \in Results
    BY <1>1, <1>3, <1>5, <2>2 DEF Plan
  <2>4. pc'[w] = "checkpoint" /\ pc' \in [Workers -> Points]
    BY <1>1, <1>5 DEF Points
  <2>5. WorkTypeOK'
    BY <1>2, <1>5, <2>3, <2>4 DEF WorkInv, WorkTypeOK, TypeOK, txVars
  <2>6. OthersStay(w) /\ LedgersStay /\ StaysOwner(w)
    BY <1>1, <1>2, <1>5, <2>3, <2>4 DEF OthersStay, LedgersStay, StaysOwner, Owning, Points
  <2>7. PlanSound(w)' /\ EngineSound(w)'
    BY <1>1, <1>2, <1>3, <2>3, <2>4
       DEF PlanSound, EngineSound, Unstarted, Owning, Points, Ledgered
  <2>8. pc[w] \notin Waiting /\ pc'[w] \notin Waiting /\ pin' \subseteq pin
    BY <1>2, <2>4 DEF Waiting
  <2>9. QED
    BY <1>2, <2>5, <2>6, <2>7, <2>8, QuietStep
<1>6. QED
  BY <1>4, <1>5 DEF BuildTransition

(* A suppressed run has no engine either.                                  *)
LEMMA SuppressKeeps ==
  ASSUME WorkInv, IInv', NEW w \in Workers, Suppress(w)
  PROVE  WorkInv'
<1> DEFINE op == PhaseOp("suppressed", plan[w].run, plan[w].key)
           fate == AttemptFate(op, TRUE)
           x == Attempted(op, 1, TRUE)
           next == IF fate = "push" THEN "suppressing" ELSE AfterTx("suppressing", fate = "ok")
<1>1. /\ pc \in [Workers -> Points] /\ plan \in [Workers -> Plan \cup {None}]
      /\ ledger \in [Runs -> {"none", "running", "done"}] /\ tx \in [Workers -> Tx]
      /\ PlanSound(w) /\ EngineSound(w) /\ SentSound(w)
  BY DEF WorkInv, WorkTypeOK, TypeOK
<1>2. PICK o \in Outcomes \ KeepsCard :
        Call(w, op, TRUE) /\ pc' = [pc EXCEPT ![w] = next] /\ plan' = [plan EXCEPT ![w].outcome = o]
  BY DEF Suppress
<1>3. /\ pc[w] = "claimed" /\ ledger' = [ledger EXCEPT ![plan[w].run] = "running"]
      /\ UNCHANGED <<pin, issued, engine>>
  BY DEF Suppress
<1>4. plan[w] \in Plan /\ plan[w].run \in issued /\ plan[w].run \in Runs /\ plan[w].key \in Keys
  BY <1>1, <1>3 DEF PlanSound, Plan
<1>5. op.kind = "suppressed" /\ op.run = plan[w].run
  BY DEF PhaseOp, RunOp
<1>6. tx' = [tx EXCEPT ![w] = x] /\ UNCHANGED <<upstream, expired, sent>> /\ tx'[w] = x
  BY <1>1, <1>2 DEF Call
<1>7. /\ fate = "push" => x.state = "push" /\ x.op = op /\ x.tries = 1
      /\ fate # "push" => x = Idle
  BY DEF Attempted, Pushing
<1>8. /\ next \in {"suppressing", "ended", "release"}
      /\ fate = "push" <=> next = "suppressing"
  BY DEF AfterTx
<1> HIDE DEF op, fate, x, next
<1>9. /\ plan'[w] = [plan[w] EXCEPT !.outcome = o] /\ plan'[w] \in Plan
      /\ plan' \in [Workers -> Plan \cup {None}]
      /\ plan'[w].run = plan[w].run /\ plan'[w].outcome = o
  BY <1>1, <1>2, <1>4 DEF Plan
<1>10. pc'[w] = next /\ pc' \in [Workers -> Points]
  BY <1>1, <1>2, <1>8 DEF Points, Waiting
<1>11. ledger' \in [Runs -> {"none", "running", "done"}] /\ LedgersStay
  BY <1>1, <1>3, <1>4 DEF LedgersStay
<1>12. WorkTypeOK'
  BY <1>3, <1>9, <1>10, <1>11 DEF WorkInv, WorkTypeOK, IInv
<1>13. OthersStay(w) /\ StaysOwner(w)
  BY <1>1, <1>2, <1>3, <1>8, <1>9, <1>10 DEF OthersStay, StaysOwner, Owning, Points
<1>14. PlanSound(w)' /\ EngineSound(w)'
  BY <1>1, <1>3, <1>4, <1>6, <1>8, <1>9, <1>10
     DEF PlanSound, EngineSound, Unstarted, Owning, Points, Ledgered
<1>15. TxSound(w)'
  <2>1. CASE fate = "push"
    BY <1>5, <1>6, <1>7, <1>8, <1>9, <1>10, <2>1 DEF TxSound, Serves
  <2>2. CASE fate # "push"
    <3>1. x = Idle /\ Idle.state = "idle" /\ next \notin Waiting
      BY <1>7, <1>8, <2>2 DEF Idle, Waiting
    <3>2. tx'[w] = Idle /\ tx'[w].state = "idle" /\ pc'[w] \notin Waiting
      BY <1>6, <1>10, <3>1
    <3>3. QED
      BY <3>2 DEF TxSound
  <2>3. QED
    BY <2>1, <2>2
<1>16. SentSound(w)'
  BY <1>1, <1>3, <1>6 DEF SentSound
<1>17. \A v \in Workers : Apart(w, v)' /\ Apart(v, w)'
  BY <1>6, <1>13, ApartStay
<1>18. \A v \in Workers \ {w} : tx'[v] = tx[v]
  BY <1>1, <1>6
<1>19. QED
  BY <1>3, <1>6, <1>11, <1>12, <1>13, <1>14, <1>15, <1>16, <1>17, <1>18, WorkerActs

(* The steps of a wake that has claimed or plans to.                       *)
LEMMA WorkKeeps ==
  ASSUME WorkInv, IInv', NEW w \in Workers, Work(w)
  PROVE  WorkInv'
<1>1. /\ pc \in [Workers -> Points] /\ plan \in [Workers -> Plan \cup {None}]
      /\ ledger \in [Runs -> {"none", "running", "done"}]
  BY DEF WorkInv, WorkTypeOK
<1>2. PlanSound(w) /\ EngineSound(w) /\ TxSound(w)
  BY DEF WorkInv
<1>3. pc[w] # "idle" => /\ plan[w] \in Plan /\ plan[w].run \in issued
                        /\ plan[w].run \in Runs /\ plan[w].key \in Keys
  BY <1>2 DEF PlanSound, Plan
<1>4. CASE Claim(w)
  <2>1. pc[w] = "planned" /\ plan[w].rev \in Contents /\ (w \in pin => NoOpen(upstream))
    BY <1>2, <1>4 DEF Claim, PlanSound
  <2> DEFINE op == ClaimOp(plan[w].run, plan[w].key, plan[w].rev)
  <2>3. op \in Ops
    BY <1>3, <2>1, OpsInclude
  <2>4. op.kind = "claim" /\ op.run = plan[w].run
    BY DEF ClaimOp, RunOp
  <2>5. <<pc[w], "claiming">> \in Leads /\ <<"claiming", "claim">> \in Serves /\ "claiming" \in Waiting
    BY <2>1 DEF Leads, Serves, Waiting
  <2>6. /\ Start(w, op, w \in pin, "claiming") /\ UNCHANGED <<issued, engine>> /\ pin' \subseteq pin
        /\ (w \in pin) \in BOOLEAN
    BY <1>4 DEF Claim
  <2> HIDE DEF op
  <2>7. QED
    BY <2>1, <2>3, <2>4, <2>5, <2>6, StartKeeps
<1>5. CASE Resume(w)
  <2>1. pc[w] = "resume" /\ plan[w].outcome \in Outcomes
    BY <1>2, <1>5 DEF Resume, PlanSound, Concluding
  <2> DEFINE op == FinalizeOp(plan[w].run, plan[w].key, plan[w].outcome, TRUE)
  <2>3. op \in Ops
    BY <1>3, <2>1, OpsInclude
  <2>4. op.kind = "finalize" /\ op.run = plan[w].run
    BY DEF FinalizeOp, RunOp
  <2>5. <<pc[w], "resuming">> \in Leads /\ <<"resuming", "finalize">> \in Serves /\ "resuming" \in Waiting
    BY <2>1 DEF Leads, Serves, Waiting
  <2>6. Start(w, op, TRUE, "resuming") /\ UNCHANGED <<issued, engine>> /\ pin' \subseteq pin
    BY <1>5 DEF Resume
  <2> HIDE DEF op
  <2>7. QED
    BY <2>3, <2>4, <2>5, <2>6, StartKeeps
<1>6. CASE Dispatch(w)
  <2>1. pc[w] = "bootstrap"
    BY <1>6 DEF Dispatch
  <2> DEFINE op == PhaseOp("dispatched", plan[w].run, plan[w].key)
  <2>3. op \in Ops
    BY <1>3, <2>1, OpsInclude
  <2>4. op.kind = "dispatched" /\ op.run = plan[w].run
    BY DEF PhaseOp, RunOp
  <2>5. /\ <<pc[w], "dispatching">> \in Leads /\ <<"dispatching", "dispatched">> \in Serves
        /\ "dispatching" \in Waiting
    BY <2>1 DEF Leads, Serves, Waiting
  <2>6. Start(w, op, TRUE, "dispatching") /\ UNCHANGED <<issued, engine>> /\ pin' \subseteq pin
    BY <1>6 DEF Dispatch
  <2> HIDE DEF op
  <2>7. QED
    BY <2>3, <2>4, <2>5, <2>6, StartKeeps
<1>7. CASE Release(w)
  <2>1. pc[w] = "release"
    BY <1>7 DEF Release
  <2> DEFINE op == ReleaseOp(plan[w].run, plan[w].key)
  <2>3. op \in Ops
    BY <1>3, <2>1, OpsInclude
  <2>4. op.kind = "release" /\ op.run = plan[w].run
    BY DEF ReleaseOp, RunOp
  <2>5. <<pc[w], "releasing">> \in Leads /\ <<"releasing", "release">> \in Serves /\ "releasing" \in Waiting
    BY <2>1 DEF Leads, Serves, Waiting
  <2>6. Start(w, op, TRUE, "releasing") /\ UNCHANGED <<issued, engine>> /\ pin' \subseteq pin
    BY <1>7 DEF Release
  <2> HIDE DEF op
  <2>7. QED
    BY <2>3, <2>4, <2>5, <2>6, StartKeeps
<1>8. CASE Checkpoint(w)
  <2>1. pc[w] = "checkpoint" /\ plan[w].result \in Results
    BY <1>2, <1>8 DEF Checkpoint, PlanSound
  <2> DEFINE op == CheckpointOp(plan[w].run, plan[w].key, plan[w].result)
  <2>3. op \in Ops
    BY <1>3, <2>1, OpsInclude
  <2>4. op.kind = "checkpoint" /\ op.run = plan[w].run
    BY DEF CheckpointOp, RunOp
  <2>5. /\ <<pc[w], "checkpointing">> \in Leads /\ <<"checkpointing", "checkpoint">> \in Serves
        /\ "checkpointing" \in Waiting
    BY <2>1 DEF Leads, Serves, Waiting
  <2>6. Start(w, op, TRUE, "checkpointing") /\ UNCHANGED <<issued, engine>> /\ pin' \subseteq pin
    BY <1>8 DEF Checkpoint
  <2> HIDE DEF op
  <2>7. QED
    BY <2>3, <2>4, <2>5, <2>6, StartKeeps
<1>9. CASE Finalize(w)
  <2>1. pc[w] = "finalize" /\ plan[w].outcome \in Outcomes
    BY <1>2, <1>9 DEF Finalize, PlanSound, Concluding
  <2> DEFINE op == FinalizeOp(plan[w].run, plan[w].key, plan[w].outcome, FALSE)
  <2>3. op \in Ops
    BY <1>3, <2>1, OpsInclude
  <2>4. op.kind = "finalize" /\ op.run = plan[w].run
    BY DEF FinalizeOp, RunOp
  <2>5. /\ <<pc[w], "finalizing">> \in Leads /\ <<"finalizing", "finalize">> \in Serves
        /\ "finalizing" \in Waiting
    BY <2>1 DEF Leads, Serves, Waiting
  <2>6. Start(w, op, TRUE, "finalizing") /\ UNCHANGED <<issued, engine>> /\ pin' \subseteq pin
    BY <1>9 DEF Finalize
  <2> HIDE DEF op
  <2>7. QED
    BY <2>3, <2>4, <2>5, <2>6, StartKeeps
<1>10. CASE Suppress(w)
  BY <1>10, SuppressKeeps
<1>11. CASE Bail(w)
  <2>1. /\ pc[w] = "claimed" /\ pc' = [pc EXCEPT ![w] = "release"]
        /\ UNCHANGED <<txVars, plan, pin, issued, engine, ledger>>
    BY <1>11 DEF Bail
  <2>2. WorkTypeOK'
    BY <1>1, <2>1 DEF WorkInv, WorkTypeOK, TypeOK, txVars, Points
  <2>3. OthersStay(w) /\ LedgersStay /\ StaysOwner(w) /\ pc'[w] = "release" /\ plan'[w] = plan[w]
    BY <1>1, <2>1 DEF OthersStay, LedgersStay, StaysOwner, Owning, Points
  <2>4. PlanSound(w)' /\ EngineSound(w)'
    BY <1>2, <2>1, <2>3 DEF PlanSound, EngineSound, Concluding, Unstarted, Owning, Points, Ledgered
  <2>5. pc[w] \notin Waiting /\ pc'[w] \notin Waiting /\ pin' \subseteq pin
    BY <2>1, <2>3 DEF Waiting
  <2>6. QED
    BY <2>1, <2>2, <2>3, <2>4, <2>5, QuietStep
<1>12. CASE WriteLedger(w)
  <2>1. /\ pc[w] = "claimed" /\ pc' = [pc EXCEPT ![w] = "bootstrap"]
        /\ ledger' = [ledger EXCEPT ![plan[w].run] = "running"]
        /\ UNCHANGED <<txVars, plan, pin, issued, engine>>
    BY <1>12 DEF WriteLedger
  <2>2. WorkTypeOK'
    BY <1>1, <1>3, <2>1 DEF WorkInv, WorkTypeOK, TypeOK, txVars, Points
  <2>3. /\ OthersStay(w) /\ LedgersStay /\ StaysOwner(w) /\ pc'[w] = "bootstrap"
        /\ plan'[w] = plan[w] /\ ledger'[plan[w].run] = "running"
    BY <1>1, <1>3, <2>1 DEF OthersStay, LedgersStay, StaysOwner, Owning, Points
  <2>4. PlanSound(w)' /\ EngineSound(w)'
    BY <1>2, <2>1, <2>3 DEF PlanSound, EngineSound, Concluding, Unstarted, Owning, Points, Ledgered
  <2>5. pc[w] \notin Waiting /\ pc'[w] \notin Waiting /\ pin' \subseteq pin
    BY <2>1, <2>3 DEF Waiting
  <2>6. QED
    BY <2>1, <2>2, <2>3, <2>4, <2>5, QuietStep
<1>13. CASE BootstrapFails(w)
  <2>1. /\ pc[w] = "bootstrap" /\ pc' = [pc EXCEPT ![w] = "release"]
        /\ UNCHANGED <<txVars, plan, pin, issued, engine, ledger>>
    BY <1>13 DEF BootstrapFails
  <2>2. WorkTypeOK'
    BY <1>1, <2>1 DEF WorkInv, WorkTypeOK, TypeOK, txVars, Points
  <2>3. OthersStay(w) /\ LedgersStay /\ StaysOwner(w) /\ pc'[w] = "release" /\ plan'[w] = plan[w]
    BY <1>1, <2>1 DEF OthersStay, LedgersStay, StaysOwner, Owning, Points
  <2>4. PlanSound(w)' /\ EngineSound(w)'
    BY <1>2, <2>1, <2>3 DEF PlanSound, EngineSound, Concluding, Unstarted, Owning, Points, Ledgered
  <2>5. pc[w] \notin Waiting /\ pc'[w] \notin Waiting /\ pin' \subseteq pin
    BY <2>1, <2>3 DEF Waiting
  <2>6. QED
    BY <2>1, <2>2, <2>3, <2>4, <2>5, QuietStep
<1>14. CASE SpawnRefused(w)
  <2>1. PICK o \in Outcomes \ KeepsCard : plan' = [plan EXCEPT ![w].outcome = o]
    BY <1>14 DEF SpawnRefused
  <2>2. /\ pc[w] = "spawn" /\ pc' = [pc EXCEPT ![w] = "ended"]
        /\ UNCHANGED <<txVars, pin, issued, engine, ledger>>
    BY <1>14 DEF SpawnRefused
  <2>3. /\ plan'[w] = [plan[w] EXCEPT !.outcome = o] /\ plan'[w] \in Plan
        /\ plan' \in [Workers -> Plan \cup {None}]
    BY <1>1, <1>3, <2>1, <2>2 DEF Plan
  <2>4. WorkTypeOK'
    BY <1>1, <2>2, <2>3 DEF WorkInv, WorkTypeOK, TypeOK, txVars, Points
  <2>5. /\ OthersStay(w) /\ LedgersStay /\ StaysOwner(w) /\ pc'[w] = "ended"
        /\ plan'[w].run = plan[w].run /\ plan'[w].outcome = o
    BY <1>1, <1>3, <2>1, <2>2, <2>3 DEF OthersStay, LedgersStay, StaysOwner, Owning, Points, Plan
  <2>6. PlanSound(w)' /\ EngineSound(w)'
    BY <1>2, <1>3, <2>2, <2>3, <2>5
       DEF PlanSound, EngineSound, Unstarted, Owning, Points, Ledgered
  <2>7. pc[w] \notin Waiting /\ pc'[w] \notin Waiting /\ pin' \subseteq pin
    BY <2>2, <2>5 DEF Waiting
  <2>8. QED
    BY <2>2, <2>4, <2>5, <2>6, <2>7, QuietStep
<1>15. CASE BuildTransition(w)
  BY <1>15, BuildKeeps
<1>16. CASE Spawn(w) \/ EngineExits(w)
  BY <1>16, EngineKeeps
<1>17. QED
  BY <1>4, <1>5, <1>6, <1>7, <1>8, <1>9, <1>10, <1>11, <1>12, <1>13, <1>14, <1>15, <1>16 DEF Work

-----------------------------------------------------------------------------
(* A wake begins or gives up, an operator reconciles, a worker dies.       *)
LEMMA PlansKeep ==
  ASSUME WorkInv, IInv', NEW w \in Workers, WakePlans(w)
  PROVE  WorkInv'
<1>1. PICK r \in Runs \ issued, k \in Keys :
        /\ upstream.card[k[1]] \in Eligible
        /\ plan' = [plan EXCEPT ![w] = NewPlan(r, k, upstream.card[k[1]], None)]
        /\ issued' = issued \cup {r}
  BY DEF WakePlans
<1>2. /\ pc[w] = "idle" /\ PendingRuns(upstream) = {} /\ pin' = pin \cup {w}
      /\ pc' = [pc EXCEPT ![w] = "planned"] /\ UNCHANGED <<txVars, engine, ledger>>
  BY DEF WakePlans
<1>3. /\ pc \in [Workers -> Points] /\ plan \in [Workers -> Plan \cup {None}]
      /\ PlanSound(w) /\ TxSound(w) /\ SentSound(w) /\ RunsSound
  BY DEF WorkInv, WorkTypeOK
<1>4. UNCHANGED <<upstream, expired, tx, sent>>
  BY <1>2 DEF txVars
<1>5. upstream.card[k[1]] \in Contents
  BY <1>1, LoopConstants
<1>6. /\ plan'[w] = NewPlan(r, k, upstream.card[k[1]], None) /\ plan'[w] \in Plan
      /\ plan'[w].run = r /\ plan'[w].rev = upstream.card[k[1]]
      /\ plan' \in [Workers -> Plan \cup {None}]
  BY <1>1, <1>3, <1>5 DEF NewPlan, Plan
<1>7. pc'[w] = "planned" /\ pc' \in [Workers -> Points]
  BY <1>2, <1>3 DEF Points
<1>8. WorkTypeOK'
  BY <1>1, <1>2, <1>6, <1>7 DEF WorkInv, WorkTypeOK, IInv
<1>9. OthersStay(w) /\ LedgersStay /\ issued \subseteq issued'
  BY <1>1, <1>2, <1>3 DEF OthersStay, LedgersStay
<1>10. PlanSound(w)'
  <2>1. NoOpen(upstream)
    BY <1>2, NothingPending
  <2>2. QED
    BY <1>1, <1>4, <1>5, <1>6, <1>7, <2>1 DEF PlanSound, Concluding
<1>11. TxSound(w)' /\ SentSound(w)'
  <2>1. tx[w].state = "idle" /\ tx[w] = Idle
    BY <1>2, <1>3 DEF TxSound, Serves
  <2>2. QED
    BY <1>2, <1>3, <1>4, <1>7, <1>9, <2>1 DEF TxSound, SentSound, Waiting
<1>12. EngineSound(w)'
  <2>1. engine[r] = "none"
    BY <1>1, <1>3 DEF RunsSound
  <2>2. QED
    BY <1>2, <1>6, <1>7, <2>1 DEF EngineSound, Ledgered
<1>13. ASSUME NEW v \in Workers
       PROVE  Apart(w, v)' /\ Apart(v, w)'
  <2>1. PlanSound(v) /\ SentSound(v) /\ Apart(v, w) /\ (v # w => pc'[v] = pc[v] /\ plan'[v] = plan[v])
    BY <1>9 DEF WorkInv, OthersStay
  <2>2. pc[v] \in Owning => plan[v].run # r
    BY <1>1, <2>1 DEF PlanSound, Owning
  <2>3. sent[v] # None => sent[v].run # r
    BY <1>1, <2>1 DEF SentSound
  <2>4. SentSound(w)
    BY <1>3
  <2>5. sent[w] # None => sent[w].run # r
    BY <1>1, <2>4 DEF SentSound
  <2>6. QED
    BY <1>4, <1>6, <2>1, <2>2, <2>3, <2>5 DEF Apart
<1>14. \A v \in Workers \ {w} : v \in pin' => v \in pin
  BY <1>2
<1>15. QED
  BY <1>2, <1>4, <1>8, <1>9, <1>10, <1>11, <1>12, <1>13, <1>14, WorkerActs

LEMMA ResumesKeep ==
  ASSUME WorkInv, NEW w \in Workers, WakeResumes(w)
  PROVE  WorkInv'
<1>1. PICK r \in PendingRuns(upstream) :
        /\ RunState(upstream, r) = "recovery-ready"
        /\ plan' = [plan EXCEPT ![w] = NewPlan(r, upstream.recovery[r].key, None,
                                               upstream.recovery[r].result.outcome)]
  BY DEF WakeResumes
<1>2. /\ pc[w] = "idle" /\ pc' = [pc EXCEPT ![w] = "resume"]
      /\ UNCHANGED <<txVars, pin, issued, engine, ledger>>
  BY DEF WakeResumes
<1>3. /\ pc \in [Workers -> Points] /\ plan \in [Workers -> Plan \cup {None}]
      /\ RunsSound /\ Sound(upstream, expired) /\ r \in Runs
  BY DEF WorkInv, WorkTypeOK, IInv, PendingRuns
<1>4. /\ upstream.event[r] # None
      /\ upstream.recovery[r].key \in Keys /\ upstream.recovery[r].result.outcome \in Outcomes
  BY <1>1, <1>3, ReadyRun
<1>5. r \in issued
  BY <1>3, <1>4 DEF RunsSound
<1>6. /\ plan'[w] = NewPlan(r, upstream.recovery[r].key, None, upstream.recovery[r].result.outcome)
      /\ plan'[w] \in Plan /\ plan'[w].run = r /\ plan'[w].outcome \in Outcomes
      /\ plan' \in [Workers -> Plan \cup {None}]
  BY <1>1, <1>3, <1>4 DEF NewPlan, Plan
<1>7. pc'[w] = "resume" /\ pc' \in [Workers -> Points]
  BY <1>2, <1>3 DEF Points
<1>8. WorkTypeOK'
  BY <1>2, <1>6, <1>7 DEF WorkInv, WorkTypeOK, TypeOK, txVars
<1>9. OthersStay(w) /\ LedgersStay /\ StaysOwner(w)
  BY <1>1, <1>2, <1>3, <1>7 DEF OthersStay, LedgersStay, StaysOwner, Owning
<1>10. PlanSound(w)' /\ EngineSound(w)'
  BY <1>2, <1>5, <1>6, <1>7 DEF PlanSound, EngineSound, Unstarted, Owning, Ledgered
<1>11. pc[w] \notin Waiting /\ pc'[w] \notin Waiting /\ pin' \subseteq pin
  BY <1>2, <1>7 DEF Waiting
<1>12. QED
  BY <1>2, <1>8, <1>9, <1>10, <1>11, QuietStep

LEMMA GiveUpKeeps ==
  ASSUME WorkInv, NEW w \in Workers, GiveUp(w)
  PROVE  WorkInv'
<1>1. /\ pc[w] = "planned" /\ pc' = [pc EXCEPT ![w] = "idle"]
      /\ plan' = [plan EXCEPT ![w] = None] /\ pin' = pin \ {w}
      /\ UNCHANGED <<txVars, issued, engine, ledger>>
  BY DEF GiveUp
<1>2. pc \in [Workers -> Points] /\ plan \in [Workers -> Plan \cup {None}]
  BY DEF WorkInv, WorkTypeOK
<1>3. pc'[w] = "idle"
  BY <1>1, <1>2
<1>4. WorkTypeOK'
  BY <1>1, <1>2 DEF WorkInv, WorkTypeOK, TypeOK, txVars, Points
<1>5. OthersStay(w) /\ LedgersStay /\ StaysOwner(w)
  BY <1>1, <1>2, <1>3 DEF OthersStay, LedgersStay, StaysOwner, Owning
<1>6. PlanSound(w)' /\ EngineSound(w)'
  BY <1>3 DEF PlanSound, EngineSound, Concluding, Unstarted, Owning, Ledgered
<1>7. pc[w] \notin Waiting /\ pc'[w] \notin Waiting /\ pin' \subseteq pin
  BY <1>1, <1>3 DEF Waiting
<1>8. QED
  BY <1>1, <1>4, <1>5, <1>6, <1>7, QuietStep

LEMMA ReconcileKeeps ==
  ASSUME WorkInv, IInv', NEW w \in Workers, Reconcile(w)
  PROVE  WorkInv'
<1>1. PICK r \in Runs, k \in Keys :
        \E op \in {FinalizeOp(r, k, o, FALSE) : o \in Outcomes}
                     \cup {ReconcileOp(r, k, v) : v \in Contents} :
          /\ AttemptFate(op, TRUE) = "push"
          /\ Call(w, op, TRUE)
          /\ plan' = [plan EXCEPT ![w] = NewPlan(r, k, None, None)]
  BY DEF Reconcile
<1>2. PICK op \in {FinalizeOp(r, k, o, FALSE) : o \in Outcomes}
                    \cup {ReconcileOp(r, k, v) : v \in Contents} :
        /\ AttemptFate(op, TRUE) = "push"
        /\ Call(w, op, TRUE)
        /\ plan' = [plan EXCEPT ![w] = NewPlan(r, k, None, None)]
  BY <1>1
<1>3. /\ pc[w] = "idle" /\ pc' = [pc EXCEPT ![w] = "reconciling"] /\ pin' = pin \cup {w}
      /\ UNCHANGED <<issued, engine, ledger>>
  BY DEF Reconcile
<1>4. /\ pc \in [Workers -> Points] /\ plan \in [Workers -> Plan \cup {None}] /\ tx \in [Workers -> Tx]
      /\ SentSound(w) /\ RunsSound /\ Sound(upstream, expired)
  BY DEF WorkInv, WorkTypeOK, TypeOK, IInv
<1>5. op \in Asked
  <2>1. op \in Ops
    BY OpsInclude
  <2>2. QED
    BY <2>1, OpsAreAsked
<1>6. op.run = r /\ op.kind \in {"finalize", "reconcile"}
  BY DEF FinalizeOp, ReconcileOp, RunOp
<1>7. upstream.event[r] # None
  <2>1. Allowed(upstream, expired, op)
    BY <1>2 DEF AttemptFate
  <2>2. EventMoves(upstream, Effect(upstream, op), op)
    BY <1>4, <1>5, <2>1, EffectMoves
  <2>3. QED
    BY <1>6, <2>2 DEF EventMoves, OpenRun
<1>8. /\ tx' = [tx EXCEPT ![w] = Pushing(op, 1)] /\ tx'[w] = Pushing(op, 1)
      /\ UNCHANGED <<upstream, expired, sent>> /\ \A v \in Workers \ {w} : tx'[v] = tx[v]
  BY <1>2, <1>4 DEF Call, Attempted
<1>9. /\ plan'[w] = NewPlan(r, k, None, None) /\ plan'[w] \in Plan /\ plan'[w].run = r
      /\ plan' \in [Workers -> Plan \cup {None}]
  BY <1>2, <1>4 DEF NewPlan, Plan
<1>10. pc'[w] = "reconciling" /\ pc' \in [Workers -> Points]
  BY <1>3, <1>4 DEF Points, Waiting
<1>11. WorkTypeOK'
  BY <1>3, <1>9, <1>10 DEF WorkInv, WorkTypeOK, IInv
<1>12. OthersStay(w) /\ LedgersStay /\ StaysOwner(w)
  BY <1>2, <1>3, <1>4, <1>10 DEF OthersStay, LedgersStay, StaysOwner, Owning
<1>13. PlanSound(w)' /\ EngineSound(w)'
  BY <1>3, <1>4, <1>7, <1>9, <1>10
     DEF PlanSound, EngineSound, Unstarted, Owning, Ledgered, Concluding, RunsSound
<1>14. TxSound(w)'
  BY <1>6, <1>8, <1>9, <1>10 DEF TxSound, Pushing, Serves
<1>15. SentSound(w)'
  BY <1>3, <1>4, <1>8 DEF SentSound
<1>16. \A v \in Workers : Apart(w, v)' /\ Apart(v, w)'
  BY <1>8, <1>12, ApartStay
<1>17. QED
  BY <1>3, <1>8, <1>11, <1>12, <1>13, <1>14, <1>15, <1>16, WorkerActs

LEMMA CrashKeeps ==
  ASSUME WorkInv, IInv', NEW w \in Workers, Crash(w)
  PROVE  WorkInv'
<1>1. /\ pc[w] # "idle" /\ TxCrash(w) /\ pc' = [pc EXCEPT ![w] = "idle"]
      /\ plan' = [plan EXCEPT ![w] = None] /\ pin' = pin \ {w}
      /\ UNCHANGED <<issued, engine, ledger>>
  BY DEF Crash
<1>2. /\ pc \in [Workers -> Points] /\ plan \in [Workers -> Plan \cup {None}]
      /\ tx \in [Workers -> Tx] /\ sent \in [Workers -> Op \cup {None}] /\ SentSound(w)
  BY DEF WorkInv, WorkTypeOK, TypeOK
<1>3. /\ tx' = [tx EXCEPT ![w] = Idle] /\ tx'[w] = Idle /\ UNCHANGED <<upstream, expired>>
      /\ \A v \in Workers \ {w} : tx'[v] = tx[v] /\ sent'[v] = sent[v]
      /\ \/ sent'[w] = sent[w]
         \/ tx[w].state # "idle" /\ tx[w].tip /\ sent'[w] = tx[w].op
  BY <1>1, <1>2 DEF TxCrash
<1>4. pc'[w] = "idle" /\ pc' \in [Workers -> Points] /\ plan' \in [Workers -> Plan \cup {None}]
  BY <1>1, <1>2 DEF Points
<1>5. WorkTypeOK'
  BY <1>1, <1>4 DEF WorkInv, WorkTypeOK, IInv
<1>6. OthersStay(w) /\ LedgersStay /\ StaysOwner(w)
  BY <1>1, <1>2, <1>4 DEF OthersStay, LedgersStay, StaysOwner, Owning
<1>7. PlanSound(w)' /\ EngineSound(w)'
  BY <1>4 DEF PlanSound, EngineSound, Concluding, Unstarted, Owning, Ledgered
<1>8. TxSound(w)'
  BY <1>3, <1>4 DEF TxSound, Idle, Waiting
<1>9. SentSound(w)'
  <2>1. CASE sent'[w] = sent[w]
    BY <1>1, <1>2, <1>3, <2>1 DEF SentSound
  <2>2. CASE tx[w].state # "idle" /\ tx[w].tip /\ sent'[w] = tx[w].op
    BY <1>1, <1>3, <2>2, PushIsSound DEF SentSound
  <2>3. QED
    BY <1>3, <2>1, <2>2
<1>10. pc'[w] \notin Owning \ {"release", "releasing"}
  BY <1>4 DEF Owning
<1>11. \A v \in Workers : Apart(w, v)' /\ Apart(v, w)'
  BY <1>3, <1>6, <1>10, ApartStay
<1>12. \A v \in Workers \ {w} : v \in pin' => v \in pin
  BY <1>1
<1>13. QED
  BY <1>1, <1>3, <1>5, <1>6, <1>7, <1>8, <1>9, <1>11, <1>12, WorkerActs

LEMMA OrphanKeeps ==
  ASSUME WorkInv, NEW r \in Runs, OrphanExits(r)
  PROVE  WorkInv'
<1>1. /\ engine[r] = "running" /\ engine' = [engine EXCEPT ![r] = "over"]
      /\ UNCHANGED <<txVars, pc, plan, pin, issued, ledger>>
      /\ engine \in [Runs -> {"none", "running", "over"}] /\ RunsSound
  BY DEF OrphanExits, WorkInv, WorkTypeOK
<1>2. UNCHANGED <<upstream, expired, tx, sent>>
  BY <1>1 DEF txVars
<1>3. IInv'
  <2>1. [Next]_txVars /\ IInv
    BY <1>1 DEF WorkInv
  <2>2. QED
    BY <2>1, Invariance
<1>4. engine'[r] = "over" /\ \A q \in Runs : q # r => engine'[q] = engine[q]
  BY <1>1
<1>5. WorkTypeOK'
  BY <1>1, <1>2 DEF WorkInv, WorkTypeOK, TypeOK
<1>6. RunsSound'
  BY <1>1, <1>2, <1>4 DEF RunsSound, OneOpenRun, EngineIsRecorded, EngineIsAnswered
<1>7. ASSUME NEW v \in Workers
      PROVE  PlanSound(v)' /\ TxSound(v)' /\ SentSound(v)' /\ EngineSound(v)'
  <2>1. PlanSound(v) /\ TxSound(v) /\ SentSound(v) /\ EngineSound(v)
    BY DEF WorkInv
  <2>2. PlanSound(v)' /\ TxSound(v)'
    BY <1>1, <1>2, <2>1 DEF PlanSound, TxSound
  <2>3. sent[v] # None => sent[v].run \in Runs
    BY <2>1 DEF SentSound, WorkInv, WorkTypeOK
  <2>4. pc[v] # "idle" => plan[v].run \in Runs
    BY <2>1 DEF PlanSound, Plan
  <2>5. SentSound(v)'
    BY <1>1, <1>2, <1>4, <2>1, <2>3 DEF SentSound
  <2>6. pc[v] \in Unstarted \cup Owning \cup {"engine"} => pc[v] # "idle"
    BY DEF Unstarted, Owning
  <2>7. EngineSound(v)'
    BY <1>1, <1>2, <1>4, <2>1, <2>4, <2>6 DEF EngineSound
  <2>8. QED
    BY <2>2, <2>5, <2>7
<1>8. \A u, v \in Workers : Apart(u, v)'
  BY <1>1, <1>2 DEF WorkInv, Apart
<1>9. QED
  BY <1>3, <1>5, <1>6, <1>7, <1>8 DEF WorkInv

-----------------------------------------------------------------------------
(* Something lands upstream.  What the runs' records and engines say of    *)
(* each other stays true.                                                  *)
LEMMA LandsRuns ==
  ASSUME WorkInv, NEW op \in Asked, Allowed(upstream, expired, op),
         upstream' = Effect(upstream, op), UNCHANGED <<issued, engine>>, LedgersStay,
         op.run \in issued,
         op.kind = "claim" => NoOpen(upstream),
         op.kind = "release" => engine[op.run] = "none",
         op.kind = "checkpoint" => engine[op.run] # "running"
  PROVE  RunsSound'
<1>1. RunsSound /\ EventMoves(upstream, upstream', op)
  BY EffectMoves DEF WorkInv, IInv
<1>2. op.run \in Runs /\ op.kind \in Kinds
  BY DEF Asked, Op
<1>3. \A q \in Runs : q # op.run => upstream'.event[q] = upstream.event[q]
  BY <1>1 DEF EventMoves
<1>4. \A q \in Runs : upstream.event[q] # None => upstream'.event[q] # None
  BY <1>1, <1>3 DEF EventMoves
<1>5. \A q \in Runs : upstream'.event[q] # None => q \in issued
  BY <1>1, <1>3 DEF RunsSound
<1>6. OneOpenRun'
  <2>1. CASE op.kind = "claim"
    BY <1>3, <2>1 DEF NoOpen, OneOpenRun, OpenRun
  <2>2. CASE op.kind # "claim"
    <3>1. \A q \in Runs : OpenRun(upstream', q) => OpenRun(upstream, q)
      BY <1>1, <1>3, <2>2 DEF EventMoves, OpenRun
    <3>2. QED
      BY <1>1, <3>1 DEF RunsSound, OneOpenRun
  <2>3. QED
    BY <2>1, <2>2
<1>7. engine[op.run] = "running" /\ upstream'.event[op.run] # upstream.event[op.run] => FALSE
  <2> SUFFICES ASSUME engine[op.run] = "running", upstream'.event[op.run] # upstream.event[op.run]
               PROVE  FALSE
    OBVIOUS
  <2>1. upstream.event[op.run] # None /\ upstream.event[op.run].phase = "dispatched"
    BY <1>1, <1>2 DEF RunsSound, EngineIsRecorded
  <2>2. QED
    BY <1>1, <1>2, <2>1 DEF EventMoves, Kinds
<1>8. EngineIsRecorded'
  BY <1>1, <1>3, <1>7 DEF RunsSound, EngineIsRecorded
<1>9. engine[op.run] # "none" =>
          upstream'.event[op.run].phase \in {"dispatched", "finalizing", "finalized"}
  <2> SUFFICES ASSUME engine[op.run] # "none"
               PROVE  upstream'.event[op.run].phase \in {"dispatched", "finalizing", "finalized"}
    OBVIOUS
  <2>1. /\ upstream.event[op.run] # None
        /\ upstream.event[op.run].phase \in {"dispatched", "finalizing", "finalized"}
    BY <1>1, <1>2 DEF RunsSound, EngineIsAnswered
  <2>2. QED
    BY <1>1, <1>2, <2>1 DEF EventMoves, Kinds
<1>10. EngineIsAnswered'
  BY <1>1, <1>3, <1>9 DEF RunsSound, EngineIsAnswered, LedgersStay
<1>11. QED
  BY <1>1, <1>4, <1>5, <1>6, <1>8, <1>10 DEF RunsSound

(* A worker at which nothing happens but that the tip has moved.           *)
LEMMA TipMoves ==
  ASSUME WorkInv, NEW v \in Workers, pc'[v] = pc[v], plan'[v] = plan[v], tx'[v] = TxMoved[v],
         v \in pin' => v \in pin /\ upstream' = upstream, UNCHANGED <<issued, engine>>, LedgersStay,
         pc[v] = "spawn" => upstream'.event[plan[v].run] = upstream.event[plan[v].run]
  PROVE  PlanSound(v)' /\ TxSound(v)' /\ EngineSound(v)'
<1>1. /\ PlanSound(v) /\ TxSound(v) /\ EngineSound(v) /\ tx[v] \in Tx
  BY DEF WorkInv, WorkTypeOK, TypeOK
<1>2. PlanSound(v)'
  BY <1>1 DEF PlanSound
<1>3. TxSound(v)'
  <2>1. tx'[v] = [tx[v] EXCEPT !.tip = FALSE]
    BY DEF TxMoved
  <2>2. CASE tx[v].state = "idle"
    <3>1. tx[v] = Idle /\ pc[v] \notin Waiting
      BY <1>1, <2>2 DEF TxSound
    <3>2. tx[v].tip = FALSE
      BY <3>1 DEF Idle
    <3>3. [tx[v] EXCEPT !.tip = FALSE] = tx[v]
      BY <1>1, <3>2 DEF Tx
    <3>4. QED
      BY <2>1, <2>2, <3>1, <3>3 DEF TxSound
  <2>3. CASE tx[v].state # "idle"
    <3>1. /\ tx'[v].state = tx[v].state /\ tx'[v].op = tx[v].op /\ tx'[v].tries = tx[v].tries
          /\ ~tx'[v].tip
      BY <1>1, <2>1 DEF Tx
    <3>2. QED
      BY <1>1, <2>3, <3>1 DEF TxSound
  <2>4. QED
    BY <2>2, <2>3
<1>4. pc[v] \in Ledgered => plan[v].run \in Runs
  BY <1>1 DEF PlanSound, Plan, Ledgered
<1>5. EngineSound(v)'
  BY <1>1, <1>4 DEF EngineSound, LedgersStay
<1>6. QED
  BY <1>2, <1>3, <1>5

(* No worker about to start an engine can be overtaken.                    *)
LEMMA SpawnIsSafe ==
  ASSUME WorkInv, NEW v \in Workers, pc[v] = "spawn", NEW op \in Asked,
         Allowed(upstream, expired, op),
         op.run = plan[v].run => op.kind \in {"finalize", "reconcile"}
  PROVE  Effect(upstream, op).event[plan[v].run] = upstream.event[plan[v].run]
<1>1. PlanSound(v) /\ EngineSound(v) /\ EventMoves(upstream, Effect(upstream, op), op)
  BY EffectMoves DEF WorkInv, IInv
<1>2. plan[v].run \in Runs /\ upstream.event[plan[v].run].phase = "dispatched"
  BY <1>1 DEF PlanSound, EngineSound, Plan
<1>3. QED
  BY <1>1, <1>2 DEF EventMoves

(* W: the workers at which nothing happens.                                *)
LEMMA SomethingLands ==
  ASSUME WorkInv, IInv', WorkTypeOK', RunsSound', sent' = NoneSent, NEW W \in SUBSET Workers,
         \A v \in W : pc'[v] = pc[v] /\ plan'[v] = plan[v],
         \A v \in W : PlanSound(v)' /\ TxSound(v)' /\ EngineSound(v)',
         \A v \in Workers \ W :
             StaysOwner(v) /\ PlanSound(v)' /\ TxSound(v)' /\ EngineSound(v)'
  PROVE  WorkInv'
<1>1. \A v \in Workers : sent'[v] = None
  BY DEF NoneSent
<1>2. \A v \in Workers : SentSound(v)'
  BY <1>1 DEF SentSound
<1>3. ASSUME NEW u \in Workers, NEW v \in Workers
      PROVE  Apart(u, v)'
  <2>1. /\ pc'[u] \in Owning => pc[u] \in Owning /\ plan'[u].run = plan[u].run
        /\ pc'[v] \in Owning => pc[v] \in Owning /\ plan'[v].run = plan[v].run
    BY DEF StaysOwner
  <2>2. Apart(u, v)
    BY DEF WorkInv
  <2>3. QED
    BY <1>1, <2>1, <2>2 DEF Apart
<1>4. QED
  BY <1>2, <1>3 DEF WorkInv

(* What a worker makes of the answer to its push.                          *)
LEMMA AnswerIsSound ==
  ASSUME WorkInv, NEW w \in Workers, tx[w].state = "push", NEW seen \in Answers,
         tx'[w] = Answered(w, seen),
         pc'[w] = IF PushFate(w, seen) \in {"push", "retry"} THEN pc[w]
                  ELSE AfterTx(pc[w], PushFate(w, seen) = "ok"),
         pc'[w] # "idle" => plan'[w] = plan[w]
  PROVE  TxSound(w)'
<1>1. /\ tx[w] \in Tx /\ tx[w].op.run = plan[w].run /\ <<pc[w], tx[w].op.kind>> \in Serves
      /\ tx[w].tries > 0
  BY DEF WorkInv, WorkTypeOK, TypeOK, TxSound
<1>2. CASE PushFate(w, seen) = "retry"
  <2>1. /\ tx'[w].state = "retry" /\ ~tx'[w].tip /\ tx'[w].op = tx[w].op
        /\ tx'[w].tries = tx[w].tries
    BY <1>1, <1>2 DEF Answered, Tx
  <2>2. tx[w].op.kind \notin {"claim", "reconcile"}
    <3>1. tx[w].tries < AttemptsOf(tx[w].op) /\ tx[w].tries \in Nat
      BY <1>1, <1>2 DEF PushFate, Tx
    <3>2. tx[w].op.kind \in {"claim", "reconcile"} => AttemptsOf(tx[w].op) = 1
      BY DEF AttemptsOf
    <3>3. QED
      BY <1>1, <3>1, <3>2
  <2>3. pc'[w] = pc[w] /\ plan'[w] = plan[w]
    BY <1>1, <1>2 DEF Serves
  <2>4. QED
    BY <1>1, <2>1, <2>2, <2>3 DEF TxSound
<1>3. CASE PushFate(w, seen) # "retry"
  <2>1. tx'[w] = Idle /\ Idle.state = "idle"
    BY <1>3 DEF Answered, Idle
  <2>2. pc'[w] \notin Waiting
    BY <1>3 DEF PushFate, AfterTx, Waiting
  <2>3. QED
    BY <2>1, <2>2 DEF TxSound
<1>4. QED
  BY <1>2, <1>3

LEMMA PushLandsKeeps ==
  ASSUME WorkInv, IInv', NEW w \in Workers, pc[w] \in Waiting, NEW seen \in Answers,
         PushLands(w, seen), Proceed(w, pc[w], PushFate(w, seen)), Repin,
         UNCHANGED <<issued, engine>>
  PROVE  WorkInv'
<1> DEFINE op == tx[w].op
           fate == PushFate(w, seen)
<1>1. /\ tx[w].state = "push" /\ tx[w].tip /\ upstream' = Effect(upstream, op)
      /\ tx' = [TxMoved EXCEPT ![w] = Answered(w, seen)] /\ sent' = NoneSent
  BY DEF PushLands
<1>2. /\ tx \in [Workers -> Tx] /\ TxSound(w) /\ PlanSound(w)
      /\ op \in Asked /\ Allowed(upstream, expired, op)
  BY <1>1 DEF WorkInv, WorkTypeOK, TypeOK, IInv, SafePushes, SafeTx
<1>3. fate \in {"ok", "retry", "failed"}
  BY DEF PushFate
<1>4. /\ StaysOwner(w) /\ OthersStay(w) /\ LedgersStay
      /\ pc' \in [Workers -> Points] /\ plan' \in [Workers -> Plan \cup {None}]
      /\ ledger' \in [Runs -> {"none", "running", "done"}]
      /\ pc'[w] = IF fate \in {"push", "retry"} THEN pc[w] ELSE AfterTx(pc[w], fate = "ok")
      /\ pc'[w] # "idle" => plan'[w] = plan[w]
  BY <1>3, ProceedStays
<1>5. WorkTypeOK'
  BY <1>4 DEF WorkInv, WorkTypeOK, IInv, Repin
<1>6. /\ op.run = plan[w].run /\ <<pc[w], op.kind>> \in Serves /\ op.run \in issued
      /\ op.kind = "claim" => NoOpen(upstream)
      /\ op.kind = "release" => engine[op.run] = "none"
      /\ op.kind = "checkpoint" => engine[op.run] # "running"
  BY <1>1, <1>2, PushIsSound DEF TxSound
<1>7. RunsSound'
  BY <1>1, <1>2, <1>4, <1>6, LandsRuns
<1>8. PlanSound(w)' /\ EngineSound(w)'
  <2>1. fate = "ok" /\ pc[w] = "dispatching" =>
            upstream'.event[plan[w].run] # None /\ upstream'.event[plan[w].run].phase = "dispatched"
    <3>1. EventMoves(upstream, upstream', op)
      BY <1>1, <1>2, EffectMoves DEF WorkInv, IInv
    <3>2. pc[w] = "dispatching" => op.kind = "dispatched"
      BY <1>6 DEF Serves
    <3>3. QED
      BY <1>6, <3>1, <3>2 DEF EventMoves
  <2>2. QED
    BY <1>3, <2>1, ProceedSound
<1>9. tx'[w] = Answered(w, seen) /\ \A v \in Workers \ {w} : tx'[v] = TxMoved[v]
  BY <1>1 DEF TxMoved
<1>10. TxSound(w)'
  BY <1>1, <1>2, <1>3, <1>4, <1>6, <1>9, AnswerIsSound
<1>11. ASSUME NEW v \in Workers \ {w}
       PROVE  PlanSound(v)' /\ TxSound(v)' /\ EngineSound(v)'
  <2>1. pc'[v] = pc[v] /\ plan'[v] = plan[v] /\ tx'[v] = TxMoved[v]
    BY <1>4, <1>9 DEF OthersStay
  <2>2. v \in pin' => v \in pin /\ upstream' = upstream
    BY DEF Repin
  <2>3. pc[v] = "spawn" => upstream'.event[plan[v].run] = upstream.event[plan[v].run]
    <3> SUFFICES ASSUME pc[v] = "spawn"
                 PROVE  upstream'.event[plan[v].run] = upstream.event[plan[v].run]
      OBVIOUS
    <3>1. pc[v] \in Owning /\ Apart(w, v)
      BY DEF Owning, Points, WorkInv
    <3>2. op.run = plan[v].run => pc[w] \notin Owning
      BY <1>6, <3>1 DEF Apart
    <3>3. op.run = plan[v].run => op.kind \in {"finalize", "reconcile"}
      BY <1>6, <3>2 DEF Serves, Owning, Points, Waiting
    <3>4. QED
      BY <1>1, <1>2, <3>3, SpawnIsSafe
  <2>4. QED
    BY <1>4, <2>1, <2>2, <2>3, TipMoves
<1>12. \A v \in Workers \ {w} : pc'[v] = pc[v] /\ plan'[v] = plan[v]
  BY <1>4 DEF OthersStay
<1> HIDE DEF op, fate
<1>13. QED
  <2>1. Workers \ {w} \in SUBSET Workers /\ Workers \ (Workers \ {w}) = {w}
    OBVIOUS
  <2>2. \A v \in Workers \ (Workers \ {w}) :
            StaysOwner(v) /\ PlanSound(v)' /\ TxSound(v)' /\ EngineSound(v)'
    BY <1>4, <1>8, <1>10, <2>1
  <2>3. QED
    BY <1>1, <1>5, <1>7, <1>11, <1>12, <2>1, <2>2, SomethingLands

LEMMA LateKeeps ==
  ASSUME WorkInv, IInv', NEW w \in Workers, Late(w)
  PROVE  WorkInv'
<1>1. UNCHANGED <<pc, plan, issued, engine, ledger>> /\ Repin
  BY DEF Late
<1>2. LedgersStay /\ WorkTypeOK'
  BY <1>1 DEF LedgersStay, WorkInv, WorkTypeOK, IInv, Repin
<1>3. CASE LateLands(w)
  <2> DEFINE op == sent[w]
  <2>1. op # None /\ upstream' = Effect(upstream, op) /\ tx' = TxMoved /\ sent' = NoneSent
    BY <1>3 DEF LateLands
  <2>2. op \in Asked /\ Allowed(upstream, expired, op) /\ SentSound(w)
    BY <2>1 DEF WorkInv, IInv, SafePushes, SafeSent
  <2>3. RunsSound'
    <3>1. /\ op.run \in issued
          /\ op.kind = "claim" => NoOpen(upstream)
          /\ op.kind = "release" => engine[op.run] = "none"
          /\ op.kind = "checkpoint" => engine[op.run] # "running"
      BY <2>1, <2>2 DEF SentSound
    <3>2. QED
      BY <1>1, <1>2, <2>1, <2>2, <3>1, LandsRuns
  <2>4. ASSUME NEW v \in Workers
        PROVE  PlanSound(v)' /\ TxSound(v)' /\ EngineSound(v)'
    <3>1. pc[v] = "spawn" /\ op.run = plan[v].run => op.kind \in {"finalize", "reconcile"}
      <4>1. Apart(v, w)
        BY DEF WorkInv
      <4>2. QED
        BY <2>1, <4>1 DEF Apart, Owning, Points
    <3>2. pc[v] = "spawn" => upstream'.event[plan[v].run] = upstream.event[plan[v].run]
      BY <2>1, <2>2, <3>1, SpawnIsSafe
    <3>3. pc'[v] = pc[v] /\ plan'[v] = plan[v] /\ tx'[v] = TxMoved[v]
      BY <1>1, <2>1
    <3>4. v \in pin' => v \in pin /\ upstream' = upstream
      BY <1>1 DEF Repin
    <3>5. QED
      BY <1>1, <1>2, <3>2, <3>3, <3>4, TipMoves
  <2>5. \A v \in Workers : pc'[v] = pc[v] /\ plan'[v] = plan[v]
    BY <1>1
  <2>6. Workers \in SUBSET Workers /\ Workers \ Workers = {}
    OBVIOUS
  <2>7. QED
    BY <1>2, <2>1, <2>3, <2>4, <2>5, <2>6, SomethingLands
<1>4. CASE LateLost(w)
  <2>1. sent' = [sent EXCEPT ![w] = None] /\ UNCHANGED <<upstream, expired, tx>>
        /\ sent \in [Workers -> Op \cup {None}]
    BY <1>4 DEF LateLost, WorkInv, WorkTypeOK, TypeOK
  <2>2. sent'[w] = None /\ \A v \in Workers \ {w} : sent'[v] = sent[v]
    BY <2>1
  <2>3. OthersStay(w) /\ StaysOwner(w) /\ pin' \subseteq pin
    BY <1>1 DEF OthersStay, StaysOwner, Repin
  <2>4. PlanSound(w)' /\ TxSound(w)' /\ EngineSound(w)' /\ SentSound(w)'
    BY <1>1, <2>1, <2>2, <2>3 DEF WorkInv, PlanSound, TxSound, EngineSound, SentSound
  <2>5. \A v \in Workers : Apart(w, v)' /\ Apart(v, w)'
    BY <2>2, <2>3, ApartStay
  <2>6. QED
    BY <1>1, <1>2, <2>1, <2>2, <2>3, <2>4, <2>5, WorkerActs
<1>5. QED
  BY <1>3, <1>4 DEF Late

(* People edit cards and STOP, leases expire: no event changes.            *)
LEMMA OthersKeep ==
  ASSUME WorkInv, IInv', Others
  PROVE  WorkInv'
<1>1. UNCHANGED <<pc, plan, issued, engine, ledger>> /\ Repin /\ Environment
  BY DEF Others
<1>2. LedgersStay /\ WorkTypeOK'
  BY <1>1 DEF LedgersStay, WorkInv, WorkTypeOK, IInv, Repin
<1>3. ASSUME NEW next, HumanCommit(next), next.event = upstream.event
      PROVE  WorkInv'
  <2>1. upstream'.event = upstream.event /\ tx' = TxMoved /\ sent' = NoneSent
    BY <1>3 DEF HumanCommit
  <2>2. RunsSound'
    BY <1>1, <2>1
       DEF WorkInv, RunsSound, OneOpenRun, OpenRun, EngineIsRecorded, EngineIsAnswered
  <2>3. ASSUME NEW v \in Workers
        PROVE  PlanSound(v)' /\ TxSound(v)' /\ EngineSound(v)'
    <3>1. pc'[v] = pc[v] /\ plan'[v] = plan[v] /\ tx'[v] = TxMoved[v]
      BY <1>1, <2>1
    <3>2. v \in pin' => v \in pin /\ upstream' = upstream
      BY <1>1 DEF Repin
    <3>3. QED
      BY <1>1, <1>2, <2>1, <3>1, <3>2, TipMoves
  <2>4. \A v \in Workers : pc'[v] = pc[v] /\ plan'[v] = plan[v]
    BY <1>1
  <2>5. Workers \in SUBSET Workers /\ Workers \ Workers = {}
    OBVIOUS
  <2>6. QED
    BY <1>2, <2>1, <2>2, <2>3, <2>4, <2>5, SomethingLands
<1>4. ASSUME NEW c \in Cards, NEW v \in Edits, EditCard(c, v)
      PROVE  WorkInv'
  <2>1. HumanCommit([upstream EXCEPT !.card[c] = v]) /\ upstream \in Records
    BY <1>4 DEF EditCard, WorkInv, WorkTypeOK, TypeOK
  <2>2. [upstream EXCEPT !.card[c] = v].event = upstream.event
    BY <2>1 DEF Records
  <2>3. QED
    BY <1>3, <2>1, <2>2
<1>5. ASSUME NEW b \in Stops, SetStop(b)
      PROVE  WorkInv'
  <2>1. HumanCommit([upstream EXCEPT !.stop = b]) /\ upstream \in Records
    BY <1>5 DEF SetStop, WorkInv, WorkTypeOK, TypeOK
  <2>2. [upstream EXCEPT !.stop = b].event = upstream.event
    BY <2>1 DEF Records
  <2>3. QED
    BY <1>3, <2>1, <2>2
<1>6. ASSUME NEW r \in Runs, LeaseExpires(r)
      PROVE  WorkInv'
  <2>1. UNCHANGED <<upstream, tx, sent>> /\ pin' \subseteq pin
    BY <1>1, <1>6 DEF LeaseExpires, Repin
  <2>2. RunsSound'
    BY <1>1, <2>1 DEF WorkInv, RunsSound, OneOpenRun, EngineIsRecorded, EngineIsAnswered
  <2>3. \A v \in Workers : PlanSound(v)' /\ TxSound(v)' /\ EngineSound(v)' /\ SentSound(v)'
    BY <1>1, <2>1 DEF WorkInv, PlanSound, TxSound, EngineSound, SentSound
  <2>4. \A u, v \in Workers : Apart(u, v)'
    BY <1>1, <2>1 DEF WorkInv, Apart
  <2>5. QED
    BY <1>2, <2>2, <2>3, <2>4 DEF WorkInv
<1>7. QED
  BY <1>1, <1>4, <1>5, <1>6 DEF Environment

-----------------------------------------------------------------------------
(* A wake waits for its transaction.                                       *)
LEMMA TransactKeeps ==
  ASSUME WorkInv, IInv', NEW w \in Workers, Transact(w)
  PROVE  WorkInv'
<1>1. pc[w] \in Waiting /\ Repin /\ UNCHANGED <<issued, engine>>
  BY DEF Transact
<1>2. /\ tx \in [Workers -> Tx] /\ sent \in [Workers -> Op \cup {None}] /\ TxSound(w)
      /\ SafeTx(upstream, expired, tx[w])
  BY DEF WorkInv, WorkTypeOK, TypeOK, IInv, SafePushes
<1>3. upstream' = upstream => pin' \subseteq pin
  BY <1>1 DEF Repin
<1>4. Idle \in Tx
  BY DEF Idle, Tx, TxStates
<1>5. ASSUME NEW headOk \in BOOLEAN, Retry(w, headOk), Proceed(w, pc[w], AttemptFate(tx[w].op, headOk))
      PROVE  WorkInv'
  <2> DEFINE op == tx[w].op
             n == tx[w].tries + 1
             fate == AttemptFate(op, headOk)
             x == Attempted(op, n, headOk)
  <2>1. /\ tx[w].state = "retry" /\ tx' = [tx EXCEPT ![w] = x]
        /\ UNCHANGED <<upstream, expired, sent>>
    BY <1>5 DEF Retry
  <2>2. /\ op \in Asked /\ n \in Nat /\ n > 0
        /\ op.run = plan[w].run /\ <<pc[w], op.kind>> \in Serves /\ op.kind \notin {"claim", "reconcile"}
    BY <1>2, <2>1 DEF SafeTx, TxSound, Tx
  <2>3. x \in Tx
    BY <2>2, AttemptIsSafe
  <2>4. /\ fate \in {"ok", "push", "retry", "failed"}
        /\ fate \in {"ok", "failed"} => x = Idle
    BY DEF AttemptFate, Attempted
  <2>5. fate \in {"push", "retry"} => x.state = "push" /\ x.op = op /\ x.tries = n
    BY DEF AttemptFate, Attempted, Pushing
  <2>6. fate = "ok" /\ pc[w] = "dispatching" =>
            upstream.event[plan[w].run] # None /\ upstream.event[plan[w].run].phase = "dispatched"
    <3>1. pc[w] = "dispatching" => op.kind = "dispatched"
      BY <2>2 DEF Serves
    <3>2. fate = "ok" => Done(upstream, op)
      BY DEF AttemptFate
    <3>3. QED
      BY <2>2, <3>1, <3>2 DEF Done, PhaseDone, HoldsRun, EventMatchesLease
  <2> HIDE DEF op, n, fate, x
  <2>7. fate \in {"push", "retry"} =>
             /\ x.state # "idle" /\ x.op.run = plan[w].run /\ <<pc[w], x.op.kind>> \in Serves
             /\ x.tries > 0
             /\ x.state = "retry" => x.op.kind \notin {"claim", "reconcile"}
             /\ x.op.kind = "claim" /\ x.tip => NoOpen(upstream)
    BY <2>2, <2>5
  <2>8. Proceed(w, pc[w], fate) /\ UNCHANGED <<upstream, issued, engine>> /\ sent' = sent
        /\ pin' \subseteq pin
    BY <1>1, <1>3, <1>5, <2>1 DEF fate, op
  <2>9. QED
    <3>1. UNCHANGED <<upstream, issued, engine>> /\ pin' \subseteq pin /\ sent' = sent
      BY <2>8
    <3>2. Proceed(w, pc[w], fate) /\ tx' = [tx EXCEPT ![w] = x]
      BY <2>1, <2>8
    <3>3. QED
      BY <1>1, <2>3, <2>4, <2>6, <2>7, <3>1, <3>2, MovesOn
<1>6. ASSUME NEW seen \in Answers, PushLands(w, seen), Proceed(w, pc[w], PushFate(w, seen))
      PROVE  WorkInv'
  BY <1>1, <1>6, PushLandsKeeps
<1>7. ASSUME NEW seen \in Answers, PushFails(w, seen), Proceed(w, pc[w], PushFate(w, seen))
      PROVE  WorkInv'
  <2> DEFINE fate == PushFate(w, seen)
             x == Answered(w, seen)
  <2>1. /\ tx[w].state = "push" /\ seen # "ok" /\ tx' = [tx EXCEPT ![w] = x]
        /\ UNCHANGED <<upstream, expired, sent>>
    BY <1>7 DEF PushFails
  <2>2. x \in Tx
    BY <2>1, AnswerIsSafe DEF WorkInv, IInv
  <2>3. /\ fate \in {"retry", "failed"}
        /\ fate = "failed" => x = Idle
    BY <2>1 DEF PushFate, Answered
  <2>4. fate = "retry" => /\ x.state = "retry" /\ x.op = tx[w].op /\ x.tries = tx[w].tries /\ ~x.tip
                          /\ tx[w].op.kind \notin {"claim", "reconcile"}
    <3>1. fate = "retry" => x = [tx[w] EXCEPT !.state = "retry", !.tip = FALSE]
      BY DEF Answered
    <3>2. tx[w].tries > 0 /\ tx[w].tries \in Nat
      BY <1>2, <2>1 DEF TxSound, Tx
    <3>3. fate = "retry" => tx[w].tries < AttemptsOf(tx[w].op)
      BY DEF PushFate
    <3>4. tx[w].op.kind \in {"claim", "reconcile"} => AttemptsOf(tx[w].op) = 1
      BY DEF AttemptsOf
    <3>5. fate = "retry" => tx[w].op.kind \notin {"claim", "reconcile"}
      BY <3>2, <3>3, <3>4
    <3>6. QED
      BY <1>2, <3>1, <3>5 DEF Tx
  <2>5. tx[w].op.run = plan[w].run /\ <<pc[w], tx[w].op.kind>> \in Serves /\ tx[w].tries > 0
    BY <1>2, <2>1 DEF TxSound
  <2>6. Proceed(w, pc[w], fate)
    BY <1>7
  <2> HIDE DEF fate, x
  <2>7. fate \in {"push", "retry"} =>
             /\ x.state # "idle" /\ x.op.run = plan[w].run /\ <<pc[w], x.op.kind>> \in Serves
             /\ x.tries > 0
             /\ x.state = "retry" => x.op.kind \notin {"claim", "reconcile"}
             /\ x.op.kind = "claim" /\ x.tip => NoOpen(upstream)
    BY <2>3, <2>4, <2>5
  <2>8. /\ UNCHANGED <<upstream, issued, engine>> /\ sent' = sent /\ pin' \subseteq pin
        /\ fate \in {"ok", "push", "retry", "failed"} /\ fate # "ok"
        /\ fate \in {"ok", "failed"} => x = Idle
    BY <1>1, <1>3, <2>1, <2>3
  <2>9. QED
    BY <1>1, <2>1, <2>2, <2>6, <2>7, <2>8, MovesOn
<1>8. ASSUME PushOutstanding(w) \/ Timeout(w), Proceed(w, pc[w], "failed")
      PROVE  WorkInv'
  <2>1. tx' = [tx EXCEPT ![w] = Idle] /\ UNCHANGED <<upstream, issued, engine>> /\ pin' \subseteq pin
    BY <1>1, <1>3, <1>8 DEF PushOutstanding, Timeout
  <2>2. \/ sent' = sent
        \/ /\ tx[w].state # "idle" /\ tx[w].tip
           /\ sent' = [sent EXCEPT ![w] = tx[w].op]
    BY <1>8 DEF PushOutstanding, Timeout
  <2>3. QED
    BY <1>1, <1>4, <1>8, <2>1, <2>2, MovesOn
<1>9. CASE \E seen \in Answers : PushLands(w, seen) /\ Proceed(w, pc[w], PushFate(w, seen))
  BY <1>6, <1>9
<1>10. CASE \E seen \in Answers : PushFails(w, seen) /\ Proceed(w, pc[w], PushFate(w, seen))
  BY <1>7, <1>10
<1>11. CASE (PushOutstanding(w) \/ Timeout(w)) /\ Proceed(w, pc[w], "failed")
  BY <1>8, <1>11
<1>12. CASE LET headOk == pc[w] = "reconciling" => w \in pin
            IN  Retry(w, headOk) /\ Proceed(w, pc[w], AttemptFate(tx[w].op, headOk))
  <2> DEFINE headOk == pc[w] = "reconciling" => w \in pin
  <2>1. headOk \in BOOLEAN /\ Retry(w, headOk) /\ Proceed(w, pc[w], AttemptFate(tx[w].op, headOk))
    BY <1>12
  <2> HIDE DEF headOk
  <2>2. QED
    BY <1>5, <2>1
<1>13. QED
  BY <1>9, <1>10, <1>11, <1>12 DEF Transact

-----------------------------------------------------------------------------
LEMMA WorkInvariance == WorkInv /\ [WorkNext]_vars => WorkInv'
<1> SUFFICES ASSUME WorkInv, [WorkNext]_vars PROVE WorkInv'
  OBVIOUS
<1>1. IInv'
  <2>1. [Next]_txVars
    BY StepsAreTransactions
  <2>2. QED
    BY <2>1, Invariance DEF WorkInv
<1>2. ASSUME NEW w \in Workers,
             \/ WakePlans(w) \/ WakeResumes(w) \/ GiveUp(w) \/ Work(w)
             \/ Transact(w) \/ Late(w) \/ Reconcile(w) \/ Crash(w)
      PROVE  WorkInv'
  BY <1>1, <1>2, PlansKeep, ResumesKeep, GiveUpKeeps, WorkKeeps, TransactKeeps, LateKeeps,
     ReconcileKeeps, CrashKeeps
<1>3. ASSUME NEW r \in Runs, OrphanExits(r)
      PROVE  WorkInv'
  BY <1>3, OrphanKeeps
<1>4. CASE Others
  BY <1>1, <1>4, OthersKeep
<1>5. CASE UNCHANGED vars
  <2>1. UNCHANGED <<upstream, expired, tx, sent, pc, plan, pin, issued, engine, ledger>>
    BY <1>5 DEF vars, txVars, workVars
  <2>2. WorkTypeOK' /\ RunsSound'
    BY <2>1 DEF WorkInv, WorkTypeOK, TypeOK, RunsSound, OneOpenRun, EngineIsRecorded,
                EngineIsAnswered
  <2>3. \A w \in Workers : PlanSound(w)' /\ TxSound(w)' /\ SentSound(w)' /\ EngineSound(w)'
    BY <2>1 DEF WorkInv, PlanSound, TxSound, SentSound, EngineSound
  <2>4. \A w, v \in Workers : Apart(w, v)'
    BY <2>1 DEF WorkInv, Apart
  <2>5. QED
    BY <1>1, <2>2, <2>3, <2>4 DEF WorkInv
<1>6. QED
  BY <1>2, <1>3, <1>4, <1>5 DEF WorkNext

LEMMA WorkStarts == WorkInit => WorkInv /\ Init
<1> SUFFICES ASSUME WorkInit PROVE WorkInv /\ Init
  OBVIOUS
<1>1. PICK cards \in [Cards -> Eligible] : TxInit(cards)
  BY DEF WorkInit
<1>2. cards \in [Cards -> Contents \cup {None}]
  BY LoopConstants
<1>3. Init
  BY <1>1, <1>2 DEF Init
<1>4. /\ upstream = FreshRecords(cards) /\ expired = {}
      /\ tx = [w \in Workers |-> Idle] /\ sent = [w \in Workers |-> None]
      /\ pc = [w \in Workers |-> "idle"] /\ plan = [w \in Workers |-> None] /\ pin = {}
      /\ issued = {} /\ engine = [r \in Runs |-> "none"] /\ ledger = [r \in Runs |-> "none"]
  BY <1>1 DEF WorkInit, TxInit
<1>5. Sound(upstream, expired) /\ \A r \in Runs : upstream.event[r] = None
  <2>1. Sound(FreshRecords(cards), {})
    BY <1>2, FreshIsSound
  <2>2. QED
    BY <1>4, <2>1 DEF FreshRecords
<1>6. Idle \in Tx /\ Idle.state = "idle"
  BY DEF Idle, Tx, TxStates
<1>7. IInv /\ TypeOK
  BY <1>4, <1>5, <1>6 DEF IInv, TypeOK, Sound, SafePushes, SafeTx, SafeSent
<1>8. WorkTypeOK
  BY <1>4, <1>7 DEF WorkTypeOK, Points
<1>9. RunsSound
  BY <1>4, <1>5 DEF RunsSound, OneOpenRun, OpenRun, EngineIsRecorded, EngineIsAnswered
<1>10. ASSUME NEW w \in Workers
       PROVE  PlanSound(w) /\ TxSound(w) /\ SentSound(w) /\ EngineSound(w)
  <2>1. pc[w] = "idle" /\ tx[w] = Idle /\ sent[w] = None
    BY <1>4
  <2>2. QED
    BY <1>6, <2>1 DEF PlanSound, TxSound, SentSound, EngineSound, Concluding, Unstarted,
                      Owning, Ledgered, Waiting
<1>11. \A w, v \in Workers : Apart(w, v)
  BY <1>4 DEF Apart, Owning
<1>12. QED
  BY <1>3, <1>7, <1>8, <1>9, <1>10, <1>11 DEF WorkInv

(* What the wakes keep, for any number of machines.                        *)
THEOREM WorkInductive == LoopSpec => []WorkInv
BY WorkStarts, WorkInvariance, PTL DEF LoopSpec

(* The composition: whatever the wakes of any number of machines do is a   *)
(* behaviour of PMTransaction, so that everything proved of the records    *)
(* there holds of the loop.                                                *)
THEOREM WakesAreTransactions == LoopSpec => Spec
BY WorkStarts, WorkInductive, StepsAreTransactions, PTL DEF LoopSpec, Spec

(* And the lives of its runs are those RunLifecycle promises.              *)
THEOREM LoopLifecycle == LoopSpec => LifecycleSpec
BY WakesAreTransactions, Refinement, PTL

(* The values of the wakes' variables.                                     *)
THEOREM WorkTypeCorrect == LoopSpec => []WorkTypeOK
<1>1. WorkInv => WorkTypeOK
  BY DEF WorkInv
<1>2. QED
  BY <1>1, WorkInductive, PTL

(* Across all machines at most one run is unfinished (a claim is pinned to *)
(* a commit on which planAction found none).                               *)
THEOREM OpenRunIsOne == LoopSpec => []OneOpenRun
<1>1. WorkInv => OneOpenRun
  BY DEF WorkInv, RunsSound
<1>2. QED
  BY <1>1, WorkInductive, PTL

(* Two engines never run at once, whichever workers died, whichever leases *)
(* expired and whatever the operator reconciled.                           *)
THEOREM EngineIsOne == LoopSpec => []OneEngine
<1>1. WorkInv => OneEngine
  <2> SUFFICES ASSUME WorkInv, NEW r1 \in Runs, NEW r2 \in Runs,
                      engine[r1] = "running", engine[r2] = "running"
               PROVE  r1 = r2
    BY DEF OneEngine
  <2>1. OpenRun(upstream, r1) /\ OpenRun(upstream, r2)
    BY DEF WorkInv, RunsSound, EngineIsRecorded, OpenRun, TerminalPhases
  <2>2. QED
    BY <2>1 DEF WorkInv, RunsSound, OneOpenRun
<1>2. QED
  BY <1>1, WorkInductive, PTL

(* As long as an engine runs its run is recorded as dispatched upstream.   *)
THEOREM EngineRecorded == LoopSpec => []EngineIsRecorded
<1>1. WorkInv => EngineIsRecorded
  BY DEF WorkInv, RunsSound
<1>2. QED
  BY <1>1, WorkInductive, PTL

(* A run an engine was started for is never released, and has its ledger.  *)
THEOREM EngineAnswered == LoopSpec => []EngineIsAnswered
<1>1. WorkInv => EngineIsAnswered
  BY DEF WorkInv, RunsSound
<1>2. QED
  BY <1>1, WorkInductive, PTL
-----------------------------------------------------------------------------
(* STOP: a claim that may yet land was planned on a tip without it.        *)
ClaimsUnstopped ==
    \A w \in Workers :
        /\ pc[w] = "planned" /\ w \in pin => ~upstream.stop
        /\ tx[w].state = "push" /\ tx[w].tip /\ tx[w].op.kind = "claim" => ~upstream.stop
        /\ sent[w] # None /\ sent[w].kind = "claim" => ~upstream.stop

(* A commit takes back what rested on the tip before it.                   *)
LEMMA CommitsReset ==
  ASSUME WorkInv, [WorkNext]_vars, upstream' # upstream
  PROVE  pin' = {} /\ \A v \in Workers : ~tx'[v].tip /\ sent'[v] = None
<1>1. \A v \in Workers : tx[v] \in Tx /\ ~TxMoved[v].tip
  BY DEF WorkInv, IInv, TypeOK, TxMoved, Tx
<1>2. \A v \in Workers : NoneSent[v] = None
  BY DEF NoneSent
<1>3. ASSUME NEW w \in Workers, Transact(w)
      PROVE  pin' = {} /\ \A v \in Workers : ~tx'[v].tip /\ sent'[v] = None
  <2>1. PICK seen \in Answers : PushLands(w, seen)
    BY <1>3 DEF Transact, Retry, PushFails, PushOutstanding, Timeout
  <2>2. ~Answered(w, seen).tip
    BY <1>1 DEF Answered, Idle, Tx
  <2>3. \A v \in Workers : ~tx'[v].tip
    BY <1>1, <2>1, <2>2 DEF PushLands, TxMoved
  <2>4. QED
    BY <1>2, <1>3, <2>1, <2>3 DEF PushLands, Transact, Repin
<1>4. ASSUME NEW w \in Workers, Late(w)
      PROVE  pin' = {} /\ \A v \in Workers : ~tx'[v].tip /\ sent'[v] = None
  <2>1. LateLands(w)
    BY <1>4 DEF Late, LateLost
  <2>2. QED
    BY <1>1, <1>2, <1>4, <2>1 DEF LateLands, Late, Repin
<1>5. CASE Others
  <2>1. tx' = TxMoved /\ sent' = NoneSent
    BY <1>5 DEF Others, Environment, EditCard, SetStop, HumanCommit, LeaseExpires
  <2>2. QED
    BY <1>1, <1>2, <1>5, <2>1 DEF Others, Repin
<1>6. ASSUME NEW w \in Workers,
             WakePlans(w) \/ WakeResumes(w) \/ GiveUp(w) \/ Work(w) \/ Reconcile(w) \/ Crash(w)
      PROVE  FALSE
  BY <1>6 DEF WakePlans, WakeResumes, GiveUp, Work, Claim, Resume, WriteLedger, Suppress, Bail,
     BootstrapFails, Dispatch, Release, Spawn, SpawnRefused, EngineExits, BuildTransition,
     Checkpoint, Finalize, Start, Call, Reconcile, Crash, TxCrash, txVars
<1>7. ASSUME NEW r \in Runs, OrphanExits(r) PROVE FALSE
  BY <1>7 DEF OrphanExits, txVars
<1>8. ~UNCHANGED vars
  BY DEF vars, txVars
<1>9. QED
  BY <1>3, <1>4, <1>5, <1>6, <1>7, <1>8 DEF WorkNext

(* While the tip stays, one worker may plan, claim or leave its push       *)
(* behind.                                                                 *)
LEMMA ClaimsStay ==
  ASSUME ClaimsUnstopped, upstream' = upstream,
         \A v \in Workers : pc'[v] = "planned" /\ v \in pin' =>
             (pc[v] = "planned" /\ v \in pin) \/ ~upstream.stop,
         \A v \in Workers : tx'[v].state = "push" /\ tx'[v].tip /\ tx'[v].op.kind = "claim" =>
             tx'[v] = tx[v] \/ ~upstream.stop,
         \A v \in Workers : sent'[v] # None =>
             \/ sent'[v] = sent[v]
             \/ tx[v].state = "push" /\ tx[v].tip /\ sent'[v] = tx[v].op
  PROVE  ClaimsUnstopped'
BY DEF ClaimsUnstopped

(* An attempt that has the worker go on pushes what it was asked.          *)
LEMMA StartsUnstopped ==
  ASSUME WorkInv, ClaimsUnstopped, NEW w \in Workers, NEW op, NEW headOk \in BOOLEAN,
         Call(w, op, headOk), op.kind = "claim" /\ headOk => ~upstream.stop,
         pc'[w] # "planned", \A v \in Workers \ {w} : pc'[v] = pc[v],
         pin' \ {w} \subseteq pin
  PROVE  ClaimsUnstopped'
<1>1. /\ tx \in [Workers -> Tx] /\ tx' = [tx EXCEPT ![w] = Attempted(op, 1, headOk)]
      /\ upstream' = upstream /\ sent' = sent
  BY DEF Call, WorkInv, IInv, TypeOK
<1>2. Attempted(op, 1, headOk).state = "push" =>
          headOk /\ Attempted(op, 1, headOk).op = op
  BY DEF Attempted, AttemptFate, Pushing, Idle
<1>3. \A v \in Workers : tx'[v].state = "push" /\ tx'[v].op.kind = "claim" =>
          tx'[v] = tx[v] \/ ~upstream.stop
  BY <1>1, <1>2
<1>4. \A v \in Workers : pc'[v] = "planned" /\ v \in pin' => pc[v] = "planned" /\ v \in pin
  OBVIOUS
<1>5. QED
  BY <1>1, <1>3, <1>4, ClaimsStay

(* Only a claim is a claim.                                                *)
LEMMA CallsElse ==
  ASSUME NEW r, NEW k
  PROVE  /\ \A o, b : FinalizeOp(r, k, o, b).kind # "claim"
         /\ \A p \in {"dispatched", "suppressed"} : PhaseOp(p, r, k).kind # "claim"
         /\ \A res : CheckpointOp(r, k, res).kind # "claim"
         /\ ReleaseOp(r, k).kind # "claim"
         /\ \A v : ReconcileOp(r, k, v).kind # "claim"
BY DEF FinalizeOp, PhaseOp, CheckpointOp, ReleaseOp, ReconcileOp, RunOp

LEMMA WorkUnstopped ==
  ASSUME WorkInv, ClaimsUnstopped, NEW w \in Workers, Work(w)
  PROVE  ClaimsUnstopped'
<1>1. pc \in [Workers -> Points]
  BY DEF WorkInv, WorkTypeOK
<1>2. ASSUME NEW op, NEW headOk \in BOOLEAN, NEW point \in Waiting, Start(w, op, headOk, point),
             op.kind = "claim" /\ headOk => ~upstream.stop, pin' \subseteq pin
      PROVE  ClaimsUnstopped'
  <2>1. Call(w, op, headOk) /\ Proceed(w, point, AttemptFate(op, headOk))
    BY <1>2 DEF Start
  <2>2. pc'[w] # "planned" /\ \A v \in Workers \ {w} : pc'[v] = pc[v]
    BY <1>1, <2>1 DEF Proceed, AfterTx, Waiting
  <2>3. QED
    BY <1>2, <2>1, <2>2, StartsUnstopped
<1>3. CASE Claim(w)
  <2> DEFINE op == ClaimOp(plan[w].run, plan[w].key, plan[w].rev)
             headOk == w \in pin
  <2>1. headOk \in BOOLEAN /\ Start(w, op, headOk, "claiming") /\ pin' \subseteq pin
    BY <1>3 DEF Claim
  <2>2. headOk => ~upstream.stop
    BY <1>3 DEF Claim, ClaimsUnstopped
  <2> HIDE DEF op, headOk
  <2>3. QED
    BY <1>2, <2>1, <2>2 DEF Waiting
<1>4. CASE Suppress(w)
  <2> DEFINE op == PhaseOp("suppressed", plan[w].run, plan[w].key)
  <2>1. op.kind # "claim"
    BY DEF PhaseOp, RunOp
  <2>2. Call(w, op, TRUE) /\ pin' = pin
    BY <1>4 DEF Suppress
  <2>3. pc'[w] # "planned" /\ \A v \in Workers \ {w} : pc'[v] = pc[v]
    BY <1>1, <1>4 DEF Suppress, AfterTx
  <2> HIDE DEF op
  <2>4. QED
    BY <2>1, <2>2, <2>3, StartsUnstopped
<1>5. CASE Resume(w) \/ Dispatch(w) \/ Release(w) \/ Checkpoint(w) \/ Finalize(w)
  <2>1. pin' = pin
    BY <1>5 DEF Resume, Dispatch, Release, Checkpoint, Finalize
  <2>2. ASSUME NEW op, NEW point \in Waiting, Start(w, op, TRUE, point), op.kind # "claim"
        PROVE  ClaimsUnstopped'
    BY <1>2, <2>1, <2>2
  <2>3. /\ "resuming" \in Waiting /\ "dispatching" \in Waiting /\ "releasing" \in Waiting
        /\ "checkpointing" \in Waiting /\ "finalizing" \in Waiting
    BY DEF Waiting
  <2>4. CASE Resume(w)
    BY <2>2, <2>3, <2>4, CallsElse DEF Resume
  <2>5. CASE Dispatch(w)
    BY <2>2, <2>3, <2>5, CallsElse DEF Dispatch
  <2>6. CASE Release(w)
    BY <2>2, <2>3, <2>6, CallsElse DEF Release
  <2>7. CASE Checkpoint(w)
    BY <2>2, <2>3, <2>7, CallsElse DEF Checkpoint
  <2>8. CASE Finalize(w)
    BY <2>2, <2>3, <2>8, CallsElse DEF Finalize
  <2>9. QED
    BY <1>5, <2>4, <2>5, <2>6, <2>7, <2>8
<1>6. CASE \/ WriteLedger(w) \/ Bail(w) \/ BootstrapFails(w) \/ Spawn(w)
           \/ SpawnRefused(w) \/ EngineExits(w) \/ BuildTransition(w)
  <2>1. upstream' = upstream /\ tx' = tx /\ sent' = sent /\ pin' = pin
    BY <1>6 DEF WriteLedger, Bail, BootstrapFails, Spawn, SpawnRefused, EngineExits,
       BuildTransition, txVars
  <2>2. pc'[w] # "planned" /\ \A v \in Workers \ {w} : pc'[v] = pc[v]
    BY <1>1, <1>6 DEF WriteLedger, Bail, BootstrapFails, Spawn, SpawnRefused, EngineExits,
       BuildTransition, Proceed, AfterTx
  <2>3. QED
    BY <2>1, <2>2, ClaimsStay
<1>7. QED
  BY <1>3, <1>4, <1>5, <1>6 DEF Work

LEMMA TransactUnstopped ==
  ASSUME WorkInv, ClaimsUnstopped, NEW w \in Workers, Transact(w), upstream' = upstream
  PROVE  ClaimsUnstopped'
<1>1. /\ pc \in [Workers -> Points] /\ tx \in [Workers -> Tx]
      /\ sent \in [Workers -> Op \cup {None}] /\ TxSound(w)
  BY DEF WorkInv, WorkTypeOK, IInv, TypeOK
<1>2. \A v \in Workers : pc'[v] = "planned" /\ v \in pin' => pc[v] = "planned" /\ v \in pin
  <2>1. PICK fate : Proceed(w, pc[w], fate)
    BY DEF Transact
  <2>2. pc[w] \in Waiting /\ pin' \subseteq pin
    BY DEF Transact, Repin
  <2>3. pc'[w] # "planned" /\ \A v \in Workers \ {w} : pc'[v] = pc[v]
    BY <1>1, <2>1, <2>2 DEF Proceed, AfterTx, Waiting
  <2>4. QED
    BY <2>2, <2>3
<1>3. ASSUME NEW headOk, Retry(w, headOk)
      PROVE  ClaimsUnstopped'
  <2>1. /\ tx[w].state = "retry" /\ sent' = sent
        /\ tx' = [tx EXCEPT ![w] = Attempted(tx[w].op, tx[w].tries + 1, headOk)]
    BY <1>3 DEF Retry
  <2>2. tx[w].op.kind # "claim"
    BY <1>1, <2>1 DEF TxSound
  <2>3. Attempted(tx[w].op, tx[w].tries + 1, headOk).state = "push" =>
            Attempted(tx[w].op, tx[w].tries + 1, headOk).op = tx[w].op
    BY DEF Attempted, Pushing, Idle
  <2>4. \A v \in Workers : tx'[v].state = "push" /\ tx'[v].op.kind = "claim" => tx'[v] = tx[v]
    BY <1>1, <2>1, <2>2, <2>3
  <2>5. QED
    BY <1>2, <2>1, <2>4, ClaimsStay
<1>4. ASSUME NEW seen \in Answers, PushLands(w, seen) \/ PushFails(w, seen)
      PROVE  ClaimsUnstopped'
  <2>1. ~Answered(w, seen).tip
    BY <1>1 DEF Answered, Idle, Tx
  <2>2. \A v \in Workers : ~TxMoved[v].tip /\ NoneSent[v] = None
    BY <1>1 DEF TxMoved, Tx, NoneSent
  <2>3. \A v \in Workers : tx'[v].tip => tx'[v] = tx[v]
    BY <1>1, <1>4, <2>1, <2>2 DEF PushLands, PushFails, TxMoved
  <2>4. \A v \in Workers : sent'[v] # None => sent'[v] = sent[v]
    BY <1>4, <2>2 DEF PushLands, PushFails
  <2>5. QED
    BY <1>2, <2>3, <2>4, ClaimsStay
<1>5. CASE PushOutstanding(w) \/ Timeout(w)
  <2>1. \A v \in Workers : tx'[v].tip => tx'[v] = tx[v]
    BY <1>1, <1>5 DEF PushOutstanding, Timeout, Idle
  <2>2. \A v \in Workers : sent'[v] # None =>
            \/ sent'[v] = sent[v]
            \/ tx[v].state = "push" /\ tx[v].tip /\ sent'[v] = tx[v].op
    BY <1>1, <1>5 DEF PushOutstanding, Timeout
  <2>3. QED
    BY <1>2, <2>1, <2>2, ClaimsStay
<1>6. QED
  BY <1>3, <1>4, <1>5 DEF Transact

LEMMA OthersUnstopped ==
  ASSUME WorkInv, ClaimsUnstopped, [WorkNext]_vars, upstream' = upstream
  PROVE  ClaimsUnstopped'
<1>1. /\ pc \in [Workers -> Points] /\ tx \in [Workers -> Tx]
      /\ sent \in [Workers -> Op \cup {None}] /\ pin \in SUBSET Workers
  BY DEF WorkInv, WorkTypeOK, IInv, TypeOK
<1>2. ASSUME NEW w \in Workers, WakePlans(w) \/ WakeResumes(w) \/ GiveUp(w)
      PROVE  ClaimsUnstopped'
  <2>1. tx' = tx /\ sent' = sent
    BY <1>2 DEF WakePlans, WakeResumes, GiveUp, txVars
  <2>2. \A v \in Workers : pc'[v] = "planned" /\ v \in pin' =>
            (pc[v] = "planned" /\ v \in pin) \/ ~upstream.stop
    BY <1>1, <1>2 DEF WakePlans, WakeResumes, GiveUp
  <2>3. QED
    BY <2>1, <2>2, ClaimsStay
<1>3. ASSUME NEW w \in Workers, Late(w)
      PROVE  ClaimsUnstopped'
  <2>1. pc' = pc /\ pin' \subseteq pin
    BY <1>3 DEF Late, Repin
  <2>2. \A v \in Workers : ~TxMoved[v].tip /\ NoneSent[v] = None
    BY <1>1 DEF TxMoved, Tx, NoneSent
  <2>3. \A v \in Workers : tx'[v].tip => tx'[v] = tx[v]
    BY <1>3, <2>2 DEF Late, LateLands, LateLost
  <2>4. \A v \in Workers : sent'[v] # None => sent'[v] = sent[v]
    BY <1>1, <1>3, <2>2 DEF Late, LateLands, LateLost
  <2>5. QED
    BY <2>1, <2>3, <2>4, ClaimsStay
<1>4. ASSUME NEW w \in Workers, Reconcile(w)
      PROVE  ClaimsUnstopped'
  <2>1. PICK r \in Runs, k \in Keys :
          \E op \in {FinalizeOp(r, k, o, FALSE) : o \in Outcomes}
                       \cup {ReconcileOp(r, k, v) : v \in Contents} : Call(w, op, TRUE)
    BY <1>4 DEF Reconcile
  <2> PICK op \in {FinalizeOp(r, k, o, FALSE) : o \in Outcomes}
                       \cup {ReconcileOp(r, k, v) : v \in Contents} : Call(w, op, TRUE)
    BY <2>1
  <2>3. op.kind # "claim"
    BY CallsElse
  <2>2. /\ pc'[w] # "planned" /\ \A v \in Workers \ {w} : pc'[v] = pc[v]
        /\ pin' \ {w} \subseteq pin
    BY <1>1, <1>4 DEF Reconcile
  <2>4. QED
    BY <2>2, <2>3, StartsUnstopped
<1>5. ASSUME NEW w \in Workers, Crash(w)
      PROVE  ClaimsUnstopped'
  <2>1. \A v \in Workers : pc'[v] = "planned" /\ v \in pin' => pc[v] = "planned" /\ v \in pin
    BY <1>1, <1>5 DEF Crash
  <2>2. \A v \in Workers : tx'[v].tip => tx'[v] = tx[v]
    BY <1>1, <1>5 DEF Crash, TxCrash, Idle
  <2>3. \A v \in Workers : sent'[v] # None =>
            \/ sent'[v] = sent[v]
            \/ tx[v].state = "push" /\ tx[v].tip /\ sent'[v] = tx[v].op
    BY <1>1, <1>5 DEF Crash, TxCrash
  <2>4. QED
    BY <2>1, <2>2, <2>3, ClaimsStay
<1>6. CASE Others
  <2>1. pc' = pc /\ pin' \subseteq pin
    BY <1>6 DEF Others, Repin
  <2>2. tx' = tx /\ sent' = sent
    BY <1>6 DEF Others, Environment, EditCard, SetStop, HumanCommit, LeaseExpires
  <2>3. QED
    BY <2>1, <2>2, ClaimsStay
<1>7. CASE (\E r \in Runs : OrphanExits(r)) \/ UNCHANGED vars
  <2>1. pc' = pc /\ pin' = pin /\ tx' = tx /\ sent' = sent
    BY <1>7 DEF OrphanExits, vars, txVars, workVars
  <2>2. QED
    BY <2>1, ClaimsStay
<1>8. QED
  BY <1>2, <1>3, <1>4, <1>5, <1>6, <1>7, WorkUnstopped, TransactUnstopped DEF WorkNext

LEMMA UnstoppedInvariance ==
  ASSUME WorkInv, ClaimsUnstopped, [WorkNext]_vars
  PROVE  ClaimsUnstopped'
<1>1. CASE upstream' = upstream
  BY <1>1, OthersUnstopped
<1>2. CASE upstream' # upstream
  BY <1>2, CommitsReset DEF ClaimsUnstopped
<1>3. QED
  BY <1>1, <1>2

(* Whose push it is that moves the tip.                                    *)
LEMMA WhoPushes ==
  ASSUME IInv, Next
  PROVE  \/ upstream'.event = upstream.event
         \/ \E w \in Workers, op \in Asked :
              /\ Allowed(upstream, expired, op) /\ upstream' = Effect(upstream, op)
              /\ \/ tx[w].state = "push" /\ tx[w].tip /\ tx[w].op = op
                 \/ sent[w] # None /\ sent[w] = op
<1>1. ASSUME NEW w \in Workers, TxStep(w)
      PROVE  \/ upstream'.event = upstream.event
             \/ \E op \in Asked :
                  /\ Allowed(upstream, expired, op) /\ upstream' = Effect(upstream, op)
                  /\ \/ tx[w].state = "push" /\ tx[w].tip /\ tx[w].op = op
                     \/ sent[w] # None /\ sent[w] = op
  <2>1. SafeTx(upstream, expired, tx[w]) /\ SafeSent(upstream, expired, sent[w])
    BY DEF IInv, SafePushes
  <2>2. QED
    BY <1>1, <2>1 DEF TxStep, Retry, PushLands, PushFails, PushOutstanding, LateLands, LateLost,
       Timeout, SafeTx, SafeSent
<1>2. ASSUME Environment
      PROVE  upstream'.event = upstream.event
  BY <1>2 DEF Environment, EditCard, SetStop, LeaseExpires, HumanCommit, IInv, Sound, Records
<1>3. QED
  BY <1>1, <1>2 DEF Next, Call, TxCrash

(* No run is claimed.                                                      *)
Unclaimed ==
    \A r \in Runs : ~(upstream.event[r] = None /\ upstream'.event[r] # None)

(* What is finalized then is finalized by whoever may do that during STOP. *)
FinalizedAnyway ==
    \A r \in Runs :
        OpenRun(upstream, r) /\ Terminal(upstream', r) /\ upstream'.event[r].phase = "finalized"
          => \E w \in Workers :
               \/ tx[w].state = "push" /\ tx[w].op.run = r /\ ~tx[w].op.stopAbsent
               \/ sent[w] # None /\ sent[w].run = r /\ ~sent[w].stopAbsent

LEMMA StopIsObeyed ==
  ASSUME WorkInv, ClaimsUnstopped, [Next]_txVars, upstream.stop
  PROVE  Unclaimed /\ FinalizedAnyway
<1>1. CASE upstream'.event = upstream.event
  BY <1>1 DEF Unclaimed, FinalizedAnyway, OpenRun, Terminal
<1>2. ASSUME NEW w \in Workers, NEW op \in Asked,
             Allowed(upstream, expired, op), upstream' = Effect(upstream, op),
             \/ tx[w].state = "push" /\ tx[w].tip /\ tx[w].op = op
             \/ sent[w] # None /\ sent[w] = op
      PROVE  Unclaimed /\ FinalizedAnyway
  <2>1. op.kind # "claim" /\ op.kind \in Kinds
    BY <1>2 DEF ClaimsUnstopped, Asked, Op
  <2>2. EventMoves(upstream, upstream', op)
    BY <1>2, EffectMoves DEF WorkInv, IInv
  <2>3. Unclaimed
    BY <2>1, <2>2 DEF Unclaimed, EventMoves, OpenRun
  <2>4. ASSUME NEW r \in Runs, OpenRun(upstream, r), Terminal(upstream', r),
               upstream'.event[r].phase = "finalized"
        PROVE  op.run = r /\ op.kind = "finalize"
    <3>1. upstream'.event[r] # upstream.event[r]
      BY <2>4 DEF OpenRun, Terminal
    <3>2. QED
      BY <2>1, <2>2, <2>4, <3>1 DEF EventMoves, Kinds
  <2>5. op.kind = "finalize" => ~op.stopAbsent
    BY <1>2 DEF Allowed, FinalizeAllowed
  <2>6. QED
    BY <1>2, <2>3, <2>4, <2>5 DEF FinalizedAnyway
<1>3. UNCHANGED txVars => upstream'.event = upstream.event
  BY DEF txVars
<1>4. QED
  BY <1>1, <1>2, <1>3, WhoPushes DEF WorkInv

(* While STOP is upstream nothing is claimed, and no wake finishes what    *)
(* another one left, for any number of machines and wherever their pushes  *)
(* were when STOP arrived.                                                 *)
THEOREM StopIsHeld == LoopSpec => StopHolds
<1>1. WorkInit => ClaimsUnstopped
  <2> SUFFICES ASSUME WorkInit PROVE ClaimsUnstopped
    OBVIOUS
  <2>1. \A w \in Workers : pc[w] = "idle" /\ tx[w] = Idle /\ sent[w] = None
    BY DEF WorkInit, TxInit
  <2>2. Idle.state = "idle"
    BY DEF Idle
  <2>3. QED
    BY <2>1, <2>2 DEF ClaimsUnstopped
<1>2. WorkInv /\ ClaimsUnstopped /\ [WorkNext]_vars => ClaimsUnstopped'
  BY UnstoppedInvariance
<1>3. LoopSpec => []ClaimsUnstopped
  BY <1>1, <1>2, WorkInductive, PTL DEF LoopSpec
<1>4. WorkInv /\ ClaimsUnstopped /\ [WorkNext]_vars =>
        [upstream.stop =>
           \A r \in Runs :
             /\ ~(upstream.event[r] = None /\ upstream'.event[r] # None)
             /\ OpenRun(upstream, r) /\ Terminal(upstream', r)
                  /\ upstream'.event[r].phase = "finalized"
                  => \E w \in Workers :
                       \/ tx[w].state = "push" /\ tx[w].op.run = r /\ ~tx[w].op.stopAbsent
                       \/ sent[w] # None /\ sent[w].run = r /\ ~sent[w].stopAbsent]_vars
  BY StepsAreTransactions, StopIsObeyed DEF Unclaimed, FinalizedAnyway
<1>5. QED
  BY <1>3, <1>4, WorkInductive, PTL DEF LoopSpec, StopHolds
=============================================================================
