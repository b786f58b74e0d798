--------------------------- MODULE PMTransaction ---------------------------
(***************************************************************************)
(* runIsolatedTransaction of scripts/loop-pm-transaction.js: how any       *)
(* number of workers change the durable records of RunRecords through git. *)
(* A transaction fetches the upstream tip, checks and mutates it in a      *)
(* detached worktree, commits, and pushes with --force-with-lease on the   *)
(* tip it fetched.  The records can move between the fetch and the push;   *)
(* a push can be rejected, can land without its answer arriving, or can    *)
(* still be on its way when the client has given up or died.               *)
(*                                                                         *)
(* This module lets every worker ask for any transaction on any run at any *)
(* time: what holds here holds whatever the callers do.  LoopWorker        *)
(* restricts the callers to what loop-worker.js and loop-reconcile.js do.  *)
(***************************************************************************)
EXTENDS RunRecords

CONSTANTS
    Workers,      \* processes that run PM transactions
    MaxAttempts,  \* claim_envelope.cas_attempts; a claim always has one
    Edits,        \* what others may make of a card file (None: delete it)
    Stops         \* what others may do to pm/loop/STOP (TRUE: create it)

ASSUME MaxAttemptsPositive == MaxAttempts \in Nat \ {0}
ASSUME EnvironmentBounds ==
    Edits \in SUBSET (Contents \cup {None}) /\ Stops \in SUBSET BOOLEAN

VARIABLES
    upstream,  \* the records of the upstream branch tip
    expired,   \* runs whose lease has passed expires_at
    tx,        \* per worker, its current transaction
    sent       \* per worker, the transaction of a push that its client no
               \* longer waits for and that the remote may yet accept, or None

txVars == <<upstream, expired, tx, sent>>

(* tip is TRUE while the upstream tip is the commit the transaction        *)
(* fetched: the push is accepted exactly then.  As long as it is, the      *)
(* committed tree is Effect(upstream, op).                                 *)
TxStates == {"idle", "push", "retry"}
Tx == [state : TxStates, op : Op \cup {None}, tries : Nat, tip : BOOLEAN]

Idle == [state |-> "idle", op |-> None, tries |-> 0, tip |-> FALSE]
Pushing(op, n) == [state |-> "push", op |-> op, tries |-> n, tip |-> TRUE]

TypeOK ==
    /\ upstream \in Records
    /\ expired \in SUBSET Runs
    /\ tx \in [Workers -> Tx]
    /\ sent \in [Workers -> Op \cup {None}]

TxInit(cards) ==
    /\ upstream = FreshRecords(cards)
    /\ expired = {}
    /\ tx = [w \in Workers |-> Idle]
    /\ sent = [w \in Workers |-> None]

(* How a push can look to its client.                                      *)
Answers == {"ok", "error", "timeout"}

(* maxAttempts: 1 for a claim and for reconciliation, cas_attempts else.   *)
AttemptsOf(op) == IF op.kind \in {"claim", "reconcile"} THEN 1 ELSE MaxAttempts

-----------------------------------------------------------------------------
(* Mutant: a push without --force-with-lease on the fetched tip.           *)
TxUnaware == tx

(* A commit on the upstream branch: every fetched tip is out of date, and  *)
(* an outstanding push will be refused.                                    *)
TxMoved == [w \in Workers |-> [tx[w] EXCEPT !.tip = FALSE]]
NoneSent == [w \in Workers |-> None]

(* One attempt up to the push: fetch, expectedUpstreamOid, validate,       *)
(* mutate, stage, commit.  headOk is FALSE when the caller pinned a tip    *)
(* that the fetch no longer finds.  "ok" and "failed" end the transaction. *)
AttemptFate(op, headOk) ==
    IF headOk /\ Done(upstream, op) THEN "ok"
    ELSE IF headOk /\ Allowed(upstream, expired, op) THEN "push"
    ELSE "failed"

Attempted(op, n, headOk) ==
    IF AttemptFate(op, headOk) = "push" THEN Pushing(op, n) ELSE Idle

Call(w, op, headOk) ==
    /\ tx[w].state = "idle"
    /\ tx' = [tx EXCEPT ![w] = Attempted(op, 1, headOk)]
    /\ UNCHANGED <<upstream, expired, sent>>

Retry(w, headOk) ==
    /\ tx[w].state = "retry"
    /\ tx' = [tx EXCEPT ![w] = Attempted(tx[w].op, tx[w].tries + 1, headOk)]
    /\ UNCHANGED <<upstream, expired, sent>>

(* What the client makes of a push: an error leads to the next attempt or, *)
(* when none is left, to push-race; a deadline ends the transaction.       *)
PushFate(w, seen) ==
    IF seen = "error" /\ tx[w].tries < AttemptsOf(tx[w].op) THEN "retry"
    ELSE IF seen = "ok" THEN "ok" ELSE "failed"

Answered(w, seen) ==
    IF PushFate(w, seen) = "retry" THEN [tx[w] EXCEPT !.state = "retry", !.tip = FALSE]
    ELSE Idle

(* The remote accepts the push.  The client sees it succeed, sees an error *)
(* (the connection broke after the update), or runs into its deadline.     *)
PushLands(w, seen) ==
    /\ tx[w].state = "push"
    /\ tx[w].tip
    /\ upstream' = Effect(upstream, tx[w].op)
    /\ tx' = [TxMoved EXCEPT ![w] = Answered(w, seen)]
    /\ sent' = NoneSent
    /\ UNCHANGED expired

(* The remote refuses it, or it does not reach the remote; the deadline,   *)
(* or a cleanup error after the race, ends the transaction at once.        *)
PushFails(w, seen) ==
    /\ tx[w].state = "push"
    /\ seen # "ok"
    /\ tx' = [tx EXCEPT ![w] = Answered(w, seen)]
    /\ UNCHANGED <<upstream, expired, sent>>

(* The deadline kills git push while the remote is still receiving it.     *)
(* Bound: a worker has at most one such push.                              *)
PushOutstanding(w) ==
    /\ tx[w].state = "push"
    /\ tx[w].tip
    /\ sent[w] = None
    /\ sent' = [sent EXCEPT ![w] = tx[w].op]
    /\ tx' = [tx EXCEPT ![w] = Idle]
    /\ UNCHANGED <<upstream, expired>>

(* ... and the remote takes it now, or never.                              *)
LateLands(w) ==
    /\ sent[w] # None
    /\ upstream' = Effect(upstream, sent[w])
    /\ tx' = TxMoved
    /\ sent' = NoneSent
    /\ UNCHANGED expired

LateLost(w) ==
    /\ sent[w] # None
    /\ sent' = [sent EXCEPT ![w] = None]
    /\ UNCHANGED <<upstream, expired, tx>>

(* The deadline of the transaction passes between two attempts.            *)
Timeout(w) ==
    /\ tx[w].state = "retry"
    /\ tx' = [tx EXCEPT ![w] = Idle]
    /\ UNCHANGED <<upstream, expired, sent>>

(* The process dies; its push, if it was at one, may still arrive.         *)
TxCrash(w) ==
    /\ tx' = [tx EXCEPT ![w] = Idle]
    /\ \/ UNCHANGED sent
       \/ /\ tx[w].state = "push" /\ tx[w].tip /\ sent[w] = None
          /\ sent' = [sent EXCEPT ![w] = tx[w].op]
    /\ UNCHANGED <<upstream, expired>>

TxStep(w) ==
    \/ Retry(w, TRUE)
    \/ \E seen \in Answers : PushLands(w, seen) \/ PushFails(w, seen)
    \/ PushOutstanding(w) \/ LateLands(w) \/ LateLost(w)
    \/ Timeout(w)

-----------------------------------------------------------------------------
(* Everyone else who commits to the PM repository, and the clock.          *)

HumanCommit(next) ==
    /\ next # upstream
    /\ upstream' = next
    /\ tx' = TxMoved
    /\ sent' = NoneSent
    /\ UNCHANGED expired

EditCard(c, v) == HumanCommit([upstream EXCEPT !.card[c] = v])
SetStop(b) == HumanCommit([upstream EXCEPT !.stop = b])

(* isLeaseExpired turns true for the lease of r, for good: leases are      *)
(* never renewed.                                                          *)
LeaseExpires(r) ==
    /\ r \notin expired
    /\ LeasesOf(upstream, r) # {}
    /\ expired' = expired \cup {r}
    /\ UNCHANGED <<upstream, tx, sent>>

Environment ==
    \/ \E c \in Cards, v \in Edits : EditCard(c, v)
    \/ \E b \in Stops : SetStop(b)
    \/ \E r \in Runs : LeaseExpires(r)

-----------------------------------------------------------------------------
Ops ==
    UNION {{ClaimOp(r, k, v) : r \in Runs, k \in Keys, v \in Contents},
           {PhaseOp(p, r, k) : p \in {"dispatched", "suppressed"}, r \in Runs, k \in Keys},
           {CheckpointOp(r, k, res) : r \in Runs, k \in Keys, res \in Results},
           {FinalizeOp(r, k, o, b) : r \in Runs, k \in Keys, o \in Outcomes, b \in BOOLEAN},
           {ReleaseOp(r, k) : r \in Runs, k \in Keys},
           {ReconcileOp(r, k, v) : r \in Runs, k \in Keys, v \in Contents}}

Init == \E cards \in [Cards -> Contents \cup {None}] : TxInit(cards)

Next ==
    \/ \E w \in Workers, op \in Ops : Call(w, op, TRUE)  \* FALSE changes nothing
    \/ \E w \in Workers : TxStep(w) \/ TxCrash(w)
    \/ Environment

Spec == Init /\ [][Next]_txVars

-----------------------------------------------------------------------------
(* Two claims of one card, on any two stages, are never both in force: a   *)
(* claim is checked on a fetched commit and lands by compare-and-swap      *)
(* (findActiveCardLease, --force-with-lease).                              *)
OneActiveLease ==
    \A k1, k2 \in Keys :
        /\ k1[1] = k2[1]
        /\ upstream.lease[k1] # None /\ upstream.lease[k1].run \notin expired
        /\ upstream.lease[k2] # None /\ upstream.lease[k2].run \notin expired
        => k1 = k2

(* A lease file always speaks of a live run exactly as that run's event    *)
(* does: no interleaving leaves a lease of a closed run behind, or the two *)
(* files of a run in different phases.                                     *)
LeaseMatchesEvent ==
    \A k \in Keys :
        upstream.lease[k] # None =>
            LET l == upstream.lease[k]
                e == upstream.event[l.run]
            IN  /\ e # None
                /\ e.key = k /\ e.phase = l.phase /\ e.rev = l.rev /\ e.result = l.result

(* A recovery record exists exactly while its run is finalizing, and holds *)
(* the result its event was checkpointed with.                             *)
RecoveryMatchesEvent ==
    \A r \in Runs :
        LET e == upstream.event[r]
            v == upstream.recovery[r]
        IN  /\ (v # None) <=> (e # None /\ e.phase = "finalizing")
            /\ v # None => v = [key |-> e.key, rev |-> e.rev, result |-> e.result]

(* A checkpoint is immutable and is consumed only by the commit that       *)
(* finalizes its run: in one step the recovery record and the lease go,    *)
(* the event becomes terminal and the card moves from the claimed revision *)
(* to the checkpointed content.                                            *)
CheckpointSurvives ==
    [][\A r \in Runs : LET v == upstream.recovery[r] IN
        v # None =>
          \/ upstream'.recovery[r] = v
          \/ /\ upstream'.recovery[r] = None
             /\ upstream'.event[r].phase = "finalized"
             /\ upstream'.lease[v.key] = None
             /\ upstream.card[v.key[1]] = v.rev
             /\ upstream'.card[v.key[1]] = v.result.content]_txVars

(* The records, read as the lives of the runs, behave as RunLifecycle      *)
(* promises.                                                               *)
LifeOf(e) ==
    IF e = None THEN None
    ELSE [phase |-> e.phase, card |-> e.key[1], rev |-> e.rev, result |-> e.result]

Lifecycle == INSTANCE RunLifecycle WITH
    life <- [r \in Runs |-> LifeOf(upstream.event[r])],
    card <- upstream.card

ASSUME LifeIsFresh == None \notin Lifecycle!Life

LifecycleSpec == Lifecycle!Spec
=============================================================================
