--------------------------- MODULE EffectJournal ---------------------------
(***************************************************************************)
(* runOperationalEffect of scripts/lib/operational-effect-journal.js: how  *)
(* one outward effect (a reconciliation, a release, an install) is carried *)
(* out by processes that may die at any point.  A lock file serializes     *)
(* them; a journal file, persisted before the effect is attempted, tells   *)
(* the next caller to observe the target before attempting it again.       *)
(*                                                                         *)
(* observe and mutate are the caller's.  Of observe this module assumes    *)
(* what the journal relies on: "verified" is said of a target that is in   *)
(* place, and "absent, safe to retry" only when it is not and no earlier   *)
(* attempt can still put it there (runReconcileEffect of loop-reconcile.js *)
(* says so when the plan is unchanged on a tip whose pushes are            *)
(* compare-and-swap).  Of mutate it assumes nothing: it may put the effect *)
(* in place, then or later, whatever it returns or throws.                 *)
(***************************************************************************)
EXTENDS Naturals, FiniteSets

CONSTANTS
    Procs,      \* processes, each making any number of calls
    Receipts,   \* what observing the target in place can report
    MaxTries,   \* bound: attempts of the effect
    None

ASSUME MaxTriesPositive == MaxTries \in Nat \ {0}

VARIABLES
    target,  \* the receipt of the effect in place, or None
    live,    \* processes whose attempt can still put it in place
    lock,    \* the lock file, or None
    disk,    \* the journal file, or None
    pc,      \* per process, where its call is
    mem,     \* per process, the journal its call works on
    ret      \* per process, what its call is about to return, or None

vars == <<target, live, lock, disk, pc, mem, ret>>

Attempts == {"attempting", "blocked", "ambiguous", "verified"}
Journal == [state : Attempts \cup {"planned"}, tries : Nat, attempt : Attempts \cup {None},
            receipt : Receipts \cup {None}, history : SUBSET Receipts]

(* newJournal *)
NewJournal == [state |-> "planned", tries |-> 0, attempt |-> None, receipt |-> None,
               history |-> {}]

(* A lock file is created empty; its owner is written next.                *)
LockFile == [owner : Procs, named : BOOLEAN]

(* No file or receipt is mistaken for its absence.                         *)
ASSUME NoneIsFresh ==
    /\ None \notin Receipts /\ None \notin LockFile /\ None \notin Journal
    /\ None \notin Attempts \cup {"planned"}

Held == {"opened", "holding", "replay", "recover", "begin", "mutating", "caught",
         "observe", "release"}
Points == {"idle", "refused", "told", "dead"} \cup Held
Returns == {"verified", "ambiguous", "blocked", "thrown", "effect-in-progress",
            "effect-lock-recovery-required"}

TypeOK ==
    /\ target \in Receipts \cup {None}
    /\ live \in SUBSET Procs
    /\ lock \in LockFile \cup {None}
    /\ disk \in Journal \cup {None}
    /\ pc \in [Procs -> Points]
    /\ mem \in [Procs -> Journal]
    /\ ret \in [Procs -> Returns \cup {None}]

Init ==
    /\ target = None
    /\ live = {}
    /\ lock = None
    /\ disk = None
    /\ pc = [p \in Procs |-> "idle"]
    /\ mem = [p \in Procs |-> NewJournal]
    /\ ret = [p \in Procs |-> None]

Goto(p, point) == pc' = [pc EXCEPT ![p] = point]

(* The call is over but for the finally block, which releases the lock.    *)
Return(p, result) ==
    /\ Goto(p, "release")
    /\ ret' = [ret EXCEPT ![p] = result]

-----------------------------------------------------------------------------
(* acquireEffectLock: O_EXCL creation, then the owner record; at the       *)
(* deadline the call looks at the owner to say why it gave up.             *)

(* Mutant: a lock file without an owner record is taken over.              *)
OpenOwnerless(p) ==
    /\ pc[p] = "idle"
    /\ lock # None => ~lock.named
    /\ lock' = [owner |-> p, named |-> FALSE]
    /\ Goto(p, "opened")
    /\ UNCHANGED <<target, live, disk, mem, ret>>

Open(p) ==
    /\ pc[p] = "idle"
    /\ lock = None
    /\ lock' = [owner |-> p, named |-> FALSE]
    /\ Goto(p, "opened")
    /\ UNCHANGED <<target, live, disk, mem, ret>>

NameOwner(p) ==
    /\ pc[p] = "opened"
    /\ lock' = [lock EXCEPT !.named = TRUE]
    /\ Goto(p, "holding")
    /\ UNCHANGED <<target, live, disk, mem, ret>>

LockTimeout(p) ==
    /\ pc[p] = "idle"
    /\ lock # None
    /\ Goto(p, "refused")
    /\ UNCHANGED <<target, live, lock, disk, mem, ret>>

StaleOwner == lock = None \/ ~lock.named \/ pc[lock.owner] = "dead"

Refused(p) ==
    /\ pc[p] = "refused"
    /\ Goto(p, "told")
    /\ ret' = [ret EXCEPT ![p] = IF StaleOwner THEN "effect-lock-recovery-required"
                                 ELSE "effect-in-progress"]
    /\ UNCHANGED <<target, live, lock, disk, mem>>

(* The call returns; its locals go.                                        *)
Leave(p, point) ==
    /\ Goto(p, point)
    /\ mem' = [mem EXCEPT ![p] = NewJournal]
    /\ ret' = [ret EXCEPT ![p] = None]

Told(p) ==
    /\ pc[p] = "told"
    /\ Leave(p, "idle")
    /\ UNCHANGED <<target, live, lock, disk>>

Release(p) ==
    /\ pc[p] = "release"
    /\ lock' = None
    /\ Leave(p, "idle")
    /\ UNCHANGED <<target, live, disk>>

-----------------------------------------------------------------------------
(* runClaimedOperationalEffect.                                            *)

(* Mutant: an interrupted attempt is retried like a new effect.            *)
RouteWithoutRecovery(state) == IF state = "verified" THEN "replay" ELSE "begin"

(* Which branch a journal in this state takes.                             *)
Route(state) ==
    CASE state = "planned" -> "begin"
      [] state = "verified" -> "replay"
      [] OTHER -> "recover"

ReadJournal(p) ==
    /\ pc[p] = "holding"
    /\ LET j == IF disk = None THEN NewJournal ELSE disk IN
         /\ mem' = [mem EXCEPT ![p] = j]
         /\ Goto(p, Route(j.state))
    /\ UNCHANGED <<target, live, lock, disk, ret>>

(* What observe can say.                                                   *)
Verified == target # None
(* Mutant: what an earlier attempt may still do is not looked for.         *)
AbsentSoFar == target = None
SafelyAbsent == target = None /\ live = {}

(* Mutant: a refreshed or withdrawn receipt is forgotten.                  *)
RetiredForgotten(j) == j.history

(* verified_receipt_history *)
Retired(j) == j.history \cup ({j.receipt} \ {None})

(* What a call makes of a journal.                                         *)
Attempting(j) == [j EXCEPT !.state = "attempting", !.tries = @ + 1, !.attempt = "attempting"]
Ended(j, state, attempt) == [j EXCEPT !.state = state, !.attempt = attempt]
Proved(j, receipt) == [Ended(j, "verified", "verified") EXCEPT !.receipt = receipt]
Refreshed(j, receipt) == [j EXCEPT !.history = Retired(j), !.receipt = receipt]
Withdrawn(j) == [j EXCEPT !.state = "planned", !.history = Retired(j), !.receipt = None]

(* Mutant: a verified attempt is answered and not persisted.               *)
FinishUnpersisted(p) == Return(p, "verified") /\ UNCHANGED disk

(* finishVerified *)
Finish(p) ==
    /\ disk' = Proved(mem[p], target)
    /\ Return(p, "verified")

(* ambiguousResult, and the endings that persist "blocked".                *)
Settle(p, state, attempt) ==
    /\ disk' = Ended(mem[p], state, attempt)
    /\ Return(p, state)

(* A verified journal: the target is observed again.  Another receipt      *)
(* replaces the recorded one; a target that is safely absent starts a new  *)
(* attempt; anything else is reported, and nothing is written.             *)
Replay(p) ==
    /\ pc[p] = "replay"
    /\ \/ /\ Verified
          /\ disk' = IF target = mem[p].receipt THEN disk ELSE Refreshed(mem[p], target)
          /\ Return(p, "verified")
          /\ UNCHANGED mem
       \/ /\ SafelyAbsent
          /\ mem' = [mem EXCEPT ![p] = Withdrawn(mem[p])]
          /\ Goto(p, "begin")
          /\ UNCHANGED <<disk, ret>>
       \/ Return(p, "ambiguous") /\ UNCHANGED <<disk, mem>>
    /\ UNCHANGED <<target, live, lock>>

(* An interrupted, ambiguous or blocked attempt: observe before any retry. *)
Recover(p) ==
    /\ pc[p] = "recover"
    /\ \/ Verified /\ Finish(p)
       \/ SafelyAbsent /\ Goto(p, "begin") /\ UNCHANGED <<disk, ret>>
       \/ Settle(p, "ambiguous", mem[p].attempt)
    /\ UNCHANGED <<target, live, lock, mem>>

(* Mutant: the attempt is journaled after it was made.                     *)
BeginUnjournaled(p) ==
    /\ pc[p] = "begin"
    /\ mem[p].tries < MaxTries
    /\ mem' = [mem EXCEPT ![p] = Attempting(mem[p])]
    /\ live' = live \cup {p}
    /\ Goto(p, "mutating")
    /\ UNCHANGED <<target, lock, disk, ret>>

(* The attempt is persisted, then mutate is called.                        *)
Begin(p) ==
    /\ pc[p] = "begin"
    /\ mem[p].tries < MaxTries
    /\ mem' = [mem EXCEPT ![p] = Attempting(mem[p])]
    /\ disk' = Attempting(mem[p])
    /\ live' = live \cup {p}
    /\ Goto(p, "mutating")
    /\ UNCHANGED <<target, lock, ret>>

(* mutate returns success, "blocked" or "ambiguous", or throws.  Only      *)
(* success says that nothing of the attempt is still under way.            *)
Mutated(p) ==
    /\ pc[p] = "mutating"
    /\ \/ /\ Goto(p, "observe")
          /\ live' = live \ {p}
          /\ UNCHANGED <<disk, ret>>
       \/ /\ live' \in {live, live \ {p}}
          /\ \/ Settle(p, "blocked", "blocked")
             \/ Settle(p, "ambiguous", "ambiguous")
             \/ Goto(p, "caught") /\ UNCHANGED <<disk, ret>>
    /\ UNCHANGED <<target, lock, mem>>

(* mutate threw.                                                           *)
Caught(p) ==
    /\ pc[p] = "caught"
    /\ \/ Verified /\ Finish(p)
       \/ Settle(p, "ambiguous", "ambiguous")
    /\ UNCHANGED <<target, live, lock, mem>>

(* mutate succeeded.                                                       *)
Observe(p) ==
    /\ pc[p] = "observe"
    /\ \/ Verified /\ Finish(p)
       \/ target = None /\ Settle(p, "blocked", "blocked")
       \/ Settle(p, "ambiguous", "ambiguous")
    /\ UNCHANGED <<target, live, lock, mem>>

(* The precondition, the journal, an observe or the comparison of the      *)
(* receipts throws: the journal stays as it is.                            *)
Throws(p) ==
    /\ pc[p] \in {"holding", "replay", "recover", "caught", "observe"}
    /\ Return(p, "thrown")
    /\ UNCHANGED <<target, live, lock, disk, mem>>

-----------------------------------------------------------------------------
(* The process dies; its attempt may still land.                           *)
Die(p) ==
    /\ pc[p] # "dead"
    /\ Leave(p, "dead")
    /\ live' \in {live, live \ {p}}
    /\ UNCHANGED <<target, lock, disk>>

(* Another process takes the place of one of which nothing is left.        *)
Restart(p) ==
    /\ pc[p] = "dead"
    /\ p \notin live
    /\ lock # None => lock.owner # p
    /\ Goto(p, "idle")
    /\ UNCHANGED <<target, live, lock, disk, mem, ret>>

Land(p) ==
    /\ p \in live
    /\ target' \in Receipts
    /\ live' = live \ {p}
    /\ UNCHANGED <<lock, disk, pc, mem, ret>>

(* The attempt of a process that no longer waits for it comes to nothing.  *)
Fizzle(p) ==
    /\ p \in live
    /\ pc[p] # "mutating"
    /\ live' = live \ {p}
    /\ UNCHANGED <<target, lock, disk, pc, mem, ret>>

(* Others change or undo what is in place.                                 *)
Drift ==
    /\ target # None
    /\ target' \in (Receipts \cup {None}) \ {target}
    /\ UNCHANGED <<live, lock, disk, pc, mem, ret>>

(* The operator removes the lock file of a process that is gone.           *)
ManualRemoval ==
    /\ lock # None /\ pc[lock.owner] = "dead"
    /\ lock' = None
    /\ UNCHANGED <<target, live, disk, pc, mem, ret>>

Next ==
    \/ \E p \in Procs :
         \/ Open(p) \/ NameOwner(p) \/ LockTimeout(p) \/ Refused(p) \/ Told(p) \/ Release(p)
         \/ ReadJournal(p) \/ Replay(p) \/ Recover(p) \/ Begin(p) \/ Mutated(p)
         \/ Caught(p) \/ Observe(p) \/ Throws(p)
         \/ Die(p) \/ Restart(p) \/ Land(p) \/ Fizzle(p)
    \/ Drift \/ ManualRemoval

Spec == Init /\ [][Next]_vars

-----------------------------------------------------------------------------
(* At most one process at a time is between taking the lock and giving it  *)
(* back, although lock files outlive their owners and are removed by hand. *)
OneHolder ==
    \A p, q \in Procs : pc[p] \in Held /\ pc[q] \in Held => p = q

(* The effect is put in place at most once: while an attempt can still     *)
(* land, no other can, and nothing of an earlier one is in place, however  *)
(* processes died, threw or were cut off (a journal in "attempting" is     *)
(* observed before it is retried).                                         *)
AtMostOnce ==
    /\ \A p, q \in live : p = q
    /\ live # {} => target = None

(* An effect in place, or under way, is in the journal, and a journal that *)
(* says verified has nothing under way.                                    *)
EffectIsJournaled ==
    /\ target # None \/ live # {} => disk # None
    /\ live # {} => disk.state # "verified"

(* A call that says verified has said so in the journal.                   *)
AnswerIsRecorded ==
    \A p \in Procs :
        pc[p] = "release" /\ ret[p] = "verified" =>
            disk # None /\ disk.state = "verified" /\ disk.receipt # None

(* A receipt once verified stays on record, as the current one or in       *)
(* verified_receipt_history, through drift, retries and deaths.            *)
ReceiptsKept ==
    [][disk # None =>
         /\ disk' # None
         /\ {disk.receipt} \cup disk.history
              \subseteq {disk'.receipt, None} \cup disk'.history]_vars

(* The receipts in the journal file.                                       *)
Recorded == IF disk = None THEN {} ELSE Retired(disk)

(* All processes together carry out one effect: it is attempted again only *)
(* when nothing is in place or under way, and a receipt goes on record     *)
(* only while it is what the target shows.                                 *)
Effect == INSTANCE OutwardEffect WITH underway <- live # {}, recorded <- Recorded
EffectSpec == Effect!Spec
=============================================================================
