------------------------------ MODULE OwnedLock ------------------------------
(***************************************************************************)
(* scripts/lib/owned-lock.js: the lock file that serializes the writers of *)
(* PM's local files (notes, evidence, backlog, sessions), and how the lock *)
(* of a process that died is reclaimed.  A lock is published by linking a  *)
(* candidate file that names its owner.  To remove an abandoned one a      *)
(* process first publishes a guard beside it; a guard whose owner died is  *)
(* never removed but superseded by a successor, whose path is derived from *)
(* the dead owner's token.                                                 *)
(*                                                                         *)
(* Every file holds a fresh token of its owner.  A process publishes one   *)
(* lock and one guard at a time; its latest token of either is written as  *)
(* the process, and one it replaced since somebody read it as Past (all    *)
(* that it replaced as one).                                               *)
(***************************************************************************)
EXTENDS FiniteSets

CONSTANTS
    Procs,        \* processes that want the lock
    Mortal,       \* those of them that may end, at any point
    Gone,         \* a process that died with the lock in its hands
    Base,         \* the path <lock>.reclaim
    None

(* A token that p has replaced.                                            *)
Past(p) == <<p, "past">>

ASSUME MortalAssumption == Mortal \subseteq Procs

Owners == Procs \cup {Gone}
PastTokens == {Past(p) : p \in Owners}
Tokens == Owners \cup PastTokens
Paths == Tokens \cup {Base}    \* beside Base, the successor of each token

ASSUME NamesApart ==
    /\ Gone \notin Procs /\ Base \notin Tokens /\ None \notin Paths
    /\ PastTokens \cap Owners = {}

VARIABLES
    alive,  \* processes still running
    lock,   \* the owner named in the lock file, or None
    guard,  \* per guard path, the owner named in the file, or None
    pc,     \* per process, where its acquireOwnedLock is
    at,     \* per process, the guard path it looks at or published
    seen,   \* per process, an owner it read and has yet to probe, or None
    obs,    \* per process, the abandoned lock it wants to reclaim, or None
    late,   \* processes that read a token its owner has replaced since
    strayed \* history: whether a walk has gone on behind a dropped guard

vars == <<alive, lock, guard, pc, at, seen, obs, late, strayed>>

(* The three places that walk the chain of guards (recoveryGuardState).    *)
Walks == {"check", "recheck", "guard"}

Init ==
    /\ alive = Procs
    /\ lock \in {None, Gone}
    /\ guard = [path \in Paths |-> None]
    /\ pc = [p \in Procs |-> "check"]
    /\ at = [p \in Procs |-> Base]
    /\ seen = [p \in Procs |-> None]
    /\ obs = [p \in Procs |-> None]
    /\ late = {}
    /\ strayed = FALSE

At(p, point) == p \in alive /\ pc[p] = point
Goto(p, point) == pc' = [pc EXCEPT ![p] = point]
WalkFrom(p, point) == Goto(p, point) /\ at' = [at EXCEPT ![p] = Base]

(* The turn is over and its locals go; the next one starts with a walk.    *)
Leave(p) ==
    /\ WalkFrom(p, "check")
    /\ seen' = [seen EXCEPT ![p] = None]
    /\ obs' = [obs EXCEPT ![p] = None]

(* p publishes a file: who is at these points with its last token is late. *)
Replaced(p, points) ==
    late' = late \cup {q \in alive : pc[q] \in points /\ seen[q] = p}

(* The token p read; it is done with it.                                   *)
Token(p) == IF p \in late THEN Past(seen[p]) ELSE seen[p]
Done(p) == late' = late \ {p}

-----------------------------------------------------------------------------
(* acquireOwnedLock: one turn of its loop, after the first walk ("check"). *)
Link(p) ==
    /\ At(p, "link")
    /\ \/ /\ lock = None
          /\ lock' = p
          /\ Replaced(p, {"inspect"})
          /\ WalkFrom(p, "recheck")
       \/ /\ lock # None
          /\ Goto(p, "inspect")
          /\ UNCHANGED <<lock, at, late>>
    /\ UNCHANGED <<alive, guard, seen, obs, strayed>>

(* releaseOwnedLock removes the file when it still names this token.       *)
Unlock(p, point) ==
    /\ At(p, point)
    /\ lock' = IF lock = p THEN None ELSE lock
    /\ Leave(p)
    /\ UNCHANGED <<alive, guard, late, strayed>>

-----------------------------------------------------------------------------
(* recoveryGuardState: read the guard at this path, then probe its owner.  *)

Read(p, owner) ==
    /\ seen' = [seen EXCEPT ![p] = owner]
    /\ UNCHANGED <<alive, lock, guard, pc, at, obs, late, strayed>>

(* The chain ends here without a live owner: at[p] is the vacant path.     *)
WalkVacant(p) ==
    /\ p \in alive /\ pc[p] \in Walks
    /\ seen[p] = None
    /\ guard[at[p]] = None
    /\ Goto(p, CASE pc[p] = "check" -> "link"
                 [] pc[p] = "recheck" -> "critical"
                 [] pc[p] = "guard" -> "publish")
    /\ UNCHANGED <<alive, lock, guard, at, seen, obs, late, strayed>>

WalkReads(p) ==
    /\ p \in alive /\ pc[p] \in Walks
    /\ seen[p] = None
    /\ guard[at[p]] # None
    /\ Read(p, guard[at[p]])

BackOff(p) ==
    \/ pc[p] = "recheck" /\ Goto(p, "undo") /\ UNCHANGED <<at, obs>>
                         /\ seen' = [seen EXCEPT ![p] = None]
    \/ pc[p] # "recheck" /\ Leave(p)

(* On to the successor path of the token read.  Where that guard was       *)
(* dropped meanwhile, the walk strays to a path off the chain.             *)
GoOn(p) ==
    /\ at' = [at EXCEPT ![p] = Token(p)]
    /\ seen' = [seen EXCEPT ![p] = None]
    /\ Done(p)
    /\ strayed' = (strayed \/ p \in late \/ guard[at[p]] # seen[p])
    /\ UNCHANGED <<pc, obs>>

(* Mutants: a live guard is stepped over like a dead one; a dead guard     *)
(* counts as active.                                                       *)
WalkProbesOverLive(p) ==
    /\ p \in alive /\ pc[p] \in Walks
    /\ seen[p] # None
    /\ GoOn(p)
    /\ UNCHANGED <<alive, lock, guard>>

WalkProbesActive(p) ==
    /\ p \in alive /\ pc[p] \in Walks
    /\ seen[p] # None
    /\ BackOff(p)
    /\ Done(p)
    /\ UNCHANGED <<alive, lock, guard, strayed>>

(* Alive: reclamation is active, and the acquisition backs off.  Dead: the *)
(* walk goes on.                                                           *)
WalkProbes(p) ==
    /\ p \in alive /\ pc[p] \in Walks
    /\ seen[p] # None
    /\ \/ seen[p] \in alive /\ BackOff(p) /\ Done(p) /\ UNCHANGED strayed
       \/ seen[p] \notin alive /\ GoOn(p)
    /\ UNCHANGED <<alive, lock, guard>>

-----------------------------------------------------------------------------
(* reclaimAbandonedLock.                                                   *)

InspectReads(p) ==
    /\ At(p, "inspect")
    /\ seen[p] = None
    /\ lock # None
    /\ Read(p, lock)

(* inspectAbandonedLock: no lock file, or one of a live owner.             *)
InspectDeclines(p) ==
    /\ At(p, "inspect")
    /\ \/ seen[p] = None /\ lock = None
       \/ seen[p] \in alive
    /\ Leave(p)
    /\ Done(p)
    /\ UNCHANGED <<alive, lock, guard, strayed>>

InspectFinds(p) ==
    /\ At(p, "inspect")
    /\ seen[p] # None /\ seen[p] \notin alive
    /\ obs' = [obs EXCEPT ![p] = Token(p)]
    /\ WalkFrom(p, "guard")
    /\ seen' = [seen EXCEPT ![p] = None]
    /\ Done(p)
    /\ UNCHANGED <<alive, lock, guard, strayed>>

(* tryPublishRecoveryGuard; the path is taken: look again, or, after eight *)
(* times, give up.                                                         *)
Publish(p) ==
    /\ At(p, "publish")
    /\ \/ /\ guard[at[p]] = None
          /\ guard' = [guard EXCEPT ![at[p]] = p]
          /\ Replaced(p, Walks)
          /\ Goto(p, "reinspect")
          /\ UNCHANGED <<at, seen, obs>>
       \/ /\ guard[at[p]] # None
          /\ WalkFrom(p, "guard") /\ UNCHANGED <<guard, seen, obs, late>>
       \/ /\ guard[at[p]] # None
          /\ Leave(p) /\ UNCHANGED <<guard, late>>
    /\ UNCHANGED <<alive, lock, strayed>>

(* Mutant: what was observed before the guard is trusted under it.         *)
ReinspectTrusts(p) ==
    /\ At(p, "reinspect")
    /\ Goto(p, "unlink")
    /\ UNCHANGED <<alive, lock, guard, at, seen, obs, late, strayed>>

(* sameObservedLock and the last lstat: still the abandoned file.          *)
Reinspect(p) ==
    /\ At(p, "reinspect")
    /\ Goto(p, IF lock = obs[p] THEN "unlink" ELSE "drop")
    /\ UNCHANGED <<alive, lock, guard, at, seen, obs, late, strayed>>

Unlink(p) ==
    /\ At(p, "unlink")
    /\ lock' = None
    /\ Goto(p, "drop")
    /\ UNCHANGED <<alive, guard, at, seen, obs, late, strayed>>

(* releaseRecovery.                                                        *)
Drop(p) ==
    /\ At(p, "drop")
    /\ guard' = [guard EXCEPT ![at[p]] = IF @ = p THEN None ELSE @]
    /\ Leave(p)
    /\ UNCHANGED <<alive, lock, late, strayed>>

-----------------------------------------------------------------------------
(* A process ends: it died, or it is done.                                 *)
Ends(p) ==
    /\ p \in alive \cap Mortal
    /\ alive' = alive \ {p}
    /\ Leave(p)
    /\ Done(p)
    /\ UNCHANGED <<lock, guard, strayed>>

Step(p) ==
    \/ Link(p) \/ Unlock(p, "undo") \/ Unlock(p, "critical")
    \/ WalkVacant(p) \/ WalkReads(p) \/ WalkProbes(p)
    \/ InspectReads(p) \/ InspectDeclines(p) \/ InspectFinds(p)
    \/ Publish(p) \/ Reinspect(p) \/ Unlink(p) \/ Drop(p)

Next == \E p \in Procs : Step(p) \/ Ends(p)

Spec == Init /\ [][Next]_vars

(* A process that runs, runs on; someone goes on asking for the lock.      *)
FairSpec == Spec /\ \A p \in Procs : WF_vars(Step(p))

-----------------------------------------------------------------------------
(* Two live processes are never in the critical section together, whoever  *)
(* died holding the lock or a guard, unless a walk has strayed.            *)
OneOwner ==
    ~strayed => \A p, q \in alive : pc[p] = "critical" /\ pc[q] = "critical" => p = q

OwnersLeaveIt ==
    lock' # lock /\ lock \in alive => pc[lock] \in {"critical", "undo"} /\ pc'[lock] = "check"

(* The lock of a live process is removed by nobody else, whatever a        *)
(* reclaimer observed, unless a walk has strayed.                          *)
LiveLockIsSafe == [][~strayed => OwnersLeaveIt]_vars

(* As owned-lock.js:151 has it, a new owner's lock stays in any case.      *)
LiveLockStays == [][OwnersLeaveIt]_vars

(* A lock whose owner died does not stay: it is reclaimed although         *)
(* reclaimers may die too and leave their guards behind, and walks stray.  *)
AbandonedIsReclaimed == lock \in Owners \ alive ~> lock \notin Owners \ alive
=============================================================================
