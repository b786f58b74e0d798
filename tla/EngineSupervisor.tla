-------------------------- MODULE EngineSupervisor --------------------------
(***************************************************************************)
(* runEngineInterruptible of scripts/loop-process.js, run in a supervisor  *)
(* process of its own by runEngineInterruptibleSync, and what              *)
(* loop-worker.js makes of its report.  The engine leads a process group;  *)
(* its descendants may leave the group, ignore SIGTERM and hold the        *)
(* engine's output pipes open after it.  The supervisor waits for the      *)
(* pipes to close and ends the group early on a timeout, on too much       *)
(* output, on a local STOP file and on a STOP committed to the remote.     *)
(*                                                                         *)
(* A process may exit at any time, so SIGTERM, which it may ignore, needs  *)
(* no step; SIGKILL does.  Reuse of process ids is left out.               *)
(***************************************************************************)
EXTENDS Naturals

CONSTANTS
    Leader,      \* the engine process
    Kin,         \* processes it may start, directly or not
    MaxCommits,  \* bound: commits others make to the PM remote meanwhile
    None

ASSUME LeaderIsNoKin == Leader \notin Kin
ASSUME CommitBound == MaxCommits \in Nat
ASSUME NoneIsFresh == None \notin Nat

VARIABLES
    proc,       \* per process: not started, in the group, out of it, gone
    pipe,       \* processes that hold a pipe of the engine open
    code,       \* how the engine ended: None while it runs
    stopFile,   \* the local pm/loop/STOP exists
    remote,     \* the tip of the PM remote: its number, and STOP in it
    sup,        \* the supervisor
    term,       \* termReason
    closed,     \* closeResult is set
    escalated,  \* escalationComplete
    truncated,  \* output was cut off
    probe,      \* the remote probe in flight, or None
    lastOid,    \* remoteStop.last_oid
    report      \* what the worker is told, or None

engineVars == <<proc, pipe, code>>
stopVars == <<stopFile, remote>>
probeVars == <<probe, lastOid>>
supVars == <<sup, term, closed, escalated, truncated, report>>
vars == <<engineVars, stopVars, probeVars, supVars>>

Procs == Kin \cup {Leader}
Reasons == {"stop", "timeout", "buffer"}
Errors == {"none", "spawn", "buffer", "timeout", "supervisor"}
Report == [stopped : BOOLEAN, error : Errors, zero : BOOLEAN]
Tip == [oid : Nat, stop : BOOLEAN]
(* A probe has read oid and, when it has fetched, whether STOP was there.  *)
Probe == [oid : Nat, at : {"started", "listed", "fetched"}, stop : BOOLEAN]

TypeOK ==
    /\ proc \in [Procs -> {"none", "in", "out", "gone"}]
    /\ pipe \in SUBSET Procs
    /\ code \in {None, "zero", "nonzero", "unspawned"}
    /\ stopFile \in BOOLEAN
    /\ remote \in Tip
    /\ sup \in {"running", "settled", "cutoff", "died"}
    /\ term \in Reasons \cup {"none"}
    /\ closed \in BOOLEAN /\ escalated \in BOOLEAN /\ truncated \in BOOLEAN
    /\ probe \in Probe \cup {None}
    /\ lastOid \in Nat \cup {None}
    /\ report \in Report \cup {None}

Running(p) == proc[p] \in {"in", "out"}
Group == {p \in Procs : proc[p] = "in"}

(* spawn succeeded, or its error event is under way; the STOP monitor      *)
(* could be set up, on a remote without STOP or with one.                  *)
Init ==
    /\ \/ /\ proc = [p \in Procs |-> IF p = Leader THEN "in" ELSE "none"]
          /\ pipe = {Leader} /\ code = None
       \/ /\ proc = [p \in Procs |-> IF p = Leader THEN "gone" ELSE "none"]
          /\ pipe = {} /\ code = "unspawned"
    /\ stopFile \in BOOLEAN
    /\ remote \in [oid : {0}, stop : BOOLEAN]
    /\ sup = "running" /\ term = "none"
    /\ closed = FALSE /\ escalated = FALSE /\ truncated = FALSE
    /\ probe = None /\ lastOid = None
    /\ report = None

-----------------------------------------------------------------------------
(* The engine and its descendants.                                         *)

Forks(p, q) ==
    /\ Running(p) /\ proc[q] = "none"
    /\ proc' = [proc EXCEPT ![q] = proc[p]]
    /\ pipe' \in {pipe} \cup (IF p \in pipe THEN {pipe \cup {q}} ELSE {})
    /\ UNCHANGED <<code, stopVars, probeVars, supVars>>

(* setsid.                                                                 *)
Leaves(q) ==
    /\ q # Leader /\ proc[q] = "in"
    /\ proc' = [proc EXCEPT ![q] = "out"]
    /\ UNCHANGED <<pipe, code, stopVars, probeVars, supVars>>

Exits(p) ==
    /\ Running(p)
    /\ proc' = [proc EXCEPT ![p] = "gone"]
    /\ pipe' = pipe \ {p}
    /\ code' \in IF p = Leader THEN {"zero", "nonzero"} ELSE {code}
    /\ UNCHANGED <<stopVars, probeVars, supVars>>

-----------------------------------------------------------------------------
(* finish: the error of the report is the first of these.                  *)
ReportNow ==
    [stopped |-> term = "stop",
     error |-> CASE code = "unspawned" -> "spawn"
                 [] code # "unspawned" /\ truncated -> "buffer"
                 [] code # "unspawned" /\ ~truncated /\ term = "timeout" -> "timeout"
                 [] OTHER -> "none",
     zero |-> code = "zero"]

Finish ==
    /\ sup' = "settled"
    /\ report' = ReportNow

(* requestTermination: the first reason counts.                            *)
RequestTermination(reason) ==
    term' = IF term = "none" THEN reason ELSE term

TimesOut ==
    /\ sup = "running"
    /\ RequestTermination("timeout")
    /\ UNCHANGED <<engineVars, stopVars, probeVars, sup, closed, escalated, truncated, report>>

(* Mutant: an overflow does not make the report an error.                  *)
OverflowsSilently ==
    /\ sup = "running" /\ pipe # {}
    /\ RequestTermination("buffer")
    /\ UNCHANGED <<engineVars, stopVars, probeVars, sup, closed, escalated, truncated, report>>

Overflows ==
    /\ sup = "running" /\ pipe # {}
    /\ truncated' = TRUE
    /\ RequestTermination("buffer")
    /\ UNCHANGED <<engineVars, stopVars, probeVars, sup, closed, escalated, report>>

(* Mutant: the close event ends the run although its group lives on.       *)
ClosesAtOnce ==
    /\ sup = "running" /\ ~closed
    /\ proc[Leader] = "gone" /\ pipe = {}
    /\ closed' = TRUE
    /\ Finish
    /\ UNCHANGED <<engineVars, stopVars, probeVars, term, escalated, truncated>>

(* The close event: the engine is gone and nobody holds its pipes.  A run  *)
(* that is being terminated waits for its group, at most for the grace.    *)
Closes ==
    /\ sup = "running" /\ ~closed
    /\ proc[Leader] = "gone" /\ pipe = {}
    /\ closed' = TRUE
    /\ IF term = "none" \/ escalated \/ Group = {} THEN Finish ELSE UNCHANGED <<sup, report>>
    /\ UNCHANGED <<engineVars, stopVars, probeVars, term, escalated, truncated>>

(* The grace is over: SIGKILL to what is left of the group.                *)
GraceEnds ==
    /\ sup = "running" /\ term # "none" /\ ~escalated
    /\ proc' = [p \in Procs |-> IF proc[p] = "in" THEN "gone" ELSE proc[p]]
    /\ pipe' = pipe \ Group
    /\ code' = IF proc[Leader] = "in" THEN "nonzero" ELSE code
    /\ escalated' = TRUE
    /\ IF closed THEN Finish ELSE UNCHANGED <<sup, report>>
    /\ UNCHANGED <<stopVars, probeVars, term, closed, truncated>>

-----------------------------------------------------------------------------
(* The poll timer: the local file first, then at most one remote probe.    *)

PollSeesStop ==
    /\ sup = "running" /\ stopFile
    /\ RequestTermination("stop")
    /\ UNCHANGED <<engineVars, stopVars, probeVars, sup, closed, escalated, truncated, report>>

PollProbes ==
    /\ sup = "running" /\ ~stopFile /\ probe = None
    /\ probe' = [oid |-> 0, at |-> "started", stop |-> FALSE]
    /\ UNCHANGED <<engineVars, stopVars, supVars, lastOid>>

ProbeEnds == probe' = None

(* Mutant: the tip is remembered as soon as it is listed.                  *)
ListsRemembered ==
    /\ sup = "running" /\ probe # None /\ probe.at = "started"
    /\ IF remote.oid = lastOid THEN ProbeEnds
       ELSE probe' = [probe EXCEPT !.at = "listed", !.oid = remote.oid]
    /\ lastOid' = remote.oid
    /\ UNCHANGED <<engineVars, stopVars, supVars>>

(* git ls-remote: nothing more to do for a tip that was probed before.     *)
Lists ==
    /\ sup = "running" /\ probe # None /\ probe.at = "started"
    /\ IF remote.oid = lastOid THEN ProbeEnds
       ELSE probe' = [probe EXCEPT !.at = "listed", !.oid = remote.oid]
    /\ UNCHANGED <<engineVars, stopVars, supVars, lastOid>>

(* git fetch of the ref, whose tip may be a later one by now.              *)
Fetches ==
    /\ sup = "running" /\ probe # None /\ probe.at = "listed"
    /\ probe' = [probe EXCEPT !.at = "fetched", !.stop = remote.stop]
    /\ UNCHANGED <<engineVars, stopVars, supVars, lastOid>>

(* git cat-file -e FETCH_HEAD:pm/loop/STOP.                                *)
Looks ==
    /\ sup = "running" /\ probe # None /\ probe.at = "fetched"
    /\ lastOid' = probe.oid
    /\ IF probe.stop THEN RequestTermination("stop") ELSE UNCHANGED term
    /\ ProbeEnds
    /\ UNCHANGED <<engineVars, stopVars, sup, closed, escalated, truncated, report>>

(* Any of the three commands fails or runs into its own timeout.           *)
ProbeFails ==
    /\ sup = "running" /\ probe # None
    /\ ProbeEnds
    /\ UNCHANGED <<engineVars, stopVars, supVars, lastOid>>

-----------------------------------------------------------------------------
(* spawnSync ends the supervisor.  Its deadline is five seconds after the  *)
(* timeout and the grace, so that the grace has ended.                     *)
CutOff ==
    /\ sup = "running" /\ escalated
    /\ sup' = "cutoff"
    /\ report' = [stopped |-> FALSE, error |-> "timeout", zero |-> FALSE]
    /\ UNCHANGED <<engineVars, stopVars, probeVars, term, closed, escalated, truncated>>

(* The supervisor dies of itself: its log cannot be written, say.          *)
Dies ==
    /\ sup = "running"
    /\ sup' = "died"
    /\ report' = [stopped |-> FALSE, error |-> "supervisor", zero |-> FALSE]
    /\ UNCHANGED <<engineVars, stopVars, probeVars, term, closed, escalated, truncated>>

(* People create and delete STOP, locally and upstream.                    *)
StopFileChanges ==
    /\ stopFile' = ~stopFile
    /\ UNCHANGED <<engineVars, remote, probeVars, supVars>>

Commits(stop) ==
    /\ remote.oid < MaxCommits
    /\ remote' = [oid |-> remote.oid + 1, stop |-> stop]
    /\ UNCHANGED <<engineVars, stopFile, probeVars, supVars>>

Engine ==
    \/ \E p, q \in Procs : Forks(p, q)
    \/ \E p \in Procs : Leaves(p) \/ Exits(p)

Supervisor ==
    \/ TimesOut \/ Overflows \/ Closes \/ GraceEnds
    \/ PollSeesStop \/ PollProbes \/ Lists \/ Fetches \/ Looks \/ ProbeFails
    \/ CutOff \/ Dies

People == StopFileChanges \/ \E stop \in BOOLEAN : Commits(stop)

Next == Engine \/ Supervisor \/ People

Spec == Init /\ [][Next]_vars

(* Timers fire and events are delivered; the git commands of the probe do  *)
(* not fail for ever.  Neither the timeout nor an exit of the engine is    *)
(* taken for granted.                                                      *)
SupervisorFairness ==
    /\ WF_vars(Closes) /\ WF_vars(GraceEnds)
    /\ WF_vars(PollSeesStop) /\ SF_vars(PollProbes)
    /\ SF_vars(Lists) /\ SF_vars(Fetches) /\ SF_vars(Looks)

FairSpec == Spec /\ SupervisorFairness

-----------------------------------------------------------------------------
(* What the worker makes of a report: the success an engine has written in *)
(* its result file counts only then.                                       *)
AcceptsSuccess(r) == ~r.stopped /\ r.error = "none" /\ r.zero

(* When the worker goes on after its supervisor had to end the run, no     *)
(* process of the engine's group is left, whoever ignored SIGTERM and      *)
(* whoever kept the pipes.                                                 *)
NoSurvivors ==
    term # "none" /\ sup \in {"settled", "cutoff"} => Group = {}

(* The success of an engine is accepted only when it ended by itself: no   *)
(* termination had been asked for, in whatever order the exit, the close   *)
(* event, the poll, a late probe and the timers came.                      *)
SuccessIsUndisturbed ==
    report # None /\ AcceptsSuccess(report) => term = "none" /\ code = "zero" /\ ~truncated

(* A STOP that stays, local or committed, ends the engine's group, if the  *)
(* run is not over first, without waiting for the timeout, although probes *)
(* fail and the tip moves between being listed and being fetched.          *)
StopEndsEngine ==
    stopFile \/ remote.stop ~>
        ~(stopFile \/ remote.stop) \/ Group = {} \/ sup # "running"
=============================================================================
