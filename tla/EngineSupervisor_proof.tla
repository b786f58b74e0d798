----------------------- MODULE EngineSupervisor_proof -----------------------
(***************************************************************************)
(* Proofs of the safety properties of EngineSupervisor, for any number of  *)
(* descendants of the engine and any number of commits.                    *)
(***************************************************************************)
EXTENDS EngineSupervisor, TLAPS

(* Once SIGKILL was sent the group stays empty: only its members fork into *)
(* it.  The same once the run was closed after a termination.              *)
GroupEnded == (escalated \/ (term # "none" /\ sup = "settled")) => Group = {}

(* A report is what the supervisor knew when it settled, and nothing of    *)
(* that changes any more: the engine was gone when its pipes closed.       *)
ReportSound ==
    /\ closed => proc[Leader] = "gone"
    /\ term = "buffer" => truncated
    /\ sup = "running" => report = None
    /\ sup = "settled" => closed /\ report = ReportNow
    /\ sup \in {"cutoff", "died"} => report.error # "none"
    /\ sup = "cutoff" => escalated

IInv == TypeOK /\ GroupEnded /\ ReportSound

-----------------------------------------------------------------------------
(* The model starts in the invariant.                                      *)
LEMMA InitIInv == Init => IInv
<1>. SUFFICES ASSUME Init PROVE IInv
  OBVIOUS
<1>1. TypeOK
  <2>1. /\ proc \in [Procs -> {"none", "in", "out", "gone"}]
        /\ pipe \in SUBSET Procs
        /\ code \in {None, "zero", "nonzero", "unspawned"}
    BY DEF Init, Procs
  <2>2. remote \in Tip
    BY DEF Init, Tip
  <2>. QED
    BY <2>1, <2>2 DEF Init, TypeOK
<1>2. GroupEnded
  BY DEF Init, GroupEnded
<1>3. ReportSound
  BY DEF Init, ReportSound
<1>. QED
  BY <1>1, <1>2, <1>3 DEF IInv

(* A report that is made now has its type.                                 *)
LEMMA ReportNowType ==
  ASSUME TypeOK PROVE ReportNow \in Report
BY DEF TypeOK, ReportNow, Report, Errors

-----------------------------------------------------------------------------
(* Every step keeps the types.                                             *)
LEMMA TypeStep ==
  ASSUME TypeOK, [Next]_vars PROVE TypeOK'
<1>. USE DEF TypeOK, vars, engineVars, stopVars, probeVars, supVars
<1>1. CASE Engine
  <2>1. ASSUME NEW p \in Procs, NEW q \in Procs, Forks(p, q) PROVE TypeOK'
    BY <2>1 DEF Forks, Running
  <2>2. ASSUME NEW p \in Procs, Leaves(p) PROVE TypeOK'
    BY <2>2 DEF Leaves
  <2>3. ASSUME NEW p \in Procs, Exits(p) PROVE TypeOK'
    BY <2>3 DEF Exits
  <2>. QED
    BY <1>1, <2>1, <2>2, <2>3 DEF Engine
<1>2. CASE Supervisor
  <2>. USE DEF RequestTermination, Reasons
  <2>1. CASE TimesOut BY <2>1 DEF TimesOut
  <2>2. CASE Overflows BY <2>2 DEF Overflows
  <2>3. CASE Closes BY <2>3, ReportNowType DEF Closes, Finish
  <2>4. CASE GraceEnds BY <2>4, ReportNowType DEF GraceEnds, Finish
  <2>5. CASE PollSeesStop BY <2>5 DEF PollSeesStop
  <2>6. CASE PollProbes
    <3>1. probe' \in Probe
      BY <2>6 DEF PollProbes, Probe
    <3>. QED
      BY <2>6, <3>1 DEF PollProbes
  <2>7. CASE Lists
    <3>1. probe \in Probe /\ remote.oid \in Nat
      BY <2>7 DEF Lists, Tip
    <3>2. [probe EXCEPT !.at = "listed", !.oid = remote.oid] \in Probe
      BY <3>1 DEF Probe
    <3>3. probe' \in Probe \cup {None}
      BY <2>7, <3>2 DEF Lists, ProbeEnds
    <3>. QED
      BY <2>7, <3>3 DEF Lists
  <2>8. CASE Fetches
    <3>1. probe \in Probe /\ remote.stop \in BOOLEAN
      BY <2>8 DEF Fetches, Tip
    <3>2. probe' \in Probe
      BY <2>8, <3>1 DEF Fetches, Probe
    <3>. QED
      BY <2>8, <3>2 DEF Fetches
  <2>9. CASE Looks BY <2>9 DEF Looks, ProbeEnds, Probe
  <2>10. CASE ProbeFails BY <2>10 DEF ProbeFails, ProbeEnds
  <2>11. CASE CutOff BY <2>11 DEF CutOff, Report, Errors
  <2>12. CASE Dies BY <2>12 DEF Dies, Report, Errors
  <2>. QED
    BY <1>2, <2>1, <2>2, <2>3, <2>4, <2>5, <2>6, <2>7, <2>8, <2>9, <2>10, <2>11, <2>12
       DEF Supervisor
<1>3. CASE People
  <2>1. CASE StopFileChanges
    BY <2>1 DEF StopFileChanges
  <2>2. ASSUME NEW stop \in BOOLEAN, Commits(stop) PROVE TypeOK'
    <3>1. remote' \in Tip
      BY <2>2 DEF Commits, Tip
    <3>. QED
      BY <2>2, <3>1 DEF Commits
  <2>. QED
    BY <1>3, <2>1, <2>2 DEF People
<1>4. CASE UNCHANGED vars
  BY <1>4
<1>. QED
  BY <1>1, <1>2, <1>3, <1>4 DEF Next

(* Every step keeps an ended group ended.                                  *)
LEMMA GroupStep ==
  ASSUME IInv, [Next]_vars PROVE GroupEnded'
<1>. USE DEF IInv, TypeOK, GroupEnded, Group, vars, engineVars, stopVars, probeVars, supVars
<1>1. CASE Engine
  <2>1. ASSUME NEW p \in Procs, NEW q \in Procs, Forks(p, q) PROVE GroupEnded'
    BY <2>1 DEF Forks, Running
  <2>2. ASSUME NEW p \in Procs, Leaves(p) PROVE GroupEnded'
    BY <2>2 DEF Leaves
  <2>3. ASSUME NEW p \in Procs, Exits(p) PROVE GroupEnded'
    BY <2>3 DEF Exits
  <2>. QED
    BY <1>1, <2>1, <2>2, <2>3 DEF Engine
<1>2. CASE Supervisor
  <2>. USE DEF RequestTermination
  <2>1. CASE TimesOut BY <2>1 DEF TimesOut
  <2>2. CASE Overflows BY <2>2 DEF Overflows
  <2>3. CASE Closes BY <2>3 DEF Closes, Finish
  <2>4. CASE GraceEnds BY <2>4 DEF GraceEnds
  <2>5. CASE PollSeesStop BY <2>5 DEF PollSeesStop
  <2>6. CASE PollProbes \/ Lists \/ Fetches \/ ProbeFails
    BY <2>6 DEF PollProbes, Lists, Fetches, ProbeFails
  <2>7. CASE Looks BY <2>7 DEF Looks
  <2>8. CASE CutOff \/ Dies BY <2>8 DEF CutOff, Dies
  <2>. QED
    BY <1>2, <2>1, <2>2, <2>3, <2>4, <2>5, <2>6, <2>7, <2>8 DEF Supervisor
<1>3. CASE People
  BY <1>3 DEF People, StopFileChanges, Commits
<1>4. CASE UNCHANGED vars
  BY <1>4
<1>. QED
  BY <1>1, <1>2, <1>3, <1>4 DEF Next

(* Every step keeps reports sound.                                         *)
LEMMA ReportStep ==
  ASSUME IInv, [Next]_vars PROVE ReportSound'
<1>. USE DEF IInv, TypeOK, ReportSound, ReportNow, vars, engineVars, stopVars, probeVars, supVars
<1>1. CASE Engine
  <2>1. ASSUME NEW p \in Procs, NEW q \in Procs, Forks(p, q) PROVE ReportSound'
    BY <2>1 DEF Forks, Running, Procs
  <2>2. ASSUME NEW p \in Procs, Leaves(p) PROVE ReportSound'
    BY <2>2 DEF Leaves, Procs
  <2>3. ASSUME NEW p \in Procs, Exits(p) PROVE ReportSound'
    BY <2>3 DEF Exits, Running, Procs
  <2>. QED
    BY <1>1, <2>1, <2>2, <2>3 DEF Engine
<1>2. CASE Supervisor
  <2>. USE DEF RequestTermination
  <2>1. CASE TimesOut BY <2>1 DEF TimesOut
  <2>2. CASE Overflows BY <2>2 DEF Overflows
  <2>3. CASE Closes BY <2>3 DEF Closes, Finish
  <2>4. CASE GraceEnds BY <2>4 DEF GraceEnds, Finish, Procs
  <2>5. CASE PollSeesStop BY <2>5 DEF PollSeesStop
  <2>6. CASE PollProbes \/ Lists \/ Fetches \/ ProbeFails
    BY <2>6 DEF PollProbes, Lists, Fetches, ProbeFails
  <2>7. CASE Looks BY <2>7 DEF Looks
  <2>8. CASE CutOff \/ Dies BY <2>8 DEF CutOff, Dies
  <2>. QED
    BY <1>2, <2>1, <2>2, <2>3, <2>4, <2>5, <2>6, <2>7, <2>8 DEF Supervisor
<1>3. CASE People
  BY <1>3 DEF People, StopFileChanges, Commits
<1>4. CASE UNCHANGED vars
  BY <1>4
<1>. QED
  BY <1>1, <1>2, <1>3, <1>4 DEF Next

-----------------------------------------------------------------------------
(* The inductive invariant of one engine run under its supervisor.         *)
THEOREM Inductive == Spec => []IInv
<1>1. IInv /\ [Next]_vars => IInv'
  <2>. SUFFICES ASSUME IInv, [Next]_vars PROVE IInv'
    OBVIOUS
  <2>1. TypeOK'
    BY TypeStep DEF IInv
  <2>. QED
    BY <2>1, GroupStep, ReportStep DEF IInv
<1>. QED
  BY <1>1, InitIInv, PTL DEF Spec

(* No process of the engine's group survives a run that was ended.         *)
THEOREM NobodySurvives == Spec => []NoSurvivors
<1>1. IInv => NoSurvivors
  BY DEF IInv, GroupEnded, ReportSound, NoSurvivors
<1>. QED
  BY <1>1, Inductive, PTL

(* A success is accepted only of an engine that ended undisturbed.         *)
THEOREM AcceptedIsUndisturbed == Spec => []SuccessIsUndisturbed
<1>1. IInv => SuccessIsUndisturbed
  <2>. SUFFICES ASSUME IInv, report # None, AcceptsSuccess(report)
                PROVE term = "none" /\ code = "zero" /\ ~truncated
    BY DEF SuccessIsUndisturbed
  <2>1. sup = "settled"
    BY DEF IInv, TypeOK, ReportSound, AcceptsSuccess
  <2>2. report = ReportNow
    BY <2>1 DEF IInv, ReportSound
  <2>3. code = "zero" /\ term # "stop"
    BY <2>2 DEF ReportNow, AcceptsSuccess
  <2>4. ~truncated /\ term # "timeout"
    BY <2>2, <2>3 DEF ReportNow, AcceptsSuccess
  <2>. QED
    BY <2>3, <2>4 DEF IInv, TypeOK, ReportSound, Reasons
<1>. QED
  BY <1>1, Inductive, PTL
=============================================================================
