------------------------------ MODULE DevSession ------------------------------
(***************************************************************************)
(* One run of a Dev session: scripts/lib/dev-session-schema.js behind      *)
(* scripts/dev-session.js, with the routes of lib/dev-risk.js, the QA      *)
(* ledger of lib/qa-report-schema.js and the skip rows of                  *)
(* lib/dev-gate-writer.js.  A command reads session.json under the         *)
(* session lock, changes it and writes it, so an action is one command     *)
(* that is accepted.  A result that answers another run, phase or attempt  *)
(* is refused; a result equal to the last one recorded changes nothing.    *)
(*                                                                         *)
(* Commits of the branch are numbered in their order; 0 is no commit.      *)
(* What a report, a receipt or an approval is checked against outside the  *)
(* session either holds or the command is refused.                         *)
(***************************************************************************)
EXTENDS Naturals, FiniteSets, SequencesExt

CONSTANTS
    Units,        \* work units, in the order of task.work_units
    DependsOn,    \* what each unit depends on
    Owns,         \* the paths each unit owns at intake
    Paths,
    UIFree,       \* commits at which the policy allows to skip the UI gates
    Routings,     \* facts that route may record
    Fallible,     \* bound: phases whose results may fail or block
    Uncommitted,  \* bound: phases whose results name no commit
    Recertified,  \* bound: phases that are recertified together
    MaxCommit,    \* bound: commits on the branch
    MaxResults,   \* bound: results recorded
    MaxRuns       \* MAX_RUNS of the QA report

ASSUME UnitsAreOrdered == Units \in Seq(Range(Units)) /\ IsInjective(Units)
ASSUME UnitContracts ==
    /\ DependsOn \in [Range(Units) -> SUBSET Range(Units)]
    /\ Owns \in [Range(Units) -> SUBSET Paths]
ASSUME SessionBounds == MaxCommit \in Nat \ {0} /\ MaxResults \in Nat /\ MaxRuns \in Nat

Unit == Range(Units)

VARIABLES
    head,       \* HEAD of the branch
    facts,      \* what intake routed
    headless,
    status, phase, attempt,    \* session.status, phase, phase_attempt
    attempts,   \* the results recorded
    blockers,   \* by phase, and whether resolved
    evidence,   \* by phase: the commit it was recorded and verified at
    runs,       \* evidence.qa.qa_run_anchors
    lineage,    \* recovery_history: outcomes of the checked reports
    skips,      \* gates.json: the commit a gate's row is skipped at, or 0
    units, owns \* task.work_units: status and owned paths

work == <<units, owns>>
sessionVars == <<head, facts, headless, status, phase, attempt, attempts, blockers,
                 evidence, runs, lineage, skips, units, owns>>

Phases == <<"intake", "workspace", "readiness", "implementation", "design-critique", "qa",
            "review", "ship", "retro">>
Phase == Range(Phases)
UIGates == {"design-critique", "qa"}
Gates == UIGates \cup {"tdd", "review", "verification"}
Commit == 0 .. MaxCommit
MaxPhaseAttempts == 3
Threshold == [p \in {"design-critique", "review"} |-> IF p = "review" THEN 3 ELSE 2]
Recovering == DOMAIN Threshold
Open(s) == s \notin {"complete", "handoff"}

PhaseOf(gate) ==
    CASE gate = "tdd" -> "implementation" [] gate = "verification" -> "review" [] OTHER -> gate
Certifying == {PhaseOf(gate) : gate \in Gates}

(* routeDevWork; a session that has not been routed goes through it all.   *)
Routing == [readiness : BOOLEAN, tdd : BOOLEAN, ui : {"none", "focused", "full", "unassessed"},
            multi : BOOLEAN]
Unrouted == [readiness |-> TRUE, tdd |-> TRUE, ui |-> "unassessed", multi |-> FALSE]

ASSUME CommandInputs == Routings \subseteq Routing /\ Recertified \subseteq SUBSET Certifying

Routed(f, p) ==
    CASE p = "readiness" -> f.readiness
      [] p = "design-critique" -> f.ui \in {"full", "unassessed"}
      [] p = "qa" -> f.ui # "none"
      [] OTHER -> TRUE
RequiredGates(f) ==
    {"review", "verification"} \cup (IF f.tdd THEN {"tdd"} ELSE {})
        \cup (CASE f.ui = "full" -> UIGates [] f.ui = "focused" -> {"qa"} [] OTHER -> {})

(* The phases are entered in their order, those that are routed.           *)
Later(p, q) == \E i, j \in 1 .. Len(Phases) : i > j /\ Phases[i] = p /\ Phases[j] = q
Ahead(p) == {q \in Phase : Later(q, p) /\ Routed(facts, q)}
IsLast(p) == Ahead(p) = {}
Successor(p) == CHOOSE q \in Ahead(p) : \A r \in Ahead(p) : ~Later(q, r)

UnitStatuses == {"unrouted", "pending", "running", "completed", "blocked", "failed"}
Attempt == [phase : Phase, attempt : Nat, status : {"passed", "failed", "blocked"}, commit : Commit]
Run == [commit : Commit, verdict : {"passed", "failed", "blocked"}]

SessionTypeOK ==
    /\ head \in Commit \ {0}
    /\ facts \in Routing /\ headless \in BOOLEAN
    /\ status \in {"active", "blocked", "handoff", "complete"}
    /\ phase \in Phase /\ Routed(facts, phase) /\ attempt \in Nat \ {0}
    /\ attempts \in Seq(Attempt)
    /\ blockers \in Seq([phase : Phase, resolved : BOOLEAN])
    /\ evidence \in [Certifying -> [commit : Commit, verified : Commit]]
    /\ runs \in Seq(Run)
    /\ lineage \in [Recovering -> Seq({"passed", "failed", "blocked"})]
    /\ skips \in [UIGates -> Commit]
    /\ units \in [Unit -> UnitStatuses] /\ owns \in [Unit -> SUBSET Paths]
    /\ (status = "blocked") <=> \E i \in DOMAIN blockers : ~blockers[i].resolved

NoEvidence == [commit |-> 0, verified |-> 0]

SessionInit ==
    /\ head = 1
    /\ facts = Unrouted /\ headless \in BOOLEAN
    /\ status = "active" /\ phase = "intake" /\ attempt = 1
    /\ attempts = <<>> /\ blockers = <<>> /\ runs = <<>>
    /\ evidence = [p \in Certifying |-> NoEvidence]
    /\ lineage = [p \in Recovering |-> <<>>]
    /\ skips = [g \in UIGates |-> 0]
    /\ units = [u \in Unit |-> "unrouted"] /\ owns = Owns

-----------------------------------------------------------------------------
(* validateQaEvidence: a report continues the ledger by one run, and the   *)
(* attempts recorded in the QA phase are its first runs.                   *)
AttemptsOf(p) == {i \in DOMAIN attempts : attempts[i].phase = p}
Ledgered ==
    \A i \in AttemptsOf("qa") :
        LET n == Cardinality(AttemptsOf("qa") \cap (1 .. i)) IN
        /\ n <= Len(runs)
        /\ runs[n] = [commit |-> attempts[i].commit, verdict |-> attempts[i].status]
Continues == Ledgered /\ Len(runs) < MaxRuns
(* Mutant: a report may begin a history of its own.                        *)
RunAlone(c, verdict) == <<[commit |-> c, verdict |-> verdict]>>

WithRun(c, verdict) == Append(runs, [commit |-> c, verdict |-> verdict])

(* validateScopedGateEvidence: outcome is the checked report's, or "none"  *)
(* when the result has no report.  A review that passed may accompany a    *)
(* verification that failed.                                               *)
ReportFits(st, c, outcome) ==
    IF phase \notin Recovering \/ outcome = "none"
    THEN /\ outcome = "none"
         /\ phase \in Recovering /\ st # "blocked" =>
                lineage[phase] = <<>> /\ attempt < Threshold[phase]
    ELSE /\ c # 0
         /\ outcome = st \/ (phase = "review" /\ st = "failed" /\ outcome = "passed")
WithReport(outcome) ==
    IF outcome = "none" THEN lineage ELSE [lineage EXCEPT ![phase] = Append(@, outcome)]

(* currentEvidenceRecords, for a gate at commit h; the newest QA run is    *)
(* the one its report ends with.                                           *)
Current(gate, h, ev, rs) ==
    /\ ev[PhaseOf(gate)].commit # 0
    /\ h \in {ev[PhaseOf(gate)].commit, ev[PhaseOf(gate)].verified}
    /\ gate = "qa" => rs # <<>> /\ Last(rs) = [commit |-> h, verdict |-> "passed"]

(* hasCurrentUiSkip: a retained skip is judged again.                      *)
Skipped(gate, h) == gate \in UIGates /\ skips[gate] = h /\ h \in UIFree

(* Mutant: evidence of any commit will do.                                 *)
FinalGatesOfAnyCommit(h, ev, rs) ==
    \A g \in RequiredGates(facts) : ev[PhaseOf(g)].commit # 0 \/ Skipped(g, h)

(* assertFinalGates, of the session as it is going to be.                  *)
FinalGates(h, ev, rs) == \A g \in RequiredGates(facts) : Current(g, h, ev, rs) \/ Skipped(g, h)

LatestCommit(as) ==
    LET committed == {i \in DOMAIN as : as[i].commit # 0} IN
    IF committed = {} THEN head ELSE as[Max(committed)].commit

-----------------------------------------------------------------------------
(* record.                                                                 *)

RequiresCommit(p) == p \in Certifying \cup {"ship"}
ASSUME CommitsRequired == \A p \in Uncommitted : ~RequiresCommit(p)
Done(us) == \A u \in Unit : us[u] \in {"unrouted", "completed"}

(* What every result must satisfy, and what is kept of it: the attempt,    *)
(* the QA run, the recovery report.  A passed result of a phase that       *)
(* requires a commit names one; bound: so does one that does not pass.     *)
Recorded(st, c, outcome) ==
    /\ status = "active"
    /\ Len(attempts) < MaxResults
    /\ st # "passed" => phase \in Fallible
    /\ c \in {0, head} \/ (phase = "review" /\ st = "failed" /\ outcome = "passed" /\ c < head)
    /\ IF phase \in Uncommitted THEN c = 0 ELSE RequiresCommit(phase) => c # 0
    /\ ReportFits(st, c, outcome)
    /\ phase = "qa" => c # 0 /\ Continues
    /\ attempts' = Append(attempts, [phase |-> phase, attempt |-> attempt,
                                     status |-> st, commit |-> c])
    /\ runs' = IF phase = "qa" THEN WithRun(c, st) ELSE runs
    /\ lineage' = WithReport(outcome)
    /\ UNCHANGED <<head, facts, headless, skips, units, owns>>

(* A result of a recovering phase that does not pass withdraws evidence.   *)
Withdrawn == IF phase \in Recovering THEN [evidence EXCEPT ![phase] = NoEvidence] ELSE evidence

Ends == IsLast(phase) \/ (phase = "ship" /\ headless)
Pass(c, outcome) ==
    /\ Recorded("passed", c, outcome)
    /\ phase = "implementation" => Done(units)
    /\ evidence' = IF phase \in Certifying
                   THEN [evidence EXCEPT ![phase] = [commit |-> c, verified |-> 0]] ELSE evidence
    /\ IF Ends
       THEN /\ FinalGates(LatestCommit(attempts'), evidence', runs')
            /\ status' = IF phase = "ship" THEN "handoff" ELSE "complete"
            /\ UNCHANGED <<phase, attempt>>
       ELSE phase' = Successor(phase) /\ attempt' = 1 /\ status' = status
    /\ UNCHANGED blockers

(* Mutant: the blocker is recorded and the session goes on.                *)
BlocksOnPaper ==
    /\ blockers' = Append(blockers, [phase |-> phase, resolved |-> FALSE])
    /\ UNCHANGED <<status, phase, attempt>>

Blocks ==
    /\ status' = "blocked"
    /\ blockers' = Append(blockers, [phase |-> phase, resolved |-> FALSE])
    /\ UNCHANGED <<phase, attempt>>

Block(c, outcome) == Recorded("blocked", c, outcome) /\ evidence' = Withdrawn /\ Blocks

(* Mutant: off by one.                                                     *)
ExhaustedLate == phase \notin Recovering \cup {"qa"} /\ attempt > MaxPhaseAttempts

(* The number of the next attempt: QA counts its runs, the recovering      *)
(* phases their attempts, any other phase gives up.                        *)
Exhausted == phase \notin Recovering \cup {"qa"} /\ attempt >= MaxPhaseAttempts

Fail(c, outcome) ==
    /\ Recorded("failed", c, outcome)
    /\ evidence' = Withdrawn
    /\ IF Exhausted THEN Blocks
       ELSE /\ attempt' = 1 + (IF phase = "qa" THEN Max({attempt, Len(runs')}) ELSE attempt)
            /\ UNCHANGED <<status, phase, blockers>>

-----------------------------------------------------------------------------
(* The other commands.                                                     *)

(* route, during intake.                                                   *)
Route(f) ==
    /\ status = "active" /\ phase = "intake"
    /\ facts' = f
    /\ units' = [u \in Unit |-> IF f.multi THEN "pending" ELSE "unrouted"] /\ owns' = Owns
    /\ UNCHANGED <<head, headless, status, phase, attempt, attempts, blockers, evidence,
                   runs, lineage, skips>>

(* Mutant: every phase starts again.                                       *)
ResumedAnew == 1

(* unblock.                                                                *)
Resumed ==
    CASE phase = "qa" -> Max({attempt, Len(runs) + 1, Cardinality(AttemptsOf("qa")) + 1})
      [] phase \in Recovering -> Max({attempt} \cup {attempts[i].attempt + 1 : i \in AttemptsOf(phase)})
      [] OTHER -> 1

Unblock ==
    /\ status = "blocked"
    /\ LET i == Max({j \in DOMAIN blockers : ~blockers[j].resolved}) IN
       blockers' = [blockers EXCEPT ![i].resolved = TRUE]
    /\ status' = "active" /\ attempt' = Resumed
    /\ UNCHANGED <<head, facts, headless, phase, attempts, evidence, runs, lineage, skips,
                   units, owns>>

(* gate: a skip of the phase the session is in moves it on.  Bound: rows   *)
(* are written for gates whose phase is routed.                            *)
GateSkip(g) ==
    /\ Open(status) /\ Routed(facts, g) /\ head \in UIFree
    /\ skips' = [skips EXCEPT ![g] = head]
    /\ IF status = "active" /\ phase = g
       THEN phase' = Successor(g) /\ attempt' = 1 ELSE UNCHANGED <<phase, attempt>>
    /\ UNCHANGED <<head, facts, headless, status, attempts, blockers, evidence, runs,
                   lineage, units, owns>>
GateRow(g, row) ==
    /\ Open(status) /\ Routed(facts, g)
    /\ row = "passed" => Current(g, head, evidence, runs)
    /\ skips' = [skips EXCEPT ![g] = 0]
    /\ UNCHANGED <<head, facts, headless, status, phase, attempt, attempts, blockers,
                   evidence, runs, lineage, units, owns>>

(* recertify, of several phases at once.                                   *)
Recertify(ps) ==
    /\ Open(status) /\ \A p \in ps : evidence[p].commit # 0
    /\ "qa" \in ps => Continues
    /\ evidence' = [p \in Certifying |->
                        IF p \in ps THEN [evidence[p] EXCEPT !.verified = head] ELSE evidence[p]]
    /\ runs' = IF "qa" \in ps THEN WithRun(head, "passed") ELSE runs
    /\ UNCHANGED <<head, facts, headless, status, phase, attempt, attempts, blockers,
                   lineage, skips, units, owns>>

(* record-qa-nonpassing, after the QA phase.                               *)
RecordNonPassing(verdict) ==
    /\ status = "active" /\ Later(phase, "qa")
    /\ evidence["qa"].commit # 0 /\ Continues
    /\ runs' = WithRun(head, verdict)
    /\ UNCHANGED <<head, facts, headless, status, phase, attempt, attempts, blockers,
                   evidence, lineage, skips, units, owns>>

(* Somebody commits; bound: to a session that has not ended.               *)
Commits ==
    /\ Open(status) /\ head < MaxCommit
    /\ head' = head + 1
    /\ UNCHANGED <<facts, headless, status, phase, attempt, attempts, blockers, evidence, runs,
                   lineage, skips, units, owns>>

-----------------------------------------------------------------------------
(* work-unit and rebind-rfc.                                               *)

InStatus(s) == {u \in Unit : units[u] = s}
Overlap(ow, u, v) == ow[u] \cap ow[v] # {}

(* analyzeWorkUnits: in their order, those that can run beside the running *)
(* ones and beside each other.  There is one such selection.               *)
Ready == {u \in InStatus("pending") : DependsOn[u] \subseteq InStatus("completed")}
Before(v, u) == \E i, j \in DOMAIN Units : i < j /\ Units[i] = v /\ Units[j] = u
Selection(chosen) ==
    \A u \in Ready :
        u \in chosen <=> \A v \in InStatus("running") \cup {w \in chosen : Before(w, u)} :
                             ~Overlap(owns, u, v)
Runnable == UNION {chosen \in SUBSET Ready : Selection(chosen)}

MoveUnit(u, s) ==
    /\ status = "active" /\ phase = "implementation"
    /\ \/ s = "running" /\ u \in Runnable
       \/ s \in {"completed", "blocked", "failed"} /\ units[u] = "running"
       \/ s = "pending" /\ units[u] \in {"blocked", "failed"}
    /\ units' = [units EXCEPT ![u] = s]
    /\ UNCHANGED <<head, facts, headless, status, phase, attempt, attempts, blockers,
                   evidence, runs, lineage, skips, owns>>

(* Mutant: also while the work is reviewed.                                *)
RebindableInReview == {"workspace", "readiness", "implementation", "review"}

Rebindable == {"workspace", "readiness", "implementation"}

(* An amended RFC corrects the contracts of some units and adds paths to   *)
(* one; a completed unit with a corrected contract is reopened.            *)
Rebind(corrected, u, added) ==
    /\ Open(status) /\ facts.multi /\ phase \in Rebindable
    /\ corrected # {} \/ added \ owns[u] # {}
    /\ corrected \cap InStatus("running") = {}
    /\ owns' = [owns EXCEPT ![u] = @ \cup added]
    /\ \A v, w \in InStatus("running") : v # w => ~Overlap(owns', v, w)
    /\ units' = [v \in Unit |->
                    IF v \in corrected /\ units[v] = "completed" THEN "pending" ELSE units[v]]
    /\ UNCHANGED <<head, facts, headless, status, phase, attempt, attempts, blockers,
                   evidence, runs, lineage, skips>>

SessionNext ==
    \/ \E c \in Commit, outcome \in {"none", "passed", "failed", "blocked"} :
           Pass(c, outcome) \/ Fail(c, outcome) \/ Block(c, outcome)
    \/ \E f \in Routings : Route(f)
    \/ Unblock
    \/ \E g \in UIGates, row \in {"passed", "failed"} : GateSkip(g) \/ GateRow(g, row)
    \/ \E ps \in Recertified : Recertify(ps)
    \/ \E verdict \in {"failed", "blocked"} : RecordNonPassing(verdict)
    \/ Commits
    \/ \E u \in Unit, s \in UnitStatuses : MoveUnit(u, s)
    \/ \E corrected \in SUBSET Unit, u \in Unit, added \in SUBSET Paths : Rebind(corrected, u, added)

SessionSpec == SessionInit /\ [][SessionNext]_sessionVars

-----------------------------------------------------------------------------
(* When a session is handed off, or is completed by a result that names a  *)
(* commit, it is certified at HEAD: each routed gate by evidence or a skip *)
(* at exactly that commit, the evidence by a result that passed, and QA by *)
(* a run that no failing run has followed (state-schema.md:53).  When the  *)
(* last result names no commit, as one of the retro may, the code asks for *)
(* the newest commit that a result has named, and HEAD may be ahead of it. *)
CertifiedAt ==
    IF status = "handoff" \/ Last(attempts).commit # 0 THEN head ELSE LatestCommit(attempts)
CompleteIsCurrent ==
    ~Open(status) =>
        LET c == CertifiedAt IN
        \A g \in RequiredGates(facts) :
            \/ g \in UIGates /\ skips[g] = c /\ c \in UIFree
            \/ /\ \E i \in DOMAIN attempts :
                      attempts[i].phase = PhaseOf(g) /\ attempts[i].status = "passed"
               /\ c \in {evidence[PhaseOf(g)].commit, evidence[PhaseOf(g)].verified}
               /\ g = "qa" => Last(runs).verdict = "passed" /\ Last(runs).commit = c

(* state-schema.md:51: the same failed phase receives at most three        *)
(* validated attempts before the session blocks, so that each further      *)
(* three cost a resolution.                                                *)
Failures(p) == Cardinality({i \in AttemptsOf(p) : attempts[i].status = "failed"})
Resolutions(p) == Cardinality({i \in DOMAIN blockers : blockers[i].phase = p /\ blockers[i].resolved})
RetryBudget ==
    \A p \in Phase \ (Recovering \cup {"qa"}) :
        Failures(p) <= MaxPhaseAttempts * (1 + Resolutions(p))

(* In the phases without a budget no attempt number is used twice, across  *)
(* failures, blocks and resumptions: a result that comes late answers an   *)
(* attempt that is over.                                                   *)
FreshAttempts ==
    \A i, j \in DOMAIN attempts :
        /\ i < j /\ attempts[i].phase = attempts[j].phase
        /\ attempts[i].phase \in Recovering \cup {"qa"}
        => attempts[i].attempt < attempts[j].attempt

(* The QA ledger and the session agree: a next run can always be recorded, *)
(* and the commits QA is certified at are those of passing runs.           *)
QaLedgerAgrees ==
    /\ Ledgered
    /\ \A c \in {evidence["qa"].commit, evidence["qa"].verified} \ {0} :
           \E i \in DOMAIN runs : runs[i] = [commit |-> c, verdict |-> "passed"]

(* Units that run own different paths, whatever rebind-rfc has added; and  *)
(* what is past implementation rests on completed units only, none of      *)
(* which is reopened.                                                      *)
UnitsSafe ==
    /\ \A u, v \in InStatus("running") : u # v => ~Overlap(owns, u, v)
    /\ Later(phase, "implementation") => Done(units)
=============================================================================
