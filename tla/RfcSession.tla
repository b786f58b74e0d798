----------------------------- MODULE RfcSession -----------------------------
(***************************************************************************)
(* scripts/rfc-session.js and scripts/lib/rfc-session-schema.js: the runs  *)
(* that write, review, approve and hand off the RFC of one slug, and those *)
(* that amend an approved RFC later.  One run is active at a time; a       *)
(* command reads it, changes it and writes it while it holds the lock of   *)
(* OwnedLock.tla, and may die between two file operations.  The document   *)
(* is edited beside the session by whoever works on it.                    *)
(*                                                                         *)
(* A document is its design, on which HTML and sidecar have to agree, and  *)
(* the lifecycle the HTML shows; results of agents are what a command      *)
(* checks them to be, and a repeated result is one more result.  A command *)
(* may always be refused because a file, the source branch or the proposal *)
(* is not what it was, or because the RFC has no issue it names: nothing   *)
(* happens then.                                                           *)
(***************************************************************************)
EXTENDS Naturals, FiniteSets

CONSTANTS
    Runs,
    Designs,
    InScope,    \* the pairs of designs an amendment may lead from and to
    Shown,      \* bound: the lifecycles an edit gives the document
    Kinds,      \* bound: the kinds of amendment asked for
    Delegated,  \* bound: may a proposal delegate the approval of its RFC?
    Hops,       \* MAX_LINEAGE_HOPS
    None

ASSUME ScopeOfDesigns == InScope \subseteq Designs \X Designs
ASSUME ShownOfCode == Shown \subseteq {"draft", "reviewed", "approved"}
Amendments == {"maintenance", "owns-only"}
Documents == [design : Designs, life : {"draft", "reviewed", "approved"}]
Approvals == [status : {"approved", "maintained", "delegated"}, at : Nat, of : Documents]
Sessions ==
    [run : Runs,
     status : {"active", "awaiting_approval", "approved", "maintained", "delegated",
               "blocked", "complete"},
     phase : {"intake", "generation", "review", "approval", "handoff"},
     context : [granted : Nat \cup {None}] \cup {None},
     current : BOOLEAN,      \* is the design context the one the session has?
     artifact : Documents \cup {None},
     review : Documents \cup {None},
     approval : Approvals \cup {None},
     kind : Amendments \cup {None},
     amends : Runs \cup {None},
     updated : Nat \cup {None}]

Steps == {"archive", "withdraw", "clear"}   \* what a command has yet to do

ASSUME KindsOfCode == Kinds \subseteq Amendments
ASSUME DelegatedIsBoolean == Delegated \in BOOLEAN
ASSUME RunsAreFinite == IsFiniteSet(Runs)
ASSUME NoneIsNoValue ==
    None \notin Runs \cup Nat \cup Amendments \cup Steps \cup Documents \cup Approvals \cup Sessions

VARIABLES
    doc,        \* the RFC in its worktree, committed
    audit,      \* the approval audit beside it, committed
    active,     \* session.json of the slug
    completed,  \* completed/<run>/session.json
    withdrawn,  \* the runs that have a directory under withdrawn/
    command     \* a command that goes on after a file operation; it holds the lock

rfcVars == <<doc, audit, active, completed, withdrawn, command>>

Done == DOMAIN completed
Started == Done \cup withdrawn \cup (IF active = None THEN {} ELSE {active.run})

(* createSession *)
Fresh(r) ==
    [run |-> r, status |-> "active", phase |-> "intake", context |-> None,
     current |-> FALSE, artifact |-> None, review |-> None,
     approval |-> None, kind |-> None, amends |-> None, updated |-> None]

RfcInit ==
    /\ doc \in [design : Designs, life : {"draft"}]
    /\ audit = None
    /\ active = None
    /\ completed = << >>
    /\ withdrawn = {}
    /\ command = None

(* A command that only rewrites the session file.                          *)
Rewrites(s) ==
    /\ active' = s
    /\ UNCHANGED <<doc, audit, completed, withdrawn, command>>

(* assertCanonicalSessionPath: a complete session belongs in the archive.  *)
Open == command = None /\ active # None /\ active.status # "complete"

(* Times of approval and of the end, counted in the runs completed before. *)
Now == Cardinality(Done) + 1

-----------------------------------------------------------------------------
(* The runs of a slug.                                                     *)

Init(r) ==
    /\ command = None /\ active = None /\ r \in Runs \ Started
    /\ Rewrites(Fresh(r))

(* findAmendingRun, findSupersedingRun and assertAmendmentDepth.           *)
Amended(r) == \E s \in Done : completed[s].amends = r
Superseded(r) == \E s \in Done : completed[s].approval.at > completed[r].approval.at
Depth(r) ==
    LET f[s \in Runs] ==
            IF s \notin Done \/ completed[s].amends = None THEN 0 ELSE 1 + f[completed[s].amends]
    IN f[r]

(* Mutant: a successor is taken for one that was approved later.           *)
NotSuperseded(r) == ~Superseded(r) /\ Depth(r) < Hops

MayAmend(r) == ~Amended(r) /\ ~Superseded(r) /\ Depth(r) < Hops

(* What the new session takes from the archive does not change, so that it *)
(* does not matter that it is read before the lock is taken.               *)
Amend(r, of, kind) ==
    /\ command = None /\ active = None /\ r \in Runs \ Started /\ of \in Done
    /\ MayAmend(of)
    /\ Rewrites([Fresh(r) EXCEPT
                     !.phase = "review", !.context = completed[of].context, !.current = TRUE,
                     !.artifact = completed[of].artifact, !.kind = kind, !.amends = of])

-----------------------------------------------------------------------------
(* Phases.                                                                 *)

(* applyContext; the proposal's delegation is at most as late as now.      *)
Contexts == [granted : {None}] \cup (IF Delegated THEN [granted : 1 .. Now] ELSE {})

Context(c) ==
    /\ Open /\ active.phase = "intake" /\ active.status = "active"
    /\ Rewrites([active EXCEPT !.context = c, !.current = TRUE])

(* The prototype of the design context is no longer what the session has,  *)
(* or is that again; recertify starts from the beginning.                  *)
Drift ==
    /\ command = None /\ active # None /\ active.context # None
    /\ Rewrites([active EXCEPT !.current = ~@])
Recertify(c) ==
    /\ Open /\ active.context # None /\ ~active.current
    /\ Rewrites([Fresh(active.run) EXCEPT !.context = c, !.current = TRUE,
                                          !.kind = active.kind, !.amends = active.amends])

(* Mutant: an amendment of an amendment is not compared.                   *)
WithinFirstScope(s, d) ==
    s.amends # None /\ completed[s.amends].amends = None =>
        <<completed[s.amends].artifact.design, d.design>> \in InScope

(* assertAmendmentArtifact, against what the amended run had approved.     *)
WithinScope(s, d) ==
    s.amends # None => <<completed[s.amends].artifact.design, d.design>> \in InScope

(* A document under review, of generation, review and approve.             *)
Reviewable == active.current /\ doc.life # "approved"

Grant(s) == IF s.context = None THEN None ELSE s.context.granted

(* Whether, and from whom, a reviewed document needs no approval.          *)
Reviewed ==
    LET r == [active EXCEPT !.artifact = doc, !.review = doc]
        by(status, time) ==
            [r EXCEPT !.phase = "handoff", !.status = status,
                      !.approval = [status |-> status, at |-> time, of |-> doc]]
    IN IF active.amends = None /\ Grant(active) # None THEN by("delegated", Grant(active))
       ELSE IF active.kind = "maintenance"
            THEN by("maintained", completed[active.amends].approval.at)
       ELSE [r EXCEPT !.phase = "approval", !.status = "awaiting_approval"]

(* handoffLifecycle, approvalAuditRecord.                                  *)
Lifecycle(s) ==
    IF \/ s.approval.status = "delegated"
       \/ s.approval.status = "maintained" /\ Grant(s) # None
    THEN "reviewed" ELSE "approved"
AuditOf(s, d) ==
    [run |-> s.run, approval |-> s.approval, review |-> s.review, artifact |-> d, amends |-> s.amends]

(* Mutant: the design is not compared.                                     *)
LifecycleOnly(s, d) == d.life = Lifecycle(s)

(* verifyLifecycleOnlyTransition and the comparison of sidecar hashes.     *)
OnlyLifecycle(s, d) == d.life = Lifecycle(s) /\ d.design = s.artifact.design

Handoff ==
    /\ active.approval # None /\ active.current
    /\ OnlyLifecycle(active, doc) /\ WithinScope(active, doc)

(* validatePassedResult and recordResult.                                  *)
Recordable ==
    /\ Open /\ active.phase # "approval"
    /\ active.status \in {"active", "approved", "maintained", "delegated"}

Pass ==
    /\ Recordable
    /\ \/ /\ active.phase = "intake" /\ active.context # None /\ active.current
          /\ Rewrites([active EXCEPT !.phase = "generation"])
       \/ /\ active.phase = "generation" /\ Reviewable
          /\ Rewrites([active EXCEPT !.phase = "review", !.artifact = doc])
       \/ /\ active.phase = "review" /\ Reviewable /\ WithinScope(active, doc)
          /\ Rewrites(Reviewed)

(* A blocked result, or the third failed one of a phase.                   *)
Block ==
    /\ Recordable
    /\ Rewrites([active EXCEPT !.status = "blocked"])
Unblock ==
    /\ Open /\ active.status = "blocked"
    /\ Rewrites([active EXCEPT !.status = "active"])

Approve ==
    /\ Open /\ active.phase = "approval" /\ active.status = "awaiting_approval"
    /\ active.review # None /\ active.artifact = active.review
    /\ Reviewable /\ doc = active.artifact /\ WithinScope(active, doc)
    /\ Rewrites([active EXCEPT
                     !.approval = [status |-> "approved", at |-> Now, of |-> active.review],
                     !.status = "approved", !.phase = "handoff"])

Revised(s) ==
    [s EXCEPT !.phase = "review", !.status = "active",
              !.review = None, !.approval = None]

Revise ==
    /\ Open /\ active.phase \in {"approval", "handoff"}
    /\ Rewrites(Revised(active))

-----------------------------------------------------------------------------
(* The end of a run.                                                       *)

(* approval-audit *)
WriteAudit ==
    /\ Open /\ active.phase = "handoff" /\ Handoff
    /\ audit' = AuditOf(active, doc)
    /\ UNCHANGED <<doc, active, completed, withdrawn, command>>

(* The passed result of a handoff: the session is written complete, then   *)
(* its directory becomes the archive, the lock with it.                    *)
PassHandoff ==
    /\ Recordable /\ active.phase = "handoff" /\ Handoff
    /\ audit = AuditOf(active, doc) /\ active.run \notin Done
    /\ active' = [active EXCEPT !.status = "complete", !.artifact = doc, !.updated = Now]
    /\ command' = "archive"
    /\ UNCHANGED <<doc, audit, completed, withdrawn>>
Archive ==
    /\ command = "archive"
    /\ completed' = [r \in Done \cup {active.run} |->
                        IF r = active.run THEN active ELSE completed[r]]
    /\ active' = None
    /\ command' = None
    /\ UNCHANGED <<doc, audit, withdrawn>>

(* Mutant: an amendment that is not approved is taken to have no audit.    *)
NotRestored(s) == audit

(* withdrawalRestores: the audit the amended run was completed with.       *)
Restored(s) ==
    IF audit # None /\ audit.run = s.run
    THEN AuditOf(completed[s.amends], completed[s.amends].artifact) ELSE audit

Withdraw ==
    /\ Open /\ active.amends # None /\ active.approval = None
    /\ active.run \notin withdrawn
    /\ audit' = Restored(active)
    /\ command' = "withdraw"
    /\ UNCHANGED <<doc, active, completed, withdrawn>>

(* Mutant: the session is cleared before it is copied.                     *)
CopyLater == active' = None /\ command' = "clear" /\ UNCHANGED withdrawn

Copy == withdrawn' = withdrawn \cup {active.run} /\ command' = "clear" /\ UNCHANGED active

WithdrawCopies ==
    /\ command = "withdraw" /\ Copy
    /\ UNCHANGED <<doc, audit, completed>>
WithdrawClears ==
    /\ command = "clear"
    /\ active' = None
    /\ command' = None
    /\ UNCHANGED <<doc, audit, completed, withdrawn>>

-----------------------------------------------------------------------------
Die ==
    /\ command # None
    /\ command' = None
    /\ UNCHANGED <<doc, audit, active, completed, withdrawn>>

(* An agent or a person commits another version of the document.           *)
Edit(d) ==
    /\ d # doc
    /\ doc' = d
    /\ UNCHANGED <<audit, active, completed, withdrawn, command>>

(* render-maintenance mirrors an edited sidecar in the HTML as a draft.    *)
Render ==
    /\ Open /\ active.phase = "review" /\ active.status = "active"
    /\ active.kind = "maintenance" /\ active.current /\ WithinScope(active, doc)
    /\ doc' = [doc EXCEPT !.life = "draft"]
    /\ UNCHANGED <<audit, active, completed, withdrawn, command>>

RfcNext ==
    \/ \E r \in Runs : Init(r) \/ \E of \in Runs, kind \in Kinds : Amend(r, of, kind)
    \/ \E c \in Contexts : Context(c) \/ Recertify(c)
    \/ Drift \/ Pass \/ Block \/ Unblock \/ Approve \/ Revise
    \/ WriteAudit \/ PassHandoff \/ Archive
    \/ Withdraw \/ WithdrawCopies \/ WithdrawClears \/ Die \/ Render
    \/ \E d \in [design : Designs, life : Shown] : Edit(d)

RfcSpec == RfcInit /\ [][RfcNext]_rfcVars

-----------------------------------------------------------------------------
TypeOK ==
    /\ doc \in Documents
    /\ active \in Sessions \cup {None}
    /\ Done \subseteq Runs /\ completed \in [Done -> Sessions]
    /\ withdrawn \subseteq Runs
    /\ command \in Steps \cup {None}

(* state-schema.md:37: what is archived as approved has the design its     *)
(* reviewers passed last, and was approved for that review, however it was *)
(* edited, revised, blocked and recertified in between.                    *)
ArchivedIsReviewed ==
    \A r \in Done :
        LET s == completed[r] IN
        /\ s.review # None /\ s.artifact.design = s.review.design
        /\ s.approval # None /\ s.approval.of = s.review

(* maintenance.md: an amendment that completes has only changed what an    *)
(* amendment of that very run may change.                                  *)
AmendmentsStayInScope ==
    \A r \in Done :
        completed[r].amends # None =>
            /\ completed[r].amends \in Done \ {r}
            /\ <<completed[completed[r].amends].artifact.design, completed[r].artifact.design>>
                   \in InScope

(* rfc-session.js:163: the audit beside the RFC is that of the active run, *)
(* or exactly the one an archived run was completed with; never that of a  *)
(* run that was withdrawn.                                                 *)
AuditIsGenuine ==
    \/ audit = None
    \/ active # None /\ active.run = audit.run
    \/ audit.run \in Done /\ audit = AuditOf(completed[audit.run], completed[audit.run].artifact)

(* state-schema.md:45 and rfc-session.js:352: a run has one successor, and *)
(* is amended only while no run of another lineage was completed later.    *)
(* Where a product decision delegates approvals, runs have its time for    *)
(* that of theirs, and only the first half is true.                        *)
LatestIsAmended ==
    \A r, s \in Done :
        LET of == completed[r].amends IN
        of # None /\ s # r =>
            /\ completed[s].amends # of
            /\ (\A t \in Done : Grant(completed[t]) = None) =>
                   ~(completed[of].updated < completed[s].updated
                        /\ completed[s].updated < completed[r].updated)

(* A run that was started is active, archived or withdrawn, whichever      *)
(* command dies, and an archive is never written again.                    *)
NothingDiscarded ==
    [][/\ Started \subseteq Started'
       /\ \A r \in Done : r \in DOMAIN completed' /\ completed'[r] = completed[r]]_rfcVars
=============================================================================
