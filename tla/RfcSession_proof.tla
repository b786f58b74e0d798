--------------------------- MODULE RfcSession_proof ---------------------------
(***************************************************************************)
(* What RfcSession archives, for any runs, designs and documents.  The     *)
(* invariant says what a session may hold at each point of its life: an    *)
(* approval only at handoff and only of the design that was reviewed, and  *)
(* a complete session exactly what its archive will have to hold.          *)
(***************************************************************************)
EXTENDS RfcSession, FiniteSetTheorems, TLAPS

(* The audit is the one an archived run was completed with.                *)
AuditArchived ==
    \/ audit = None
    \/ audit.run \in Done /\ audit = AuditOf(completed[audit.run], completed[audit.run].artifact)

Handed(s) ==
    /\ s.approval # None /\ WithinScope(s, s.artifact)
    /\ audit = AuditOf(s, s.artifact)

ActiveSound ==
    active # None =>
        /\ active.run \notin Done
        /\ active.amends # None => active.amends \in Done
        /\ active.kind # None => active.amends # None
        /\ active.approval # None =>
               /\ active.phase = "handoff" /\ active.review # None
               /\ active.artifact # None
               /\ active.artifact.design = active.review.design
               /\ active.approval.of = active.review
        /\ active.status = "complete" => Handed(active)

CommandSound ==
    /\ command # None => active # None
    /\ command = "archive" => active.status = "complete"
    /\ command \in {"withdraw", "clear"} => active.status # "complete" /\ AuditArchived
    /\ command = "clear" => active.run \in withdrawn

ArchiveSound == \A r \in Done : completed[r].run = r /\ completed[r].artifact # None

IInv ==
    /\ TypeOK
    /\ ActiveSound
    /\ CommandSound
    /\ ArchiveSound
    /\ ArchivedIsReviewed
    /\ AmendmentsStayInScope
    /\ AuditIsGenuine

(* Nothing that was started is lost, and nothing that was archived changes:*)
(* the session is removed only behind its archive or its copy.             *)
Kept ==
    /\ Started \subseteq Started'
    /\ \A r \in Done : r \in DOMAIN completed' /\ completed'[r] = completed[r]

-----------------------------------------------------------------------------
LEMMA NowIsNat ==
    ASSUME TypeOK
    PROVE  Now \in Nat
<1>1. IsFiniteSet(Done)
    BY RunsAreFinite, FS_Subset DEF TypeOK
<1> QED
    BY <1>1, FS_CardinalityType DEF Now

(* None is no session, and so on.                                          *)
LEMMA NoneIsApart ==
    /\ \A s \in Sessions : s # None
    /\ \A d \in Documents : d # None
    /\ \A a \in Approvals : a # None
    /\ \A r \in Runs : r # None
    /\ \A k \in Kinds : k # None
    /\ None # "maintenance"
    /\ \A n \in Nat : n # None
    /\ None # "archive" /\ None # "withdraw" /\ None # "clear"
BY NoneIsNoValue, KindsOfCode DEF Steps, Amendments

LEMMA FreshIsSession ==
    ASSUME NEW r \in Runs
    PROVE  Fresh(r) \in Sessions
BY DEF Fresh, Sessions

(* A command that only rewrites the session keeps what the archive and the *)
(* audit promise, if the new session is sound.                             *)
LEMMA RewriteKeeps ==
    ASSUME IInv, command = None, NEW s \in Sessions, Rewrites(s),
           s.run \notin Done,
           active # None => s.run = active.run,
           s.amends # None => s.amends \in Done,
           s.kind # None => s.amends # None,
           s.status = "complete" => Handed(s),
           s.approval # None =>
               /\ s.phase = "handoff" /\ s.review # None /\ s.artifact # None
               /\ s.artifact.design = s.review.design /\ s.approval.of = s.review
    PROVE  IInv' /\ Kept
<1>1. active' = s /\ UNCHANGED <<doc, audit, completed, withdrawn, command>> /\ s # None
    BY NoneIsApart DEF Rewrites
<1>2. Done' = Done
    BY <1>1 DEF Done
<1>3. TypeOK'
    BY <1>1, <1>2 DEF IInv, TypeOK
<1>4. ActiveSound'
    <2>1. s.status = "complete" => Handed(s)'
        BY <1>1 DEF Handed, WithinScope, AuditOf
    <2> QED
        BY <1>1, <1>2, <2>1 DEF ActiveSound
<1>5. CommandSound' /\ ArchiveSound'
    BY <1>1, <1>2, NoneIsApart DEF IInv, CommandSound, ArchiveSound
<1>6. ArchivedIsReviewed' /\ AmendmentsStayInScope'
    BY <1>1, <1>2 DEF IInv, ArchivedIsReviewed, AmendmentsStayInScope
<1>7. AuditIsGenuine'
    BY <1>1, <1>2 DEF IInv, AuditIsGenuine, AuditOf
<1>8. Kept
    BY <1>1, <1>2 DEF Kept, Started, Done
<1> QED
    BY <1>3, <1>4, <1>5, <1>6, <1>7, <1>8 DEF IInv

-----------------------------------------------------------------------------
LEMMA Initially ==
    RfcInit => IInv
<1> SUFFICES ASSUME RfcInit PROVE IInv
    OBVIOUS
<1> USE DEF RfcInit
<1>1. Done = {}
    BY DEF Done
<1>2. TypeOK
    BY <1>1 DEF TypeOK, Documents
<1>3. ActiveSound /\ CommandSound /\ ArchiveSound
    BY <1>1, NoneIsApart DEF ActiveSound, CommandSound, ArchiveSound
<1>4. ArchivedIsReviewed /\ AmendmentsStayInScope /\ AuditIsGenuine
    BY <1>1 DEF ArchivedIsReviewed, AmendmentsStayInScope, AuditIsGenuine
<1> QED
    BY <1>2, <1>3, <1>4 DEF IInv

LEMMA InitKeeps ==
    ASSUME IInv, NEW r \in Runs, Init(r)
    PROVE  IInv' /\ Kept
<1>1. r \notin Done /\ Fresh(r) \in Sessions
    BY FreshIsSession DEF Init, Started
<1> QED
    BY <1>1, RewriteKeeps DEF Init, Fresh

LEMMA AmendKeeps ==
    ASSUME IInv, NEW r \in Runs, NEW of \in Runs, NEW kind \in Kinds, Amend(r, of, kind)
    PROVE  IInv' /\ Kept
<1> DEFINE s == [Fresh(r) EXCEPT
                   !.phase = "review", !.context = completed[of].context, !.current = TRUE,
                   !.artifact = completed[of].artifact, !.kind = kind, !.amends = of]
<1>1. r \notin Done
    BY DEF Amend, Started
<1>2. of \in Done /\ completed[of] \in Sessions
    BY DEF Amend, IInv, TypeOK
<1>3. s \in Sessions
    BY <1>2, KindsOfCode DEF Fresh, Sessions
<1>4. /\ s.run = r /\ s.amends = of /\ s.kind = kind /\ s.status = "active"
      /\ s.approval = None
    BY DEF Fresh
<1>5. command = None /\ active = None /\ Rewrites(s)
    BY DEF Amend
<1> HIDE DEF s
<1> QED
    BY <1>1, <1>2, <1>3, <1>4, <1>5, NoneIsApart, RewriteKeeps

(* applyContext and recertify make the session of the start again.         *)
LEMMA ContextsKeep ==
    ASSUME IInv, NEW c \in Contexts, Context(c) \/ Recertify(c)
    PROVE  IInv' /\ Kept
<1>1. Open /\ active \in Sessions /\ active.run \in Runs /\ active.run \notin Done
    BY DEF Context, Recertify, Open, IInv, TypeOK, ActiveSound, Sessions
<1>2. c \in [granted : Nat \cup {None}]
    <2>1. 1 .. Now \subseteq Nat
        BY NowIsNat DEF IInv
    <2>2. c \in [granted : {None}] \/ c \in [granted : 1 .. Now]
        BY DelegatedIsBoolean DEF Contexts
    <2> QED
        BY <2>1, <2>2
<1>3. CASE Context(c)
    <2> DEFINE s == [active EXCEPT !.context = c, !.current = TRUE]
    <2>1. s \in Sessions
        BY <1>1, <1>2 DEF Sessions
    <2>2. /\ s.run = active.run /\ s.amends = active.amends /\ s.kind = active.kind
          /\ s.phase = active.phase /\ s.status = active.status /\ s.approval = active.approval
        BY <1>1 DEF Sessions
    <2>3. command = None /\ active # None /\ s.status # "complete" /\ s.phase = "intake" /\ Rewrites(s)
        BY <1>3, <2>2 DEF Context, Open
    <2>4. ActiveSound
        BY DEF IInv
    <2> HIDE DEF s
    <2> QED
        BY <1>1, <2>1, <2>2, <2>3, <2>4, RewriteKeeps DEF ActiveSound
<1>4. CASE Recertify(c)
    <2> DEFINE s == [Fresh(active.run) EXCEPT !.context = c, !.current = TRUE,
                                          !.kind = active.kind, !.amends = active.amends]
    <2>1. s \in Sessions
        BY <1>1, <1>2 DEF Sessions, Fresh
    <2>2. /\ s.run = active.run /\ s.amends = active.amends /\ s.kind = active.kind
          /\ s.status = "active" /\ s.approval = None
        BY DEF Fresh
    <2>3. command = None /\ active # None /\ Rewrites(s)
        BY <1>4 DEF Recertify, Open
    <2>4. ActiveSound
        BY DEF IInv
    <2> HIDE DEF s
    <2> QED
        BY <1>1, <2>1, <2>2, <2>3, <2>4, RewriteKeeps DEF ActiveSound
<1> QED
    BY <1>3, <1>4

LEMMA DriftKeeps ==
    ASSUME IInv, Drift
    PROVE  IInv' /\ Kept
<1> DEFINE current == ~active.current
           s == [active EXCEPT !.current = current]
<1>1. active \in Sessions /\ active # None /\ command = None /\ Rewrites(s)
    BY DEF Drift, IInv, TypeOK
<1> HIDE DEF current
<1>2. s \in Sessions
    <2>1. current \in BOOLEAN
        BY DEF current
    <2> QED
        BY <1>1, <2>1 DEF Sessions
<1>3. /\ s.run = active.run /\ s.amends = active.amends /\ s.kind = active.kind
      /\ s.phase = active.phase /\ s.status = active.status /\ s.approval = active.approval
      /\ s.review = active.review /\ s.artifact = active.artifact
    BY <1>1 DEF Sessions
<1>4. ActiveSound /\ s.run \notin Done
    BY <1>1, <1>3 DEF IInv, ActiveSound
<1>5. s.status = "complete" => Handed(s)
    BY <1>1, <1>3, <1>4 DEF ActiveSound, Handed, WithinScope, AuditOf
<1> HIDE DEF s
<1> QED
    BY <1>1, <1>2, <1>3, <1>4, <1>5, RewriteKeeps DEF ActiveSound

LEMMA ReviewedIsSound ==
    ASSUME IInv, Open, active.phase = "review"
    PROVE  /\ Reviewed \in Sessions
           /\ Reviewed.run = active.run /\ Reviewed.amends = active.amends
           /\ Reviewed.kind = active.kind /\ Reviewed.status # "complete"
           /\ Reviewed.approval # None =>
                 /\ Reviewed.phase = "handoff" /\ Reviewed.review = doc /\ Reviewed.artifact = doc
                 /\ Reviewed.approval.of = doc
<1> DEFINE r == [active EXCEPT !.artifact = doc, !.review = doc]
           by(status, time) ==
               [r EXCEPT !.phase = "handoff", !.status = status,
                         !.approval = [status |-> status, at |-> time, of |-> doc]]
           Sound(s) ==
               /\ s \in Sessions
               /\ s.run = active.run /\ s.amends = active.amends
               /\ s.kind = active.kind /\ s.status # "complete"
               /\ s.approval # None =>
                     /\ s.phase = "handoff" /\ s.review = doc /\ s.artifact = doc
                     /\ s.approval.of = doc
<1>1. doc \in Documents /\ active \in Sessions /\ ActiveSound
    BY DEF IInv, TypeOK, Open
<1>2. r \in Sessions
    BY <1>1 DEF Sessions
<1>3. /\ r.run = active.run /\ r.amends = active.amends /\ r.kind = active.kind
      /\ r.status = active.status /\ r.approval = active.approval
      /\ r.review = doc /\ r.artifact = doc
    BY <1>1 DEF Sessions
<1> HIDE DEF r
<1>4. \A time \in Nat : Sound(by("delegated", time)) /\ Sound(by("maintained", time))
    <2> TAKE time \in Nat
    <2>1. /\ [status |-> "delegated", at |-> time, of |-> doc] \in Approvals
          /\ [status |-> "maintained", at |-> time, of |-> doc] \in Approvals
        BY <1>1 DEF Approvals
    <2>2. ASSUME NEW st \in {"delegated", "maintained"},
                 [status |-> st, at |-> time, of |-> doc] \in Approvals
          PROVE  Sound(by(st, time))
        <3> DEFINE approval == [status |-> st, at |-> time, of |-> doc]
                   s == [r EXCEPT !.phase = "handoff", !.status = st, !.approval = approval]
        <3>1. approval.of = doc
            OBVIOUS
        <3>2. approval \in Approvals
            BY <2>2
        <3> HIDE DEF approval
        <3>3. s \in Sessions
            BY <1>2, <2>2, <3>2 DEF Sessions
        <3>4. /\ s.run = r.run /\ s.amends = r.amends /\ s.kind = r.kind
              /\ s.status = st /\ s.approval = approval /\ s.phase = "handoff"
              /\ s.review = r.review /\ s.artifact = r.artifact
            BY <1>2 DEF Sessions
        <3> HIDE DEF s
        <3>5. Sound(s)
            BY <1>3, <2>2, <3>1, <3>3, <3>4
        <3> QED
            BY <3>5 DEF s, approval
    <2> QED
        BY <2>1, <2>2
<1>5. Sound([r EXCEPT !.phase = "approval", !.status = "awaiting_approval"])
    <2>1. active.approval = None
        BY <1>1 DEF ActiveSound, Open
    <2> DEFINE s == [r EXCEPT !.phase = "approval", !.status = "awaiting_approval"]
    <2>2. s \in Sessions
        BY <1>2 DEF Sessions
    <2>3. /\ s.run = r.run /\ s.amends = r.amends /\ s.kind = r.kind
          /\ s.status = "awaiting_approval" /\ s.approval = r.approval
        BY <1>2 DEF Sessions
    <2> QED
        BY <1>3, <2>1, <2>2, <2>3
<1>6. Grant(active) # None => Grant(active) \in Nat
    BY <1>1, NoneIsApart DEF Grant, Sessions
<1>7. active.kind = "maintenance" => completed[active.amends].approval.at \in Nat
    <2> SUFFICES ASSUME active.kind = "maintenance"
                 PROVE  completed[active.amends].approval.at \in Nat
        OBVIOUS
    <2>1. active.kind # None
        BY NoneIsApart
    <2>2. active.amends \in Done
        BY <1>1, <2>1 DEF ActiveSound, Open
    <2>3. completed[active.amends] \in Sessions /\ completed[active.amends].approval # None
        BY <2>2 DEF IInv, TypeOK, ArchivedIsReviewed
    <2> QED
        BY <2>3 DEF Sessions, Approvals
<1> HIDE DEF Sound, by
<1>8. Sound(Reviewed)
    BY <1>4, <1>5, <1>6, <1>7 DEF Reviewed, by, r
<1> QED
    BY <1>8 DEF Sound

LEMMA PassKeeps ==
    ASSUME IInv, Pass
    PROVE  IInv' /\ Kept
<1>1. /\ Open /\ command = None /\ active \in Sessions /\ active # None /\ active.run \notin Done
      /\ active.status # "complete" /\ ActiveSound /\ doc \in Documents
    BY DEF Pass, Recordable, Open, IInv, TypeOK, ActiveSound
<1>2. CASE active.phase = "review"
    <2>1. Rewrites(Reviewed)
        BY <1>2 DEF Pass
    <2>2. /\ Reviewed \in Sessions
          /\ Reviewed.run = active.run /\ Reviewed.amends = active.amends
          /\ Reviewed.kind = active.kind /\ Reviewed.status # "complete"
          /\ Reviewed.approval # None =>
                 /\ Reviewed.phase = "handoff" /\ Reviewed.review = doc /\ Reviewed.artifact = doc
                 /\ Reviewed.approval.of = doc
        BY <1>1, <1>2, ReviewedIsSound
    <2> QED
        BY <1>1, <2>1, <2>2, NoneIsApart, RewriteKeeps DEF ActiveSound
<1>3. CASE active.phase = "intake"
    <2> DEFINE s == [active EXCEPT !.phase = "generation"]
    <2>1. Rewrites(s)
        BY <1>3 DEF Pass
    <2>2. active.approval = None
        BY <1>1, <1>3 DEF ActiveSound
    <2>3. /\ s \in Sessions /\ s.run = active.run /\ s.amends = active.amends
          /\ s.kind = active.kind /\ s.status = active.status /\ s.approval = None
        BY <1>1, <2>2 DEF Sessions
    <2> HIDE DEF s
    <2> QED
        BY <1>1, <2>1, <2>3, RewriteKeeps DEF ActiveSound
<1>4. CASE active.phase = "generation"
    <2> DEFINE s == [active EXCEPT !.phase = "review", !.artifact = doc]
    <2>1. Rewrites(s)
        BY <1>4 DEF Pass
    <2>2. active.approval = None
        BY <1>1, <1>4 DEF ActiveSound
    <2>3. s \in Sessions
        BY <1>1 DEF Sessions
    <2>4. /\ s.run = active.run /\ s.amends = active.amends
          /\ s.kind = active.kind /\ s.status = active.status /\ s.approval = None
        BY <1>1, <2>2 DEF Sessions
    <2> HIDE DEF s
    <2> QED
        BY <1>1, <2>1, <2>3, <2>4, RewriteKeeps DEF ActiveSound
<1> QED
    BY <1>2, <1>3, <1>4 DEF Pass

(* Blocking and resuming change the status, and nothing an approval is of. *)
LEMMA BlocksKeep ==
    ASSUME IInv, Block \/ Unblock
    PROVE  IInv' /\ Kept
<1> DEFINE s == IF Block THEN [active EXCEPT !.status = "blocked"]
                ELSE [active EXCEPT !.status = "active"]
<1>1. /\ command = None /\ active \in Sessions /\ active # None /\ active.run \notin Done
      /\ ActiveSound
    BY DEF Block, Unblock, Recordable, Open, IInv, TypeOK, ActiveSound
<1>2. Rewrites(s)
    BY DEF Block, Unblock
<1>3. /\ s \in Sessions /\ s.run = active.run /\ s.amends = active.amends
      /\ s.kind = active.kind /\ s.phase = active.phase /\ s.status # "complete"
      /\ s.approval = active.approval /\ s.review = active.review /\ s.artifact = active.artifact
    BY <1>1 DEF Sessions
<1> HIDE DEF s
<1> QED
    BY <1>1, <1>2, <1>3, RewriteKeeps DEF ActiveSound

LEMMA ApproveKeeps ==
    ASSUME IInv, Approve
    PROVE  IInv' /\ Kept
<1> DEFINE a == [status |-> "approved", at |-> Now, of |-> active.review]
           s == [active EXCEPT !.approval = a, !.status = "approved", !.phase = "handoff"]
<1>1. /\ command = None /\ active \in Sessions /\ active # None /\ active.run \notin Done
      /\ ActiveSound /\ active.review # None /\ active.artifact = active.review
      /\ Rewrites(s)
    BY DEF Approve, Open, IInv, TypeOK, ActiveSound
<1>2. a \in Approvals
    BY <1>1, NowIsNat DEF Approvals, Sessions, IInv
<1>3. a.of = active.review
    OBVIOUS
<1> HIDE DEF a
<1>4. s \in Sessions
    BY <1>1, <1>2 DEF Sessions
<1>5. /\ s.run = active.run /\ s.amends = active.amends
      /\ s.kind = active.kind /\ s.phase = "handoff" /\ s.status # "complete"
      /\ s.approval = a /\ s.review = active.review /\ s.artifact = active.artifact
    BY <1>1 DEF Sessions
<1> HIDE DEF s
<1> QED
    BY <1>1, <1>3, <1>4, <1>5, RewriteKeeps DEF ActiveSound

LEMMA ReviseKeeps ==
    ASSUME IInv, Revise
    PROVE  IInv' /\ Kept
<1>1. /\ command = None /\ active \in Sessions /\ active # None /\ active.run \notin Done
      /\ ActiveSound /\ Rewrites(Revised(active))
    BY DEF Revise, Open, IInv, TypeOK, ActiveSound
<1>2. Revised(active) \in Sessions
    BY <1>1 DEF Revised, Sessions
<1>3. /\ Revised(active).run = active.run
      /\ Revised(active).amends = active.amends /\ Revised(active).kind = active.kind
      /\ Revised(active).status # "complete" /\ Revised(active).approval = None
    BY <1>1 DEF Revised, Sessions
<1> QED
    BY <1>1, <1>2, <1>3, RewriteKeeps DEF ActiveSound

-----------------------------------------------------------------------------
(* The end of a run.                                                       *)

LEMMA WriteAuditKeeps ==
    ASSUME IInv, WriteAudit
    PROVE  IInv' /\ Kept
<1>1. /\ command = None /\ active # None /\ active.status # "complete" /\ active.run \notin Done
      /\ audit' = AuditOf(active, doc)
      /\ UNCHANGED <<doc, active, completed, withdrawn, command>>
    BY DEF WriteAudit, Open, IInv, ActiveSound
<1>2. Done' = Done
    BY <1>1 DEF Done
<1>3. TypeOK' /\ ActiveSound'
    BY <1>1, <1>2 DEF IInv, TypeOK, ActiveSound
<1>4. CommandSound' /\ ArchiveSound'
    BY <1>1, <1>2, NoneIsApart DEF IInv, CommandSound, ArchiveSound
<1>5. ArchivedIsReviewed' /\ AmendmentsStayInScope'
    BY <1>1, <1>2 DEF IInv, ArchivedIsReviewed, AmendmentsStayInScope
<1>6. AuditIsGenuine'
    BY <1>1 DEF AuditIsGenuine, AuditOf
<1>7. Kept
    BY <1>1, <1>2 DEF Kept, Started, Done
<1> QED
    BY <1>3, <1>4, <1>5, <1>6, <1>7 DEF IInv

(* What is written complete is what its archive has to hold.               *)
LEMMA PassHandoffKeeps ==
    ASSUME IInv, PassHandoff
    PROVE  IInv' /\ Kept
<1> DEFINE s == [active EXCEPT !.status = "complete", !.artifact = doc, !.updated = Now]
<1>1. /\ command = None /\ active # None /\ active \in Sessions /\ active.run \notin Done
      /\ ActiveSound /\ active.approval # None
      /\ doc \in Documents /\ doc.design = active.artifact.design /\ WithinScope(active, doc)
      /\ audit = AuditOf(active, doc)
      /\ active' = s /\ command' = "archive"
      /\ UNCHANGED <<doc, audit, completed, withdrawn>>
    BY DEF PassHandoff, Recordable, Open, Handoff, OnlyLifecycle, IInv, TypeOK, ActiveSound
<1>2. Done' = Done
    BY <1>1 DEF Done
<1>3. /\ s \in Sessions /\ s.run = active.run /\ s.amends = active.amends
      /\ s.kind = active.kind /\ s.phase = active.phase /\ s.status = "complete"
      /\ s.approval = active.approval /\ s.review = active.review /\ s.artifact = doc
    BY <1>1, NowIsNat DEF Sessions, IInv
<1>4. s # None /\ doc # None
    BY <1>1, <1>3, NoneIsApart
<1> HIDE DEF s
<1>5. TypeOK'
    BY <1>1, <1>2, <1>3 DEF IInv, TypeOK, Steps
<1>6. Handed(active)'
    BY <1>1, <1>3 DEF Handed, WithinScope, AuditOf
<1>7. ActiveSound'
    BY <1>1, <1>2, <1>3, <1>4, <1>6 DEF ActiveSound
<1>8. CommandSound' /\ ArchiveSound'
    BY <1>1, <1>2, <1>3, <1>4 DEF IInv, CommandSound, ArchiveSound
<1>9. ArchivedIsReviewed' /\ AmendmentsStayInScope'
    BY <1>1, <1>2 DEF IInv, ArchivedIsReviewed, AmendmentsStayInScope
<1>10. AuditIsGenuine'
    BY <1>1, <1>3, <1>4 DEF AuditIsGenuine, AuditOf
<1>11. Kept
    BY <1>1, <1>2, <1>3, <1>4 DEF Kept, Started, Done
<1> QED
    BY <1>5, <1>7, <1>8, <1>9, <1>10, <1>11 DEF IInv

LEMMA ArchiveKeeps ==
    ASSUME IInv, Archive
    PROVE  IInv' /\ Kept
<1>1. /\ active # None /\ active \in Sessions /\ active.run \in Runs /\ active.run \notin Done
      /\ active.status = "complete" /\ ActiveSound /\ Handed(active)
      /\ active.review # None /\ active.artifact # None
    BY NoneIsApart DEF Archive, IInv, TypeOK, CommandSound, ActiveSound, Sessions, Handed
<1>2. /\ active' = None /\ command' = None /\ UNCHANGED <<doc, audit, withdrawn>>
      /\ Done' = Done \cup {active.run}
      /\ completed' = [r \in Done \cup {active.run} |-> IF r = active.run THEN active ELSE completed[r]]
    BY DEF Archive, Done
<1>3. completed'[active.run] = active /\ \A r \in Done : completed'[r] = completed[r]
    BY <1>1, <1>2
<1>4. TypeOK'
    BY <1>1, <1>2 DEF IInv, TypeOK
<1>5. ActiveSound' /\ CommandSound'
    BY <1>2, NoneIsApart DEF ActiveSound, CommandSound
<1>6. ArchiveSound'
    BY <1>1, <1>2, <1>3 DEF IInv, ArchiveSound
<1>7. ArchivedIsReviewed'
    <2>1. active.artifact.design = active.review.design /\ active.approval # None
          /\ active.approval.of = active.review
        BY <1>1 DEF ActiveSound, Handed
    <2>2. ArchivedIsReviewed
        BY DEF IInv
    <2> QED
        BY <1>1, <1>2, <1>3, <2>1, <2>2 DEF ArchivedIsReviewed
<1>8. AmendmentsStayInScope'
    <2>1. active.amends # None =>
              /\ active.amends \in Done
              /\ <<completed[active.amends].artifact.design, active.artifact.design>> \in InScope
        BY <1>1 DEF ActiveSound, Handed, WithinScope
    <2>2. AmendmentsStayInScope
        BY DEF IInv
    <2> SUFFICES ASSUME NEW r \in Done', completed'[r].amends # None
                 PROVE  /\ completed'[r].amends \in Done' \ {r}
                        /\ <<completed'[completed'[r].amends].artifact.design,
                             completed'[r].artifact.design>> \in InScope
        BY DEF AmendmentsStayInScope
    <2>3. CASE r = active.run
        BY <1>1, <1>2, <1>3, <2>1, <2>3
    <2>4. CASE r \in Done
        BY <1>2, <1>3, <2>2, <2>4 DEF AmendmentsStayInScope
    <2> QED
        BY <1>2, <2>3, <2>4
<1>9. AuditIsGenuine'
    <2>1. audit = AuditOf(active, active.artifact) /\ audit.run = active.run
        BY <1>1 DEF Handed, AuditOf
    <2> QED
        BY <1>1, <1>2, <1>3, <2>1 DEF AuditIsGenuine, AuditOf
<1>10. Kept
    BY <1>1, <1>2, <1>3 DEF Kept, Started, Done
<1> QED
    BY <1>4, <1>5, <1>6, <1>7, <1>8, <1>9, <1>10 DEF IInv

(* Before a run is withdrawn, the audit names one that is archived.        *)
LEMMA WithdrawKeeps ==
    ASSUME IInv, Withdraw
    PROVE  IInv' /\ Kept
<1>1. /\ command = None /\ active # None /\ active.status # "complete" /\ active.run \notin Done
      /\ active.amends \in Done /\ audit' = Restored(active) /\ command' = "withdraw"
      /\ UNCHANGED <<doc, active, completed, withdrawn>>
    BY DEF Withdraw, Open, IInv, ActiveSound
<1>2. Done' = Done
    BY <1>1 DEF Done
<1>3. AuditArchived'
    <2>1. CASE audit # None /\ audit.run = active.run
        <3>1. audit' = AuditOf(completed[active.amends], completed[active.amends].artifact)
            BY <1>1, <2>1 DEF Restored
        <3>2. audit'.run = active.amends
            BY <1>1, <3>1 DEF AuditOf, IInv, ArchiveSound
        <3> QED
            BY <1>1, <1>2, <3>1, <3>2 DEF AuditArchived, AuditOf
    <2>2. CASE ~(audit # None /\ audit.run = active.run)
        <3>1. audit' = audit
            BY <1>1, <2>2 DEF Restored
        <3> QED
            BY <1>1, <1>2, <2>2, <3>1 DEF AuditArchived, AuditOf, IInv, AuditIsGenuine
    <2> QED
        BY <2>1, <2>2
<1>4. TypeOK' /\ ActiveSound'
    BY <1>1, <1>2 DEF IInv, TypeOK, ActiveSound, Steps
<1>5. CommandSound' /\ ArchiveSound'
    BY <1>1, <1>2, <1>3 DEF IInv, CommandSound, ArchiveSound
<1>6. ArchivedIsReviewed' /\ AmendmentsStayInScope'
    BY <1>1, <1>2 DEF IInv, ArchivedIsReviewed, AmendmentsStayInScope
<1>7. AuditIsGenuine'
    BY <1>1, <1>3 DEF AuditArchived, AuditIsGenuine
<1>8. Kept
    BY <1>1, <1>2 DEF Kept, Started, Done
<1> QED
    BY <1>4, <1>5, <1>6, <1>7, <1>8 DEF IInv

LEMMA WithdrawCopiesKeeps ==
    ASSUME IInv, WithdrawCopies
    PROVE  IInv' /\ Kept
<1>1. /\ command = "withdraw" /\ command' = "clear" /\ withdrawn' = withdrawn \cup {active.run}
      /\ UNCHANGED <<doc, audit, active, completed>>
    BY DEF WithdrawCopies, Copy
<1>2. Done' = Done
    BY <1>1 DEF Done
<1>3. active # None /\ active \in Sessions /\ active.run \in Runs
      /\ active.status # "complete" /\ AuditArchived
    BY <1>1, NoneIsApart DEF IInv, TypeOK, CommandSound, Sessions
<1>4. TypeOK' /\ ActiveSound'
    BY <1>1, <1>2, <1>3 DEF IInv, TypeOK, ActiveSound, Steps
<1>5. CommandSound' /\ ArchiveSound'
    BY <1>1, <1>2, <1>3 DEF IInv, CommandSound, ArchiveSound, AuditArchived, AuditOf
<1>6. ArchivedIsReviewed' /\ AmendmentsStayInScope' /\ AuditIsGenuine'
    BY <1>1, <1>2 DEF IInv, ArchivedIsReviewed, AmendmentsStayInScope, AuditIsGenuine, AuditOf
<1>7. Kept
    BY <1>1, <1>2, <1>3 DEF Kept, Started, Done
<1> QED
    BY <1>4, <1>5, <1>6, <1>7 DEF IInv

LEMMA WithdrawClearsKeeps ==
    ASSUME IInv, WithdrawClears
    PROVE  IInv' /\ Kept
<1>1. /\ command = "clear" /\ active' = None /\ command' = None
      /\ UNCHANGED <<doc, audit, completed, withdrawn>>
    BY DEF WithdrawClears
<1>2. Done' = Done
    BY <1>1 DEF Done
<1>3. AuditArchived
    BY <1>1 DEF IInv, CommandSound
<1>4. TypeOK' /\ ActiveSound'
    BY <1>1, <1>2 DEF IInv, TypeOK, ActiveSound
<1>5. CommandSound' /\ ArchiveSound'
    BY <1>1, <1>2, NoneIsApart DEF IInv, CommandSound, ArchiveSound
<1>6. ArchivedIsReviewed' /\ AmendmentsStayInScope'
    BY <1>1, <1>2 DEF IInv, ArchivedIsReviewed, AmendmentsStayInScope
<1>7. AuditIsGenuine'
    BY <1>1, <1>2, <1>3 DEF AuditIsGenuine, AuditArchived, AuditOf
<1>8. Kept
    BY <1>1, <1>2 DEF IInv, CommandSound, Kept, Started, Done
<1> QED
    BY <1>4, <1>5, <1>6, <1>7, <1>8 DEF IInv

(* The document, and the death of a command, are nothing an archive or a   *)
(* session depends on.                                                     *)
LEMMA OthersKeep ==
    ASSUME IInv,
           doc' \in Documents, command' = command \/ command' = None,
           UNCHANGED <<audit, active, completed, withdrawn>>
    PROVE  IInv' /\ Kept
<1>1. Done' = Done
    BY DEF Done
<1>2. TypeOK'
    BY <1>1 DEF IInv, TypeOK
<1>3. ActiveSound'
    BY <1>1 DEF IInv, ActiveSound, Handed, WithinScope, AuditOf
<1>4. CommandSound' /\ ArchiveSound'
    BY <1>1, NoneIsApart DEF IInv, CommandSound, ArchiveSound, AuditArchived, AuditOf
<1>5. ArchivedIsReviewed' /\ AmendmentsStayInScope' /\ AuditIsGenuine'
    BY <1>1 DEF IInv, ArchivedIsReviewed, AmendmentsStayInScope, AuditIsGenuine, AuditOf
<1>6. Kept
    BY <1>1 DEF Kept, Started, Done
<1> QED
    BY <1>2, <1>3, <1>4, <1>5, <1>6 DEF IInv

-----------------------------------------------------------------------------
LEMMA NextKeeps ==
    IInv /\ [RfcNext]_rfcVars => IInv' /\ Kept
<1> SUFFICES ASSUME IInv, [RfcNext]_rfcVars PROVE IInv' /\ Kept
    OBVIOUS
<1>1. ASSUME NEW r \in Runs, Init(r) PROVE IInv' /\ Kept
    BY <1>1, InitKeeps
<1>2. ASSUME NEW r \in Runs, NEW of \in Runs, NEW kind \in Kinds, Amend(r, of, kind)
      PROVE  IInv' /\ Kept
    BY <1>2, AmendKeeps
<1>3. ASSUME NEW c \in Contexts, Context(c) \/ Recertify(c) PROVE IInv' /\ Kept
    BY <1>3, ContextsKeep
<1>4. CASE Drift
    BY <1>4, DriftKeeps
<1>5. CASE Pass
    BY <1>5, PassKeeps
<1>6. CASE Block \/ Unblock
    BY <1>6, BlocksKeep
<1>7. CASE Approve
    BY <1>7, ApproveKeeps
<1>8. CASE Revise
    BY <1>8, ReviseKeeps
<1>9. CASE WriteAudit
    BY <1>9, WriteAuditKeeps
<1>10. CASE PassHandoff
    BY <1>10, PassHandoffKeeps
<1>11. CASE Archive
    BY <1>11, ArchiveKeeps
<1>12. CASE Withdraw
    BY <1>12, WithdrawKeeps
<1>13. CASE WithdrawCopies
    BY <1>13, WithdrawCopiesKeeps
<1>14. CASE WithdrawClears
    BY <1>14, WithdrawClearsKeeps
<1>15. CASE Die
    BY <1>15, OthersKeep DEF Die, IInv, TypeOK
<1>16. CASE Render
    <2>1. [doc EXCEPT !.life = "draft"] \in Documents
        BY DEF IInv, TypeOK, Documents
    <2> QED
        BY <1>16, <2>1, OthersKeep DEF Render
<1>17. ASSUME NEW d \in [design : Designs, life : Shown], Edit(d) PROVE IInv' /\ Kept
    <2>1. d \in Documents
        BY ShownOfCode DEF Documents
    <2> QED
        BY <1>17, <2>1, OthersKeep DEF Edit
<1>18. CASE UNCHANGED rfcVars
    BY <1>18, OthersKeep DEF rfcVars, IInv, TypeOK
<1> QED
    BY <1>1, <1>2, <1>3, <1>4, <1>5, <1>6, <1>7, <1>8, <1>9, <1>10, <1>11, <1>12, <1>13,
       <1>14, <1>15, <1>16, <1>17, <1>18 DEF RfcNext

(* The invariant holds in every state.                                     *)
THEOREM Invariance ==
    RfcSpec => []IInv
BY Initially, NextKeeps, PTL DEF RfcSpec

(* What is archived is what was reviewed, and was approved for that.       *)
THEOREM ArchiveIsReviewed ==
    RfcSpec => []ArchivedIsReviewed
<1>1. IInv => ArchivedIsReviewed
    BY DEF IInv
<1> QED
    BY <1>1, Invariance, PTL

(* An amendment that was archived stayed in the scope of one.              *)
THEOREM AmendmentsInScope ==
    RfcSpec => []AmendmentsStayInScope
<1>1. IInv => AmendmentsStayInScope
    BY DEF IInv
<1> QED
    BY <1>1, Invariance, PTL

(* The audit is that of the active run or of one that was archived.        *)
THEOREM AuditGenuine ==
    RfcSpec => []AuditIsGenuine
<1>1. IInv => AuditIsGenuine
    BY DEF IInv
<1> QED
    BY <1>1, Invariance, PTL


(* No run is lost and no archive is written again.                         *)
THEOREM RunsAreKept ==
    RfcSpec => NothingDiscarded
<1>1. IInv /\ [RfcNext]_rfcVars => [Kept]_rfcVars
    BY NextKeeps
<1> QED
    BY <1>1, Invariance, PTL DEF RfcSpec, NothingDiscarded, Kept

-----------------------------------------------------------------------------
(* The lineage of the archived runs.                                       *)

(* No approval comes from a product decision, so that the times of the     *)
(* approvals are the order of the runs.                                    *)
Undelegated == \A t \in Done : Grant(completed[t]) = None

(* A run has one successor at most, and without delegation only the last   *)
(* may still be amended: any other has a successor or was superseded.      *)
LineageSound ==
    /\ \A r, s \in Done :
           r # s /\ completed[r].amends # None => completed[s].amends # completed[r].amends
    /\ \A r \in Done : completed[r].updated \in 1 .. Cardinality(Done)
    /\ \A r, s \in Done : completed[r].updated = completed[s].updated => r = s
    /\ Undelegated => \A r \in Done :
           /\ completed[r].approval.at <= completed[r].updated
           /\ completed[r].amends # None =>
                  completed[r].updated = completed[completed[r].amends].updated + 1
           /\ Amended(r) \/ Superseded(r) \/ completed[r].updated = Cardinality(Done)

(* The active run amends the last one, and nobody else does; what it is    *)
(* approved for is as late as its end, or as its maintained predecessor.   *)
ActiveLineage ==
    active # None =>
        /\ active.amends # None =>
               /\ ~Amended(active.amends)
               /\ Undelegated => completed[active.amends].updated = Cardinality(Done)
        /\ active.approval # None /\ Grant(active) = None /\ Undelegated =>
               \/ active.approval.at = Now
               \/ /\ active.amends # None
                  /\ active.approval.at = completed[active.amends].approval.at
        /\ active.status = "complete" => active.updated = Now

LEMMA SameArchive ==
    ASSUME LineageSound, completed' = completed
    PROVE  /\ LineageSound' /\ Done' = Done /\ Now' = Now
           /\ Undelegated' = Undelegated
           /\ \A r : Amended(r)' = Amended(r)
<1>1. Done' = Done
    BY DEF Done
<1>2. Now' = Now /\ Undelegated' = Undelegated
    BY <1>1 DEF Now, Undelegated
<1>3. \A r : Amended(r)' = Amended(r) /\ Superseded(r)' = Superseded(r)
    BY <1>1 DEF Amended, Superseded
<1>4. LineageSound'
    BY <1>1, <1>2, <1>3 DEF LineageSound
<1> QED
    BY <1>1, <1>2, <1>3, <1>4

(* A command that rewrites the session keeps the lineage, if an approval   *)
(* it gives is as late as now, or as that of the run that is maintained.   *)
LEMMA RewriteKeepsLineage ==
    ASSUME LineageSound, ActiveLineage, NEW s, Rewrites(s), active # None,
           s.amends = active.amends,
           s.approval # None /\ Grant(s) = None =>
               \/ s.approval.at = Now
               \/ s.amends # None /\ s.approval.at = completed[s.amends].approval.at
               \/ /\ active.approval # None /\ Grant(active) = None
                  /\ s.approval.at = active.approval.at,
           s.status = "complete" => active.status = "complete" /\ s.updated = active.updated
    PROVE  LineageSound' /\ ActiveLineage'
<1>1. active' = s /\ completed' = completed
    BY DEF Rewrites
<1>2. /\ LineageSound' /\ Done' = Done /\ Now' = Now /\ Undelegated' = Undelegated
      /\ \A r : Amended(r)' = Amended(r)
    BY <1>1, SameArchive
<1>3. s.amends # None =>
          /\ ~Amended(s.amends)'
          /\ Undelegated' => completed'[s.amends].updated = Cardinality(Done')
    BY <1>1, <1>2 DEF ActiveLineage
<1>4. s.approval # None /\ Grant(s) = None /\ Undelegated' =>
          \/ s.approval.at = Now'
          \/ s.amends # None /\ s.approval.at = completed'[s.amends].approval.at
    BY <1>1, <1>2 DEF ActiveLineage
<1>5. s.status = "complete" => s.updated = Now'
    BY <1>2 DEF ActiveLineage
<1>6. Grant(active)' = Grant(s) /\ Amended(active.amends)' = Amended(s.amends)'
    BY <1>1 DEF Grant, Amended
<1> QED
    BY <1>1, <1>2, <1>3, <1>4, <1>5, <1>6 DEF ActiveLineage

(* The other steps that leave the archive alone.                           *)
LEMMA SameKeepsLineage ==
    ASSUME LineageSound, ActiveLineage, completed' = completed,
           active' = active \/ active' = None
    PROVE  LineageSound' /\ ActiveLineage'
<1>1. /\ LineageSound' /\ Done' = Done /\ Now' = Now /\ Undelegated' = Undelegated
      /\ \A r : Amended(r)' = Amended(r)
    BY SameArchive
<1>2. CASE active' = None
    BY <1>1, <1>2 DEF ActiveLineage
<1>3. CASE active' = active
    <2>1. Grant(active)' = Grant(active) /\ Amended(active.amends)' = Amended(active.amends)
        BY <1>3, <1>1 DEF Grant, Amended
    <2> QED
        BY <1>1, <1>3, <2>1 DEF ActiveLineage
<1> QED
    BY <1>1, <1>2, <1>3

(* A run is amended while it is the last one.                              *)
LEMMA StartKeepsLineage ==
    ASSUME IInv, LineageSound, ActiveLineage, NEW r \in Runs,
           \/ Init(r)
           \/ \E of \in Runs, kind \in Kinds : Amend(r, of, kind)
    PROVE  LineageSound' /\ ActiveLineage'
<1>1. active = None /\ completed' = completed
    BY DEF Init, Amend, Rewrites
<1>2. /\ LineageSound' /\ Done' = Done /\ Now' = Now /\ Undelegated' = Undelegated
      /\ \A t : Amended(t)' = Amended(t)
    BY <1>1, SameArchive
<1>3. CASE Init(r)
    <2>1. active' = Fresh(r) /\ active'.amends = None /\ active'.approval = None
          /\ active'.status = "active"
        BY <1>3 DEF Init, Rewrites, Fresh
    <2> QED
        BY <1>2, <2>1 DEF ActiveLineage
<1>4. ASSUME NEW of \in Runs, NEW kind \in Kinds, Amend(r, of, kind)
      PROVE  ActiveLineage'
    <2>1. active'.amends = of /\ active'.approval = None /\ active'.status = "active"
        BY <1>4 DEF Amend, Rewrites, Fresh
    <2>2. of \in Done /\ ~Amended(of) /\ ~Superseded(of)
        BY <1>4 DEF Amend, MayAmend
    <2>3. Undelegated => completed[of].updated = Cardinality(Done)
        BY <2>2 DEF LineageSound
    <2>4. ~Amended(active.amends)'
        BY <1>2, <2>1, <2>2 DEF Amended
    <2> QED
        BY <1>1, <1>2, <2>1, <2>3, <2>4 DEF ActiveLineage
<1> QED
    BY <1>2, <1>3, <1>4

(* A review approves at the time the decision or the amended run gives.    *)
LEMMA ReviewedLineage ==
    ASSUME IInv, Open, active.phase = "review"
    PROVE  /\ Reviewed.amends = active.amends /\ Reviewed.status # "complete"
           /\ Reviewed.approval # None /\ Grant(Reviewed) = None =>
                 /\ Reviewed.amends # None
                 /\ Reviewed.approval.at = completed[Reviewed.amends].approval.at
<1> DEFINE r == [active EXCEPT !.artifact = doc, !.review = doc]
           by(status, time) ==
               [r EXCEPT !.phase = "handoff", !.status = status,
                         !.approval = [status |-> status, at |-> time, of |-> doc]]
<1>1. doc \in Documents /\ active \in Sessions /\ ActiveSound /\ active # None
    BY DEF IInv, TypeOK, Open
<1>2. /\ r.amends = active.amends /\ r.approval = active.approval /\ r.context = active.context
      /\ r \in Sessions
    BY <1>1 DEF Sessions
<1>3. active.approval = None
    BY <1>1 DEF ActiveSound
<1> HIDE DEF r
<1>4. ASSUME NEW st, NEW time
      PROVE  /\ by(st, time).amends = active.amends /\ by(st, time).approval.at = time
             /\ by(st, time).context = active.context
    BY <1>2 DEF Sessions
<1>5. CASE active.amends = None /\ Grant(active) # None
    <2>1. Reviewed = by("delegated", Grant(active))
        BY <1>5 DEF Reviewed, r
    <2> HIDE DEF by
    <2>2. Reviewed.amends = active.amends /\ Reviewed.context = active.context
        BY <1>4, <2>1
    <2>3. Grant(Reviewed) = Grant(active)
        BY <2>2 DEF Grant
    <2> QED
        BY <1>5, <2>2, <2>3, ReviewedIsSound
<1>6. CASE ~(active.amends = None /\ Grant(active) # None) /\ active.kind = "maintenance"
    <2>1. Reviewed = by("maintained", completed[active.amends].approval.at)
        BY <1>6 DEF Reviewed, r
    <2>2. active.amends # None
        BY <1>1, <1>6, NoneIsApart DEF ActiveSound
    <2> HIDE DEF by
    <2>3. /\ Reviewed.amends = active.amends
          /\ Reviewed.approval.at = completed[active.amends].approval.at
        BY <1>4, <2>1
    <2> QED
        BY <2>2, <2>3, ReviewedIsSound
<1>7. CASE ~(active.amends = None /\ Grant(active) # None) /\ active.kind # "maintenance"
    <2>1. Reviewed = [r EXCEPT !.phase = "approval", !.status = "awaiting_approval"]
        BY <1>7 DEF Reviewed, r
    <2>2. Reviewed.amends = active.amends /\ Reviewed.approval = None
        BY <1>2, <1>3, <2>1 DEF Sessions
    <2> QED
        BY <2>2, ReviewedIsSound
<1> QED
    BY <1>5, <1>6, <1>7

LEMMA PhasesKeepLineage ==
    ASSUME IInv, LineageSound, ActiveLineage,
           \/ \E c \in Contexts : Context(c) \/ Recertify(c)
           \/ Drift \/ Pass \/ Block \/ Unblock \/ Approve \/ Revise
    PROVE  LineageSound' /\ ActiveLineage'
<1>1. active # None /\ active \in Sessions /\ ActiveSound
    BY DEF Context, Recertify, Drift, Pass, Block, Unblock, Approve, Revise, Recordable, Open,
           IInv, TypeOK
<1>2. ASSUME NEW c \in Contexts, Context(c) PROVE LineageSound' /\ ActiveLineage'
    <2> DEFINE s == [active EXCEPT !.context = c, !.current = TRUE]
    <2>1. /\ s.amends = active.amends /\ s.approval = active.approval
          /\ s.status = active.status
        BY <1>1 DEF Sessions
    <2>2. Rewrites(s) /\ active.phase = "intake" /\ active.status = "active"
        BY <1>2 DEF Context
    <2>3. s.approval = None /\ s.status # "complete"
        BY <1>1, <2>1, <2>2 DEF ActiveSound
    <2> HIDE DEF s
    <2> QED
        BY <1>1, <2>1, <2>2, <2>3, RewriteKeepsLineage
<1>3. ASSUME NEW c \in Contexts, Recertify(c) PROVE LineageSound' /\ ActiveLineage'
    <2> DEFINE s == [Fresh(active.run) EXCEPT !.context = c, !.current = TRUE,
                                          !.kind = active.kind, !.amends = active.amends]
    <2>1. s.amends = active.amends /\ s.approval = None /\ s.status = "active"
        BY DEF Fresh
    <2>2. Rewrites(s)
        BY <1>3 DEF Recertify
    <2> HIDE DEF s
    <2> QED
        BY <1>1, <2>1, <2>2, RewriteKeepsLineage
<1>4. CASE Drift
    <2> DEFINE current == ~active.current
               s == [active EXCEPT !.current = current]
    <2>1. Rewrites(s)
        BY <1>4 DEF Drift
    <2> HIDE DEF current
    <2>2. /\ s.amends = active.amends /\ s.approval = active.approval
          /\ s.status = active.status /\ s.updated = active.updated
          /\ s.context = active.context
        BY <1>1 DEF Sessions
    <2> HIDE DEF s
    <2>3. Grant(s) = Grant(active)
        BY <2>2 DEF Grant
    <2> QED
        BY <1>1, <2>1, <2>2, <2>3, RewriteKeepsLineage
<1>5. CASE Pass
    <2>1. active.status # "complete"
        BY <1>5 DEF Pass, Recordable, Open
    <2>2. ASSUME NEW s, Rewrites(s), s.amends = active.amends, s.approval = active.approval,
                 s.context = active.context, s.status = active.status
          PROVE  LineageSound' /\ ActiveLineage'
        <3>1. Grant(s) = Grant(active)
            BY <2>2 DEF Grant
        <3> QED
            BY <1>1, <2>1, <2>2, <3>1, RewriteKeepsLineage
    <2>3. CASE Rewrites([active EXCEPT !.phase = "generation"])
        <3> DEFINE s == [active EXCEPT !.phase = "generation"]
        <3>1. /\ s.amends = active.amends /\ s.approval = active.approval
              /\ s.context = active.context /\ s.status = active.status
            BY <1>1 DEF Sessions
        <3> HIDE DEF s
        <3> QED
            BY <2>2, <2>3, <3>1 DEF s
    <2>4. CASE Rewrites([active EXCEPT !.phase = "review", !.artifact = doc])
        <3> DEFINE s == [active EXCEPT !.phase = "review", !.artifact = doc]
        <3>1. /\ s.amends = active.amends /\ s.approval = active.approval
              /\ s.context = active.context /\ s.status = active.status
            BY <1>1 DEF Sessions
        <3> HIDE DEF s
        <3> QED
            BY <2>2, <2>4, <3>1 DEF s
    <2>5. CASE active.phase = "review" /\ Rewrites(Reviewed)
        BY <1>1, <1>5, <2>5, ReviewedLineage, RewriteKeepsLineage DEF Pass, Recordable
    <2> QED
        BY <1>5, <2>3, <2>4, <2>5 DEF Pass
<1>6. CASE Block \/ Unblock
    <2> SUFFICES ASSUME NEW st \in {"blocked", "active"}, Rewrites([active EXCEPT !.status = st])
                 PROVE  LineageSound' /\ ActiveLineage'
        BY <1>6 DEF Block, Unblock
    <2> DEFINE s == [active EXCEPT !.status = st]
    <2>1. /\ s.amends = active.amends /\ s.approval = active.approval
          /\ s.status = st /\ s.context = active.context /\ Rewrites(s)
        BY <1>1 DEF Sessions
    <2> HIDE DEF s
    <2>2. Grant(s) = Grant(active)
        BY <2>1 DEF Grant
    <2> QED
        BY <1>1, <2>1, <2>2, RewriteKeepsLineage
<1>7. CASE Approve
    <2> DEFINE s == [active EXCEPT
                         !.approval = [status |-> "approved", at |-> Now, of |-> active.review],
                         !.status = "approved", !.phase = "handoff"]
    <2>1. s.amends = active.amends /\ s.approval.at = Now /\ s.status = "approved"
        BY <1>1 DEF Sessions
    <2>2. Rewrites(s)
        BY <1>7 DEF Approve
    <2> HIDE DEF s
    <2> QED
        BY <1>1, <2>1, <2>2, RewriteKeepsLineage
<1>8. CASE Revise
    <2> DEFINE s == Revised(active)
    <2>1. s.amends = active.amends /\ s.approval = None /\ s.status = "active"
        BY <1>1 DEF Sessions, Revised
    <2>2. Rewrites(s)
        BY <1>8 DEF Revise
    <2> HIDE DEF s
    <2> QED
        BY <1>1, <2>1, <2>2, RewriteKeepsLineage
<1> QED
    BY <1>2, <1>3, <1>4, <1>5, <1>6, <1>7, <1>8

LEMMA PassHandoffKeepsLineage ==
    ASSUME IInv, LineageSound, ActiveLineage, PassHandoff
    PROVE  LineageSound' /\ ActiveLineage'
<1> DEFINE s == [active EXCEPT !.status = "complete", !.artifact = doc, !.updated = Now]
<1>1. active # None /\ active \in Sessions /\ completed' = completed /\ active' = s
    BY DEF PassHandoff, Recordable, Open, IInv, TypeOK
<1>2. /\ s.amends = active.amends /\ s.approval = active.approval
      /\ s.context = active.context /\ s.updated = Now
    BY <1>1 DEF Sessions
<1> HIDE DEF s
<1>3. /\ LineageSound' /\ Done' = Done /\ Now' = Now /\ Undelegated' = Undelegated
      /\ \A r : Amended(r)' = Amended(r)
    BY <1>1, SameArchive
<1>4. Grant(active)' = Grant(active) /\ Amended(active.amends)' = Amended(active.amends)
    BY <1>1, <1>2, <1>3 DEF Grant, Amended
<1> QED
    BY <1>1, <1>2, <1>3, <1>4 DEF ActiveLineage

(* The archived run is the last one: the one that was last before it is    *)
(* amended by it, or was approved earlier.                                 *)
LEMMA ArchiveKeepsLineage ==
    ASSUME IInv, LineageSound, ActiveLineage, Archive
    PROVE  LineageSound' /\ ActiveLineage'
<1> DEFINE n == Cardinality(Done)
           a == active
<1>1. /\ a # None /\ a \in Sessions /\ a.run \notin Done /\ a.status = "complete"
      /\ a.amends # None => a.amends \in Done
      /\ a.approval # None
    BY NoneIsApart DEF Archive, IInv, TypeOK, CommandSound, ActiveSound, Handed
<1>2. Done' = Done \cup {a.run} /\ active' = None
    BY DEF Archive, Done
<1>3. /\ completed'[a.run] = a
      /\ \A t \in Done : completed'[t] = completed[t]
    BY <1>1 DEF Archive
<1>4. n \in Nat /\ Cardinality(Done') = n + 1 /\ Now = n + 1
    <2>1. IsFiniteSet(Done)
        BY RunsAreFinite, FS_Subset DEF IInv, TypeOK
    <2> QED
        BY <1>1, <1>2, <2>1, FS_AddElement, FS_CardinalityType DEF Now
<1>5. /\ a.updated = n + 1
      /\ a.amends # None => ~Amended(a.amends)
    BY <1>1, <1>4 DEF ActiveLineage
<1>6. /\ \A r \in Done : completed[r].updated \in 1 .. n
      /\ \A r \in Done : completed[r].approval.at \in Nat
      /\ \A r \in Done : completed[r].amends # None => completed[r].amends \in Done
    <2>1. \A r \in Done : completed[r].approval.at \in Nat
        <3> TAKE r \in Done
        <3>1. completed[r] \in Sessions /\ completed[r].approval # None
            BY DEF IInv, TypeOK, ArchivedIsReviewed
        <3> QED
            BY <3>1 DEF Sessions, Approvals
    <2> QED
        BY <2>1 DEF LineageSound, IInv, AmendmentsStayInScope
<1>7. a.approval.at \in Nat
    BY <1>1 DEF Sessions, Approvals
<1> HIDE DEF n, a
<1>8. \A r, s \in Done' :
          r # s /\ completed'[r].amends # None => completed'[s].amends # completed'[r].amends
    <2> SUFFICES ASSUME NEW r \in Done', NEW s \in Done', r # s, completed'[r].amends # None,
                        completed'[s].amends = completed'[r].amends
                 PROVE  FALSE
        OBVIOUS
    <2>1. CASE r \in Done /\ s \in Done
        BY <1>3, <2>1 DEF LineageSound
    <2>2. CASE r = a.run /\ s \in Done
        BY <1>3, <1>5, <2>2 DEF Amended
    <2>3. CASE s = a.run /\ r \in Done
        BY <1>3, <1>5, <2>3 DEF Amended
    <2> QED
        BY <1>2, <2>1, <2>2, <2>3
<1>9. \A r \in Done' : completed'[r].updated \in 1 .. Cardinality(Done')
    BY <1>2, <1>3, <1>4, <1>5, <1>6
<1>10. \A r, s \in Done' : completed'[r].updated = completed'[s].updated => r = s
    <2> SUFFICES ASSUME NEW r \in Done', NEW s \in Done',
                        completed'[r].updated = completed'[s].updated
                 PROVE  r = s
        OBVIOUS
    <2>1. CASE r \in Done /\ s \in Done
        BY <1>3, <2>1 DEF LineageSound
    <2>2. \A t \in Done : completed'[t].updated # n + 1
        BY <1>3, <1>4, <1>6
    <2>3. completed'[a.run].updated = n + 1
        BY <1>3, <1>5
    <2> QED
        BY <1>2, <2>1, <2>2, <2>3
<1>11. Undelegated' => Undelegated /\ Grant(a) = None
    BY <1>2, <1>3 DEF Undelegated, Grant
<1>12. ASSUME Undelegated', NEW r \in Done'
       PROVE  /\ completed'[r].approval.at <= completed'[r].updated
              /\ completed'[r].amends # None =>
                     completed'[r].updated = completed'[completed'[r].amends].updated + 1
              /\ \/ Amended(r)' \/ Superseded(r)'
                 \/ completed'[r].updated = Cardinality(Done')
    <2>1. /\ a.amends # None => completed[a.amends].updated = n
          /\ \/ a.approval.at = n + 1
             \/ a.amends # None /\ a.approval.at = completed[a.amends].approval.at
        BY <1>1, <1>4, <1>11, <1>12 DEF ActiveLineage, n, a
    <2>2. \A t \in Done :
             /\ completed[t].approval.at <= completed[t].updated
             /\ completed[t].amends # None =>
                    completed[t].updated = completed[completed[t].amends].updated + 1
             /\ Amended(t) \/ Superseded(t) \/ completed[t].updated = n
        BY <1>11, <1>12 DEF LineageSound, n
    <2>3. CASE r = a.run
        <3>1. a.approval.at <= a.updated
            BY <1>1, <1>4, <1>5, <1>6, <1>7, <2>1, <2>2
        <3> QED
            BY <1>1, <1>3, <1>4, <1>5, <2>1, <2>3, <3>1
    <2>4. CASE r \in Done
        <3>1. completed[r].amends # None => completed'[completed[r].amends] = completed[completed[r].amends]
            BY <1>3, <1>6, <2>4
        <3>2. Amended(r) => Amended(r)'
            BY <1>2, <1>3 DEF Amended
        <3>3. Superseded(r) => Superseded(r)'
            BY <1>2, <1>3, <2>4 DEF Superseded
        <3>4. ASSUME completed[r].updated = n PROVE Amended(r)' \/ Superseded(r)'
            <4>1. CASE a.approval.at = n + 1
                <5>1. completed[r].approval.at \in Nat /\ completed[r].approval.at <= n
                    BY <1>6, <2>2, <2>4, <3>4
                <5>2. a.approval.at > completed[r].approval.at
                    BY <1>4, <4>1, <5>1
                <5> QED
                    BY <1>2, <1>3, <2>4, <5>2 DEF Superseded
            <4>2. CASE a.amends # None
                <5>1. a.amends \in Done /\ completed[a.amends].updated = completed[r].updated
                    BY <1>1, <2>1, <3>4, <4>2
                <5>2. a.amends = r
                    BY <2>4, <5>1 DEF LineageSound
                <5> QED
                    BY <1>2, <1>3, <5>2 DEF Amended
            <4> QED
                BY <2>1, <4>1, <4>2
        <3>5. Amended(r)' \/ Superseded(r)'
            BY <2>2, <2>4, <3>2, <3>3, <3>4
        <3> QED
            BY <1>3, <2>2, <2>4, <3>1, <3>5
    <2> QED
        BY <1>2, <2>3, <2>4
<1>13. LineageSound'
    BY <1>8, <1>9, <1>10, <1>12 DEF LineageSound
<1> QED
    BY <1>2, <1>13 DEF ActiveLineage

LEMMA NextKeepsLineage ==
    ASSUME IInv, LineageSound, ActiveLineage, [RfcNext]_rfcVars
    PROVE  LineageSound' /\ ActiveLineage'
<1>1. CASE \E r \in Runs : Init(r) \/ \E of \in Runs, kind \in Kinds : Amend(r, of, kind)
    BY <1>1, StartKeepsLineage
<1>2. CASE \/ \E c \in Contexts : Context(c) \/ Recertify(c)
           \/ Drift \/ Pass \/ Block \/ Unblock \/ Approve \/ Revise
    BY <1>2, PhasesKeepLineage
<1>3. CASE PassHandoff
    BY <1>3, PassHandoffKeepsLineage
<1>4. CASE Archive
    BY <1>4, ArchiveKeepsLineage
<1>5. CASE WriteAudit \/ Withdraw \/ WithdrawCopies \/ WithdrawClears \/ Die \/ Render
           \/ \E d \in [design : Designs, life : Shown] : Edit(d)
    <2>1. completed' = completed /\ (active' = active \/ active' = None)
        BY <1>5 DEF WriteAudit, Withdraw, WithdrawCopies, Copy, WithdrawClears, Die, Render, Edit
    <2> QED
        BY <2>1, SameKeepsLineage
<1>6. CASE UNCHANGED rfcVars
    <2>1. completed' = completed /\ active' = active
        BY <1>6 DEF rfcVars
    <2> QED
        BY <2>1, SameKeepsLineage
<1> QED
    BY <1>1, <1>2, <1>3, <1>4, <1>5, <1>6 DEF RfcNext

(* No two runs amend one, and, while no product decision has delegated an  *)
(* approval, every run was archived right behind the one it amends and     *)
(* only the last may still be amended, in every reachable state.           *)
THEOREM Lineage ==
    RfcSpec => [](LineageSound /\ ActiveLineage)
<1>1. RfcInit => LineageSound /\ ActiveLineage
    <2> SUFFICES ASSUME RfcInit PROVE LineageSound /\ ActiveLineage
        OBVIOUS
    <2>1. Done = {} /\ active = None
        BY DEF RfcInit, Done
    <2> QED
        BY <2>1 DEF LineageSound, ActiveLineage
<1>2. IInv /\ (LineageSound /\ ActiveLineage) /\ [RfcNext]_rfcVars
          => (LineageSound /\ ActiveLineage)'
    BY NextKeepsLineage
<1> QED
    BY <1>1, <1>2, Invariance, PTL DEF RfcSpec

(* A run has one successor, and while no product decision delegates an     *)
(* approval it is amended before a run of another lineage is completed:    *)
(* the runs between two of a lineage are never somebody else's.            *)
THEOREM LatestAmended ==
    RfcSpec => []LatestIsAmended
<1>1. IInv /\ LineageSound => LatestIsAmended
    <2> SUFFICES ASSUME IInv, LineageSound, NEW r \in Done, NEW s \in Done,
                        completed[r].amends # None, s # r
                 PROVE  LET of == completed[r].amends IN
                        /\ completed[s].amends # of
                        /\ (\A t \in Done : Grant(completed[t]) = None) =>
                               ~(completed[of].updated < completed[s].updated
                                    /\ completed[s].updated < completed[r].updated)
        BY DEF LatestIsAmended
    <2> DEFINE of == completed[r].amends
    <2>1. completed[s].amends # of
        BY DEF LineageSound
    <2>2. of \in Done
        BY DEF IInv, AmendmentsStayInScope
    <2>3. completed[of].updated \in Nat /\ completed[s].updated \in Nat
        <3>1. /\ completed[of].updated \in 1 .. Cardinality(Done)
              /\ completed[s].updated \in 1 .. Cardinality(Done)
            BY <2>2 DEF LineageSound
        <3> QED
            BY <3>1
    <2>4. Undelegated => completed[r].updated = completed[of].updated + 1
        BY DEF LineageSound
    <2> HIDE DEF of
    <2>5. Undelegated => ~(completed[of].updated < completed[s].updated
                             /\ completed[s].updated < completed[r].updated)
        BY <2>3, <2>4
    <2> QED
        BY <2>1, <2>5 DEF Undelegated, of
<1> QED
    BY <1>1, Invariance, Lineage, PTL
=============================================================================
