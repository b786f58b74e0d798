--------------------------- MODULE CandidateDelivery ---------------------------
(***************************************************************************)
(* The optimized delivery of a review candidate: the candidate machine of  *)
(* the Dev session (lib/dev-session-schema.js), the release journal, and   *)
(* finalize-candidate (delivery-attestation.js), which reads the session   *)
(* and the journal without a lock, runs the complete gate plan for up to   *)
(* an hour, and then writes the certification, the attestation and the     *)
(* session as it had read it, moved to certifying.                         *)
(***************************************************************************)
EXTENDS ReleaseTransaction

CONSTANT Delivered  \* bound: the effects that are planned

VARIABLES
    session,    \* session.candidate: its state, its route, and whether an
                \* external effect was marked as started
    head,       \* the commit checked out
    plan,       \* the commit the gate plan and the session's identities bind
    cert,       \* final-certification.json, or None
    attested,   \* the generation delivery-attestation.json binds, or 0
    fin         \* the finalizer: where it is and what it has read

deliveryVars == <<tx, starting, session, head, plan, cert, attested, fin>>

CandidateStates == {"implementation", "review-candidate", "reviewing", "review-converged",
                    "certifying", "base-check", "merge-ready", "invalidated"}
Routes == {"comprehensive", "review-candidate"}
DefaultCandidate == [state |-> "implementation", route |-> "comprehensive", marked |-> FALSE]

(* transitionCandidate: what each state may become.                        *)
Allowed(from) ==
    CASE from = "implementation" -> {"review-candidate", "invalidated"}
      [] from = "review-candidate" -> {"reviewing", "invalidated"}
      [] from = "reviewing" -> {"review-candidate", "review-converged", "invalidated"}
      [] from = "review-converged" -> {"certifying", "invalidated"}
      [] from = "certifying" -> {"base-check", "invalidated"}
      [] from = "base-check" -> {"merge-ready", "invalidated"}
      [] from = "merge-ready" -> {"invalidated"}
      [] OTHER -> {"implementation"}

Moved(candidate, to) ==
    IF candidate.state = "invalidated" THEN DefaultCandidate ELSE [candidate EXCEPT !.state = to]

(* dev-session candidate; marking is part of entering review-candidate or  *)
(* a command of its own, candidate-effect.                                 *)
Transition(to, mark) ==
    /\ to \in Allowed(session.state)
    /\ to = "review-candidate" => session.route = "review-candidate"
    /\ mark => to = "review-candidate" /\ ~session.marked
    /\ session' = [Moved(session, to) EXCEPT !.marked = @ \/ mark]
    /\ UNCHANGED <<tx, starting, head, plan, cert, attested, fin>>

MarkExternalEffect ==
    /\ session.state = "review-candidate" /\ ~session.marked
    /\ session' = [session EXCEPT !.marked = TRUE]
    /\ UNCHANGED <<tx, starting, head, plan, cert, attested, fin>>

(* candidate-refresh: the identities of a plan made at the current HEAD.   *)
Refresh ==
    /\ session.route = "review-candidate"
    /\ session.state \in {"implementation", "reviewing"}
    /\ plan' = head
    /\ UNCHANGED <<tx, starting, session, head, cert, attested, fin>>

(* Somebody commits: a fix, a merge of the base, a generated file.         *)
Commit(commit) ==
    /\ head' = commit /\ commit # head
    /\ UNCHANGED <<tx, starting, session, plan, cert, attested, fin>>

(* Commands on the journal; begin reads the candidate's state.             *)
JournalCommand ==
    /\ UNCHANGED starting
    /\ \/ Load \/ Attest \/ Age
       \/ \E e \in Delivered, draft \in Drafts, body \in Bodies \cup {None} :
              Plan(e, draft, body)
       \/ \E e \in Delivered, granted \in BOOLEAN :
              Begin(e, granted, session.state = "merge-ready")
       \/ \E e \in Delivered, outcome \in Outcomes : Reconcile(e, outcome)
       \/ \E kind \in Kinds \cup {"candidate"} : BindEvidence(kind)
       \/ Advance(head)
    /\ UNCHANGED <<session, head, plan, cert, attested, fin>>

Initialize ==
    /\ \E p \in Starters :
           \/ InitializeFinds(p) \/ InitializeStops(p)
           \/ \E mode \in Modes : InitializeWrites(p, mode, head)
    /\ UNCHANGED <<session, head, plan, cert, attested, fin>>

-----------------------------------------------------------------------------
(* finalizeCanonicalFiles.                                                 *)

(* The session moved to certifying before anything is run; a session that  *)
(* is certifying already is kept, and no other state can be moved.         *)
Certifying(candidate) == [candidate EXCEPT !.state = "certifying"]

Read == [generation |-> tx.generation, commit |-> tx.commit]

FinalizeStart ==
    /\ fin.at = "idle"
    /\ tx.generation > 0 /\ Valid(tx)
    /\ Verified(tx, "push")
    /\ head = tx.commit /\ plan = tx.commit
    /\ session.state \in {"review-converged", "certifying"}
    /\ Kinds \subseteq tx.evidence
    /\ cert \in {None, Read}
    /\ fin' = [at |-> IF cert = None THEN "running" ELSE "certified",
               session |-> Certifying(session), read |-> Read]
    /\ UNCHANGED <<tx, starting, session, head, plan, cert, attested>>

Idle == [fin EXCEPT !.at = "idle"]

(* The complete plan passes and the certification is written; or it fails, *)
(* or the process is killed at any point.                                  *)
FinalizeCertify ==
    /\ fin.at = "running"
    /\ cert' = fin.read
    /\ fin' = [fin EXCEPT !.at = "certified"]
    /\ UNCHANGED <<tx, starting, session, head, plan, attested>>

FinalizeAttest ==
    /\ fin.at = "certified"
    /\ attested' = fin.read.generation
    /\ fin' = [fin EXCEPT !.at = "attested"]
    /\ UNCHANGED <<tx, starting, session, head, plan, cert>>

FinalizeSession ==
    /\ fin.at = "attested"
    /\ session' = fin.session
    /\ fin' = Idle
    /\ UNCHANGED <<tx, starting, head, plan, cert, attested>>

FinalizeStop ==
    /\ fin.at # "idle"
    /\ fin' = Idle
    /\ UNCHANGED <<tx, starting, session, head, plan, cert, attested>>

(* Routing at intake chose the candidate's route.                          *)
DeliveryInit ==
    /\ head \in Commits
    /\ tx = NoJournal(head) /\ starting = {}
    /\ session \in {[DefaultCandidate EXCEPT !.route = route] : route \in Routes}
    /\ plan = None /\ cert = None /\ attested = 0
    /\ fin = [at |-> "idle", session |-> DefaultCandidate,
              read |-> [generation |-> 0, commit |-> head]]

DeliveryNext ==
    \/ \E to \in CandidateStates, mark \in BOOLEAN : Transition(to, mark)
    \/ MarkExternalEffect \/ Refresh \/ JournalCommand \/ Initialize
    \/ \E commit \in Commits : Commit(commit)
    \/ FinalizeStart \/ FinalizeCertify \/ FinalizeAttest \/ FinalizeSession \/ FinalizeStop

DeliverySpec == DeliveryInit /\ [][DeliveryNext]_deliveryVars

-----------------------------------------------------------------------------
(* skills/dev/references/state-schema.md:98: an invalidated candidate must *)
(* return to implementation before retrying.                               *)
InvalidatedReturns ==
    [][session.state = "invalidated" => session'.state \in {"invalidated", "implementation"}]_deliveryVars
=============================================================================
