-------------------------- MODULE ReleaseTransaction --------------------------
(***************************************************************************)
(* The journal of one delivery: scripts/release-transaction.js and         *)
(* scripts/lib/release-transaction-schema.js.  Every command reads the     *)
(* file under the owned lock, brings a journal of an earlier schema up to  *)
(* date, applies one operation, validates the result and writes it; an     *)
(* operation that is refused writes the migrated journal and no more.  An  *)
(* action here is one command; the two that make a journal take no lock    *)
(* and are two steps.                                                      *)
(*                                                                         *)
(* Identities that a command only compares with the journal's own (the     *)
(* repository, the branches, the one pull request) always match; what can  *)
(* be asked for, granted and observed is chosen freely.                    *)
(***************************************************************************)
EXTENDS Naturals, SequencesExt

CONSTANTS
    Commits,
    Bodies,          \* contents of pr-body.md, by their hash
    None,
    Kinds,           \* kinds of evidence a delivery must bind, candidate apart
    MaxGenerations,  \* bound: how often the prepared commit advances
    MaxAttempts,     \* bound: attempts of each effect in one generation
    Starters         \* processes that run initialize or prepare-release

ASSUME NoneIsFresh == None \notin Bodies \cup Commits
ASSUME CommitsExist == Commits # {}
ASSUME GenerationBound == MaxGenerations \in Nat \ {0}

Effects == {"push", "create-pr", "ready-pr", "merge", "place-main-tag", "tracker-update"}

ASSUME AttemptBound == MaxAttempts \in [Effects -> Nat]

VARIABLES
    tx,       \* the file; its generation is 0 while there is none
    starting  \* the processes that have found none and are about to write one

vars == <<tx, starting>>

DependsOn(e) ==
    CASE e = "push" -> {}
      [] e = "create-pr" -> {"push"}
      [] e \in {"ready-pr", "merge"} -> {"create-pr"}
      [] OTHER -> {"merge"}

AttemptStatuses == {"attempting", "verified", "denied", "not-observed", "blocked", "failed"}
Statuses == {"unplanned", "planned", "attempting", "verified", "denied", "blocked", "failed"}
Modes == {"versioned", "delivery-only"}
(* The target's draft: absent in journals of an earlier schema.            *)
Drafts == {"unset", "draft", "final"}

(* An effect with what its target freezes; a verified receipt is there     *)
(* exactly while the effect is verified.                                   *)
Effect == [status : Statuses, attempts : Seq(AttemptStatuses),
           draft : Drafts, body : Bodies \cup {None}]
(* The attestation of the live body: from is the create-pr attempt, by the *)
(* merge attempt that consumed it, fresh that it is not five minutes old.  *)
Attestation == [held : BOOLEAN, body : Bodies \cup {None}, from : Nat, by : Nat,
                fresh : BOOLEAN]
Journal == [generation : Nat, mode : Modes, commit : Commits, candidate : BOOLEAN,
            evidence : SUBSET Kinds, attestation : Attestation,
            effects : [Effects -> Effect], history : Seq(SUBSET Effects)]

Unplanned == [status |-> "unplanned", attempts |-> <<>>, draft |-> "unset", body |-> None]
NotAttested == [held |-> FALSE, body |-> None, from |-> 0, by |-> 0, fresh |-> FALSE]

NewJournal(mode, commit) ==
    [generation |-> 1, mode |-> mode, commit |-> commit, candidate |-> FALSE, evidence |-> {},
     attestation |-> NotAttested, effects |-> [e \in Effects |-> Unplanned], history |-> <<>>]
NoJournal(commit) == [NewJournal("delivery-only", commit) EXCEPT !.generation = 0]

TypeOK == tx \in Journal /\ starting \subseteq Starters

Status(t, e) == t.effects[e].status
Planned(t, e) == Status(t, e) # "unplanned"
Verified(t, e) == Status(t, e) = "verified"
Attempts(t, e) == t.effects[e].attempts
LastAttempt(t, e) ==
    IF Attempts(t, e) = <<>> THEN "none" ELSE Attempts(t, e)[Len(Attempts(t, e))]

-----------------------------------------------------------------------------
(* transactionIssues: what a journal must satisfy to be read or written.   *)

TargetOK(t, e) ==
    CASE e = "create-pr" -> t.candidate => t.effects[e].draft = "draft"
      [] e = "ready-pr" -> /\ t.candidate \/ t.effects["create-pr"].draft = "draft"
                           /\ Verified(t, "create-pr")
      [] e = "merge" -> /\ Verified(t, "create-pr")
                        /\ t.effects[e].body \in {None, t.effects["create-pr"].body}
      [] e = "place-main-tag" -> t.mode = "versioned" /\ Verified(t, "merge")
      [] OTHER -> TRUE

AttemptsOK(t, e) ==
    IF Status(t, e) = "planned" THEN LastAttempt(t, e) \in {"none", "not-observed"}
                                ELSE LastAttempt(t, e) = Status(t, e)

AttestationOK(t) ==
    t.attestation.held =>
        /\ Verified(t, "create-pr")
        /\ t.attestation.body \in Bodies
        /\ t.attestation.body = t.effects["create-pr"].body
        /\ t.attestation.from = Len(Attempts(t, "create-pr"))
        /\ t.attestation.by <= Len(Attempts(t, "merge"))

Valid(t) ==
    /\ \A e \in Effects : Planned(t, e) => TargetOK(t, e) /\ AttemptsOK(t, e)
    /\ AttestationOK(t)

-----------------------------------------------------------------------------
(* normalizeReleaseTransaction: create-pr gets the draft it was created    *)
(* with before targets recorded it.                                        *)

Attempted(ef, outcome) ==
    [ef EXCEPT !.status = outcome, !.attempts = Append(@, outcome)]
(* Mutant: the attempts start over.                                        *)
ReopenedAnew(ef) ==
    IF ef.status = "verified" THEN [ef EXCEPT !.status = "attempting", !.attempts = <<"attempting">>]
                              ELSE ef

(* A verified create-pr is reopened: it is observed again before anything. *)
Reopened(ef) == IF ef.status = "verified" THEN Attempted(ef, "attempting") ELSE ef

(* Mutant: a planned merge stays planned.                                  *)
WithPlan(effects) == effects

WithoutPlan(effects) ==
    IF effects["merge"].status = "planned" THEN [effects EXCEPT !["merge"] = Unplanned]
                                           ELSE effects

Terminal(t) ==
    Verified(t, "merge") /\ (t.mode = "delivery-only" \/ Verified(t, "place-main-tag"))

NeedsDraft(t) ==
    /\ Planned(t, "create-pr") /\ t.effects["create-pr"].draft = "unset"
    /\ ~t.candidate /\ ~Terminal(t)
    /\ Status(t, "merge") \notin {"attempting", "blocked", "denied", "failed"}

Normalized(t) ==
    IF ~NeedsDraft(t) THEN t
    ELSE IF Verified(t, "merge")
    THEN [t EXCEPT !.effects["create-pr"].draft = "final"]
    ELSE [t EXCEPT !.effects =
             [WithoutPlan(t.effects) EXCEPT !["create-pr"] = [Reopened(@) EXCEPT !.draft = "final"]]]

(* A command reads the journal t; what it writes must be valid.            *)
Reads(t) == tx.generation > 0 /\ t = Normalized(tx) /\ Valid(tx) /\ Valid(t)
Writes(t) == Valid(t) /\ tx' = t

-----------------------------------------------------------------------------
(* Commands.                                                               *)

(* Reading commands, and a command that is refused once it has read.       *)
Load == \E t \in {Normalized(tx)} : Reads(t) /\ t # tx /\ tx' = t

Target(draft, body) ==
    [status |-> "planned", attempts |-> <<>>, draft |-> draft, body |-> body]

(* plan: a target is frozen once.  For create-pr and merge the body is     *)
(* what pr-body.md holds now.                                              *)
Plan(e, draft, body) ==
    \E t \in {Normalized(tx)} :
        /\ Reads(t)
        /\ ~Planned(t, e)
        /\ (draft # "unset") <=> (e = "create-pr")
        /\ (body # None) <=> (e \in {"create-pr", "merge"})
        /\ Writes([t EXCEPT !.effects[e] = Target(draft, body)])

(* Mutant: what an effect rests on need only be planned.                   *)
MayBeginEarly(t, e, mergeReady) ==
    /\ Status(t, e) \in {"planned", "denied", "failed"}
    /\ t.candidate /\ e \in {"ready-pr", "merge"} => mergeReady
    /\ \A d \in DependsOn(e) : Planned(t, d)
    /\ Len(Attempts(t, e)) < MaxAttempts[e]

(* What begin asks of the other effects and of the candidate.              *)
MayBegin(t, e, mergeReady) ==
    /\ Status(t, e) \in {"planned", "denied", "failed"}
    /\ t.candidate /\ e \in {"ready-pr", "merge"} => mergeReady
    /\ \A d \in DependsOn(e) : Verified(t, d)
    /\ e = "merge" /\ (\/ t.candidate
                       \/ t.effects["create-pr"].draft = "draft"
                       \/ Planned(t, "ready-pr")) => Verified(t, "ready-pr")
    /\ Len(Attempts(t, e)) < MaxAttempts[e]

MayConsume(t) ==
    /\ t.effects["merge"].body # None
    /\ t.attestation.held /\ t.attestation.by = 0 /\ t.attestation.fresh
    /\ t.attestation.body = t.effects["merge"].body

Begun(t, e) ==
    LET effects == [t.effects EXCEPT ![e] = Attempted(@, "attempting")] IN
    IF e = "merge"
    THEN [t EXCEPT !.effects = effects, !.attestation.by = Len(Attempts(t, e)) + 1]
    ELSE [t EXCEPT !.effects = effects]

(* begin: granted and mergeReady are read from the Dev session.            *)
Begin(e, granted, mergeReady) ==
    \E t \in {Normalized(tx)} :
        /\ Reads(t)
        /\ MayBegin(t, e, mergeReady)
        /\ IF granted
           THEN /\ e = "merge" => MayConsume(t)
                /\ Writes(Begun(t, e))
           ELSE Writes([t EXCEPT !.effects[e] = Attempted(@, "denied")])

(* The only attempt there is to settle is the last one, which is open.     *)
Settled(ef, status, outcome) ==
    [ef EXCEPT !.status = status, !.attempts[Len(ef.attempts)] = outcome]

Observed(ef, outcome) ==
    CASE outcome = "matched" -> Settled(ef, "verified", "verified")
      [] outcome = "absent" -> Settled(ef, "planned", "not-observed")
      [] outcome = "conflict" -> Settled(ef, "blocked", "blocked")
      [] outcome = "failed" -> Settled(ef, "failed", "failed")

Outcomes == {"matched", "absent", "conflict", "failed"}

Reconcile(e, outcome) ==
    \E t \in {Normalized(tx)} :
        /\ Reads(t)
        /\ Status(t, e) = "attempting"
        /\ Writes([t EXCEPT !.effects[e] = Observed(@, outcome)])

(* Mutant: an attestation may be renewed under a merge in flight.          *)
AttestAgain ==
    \E t \in {Normalized(tx)} :
        /\ Reads(t)
        /\ Verified(t, "create-pr")
        /\ t.effects["create-pr"].body # None
        /\ Writes([t EXCEPT !.attestation =
               [held |-> TRUE, body |-> t.effects["create-pr"].body, by |-> 0, fresh |-> TRUE,
                from |-> Len(Attempts(t, "create-pr"))]])

(* attest-pr-body: the observed pull request matched the journal's own.    *)
Attest ==
    \E t \in {Normalized(tx)} :
        /\ Reads(t)
        /\ Verified(t, "create-pr")
        /\ t.effects["create-pr"].body # None
        /\ Status(t, "merge") \notin {"attempting", "verified"}
        /\ Writes([t EXCEPT !.attestation =
               [held |-> TRUE, body |-> t.effects["create-pr"].body, by |-> 0, fresh |-> TRUE,
                from |-> Len(Attempts(t, "create-pr"))]])

BindEvidence(kind) ==
    \E t \in {Normalized(tx)} :
        /\ Reads(t)
        /\ Writes(IF kind = "candidate" THEN [t EXCEPT !.candidate = TRUE]
                                        ELSE [t EXCEPT !.evidence = @ \cup {kind}])

(* Effects of a generation whose outcome nobody has observed.              *)
Ambiguous(t) == {e \in Effects : Status(t, e) = "attempting"}

(* advance: commit is the current HEAD.                                    *)
Advance(commit) ==
    \E t \in {Normalized(tx)} :
        /\ Reads(t)
        /\ commit # t.commit
        /\ ~Verified(t, "merge") /\ ~Verified(t, "place-main-tag")
        /\ t.generation < MaxGenerations
        /\ Writes([NewJournal(t.mode, commit) EXCEPT
               !.generation = t.generation + 1,
               !.history = Append(t.history, Ambiguous(t))])

NeedsBody(t, e) == Planned(t, e) /\ t.effects[e].body = None

Bound(effects, body) ==
    [effects EXCEPT
        !["create-pr"] = IF @.body = None THEN [Reopened(@) EXCEPT !.body = body] ELSE @,
        !["merge"] = IF @.status = "unplanned" THEN @ ELSE [@ EXCEPT !.body = body]]

(* migrate-pr-body: binds create-pr and merge of an earlier schema to      *)
(* pr-body.md and has the pull request observed again.                     *)
MigratePrBody(body) ==
    \E t \in {Normalized(tx)} :
        /\ Reads(t)
        /\ Planned(t, "create-pr")
        /\ t.effects["create-pr"].body \in {None, body}
        /\ t.effects["merge"].body \in {None, body}
        /\ NeedsBody(t, "create-pr") \/ NeedsBody(t, "merge")
        /\ NeedsBody(t, "merge") => Status(t, "merge") \notin {"attempting", "verified"}
        /\ NeedsBody(t, "create-pr") =>
               Status(t, "merge") \in {"unplanned", "planned", "attempting", "verified"}
        /\ LET kept == IF NeedsBody(t, "create-pr") THEN WithoutPlan(t.effects) ELSE t.effects
           IN Writes([t EXCEPT !.effects = Bound(kept, body), !.attestation = NotAttested])

(* initialize and prepare-release take no lock: each looks whether there   *)
(* is a journal and later writes one, over whatever is there by then.      *)
InitializeFinds(p) ==
    /\ tx.generation = 0 /\ p \notin starting
    /\ starting' = starting \cup {p}
    /\ UNCHANGED tx

(* initialize writes a delivery-only one, prepare-release a versioned one. *)
InitializeWrites(p, mode, commit) ==
    /\ p \in starting
    /\ tx' = NewJournal(mode, commit)
    /\ starting' = starting \ {p}

(* It is refused or dies, or a command that had read before it wrote       *)
(* writes after it.                                                        *)
InitializeStops(p) ==
    /\ p \in starting
    /\ starting' = starting \ {p}
    /\ UNCHANGED tx

(* Five minutes pass since the live body was observed.                     *)
Age ==
    /\ tx.attestation.fresh /\ tx.attestation.by = 0
    /\ tx' = [tx EXCEPT !.attestation.fresh = FALSE]

-----------------------------------------------------------------------------
(* Journals that earlier versions left: their targets record no body and,  *)
(* in the oldest, create-pr's records no draft; they may be in the middle  *)
(* of it.  A draft that is not ready is not merged.                        *)
LegacyEffect(status, attempts) ==
    [Unplanned EXCEPT !.status = status, !.attempts = attempts]
LegacyEffects(cp, mg, tag) ==
    [e \in Effects |->
        CASE e = "push" -> LegacyEffect("verified", <<"verified">>)
          [] e = "create-pr" -> cp
          [] e = "merge" -> mg
          [] e = "place-main-tag" -> tag
          [] OTHER -> Unplanned]
Started(statuses) == {LegacyEffect(s, <<s>>) : s \in statuses}
LegacyCreatePrs ==
    {[ef EXCEPT !.draft = draft] : ef \in Started({"attempting", "verified"}), draft \in Drafts}
LegacyMerges ==
    Started({"attempting", "verified", "denied", "blocked", "failed"})
        \cup {Unplanned, LegacyEffect("planned", <<>>)}
LegacyTags == Started({"attempting", "verified"}) \cup {Unplanned}
LegacyJournals ==
    {t \in {[NewJournal(mode, commit) EXCEPT !.effects = LegacyEffects(cp, mg, tag)] :
                mode \in Modes, commit \in Commits,
                cp \in LegacyCreatePrs, mg \in LegacyMerges, tag \in LegacyTags} :
        /\ Valid(t)
        /\ t.effects["create-pr"].draft = "draft" => ~Planned(t, "merge")}

Init ==
    /\ tx \in LegacyJournals \cup {NoJournal(commit) : commit \in Commits}
    /\ starting = {}

(* The commands that hold the lock, and time.                              *)
Command ==
    \/ Load \/ Attest \/ Age
    \/ \E e \in Effects, draft \in Drafts, body \in Bodies \cup {None} : Plan(e, draft, body)
    \/ \E e \in Effects, granted, mergeReady \in BOOLEAN : Begin(e, granted, mergeReady)
    \/ \E e \in Effects, outcome \in Outcomes : Reconcile(e, outcome)
    \/ \E kind \in Kinds \cup {"candidate"} : BindEvidence(kind)
    \/ \E commit \in Commits : Advance(commit)
    \/ \E body \in Bodies : MigratePrBody(body)

Next ==
    \/ Command /\ UNCHANGED starting
    \/ \E p \in Starters : InitializeFinds(p) \/ InitializeStops(p)
    \/ \E p \in Starters, mode \in Modes, commit \in Commits : InitializeWrites(p, mode, commit)

Spec == Init /\ [][Next]_vars

-----------------------------------------------------------------------------
(* A journal that a command has left behind can be read by the next: no    *)
(* migration, refusal or reopening produces one that transactionIssues     *)
(* refuses, which would lock the delivery out of every command, advance    *)
(* and status among them.                                                  *)
Loadable == tx.generation > 0 => Valid(tx) /\ Valid(Normalized(tx))

(* An effect that was started or has happened rests on what it needed,     *)
(* whatever was reopened, denied, retried or migrated since: the           *)
(* dependencies of EFFECT_DEFINITIONS, and of a merge that the pull        *)
(* request it opened as a draft was made ready.                            *)
ChainHolds ==
    \A e \in Effects : Status(tx, e) \in {"attempting", "verified"} =>
        /\ \A d \in DependsOn(e) : Verified(tx, d)
        /\ e = "merge" /\ tx.effects["create-pr"].draft = "draft" => Verified(tx, "ready-pr")

(* A merge that was started with a bound body spent the attestation of     *)
(* exactly that body, and no other attempt has spent it.                   *)
MergeIsAttested ==
    Status(tx, "merge") \in {"attempting", "verified"} /\ tx.effects["merge"].body # None =>
        /\ tx.attestation.held /\ tx.attestation.fresh
        /\ tx.attestation.body = tx.effects["merge"].body
        /\ tx.attestation.by = Len(Attempts(tx, "merge"))

(* The audit trail: whatever command runs, within a generation no attempt  *)
(* of an effect disappears and only the last one may change, while its     *)
(* outcome is open.  An advance adds what it left ambiguous to the         *)
(* history, which nothing shortens or rewrites.  There are two exceptions. *)
(* A step that completes the target of create-pr in a journal of an        *)
(* earlier schema discards a planned merge, and with it, though the        *)
(* comment at release-transaction-schema.js:311 calls attempted state      *)
(* audit evidence, the attempts that were not observed to have happened.   *)
(* And initialize may write over a journal made since it found none.       *)
Extended(ef, new) ==
    /\ Len(ef.attempts) <= Len(new.attempts)
    /\ \A i \in DOMAIN ef.attempts :
           \/ new.attempts[i] = ef.attempts[i]
           \/ i = Len(ef.attempts) /\ ef.attempts[i] = "attempting"
TargetCompleted(old, new) ==
    LET before == old.effects["create-pr"]
        after == new.effects["create-pr"]
    IN \/ before.draft = "unset" /\ after.draft # "unset"
       \/ before.body = None /\ after.body # None
AuditKept ==
    [][starting' = starting =>
         /\ IsPrefix(tx.history, tx'.history)
         /\ tx.generation > 0 /\ tx'.generation = tx.generation =>
                \A e \in Effects :
                    \/ Extended(tx.effects[e], tx'.effects[e])
                    \/ e = "merge" /\ Status(tx, e) = "planned" /\ TargetCompleted(tx, tx')]_vars
=============================================================================
