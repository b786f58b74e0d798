----------------------- MODULE ReleaseTransaction_proof -----------------------
(***************************************************************************)
(* The delivery journal can always be read, and what it says of pushes,    *)
(* pull requests and merges holds, for all commits, bodies and bounds.     *)
(* The invariant is about a journal t, the stored one or the one that a    *)
(* command has normalized: besides the properties it says that a create-pr *)
(* of an earlier schema is bound to no body, so that nothing was attested  *)
(* of it when its migration has it observed again.  The last part is about *)
(* the steps: what a command does to the attempts it found, and what the   *)
(* delivery of a candidate does to the journal.                            *)
(***************************************************************************)
EXTENDS CandidateDelivery, SequenceTheorems, TLAPS

Chain(t) ==
    \A e \in Effects : Status(t, e) \in {"attempting", "verified"} =>
        /\ \A d \in DependsOn(e) : Verified(t, d)
        /\ e = "merge" /\ t.effects["create-pr"].draft = "draft" => Verified(t, "ready-pr")

Spent(t) ==
    Status(t, "merge") \in {"attempting", "verified"} /\ t.effects["merge"].body # None =>
        /\ t.attestation.held /\ t.attestation.fresh
        /\ t.attestation.body = t.effects["merge"].body
        /\ t.attestation.by = Len(Attempts(t, "merge"))

LegacyUnbound(t) ==
    t.effects["create-pr"].draft = "unset" =>
        t.effects["create-pr"].body = None /\ ~t.attestation.held

Sound(t) == t \in Journal /\ Valid(t) /\ Chain(t) /\ Spent(t) /\ LegacyUnbound(t)

NothingPlanned(t) == ~t.attestation.fresh /\ \A e \in Effects : Status(t, e) = "unplanned"

IInv == /\ tx \in Journal /\ starting \subseteq Starters
        /\ IF tx.generation > 0 THEN Sound(tx) ELSE NothingPlanned(tx)

LEMMA EffectTyped ==
    ASSUME NEW t \in Journal, NEW e \in Effects
    PROVE  /\ t.effects[e] \in Effect
           /\ Status(t, e) \in Statuses
           /\ Attempts(t, e) \in Seq(AttemptStatuses)
           /\ t.effects[e].draft \in Drafts
           /\ t.effects[e].body \in Bodies \cup {None}
BY DEF Journal, Effect, Status, Attempts

LEMMA AttemptedTyped ==
    ASSUME NEW ef \in Effect, NEW outcome \in {"attempting", "denied"}
    PROVE  /\ Attempted(ef, outcome) \in Effect
           /\ Attempted(ef, outcome).status = outcome
           /\ Attempted(ef, outcome).draft = ef.draft
           /\ Attempted(ef, outcome).body = ef.body
           /\ Len(Attempted(ef, outcome).attempts) = Len(ef.attempts) + 1
<1>1. ef.attempts \in Seq(AttemptStatuses) /\ outcome \in AttemptStatuses /\ outcome \in Statuses
    BY DEF Effect, AttemptStatuses, Statuses
<1> DEFINE as == Append(ef.attempts, outcome)
<1>2. as \in Seq(AttemptStatuses) /\ Len(as) = Len(ef.attempts) + 1
    BY <1>1
<1>3. Attempted(ef, outcome) = [ef EXCEPT !.status = outcome, !.attempts = as]
    BY Zenon DEF Attempted
<1> HIDE DEF as
<1>4. /\ Attempted(ef, outcome) \in Effect
      /\ Attempted(ef, outcome).status = outcome
      /\ Attempted(ef, outcome).attempts = as
      /\ Attempted(ef, outcome).draft = ef.draft
      /\ Attempted(ef, outcome).body = ef.body
    BY <1>1, <1>2, <1>3 DEF Effect
<1> QED BY <1>2, <1>4

LEMMA SettledTyped ==
    ASSUME NEW ef \in Effect, ef.attempts # <<>>,
           NEW status \in Statuses, NEW outcome \in AttemptStatuses
    PROVE  /\ Settled(ef, status, outcome) \in Effect
           /\ Settled(ef, status, outcome).status = status
           /\ Settled(ef, status, outcome).draft = ef.draft
           /\ Settled(ef, status, outcome).body = ef.body
           /\ Len(Settled(ef, status, outcome).attempts) = Len(ef.attempts)
<1>1. ef.attempts \in Seq(AttemptStatuses) /\ Len(ef.attempts) \in 1..Len(ef.attempts)
    BY EmptySeq DEF Effect
<1> DEFINE as == [ef.attempts EXCEPT ![Len(ef.attempts)] = outcome]
<1>2. as \in Seq(AttemptStatuses) /\ Len(as) = Len(ef.attempts)
    BY <1>1, ExceptSeq
<1>3. Settled(ef, status, outcome) = [ef EXCEPT !.status = status, !.attempts = as]
    BY DEF Settled, Effect
<1> HIDE DEF as
<1>4. /\ Settled(ef, status, outcome) \in Effect
      /\ Settled(ef, status, outcome).status = status
      /\ Settled(ef, status, outcome).attempts = as
      /\ Settled(ef, status, outcome).draft = ef.draft
      /\ Settled(ef, status, outcome).body = ef.body
    BY <1>2, <1>3 DEF Effect
<1> QED BY <1>2, <1>4

LEMMA ObservedTyped ==
    ASSUME NEW ef \in Effect, ef.attempts # <<>>, NEW outcome \in Outcomes
    PROVE  /\ Observed(ef, outcome) \in Effect
           /\ Observed(ef, outcome).draft = ef.draft
           /\ Observed(ef, outcome).body = ef.body
           /\ Len(Observed(ef, outcome).attempts) = Len(ef.attempts)
<1>1. PICK status \in Statuses, end \in AttemptStatuses :
          Observed(ef, outcome) = Settled(ef, status, end)
    BY DEF Observed, Outcomes, Statuses, AttemptStatuses
<1> QED BY <1>1, SettledTyped

LEMMA TargetTyped ==
    ASSUME NEW draft \in Drafts, NEW body \in Bodies \cup {None}
    PROVE  /\ Target(draft, body) \in Effect
           /\ Target(draft, body).status = "planned"
           /\ Target(draft, body).draft = draft
BY DEF Target, Effect, Statuses

(* A journal in which one effect has changed.                              *)
LEMMA EffectWritten ==
    ASSUME NEW t \in Journal, NEW e \in Effects, NEW x \in Effect,
           NEW u, u = [t EXCEPT !.effects[e] = x]
    PROVE  /\ u \in Journal
           /\ u.effects[e] = x
           /\ \A f \in Effects \ {e} : u.effects[f] = t.effects[f]
           /\ u.generation = t.generation /\ u.candidate = t.candidate /\ u.mode = t.mode
           /\ u.attestation = t.attestation
BY DEF Journal

(* A journal whose effects have changed.                                   *)
LEMMA EffectsWritten ==
    ASSUME NEW t \in Journal, NEW effects \in [Effects -> Effect],
           NEW u, u = [t EXCEPT !.effects = effects]
    PROVE  /\ u \in Journal
           /\ u.effects = effects
           /\ u.generation = t.generation /\ u.candidate = t.candidate /\ u.mode = t.mode
           /\ u.attestation = t.attestation
BY DEF Journal
(* The part of the chain that Valid does not say by itself: a start that   *)
(* is new found what it needs, and nothing that others rest on is undone   *)
(* but create-pr, whose dependents are valid only when it is verified.     *)
LEMMA ChainKept ==
    ASSUME NEW t, Sound(t), NEW u, Valid(u),
           \A e \in {"push", "ready-pr", "merge"} : Verified(t, e) => Verified(u, e),
           \A e \in Effects : Status(u, e) \in {"attempting", "verified"} =>
               \/ Status(t, e) \in {"attempting", "verified"}
               \/ /\ \A d \in DependsOn(e) : Verified(t, d)
                  /\ e = "merge" /\ u.effects["create-pr"].draft = "draft"
                         => Verified(t, "ready-pr"),
           \/ u.effects["create-pr"].draft = t.effects["create-pr"].draft
           \/ u.effects["create-pr"].draft # "draft"
           \/ ~Planned(t, "create-pr")
    PROVE  Chain(u)
<1> SUFFICES ASSUME NEW e \in Effects, Status(u, e) \in {"attempting", "verified"}
             PROVE  /\ \A d \in DependsOn(e) : Verified(u, d)
                    /\ e = "merge" /\ u.effects["create-pr"].draft = "draft"
                           => Verified(u, "ready-pr")
    BY DEF Chain
<1>1. Planned(u, e) /\ TargetOK(u, e)
    BY DEF Valid, Planned
<1>2. e \in {"ready-pr", "merge"} => Verified(u, "create-pr")
    BY <1>1 DEF TargetOK
<1>3. ASSUME NEW d \in DependsOn(e) PROVE Verified(u, d)
  <2>1. Verified(t, d)
      BY <1>3 DEF Sound, Chain
  <2> QED BY <2>1, <1>2, <1>3 DEF DependsOn, Effects
<1>4. ASSUME e = "merge", u.effects["create-pr"].draft = "draft" PROVE Verified(u, "ready-pr")
  <2>1. CASE Status(t, "merge") \in {"attempting", "verified"}
    <3>1. Verified(t, "create-pr")
        BY <2>1 DEF Sound, Valid, Planned, TargetOK, Effects
    <3>2. t.effects["create-pr"].draft = "draft"
        BY <1>4, <3>1 DEF Planned, Verified, Status
    <3> QED BY <2>1, <3>2 DEF Sound, Chain, Effects
  <2>2. CASE ~(Status(t, "merge") \in {"attempting", "verified"})
      BY <1>4, <2>2 
  <2> QED BY <2>1, <2>2
<1> QED BY <1>3, <1>4

(* What a merge has spent stays spent.                                     *)
LEMMA SpentKept ==
    ASSUME NEW t, Sound(t), NEW u, u.attestation = t.attestation,
           Status(u, "merge") \in {"attempting", "verified"} =>
               /\ Status(t, "merge") \in {"attempting", "verified"}
               /\ u.effects["merge"].body = t.effects["merge"].body
               /\ Len(Attempts(u, "merge")) = Len(Attempts(t, "merge"))
    PROVE  Spent(u)
BY DEF Sound, Spent

(* A command that changes one effect, and starts no merge.                 *)
LEMMA ChangeSound ==
    ASSUME NEW t, Sound(t), NEW e \in Effects, NEW x \in Effect,
           NEW u, u = [t EXCEPT !.effects[e] = x], Valid(u),
           e # "create-pr" => ~Verified(t, e),
           x.status \in {"attempting", "verified"} =>
               \/ Status(t, e) = "attempting"
               \/ e # "merge" /\ \A d \in DependsOn(e) : Verified(t, d),
           x.status \in {"attempting", "verified"} /\ e = "merge" =>
               x.body = t.effects[e].body /\ Len(x.attempts) = Len(Attempts(t, e)),
           \/ x.draft = t.effects[e].draft /\ x.body = t.effects[e].body
           \/ ~Planned(t, e) /\ (e = "create-pr" => x.draft # "unset")
    PROVE  Sound(u) /\ u.generation = t.generation
<1>1. t \in Journal
    BY DEF Sound
<1>2. /\ u \in Journal
      /\ u.effects[e] = x
      /\ \A f \in Effects \ {e} : u.effects[f] = t.effects[f]
      /\ u.generation = t.generation /\ u.attestation = t.attestation
    BY <1>1 DEF Journal
<1>3. Chain(u)
  <2>1. \A f \in {"push", "ready-pr", "merge"} : Verified(t, f) => Verified(u, f)
      BY <1>2 DEF Verified, Status, Effects
  <2>2. ASSUME NEW f \in Effects, Status(u, f) \in {"attempting", "verified"}
        PROVE  \/ Status(t, f) \in {"attempting", "verified"}
               \/ /\ \A d \in DependsOn(f) : Verified(t, d)
                  /\ f = "merge" /\ u.effects["create-pr"].draft = "draft"
                         => Verified(t, "ready-pr")
      BY <1>2, <2>2 DEF Status
  <2>3. \/ u.effects["create-pr"].draft = t.effects["create-pr"].draft
        \/ ~Planned(t, "create-pr")
      BY <1>2 DEF Effects
  <2> QED BY <2>1, <2>2, <2>3, ChainKept
<1>4. Spent(u)
    BY <1>2, SpentKept DEF Status, Attempts, Effects
<1>5. LegacyUnbound(u)
    BY <1>2 DEF Sound, LegacyUnbound, Effects, Planned
<1> QED BY <1>2, <1>3, <1>4, <1>5 DEF Sound

LEMMA PlanSound ==
    ASSUME NEW t, Sound(t), NEW e \in Effects, ~Planned(t, e),
           NEW draft \in Drafts, NEW body \in Bodies \cup {None},
           e = "create-pr" => draft # "unset",
           NEW u, u = [t EXCEPT !.effects[e] = Target(draft, body)], Valid(u)
    PROVE  Sound(u) /\ u.generation = t.generation
<1>1. PICK x : x = Target(draft, body)
    OBVIOUS
<1>2. x \in Effect /\ x.status = "planned" /\ x.draft = draft
    BY <1>1, TargetTyped
<1>3. ~Verified(t, e)
    BY DEF Planned, Verified
<1> QED BY <1>1, <1>2, <1>3, ChangeSound

LEMMA DenySound ==
    ASSUME NEW t, Sound(t), NEW e \in Effects, ~Verified(t, e),
           NEW u, u = [t EXCEPT !.effects[e] = Attempted(@, "denied")], Valid(u)
    PROVE  Sound(u) /\ u.generation = t.generation
<1>1. PICK x : x = Attempted(t.effects[e], "denied")
    OBVIOUS
<1>2. x \in Effect /\ x.status = "denied" /\ x.draft = t.effects[e].draft
                  /\ x.body = t.effects[e].body
    BY <1>1, AttemptedTyped, EffectTyped DEF Sound
<1>3. u = [t EXCEPT !.effects[e] = x]
    BY <1>1
<1> QED BY <1>2, <1>3, ChangeSound

LEMMA ReconcileSound ==
    ASSUME NEW t, Sound(t), NEW e \in Effects, Status(t, e) = "attempting",
           NEW outcome \in Outcomes,
           NEW u, u = [t EXCEPT !.effects[e] = Observed(@, outcome)], Valid(u)
    PROVE  Sound(u) /\ u.generation = t.generation
<1>1. PICK x : x = Observed(t.effects[e], outcome)
    OBVIOUS
<1>2. Attempts(t, e) # <<>>
    BY DEF Sound, Valid, Planned, AttemptsOK, LastAttempt
<1>3. x \in Effect /\ x.draft = t.effects[e].draft /\ x.body = t.effects[e].body
                  /\ Len(x.attempts) = Len(Attempts(t, e))
    BY <1>2, <1>1, ObservedTyped, EffectTyped DEF Sound, Attempts
<1>4. u = [t EXCEPT !.effects[e] = x]
    BY <1>1
<1>5. ~Verified(t, e)
    BY DEF Verified
<1> QED BY <1>3, <1>4, <1>5, ChangeSound

(* begin of another effect than the merge, and begin of the merge.         *)
LEMMA BeginSound ==
    ASSUME NEW t, Sound(t), NEW e \in Effects, e # "merge", ~Verified(t, e),
           \A d \in DependsOn(e) : Verified(t, d), Valid(Begun(t, e))
    PROVE  Sound(Begun(t, e)) /\ Begun(t, e).generation = t.generation
<1>1. PICK x : x = Attempted(t.effects[e], "attempting")
    OBVIOUS
<1>2. x \in Effect /\ x.status = "attempting" /\ x.draft = t.effects[e].draft
                  /\ x.body = t.effects[e].body
    BY <1>1, AttemptedTyped, EffectTyped DEF Sound
<1>3. Begun(t, e) = [t EXCEPT !.effects[e] = x]
    BY <1>1 DEF Begun, Sound, Journal
<1> QED BY <1>2, <1>3, ChangeSound

LEMMA BeginMergeSound ==
    ASSUME NEW t, Sound(t), MayConsume(t), ~Verified(t, "merge"),
           Verified(t, "create-pr"),
           t.effects["create-pr"].draft = "draft" => Verified(t, "ready-pr"),
           Valid(Begun(t, "merge"))
    PROVE  Sound(Begun(t, "merge")) /\ Begun(t, "merge").generation = t.generation
<1>1. PICK x : x = Attempted(t.effects["merge"], "attempting")
    OBVIOUS
<1>2. /\ "merge" \in Effects /\ t \in Journal
      /\ Attempts(t, "merge") \in Seq(AttemptStatuses)
    BY EffectTyped DEF Sound, Effects
<1>3. /\ x \in Effect /\ x.status = "attempting" /\ x.body = t.effects["merge"].body
      /\ Len(x.attempts) = Len(Attempts(t, "merge")) + 1
    BY <1>1, <1>2, AttemptedTyped, EffectTyped DEF Attempts
<1>4. PICK n : n = Len(Attempts(t, "merge")) + 1
    OBVIOUS
<1>5. n \in Nat
    BY <1>2, <1>4
<1> DEFINE effects == [t.effects EXCEPT !["merge"] = x]
           attestation == [t.attestation EXCEPT !.by = n]
<1>6. Begun(t, "merge") = [t EXCEPT !.effects = effects, !.attestation = attestation]
    BY <1>1, <1>2, <1>4 DEF Begun, Journal
<1>7. /\ effects \in [Effects -> Effect]
      /\ effects["merge"] = x
      /\ \A f \in Effects \ {"merge"} : effects[f] = t.effects[f]
    BY <1>2, <1>3 DEF Journal
<1>8. /\ attestation \in Attestation
      /\ attestation.by = n
      /\ attestation.held = t.attestation.held /\ attestation.fresh = t.attestation.fresh
      /\ attestation.body = t.attestation.body
    BY <1>2, <1>5 DEF Journal, Attestation
<1> HIDE DEF effects, attestation
<1>9. PICK u : u = Begun(t, "merge")
    OBVIOUS
<1>10. /\ u \in Journal
       /\ u.effects["merge"] = x
       /\ \A f \in Effects \ {"merge"} : u.effects[f] = t.effects[f]
       /\ u.attestation.by = n
       /\ u.attestation.held = t.attestation.held /\ u.attestation.fresh = t.attestation.fresh
       /\ u.attestation.body = t.attestation.body
       /\ u.generation = t.generation
    BY <1>2, <1>6, <1>7, <1>8, <1>9 DEF Journal
<1>11. Chain(u)
  <2>1. \A f \in {"push", "ready-pr", "merge"} : Verified(t, f) => Verified(u, f)
      BY <1>10 DEF Verified, Status, Effects
  <2>2. \A f \in Effects : Status(u, f) \in {"attempting", "verified"} =>
            \/ Status(t, f) \in {"attempting", "verified"}
            \/ /\ \A d \in DependsOn(f) : Verified(t, d)
               /\ f = "merge" /\ u.effects["create-pr"].draft = "draft"
                      => Verified(t, "ready-pr")
      BY <1>10 DEF Status, DependsOn, Effects
  <2>3. u.effects["create-pr"].draft = t.effects["create-pr"].draft
      BY <1>10 DEF Effects
  <2> QED BY <1>9, <2>1, <2>2, <2>3, ChainKept
<1>12. Spent(u)
    BY <1>3, <1>4, <1>10 DEF Spent, MayConsume, Attempts
<1>13. LegacyUnbound(u)
    BY <1>10 DEF Sound, LegacyUnbound, Effects
<1> QED BY <1>9, <1>10, <1>11, <1>12, <1>13 DEF Sound

LEMMA AttestSound ==
    ASSUME NEW t, Sound(t), Verified(t, "create-pr"),
           ~(Status(t, "merge") \in {"attempting", "verified"}),
           t.effects["create-pr"].body # None,
           NEW u, Valid(u),
           u = [t EXCEPT !.attestation =
                   [held |-> TRUE, body |-> t.effects["create-pr"].body, by |-> 0, fresh |-> TRUE,
                    from |-> Len(Attempts(t, "create-pr"))]]
    PROVE  Sound(u) /\ u.generation = t.generation
<1>1. /\ t \in Journal /\ Len(Attempts(t, "create-pr")) \in Nat
      /\ t.effects["create-pr"].body \in Bodies \cup {None}
    BY EffectTyped DEF Sound, Effects
<1>2. u \in Journal /\ u.effects = t.effects /\ u.generation = t.generation
    BY <1>1 DEF Journal, Attestation
<1>3. Chain(u) /\ Spent(u) /\ LegacyUnbound(u)
    BY <1>2 DEF Sound, Chain, Spent, LegacyUnbound, Verified, Status
<1> QED BY <1>2, <1>3 DEF Sound

LEMMA BindSound ==
    ASSUME NEW t, Sound(t), NEW kind \in Kinds \cup {"candidate"}, NEW u, Valid(u),
           u = IF kind = "candidate" THEN [t EXCEPT !.candidate = TRUE]
                                     ELSE [t EXCEPT !.evidence = @ \cup {kind}]
    PROVE  Sound(u) /\ u.generation = t.generation
<1>1. /\ u \in Journal /\ u.effects = t.effects /\ u.attestation = t.attestation
      /\ u.generation = t.generation
    BY DEF Sound, Journal
<1>2. Chain(u) /\ Spent(u) /\ LegacyUnbound(u)
    BY <1>1 DEF Sound, Chain, Spent, LegacyUnbound, Verified, Status, Attempts
<1> QED BY <1>1, <1>2 DEF Sound

(* A new generation has planned nothing.                                   *)
LEMMA FreshSound ==
    ASSUME NEW u \in Journal, Valid(u), u.effects = [e \in Effects |-> Unplanned],
           u.attestation = NotAttested
    PROVE  Sound(u)
<1>1. \A e \in Effects : Status(u, e) = "unplanned" /\ u.effects[e].body = None
    BY DEF Status, Unplanned
<1>2. Chain(u) /\ Spent(u)
    BY <1>1 DEF Chain, Spent, Effects
<1>3. LegacyUnbound(u)
    BY <1>1 DEF LegacyUnbound, NotAttested, Effects
<1> QED BY <1>2, <1>3 DEF Sound

-----------------------------------------------------------------------------
(* The migration of a create-pr without a draft.                           *)

(* What Valid and LegacyUnbound say of a journal that is to be migrated.   *)
LEMMA Unmigrated ==
    ASSUME NEW t, Sound(t), NeedsDraft(t)
    PROVE  /\ ~Planned(t, "ready-pr")
           /\ ~t.attestation.held
           /\ Status(t, "merge") \in {"unplanned", "planned", "verified"}
           /\ Verified(t, "merge") => Verified(t, "create-pr")
           /\ t.effects["merge"].body \in {None, t.effects["create-pr"].body} \/ ~Planned(t, "merge")
           /\ ~Verified(t, "merge") =>
                  /\ ~Planned(t, "place-main-tag")
                  /\ Status(t, "tracker-update") \notin {"attempting", "verified"}
<1>1. /\ {"push", "create-pr", "ready-pr", "merge", "place-main-tag", "tracker-update"} = Effects
      /\ t \in Journal /\ Status(t, "merge") \in Statuses
    BY EffectTyped DEF Sound, Effects
<1>2. ~Planned(t, "ready-pr") /\ ~t.attestation.held
    BY <1>1 DEF Sound, Valid, TargetOK, NeedsDraft, LegacyUnbound
<1>3. Status(t, "merge") \in {"unplanned", "planned", "verified"}
    BY <1>1 DEF NeedsDraft, Statuses
<1>4. Planned(t, "merge") => /\ Verified(t, "create-pr")
                             /\ t.effects["merge"].body \in {None, t.effects["create-pr"].body}
    BY <1>1 DEF Sound, Valid, TargetOK
<1>5. Planned(t, "place-main-tag") => Verified(t, "merge")
    BY <1>1 DEF Sound, Valid, TargetOK
<1>6. Status(t, "tracker-update") \in {"attempting", "verified"} => Verified(t, "merge")
    BY <1>1 DEF Sound, Chain, DependsOn
<1> QED BY <1>2, <1>3, <1>4, <1>5, <1>6 DEF Planned, Verified

LEMMA NormalizedMerged ==
    ASSUME NEW t, Sound(t), NeedsDraft(t), Verified(t, "merge"),
           NEW u, u = [t EXCEPT !.effects["create-pr"].draft = "final"]
    PROVE  Sound(u) /\ u.generation = t.generation
<1>1. PICK x : x = [t.effects["create-pr"] EXCEPT !.draft = "final"]
    OBVIOUS
<1>2. "create-pr" \in Effects /\ t \in Journal /\ t.effects["create-pr"] \in Effect
    BY EffectTyped DEF Sound, Effects
<1>3. /\ x \in Effect /\ x.draft = "final" /\ x.status = t.effects["create-pr"].status
      /\ x.attempts = t.effects["create-pr"].attempts /\ x.body = t.effects["create-pr"].body
    BY <1>1, <1>2 DEF Effect, Drafts
<1>4. /\ u \in Journal
      /\ u.effects["create-pr"] = x
      /\ \A f \in Effects \ {"create-pr"} : u.effects[f] = t.effects[f]
      /\ u.generation = t.generation /\ u.attestation = t.attestation
      /\ u.candidate = t.candidate /\ u.mode = t.mode
    BY <1>1, <1>2, <1>3 DEF Journal
<1>5. \A e \in Effects : /\ Status(u, e) = Status(t, e) /\ Attempts(u, e) = Attempts(t, e)
                         /\ u.effects[e].body = t.effects[e].body
    BY <1>3, <1>4 DEF Status, Attempts
<1>6. Valid(u)
  <2>1. ASSUME NEW e \in Effects, Planned(u, e) PROVE TargetOK(u, e)
    <3>1. Planned(t, e) /\ TargetOK(t, e)
        BY <1>5, <2>1 DEF Sound, Valid, Planned
    <3>2. ~t.candidate /\ ~Planned(t, "ready-pr")
        BY Unmigrated DEF NeedsDraft
    <3> QED BY <1>4, <1>5, <3>1, <3>2 DEF TargetOK, Effects, Verified
  <2>2. ASSUME NEW e \in Effects, Planned(u, e) PROVE AttemptsOK(u, e)
      BY <1>5, <2>2 DEF Sound, Valid, Planned, AttemptsOK, LastAttempt
  <2>3. AttestationOK(u)
      BY <1>4, Unmigrated DEF AttestationOK
  <2> QED BY <2>1, <2>2, <2>3 DEF Valid
<1>7. Chain(u) /\ Spent(u) /\ LegacyUnbound(u)
    BY <1>3, <1>4, <1>5 DEF Sound, Chain, Spent, LegacyUnbound, Effects, Verified, DependsOn
<1> QED BY <1>4, <1>6, <1>7 DEF Sound

LEMMA ReopenedTyped ==
    ASSUME NEW ef \in Effect
    PROVE  /\ Reopened(ef) \in Effect
           /\ Reopened(ef).draft = ef.draft /\ Reopened(ef).body = ef.body
           /\ ef.status = "verified" =>
                  /\ Reopened(ef).status = "attempting"
                  /\ Reopened(ef).attempts = Append(ef.attempts, "attempting")
           /\ ef.status # "verified" => Reopened(ef) = ef
<1>1. ef.status = "verified" => Reopened(ef) = Attempted(ef, "attempting")
    BY DEF Reopened
<1>2. Attempted(ef, "attempting").attempts = Append(ef.attempts, "attempting")
    BY DEF Attempted, Effect
<1>3. ef.status # "verified" => Reopened(ef) = ef
    BY DEF Reopened
<1> QED BY <1>1, <1>2, <1>3, AttemptedTyped

LEMMA WithoutPlanTyped ==
    ASSUME NEW effects \in [Effects -> Effect]
    PROVE  /\ WithoutPlan(effects) \in [Effects -> Effect]
           /\ \A f \in Effects \ {"merge"} : WithoutPlan(effects)[f] = effects[f]
           /\ effects["merge"].status = "planned" => WithoutPlan(effects)["merge"] = Unplanned
           /\ effects["merge"].status # "planned" => WithoutPlan(effects) = effects
<1>1. Unplanned \in Effect
    BY EmptySeq DEF Unplanned, Effect, Statuses, Drafts
<1>2. CASE effects["merge"].status = "planned"
  <2>1. WithoutPlan(effects) = [effects EXCEPT !["merge"] = Unplanned]
      BY <1>2 DEF WithoutPlan
  <2> QED BY <1>1, <1>2, <2>1 DEF Effects
<1>3. CASE effects["merge"].status # "planned"
    BY <1>3 DEF WithoutPlan
<1> QED BY <1>2, <1>3

LEMMA NormalizedOpen ==
    ASSUME NEW t, Sound(t), NeedsDraft(t), ~Verified(t, "merge"),
           NEW u, u = [t EXCEPT !.effects =
               [WithoutPlan(t.effects) EXCEPT !["create-pr"] = [Reopened(@) EXCEPT !.draft = "final"]]]
    PROVE  Sound(u) /\ u.generation = t.generation
<1>1. /\ "create-pr" \in Effects /\ "merge" \in Effects
      /\ t \in Journal /\ t.effects \in [Effects -> Effect]
      /\ t.effects["create-pr"] \in Effect
      /\ Status(t, "create-pr") \in Statuses
      /\ Attempts(t, "create-pr") \in Seq(AttemptStatuses)
    BY EffectTyped DEF Sound, Effects, Journal
<1>2. PICK kept : kept = WithoutPlan(t.effects)
    OBVIOUS
<1>3. /\ kept \in [Effects -> Effect]
      /\ \A f \in Effects \ {"merge"} : kept[f] = t.effects[f]
      /\ kept["merge"].status = "unplanned"
    <2>1. t.effects["merge"].status \in {"unplanned", "planned"}
        BY Unmigrated DEF Status, Verified
    <2> QED BY <1>1, <1>2, <2>1, WithoutPlanTyped DEF Unplanned
<1>4. PICK y : y = Reopened(t.effects["create-pr"])
    OBVIOUS
<1>5. PICK x : x = [y EXCEPT !.draft = "final"]
    OBVIOUS
<1>6. y \in Effect
    BY <1>1, <1>4, ReopenedTyped
<1>7. /\ x \in Effect /\ x.draft = "final" /\ x.body = y.body
      /\ x.status = y.status /\ x.attempts = y.attempts
    BY <1>5, <1>6 DEF Effect, Drafts
<1>8. /\ x \in Effect /\ x.draft = "final" /\ x.body = t.effects["create-pr"].body
      /\ Status(t, "create-pr") = "verified" =>
             x.status = "attempting" /\ x.attempts = Append(Attempts(t, "create-pr"), "attempting")
      /\ Status(t, "create-pr") # "verified" =>
             x.status = Status(t, "create-pr") /\ x.attempts = Attempts(t, "create-pr")
    BY <1>1, <1>4, <1>7, ReopenedTyped DEF Status, Attempts
<1>9. kept["create-pr"] = t.effects["create-pr"]
    BY <1>1, <1>3
<1>10. PICK effects : effects = [kept EXCEPT !["create-pr"] = x]
    OBVIOUS
<1>11. u = [t EXCEPT !.effects = effects]
    BY <1>1, <1>2, <1>3, <1>4, <1>5, <1>9, <1>10
<1>12. /\ effects \in [Effects -> Effect]
       /\ effects["create-pr"] = x
       /\ effects["merge"].status = "unplanned"
       /\ \A f \in Effects \ {"create-pr", "merge"} : effects[f] = t.effects[f]
    BY <1>1, <1>3, <1>8, <1>10
<1>13. /\ u \in Journal /\ u.effects = effects
       /\ u.generation = t.generation /\ u.attestation = t.attestation
       /\ u.candidate = t.candidate /\ u.mode = t.mode
    BY <1>1, <1>11, <1>12 DEF Journal
<1>14. /\ Status(u, "merge") = "unplanned" /\ ~Planned(u, "ready-pr")
       /\ ~Planned(u, "place-main-tag")
       /\ Status(u, "tracker-update") \notin {"attempting", "verified"}
    BY <1>12, <1>13, Unmigrated DEF Status, Planned, Effects
<1>15. Valid(u)
  <2>1. ASSUME NEW e \in Effects, Planned(u, e) PROVE TargetOK(u, e)
    <3>1. ~t.candidate
        BY DEF NeedsDraft
    <3> QED BY <1>13, <1>14, <2>1, <3>1 DEF TargetOK, Effects, Planned
  <2>2. ASSUME NEW e \in Effects, Planned(u, e) PROVE AttemptsOK(u, e)
    <3>1. CASE e = "create-pr"
      <4>1. Planned(t, e) /\ AttemptsOK(t, e)
          BY <3>1, <1>1 DEF NeedsDraft, Sound, Valid
      <4>2. CASE Status(t, e) = "verified"
        <5>1. /\ u.effects[e].status = "attempting"
              /\ u.effects[e].attempts = Append(Attempts(t, e), "attempting")
            BY <1>8, <1>12, <1>13, <3>1, <4>2
        <5>2. /\ Attempts(u, e) # <<>>
              /\ Attempts(u, e)[Len(Attempts(u, e))] = "attempting"
            BY <1>1, <3>1, <5>1 DEF Attempts
        <5> QED BY <5>1, <5>2 DEF AttemptsOK, LastAttempt, Status
      <4>3. CASE Status(t, e) # "verified"
        <5>1. /\ u.effects[e].status = t.effects[e].status
              /\ u.effects[e].attempts = t.effects[e].attempts
          <6>1. u.effects[e] = x
              BY <1>12, <1>13, <3>1
          <6>2. /\ Status(t, e) = t.effects[e].status
                /\ Attempts(t, e) = t.effects[e].attempts
              BY DEF Status, Attempts
          <6> QED BY <1>8, <3>1, <4>3, <6>1, <6>2
        <5> QED BY <4>1, <5>1 DEF AttemptsOK, LastAttempt, Status, Attempts
      <4> QED BY <4>2, <4>3
    <3>2. CASE e # "create-pr"
      <4>1. e # "merge" /\ u.effects[e] = t.effects[e]
          BY <1>12, <1>13, <1>14, <2>2, <3>2 DEF Planned
      <4>2. Planned(t, e)
          BY <2>2, <4>1 DEF Planned, Status
      <4>3. AttemptsOK(t, e)
          BY <4>2 DEF Sound, Valid
      <4> QED BY <4>1, <4>3 DEF AttemptsOK, LastAttempt, Status, Attempts
    <3> QED BY <3>1, <3>2
  <2>3. AttestationOK(u)
      BY <1>13, Unmigrated DEF AttestationOK
  <2> QED BY <2>1, <2>2, <2>3 DEF Valid
<1>16. Chain(u)
  <2> SUFFICES ASSUME NEW e \in Effects, Status(u, e) \in {"attempting", "verified"}
               PROVE  \A d \in DependsOn(e) : Verified(u, d)
      BY <1>14 DEF Chain
  <2>1. e \in {"push", "create-pr"}
      BY <1>14 DEF Effects, Planned
  <2>2. Status(t, "create-pr") \in {"attempting", "verified"} => Verified(t, "push")
      BY <1>1 DEF Sound, Chain, DependsOn
  <2>3. Verified(t, "push") => Verified(u, "push")
      BY <1>12, <1>13 DEF Verified, Status, Effects
  <2> QED BY <1>8, <1>12, <1>13, <2>1, <2>2, <2>3 DEF DependsOn, Status
<1>17. Spent(u) /\ LegacyUnbound(u)
    BY <1>8, <1>12, <1>13, <1>14 DEF Spent, LegacyUnbound
<1> QED BY <1>13, <1>15, <1>16, <1>17 DEF Sound

LEMMA NormalizedSound ==
    ASSUME NEW t, Sound(t)
    PROVE  /\ Sound(Normalized(t)) /\ Normalized(t).generation = t.generation
           /\ Valid(Normalized(t))
<1>1. CASE ~NeedsDraft(t)
    BY <1>1 DEF Normalized, Sound
<1>2. CASE NeedsDraft(t) /\ Verified(t, "merge")
    BY <1>2, NormalizedMerged DEF Normalized, Sound
<1>3. CASE NeedsDraft(t) /\ ~Verified(t, "merge")
    BY <1>3, NormalizedOpen DEF Normalized, Sound
<1> QED BY <1>1, <1>2, <1>3

(* Nothing is left to migrate of what a command reads.                     *)
LEMMA NormalizedOnce ==
    ASSUME NEW t, Sound(t)
    PROVE  ~NeedsDraft(Normalized(t))
<1>1. ASSUME NeedsDraft(t) PROVE Normalized(t).effects["create-pr"].draft = "final"
  <2>1. "create-pr" \in Effects /\ t.effects \in [Effects -> Effect] /\ t \in Journal
      BY DEF Sound, Effects, Journal
  <2>2. WithoutPlan(t.effects) \in [Effects -> Effect]
      BY <2>1, WithoutPlanTyped
  <2>3. Reopened(WithoutPlan(t.effects)["create-pr"]) \in Effect
      BY <2>1, <2>2, ReopenedTyped
  <2>4. CASE Verified(t, "merge")
      BY <1>1, <2>1, <2>4 DEF Normalized, Journal, Effect
  <2>5. CASE ~Verified(t, "merge")
      BY <1>1, <2>1, <2>2, <2>3, <2>5 DEF Normalized, Journal, Effect
  <2> QED BY <2>4, <2>5
<1> QED BY <1>1 DEF NeedsDraft, Normalized

-----------------------------------------------------------------------------
(* migrate-pr-body.  If it reopens create-pr then no merge rests on it, for *)
(* the journal that it writes is valid.                                    *)
LEMMA MigrateSound ==
    ASSUME NEW t, Sound(t), ~NeedsDraft(t), NEW body \in Bodies, Planned(t, "create-pr"),
           NeedsBody(t, "merge") => Status(t, "merge") \notin {"attempting", "verified"},
           NeedsBody(t, "create-pr") =>
               Status(t, "merge") \in {"unplanned", "planned", "attempting", "verified"},
           NeedsBody(t, "create-pr") \/ NeedsBody(t, "merge"),
           NEW kept, NeedsBody(t, "create-pr") => kept = WithoutPlan(t.effects),
           ~NeedsBody(t, "create-pr") => kept = t.effects,
           NEW effects, effects = Bound(kept, body),
           NEW u, Valid(u), u = [t EXCEPT !.effects = effects, !.attestation = NotAttested]
    PROVE  Sound(u) /\ u.generation = t.generation
<1>1. Sound(t) /\ Valid(u)
    BY Zenon
<1>2. /\ "create-pr" \in Effects /\ "merge" \in Effects
      /\ t \in Journal /\ t.effects \in [Effects -> Effect]
      /\ t.effects["create-pr"] \in Effect
    BY DEF Sound, Effects, Journal
<1>3. /\ kept \in [Effects -> Effect]
      /\ \A f \in Effects \ {"merge"} : kept[f] = t.effects[f]
      /\ kept["merge"].status \in {"attempting", "verified"} => kept["merge"] = t.effects["merge"]
    BY <1>2, WithoutPlanTyped DEF Unplanned
<1>4. PICK x : x = IF kept["create-pr"].body = None
                   THEN [Reopened(kept["create-pr"]) EXCEPT !.body = body] ELSE kept["create-pr"]
    OBVIOUS
<1>5. /\ x \in Effect /\ x.draft = t.effects["create-pr"].draft /\ x.body # None
      /\ NeedsBody(t, "create-pr") => x.status # "verified"
      /\ x.status \in {"attempting", "verified"} =>
             Status(t, "create-pr") \in {"attempting", "verified"}
  <2>1. kept["create-pr"] = t.effects["create-pr"]
      BY <1>2, <1>3
  <2>2. CASE t.effects["create-pr"].body = None
    <3>1. PICK y : y = Reopened(t.effects["create-pr"])
        OBVIOUS
    <3>2. /\ y \in Effect /\ y.draft = t.effects["create-pr"].draft /\ y.status # "verified"
          /\ y.status = "attempting" => Status(t, "create-pr") \in {"attempting", "verified"}
        BY <1>2, <3>1, ReopenedTyped DEF Status
    <3>3. x = [y EXCEPT !.body = body]
        BY <1>4, <2>1, <2>2, <3>1
    <3> QED BY <3>2, <3>3, NoneIsFresh DEF Effect
  <2>3. CASE t.effects["create-pr"].body # None
      BY <1>2, <1>4, <2>1, <2>3 DEF NeedsBody, Status
  <2> QED BY <2>2, <2>3
<1>6. PICK z : z = IF kept["merge"].status = "unplanned" THEN kept["merge"]
                   ELSE [kept["merge"] EXCEPT !.body = body]
    OBVIOUS
<1>7. z \in Effect /\ z.status = kept["merge"].status
    BY <1>2, <1>3, <1>6 DEF Effect
<1>8. effects = [kept EXCEPT !["create-pr"] = x, !["merge"] = z]
    BY <1>2, <1>3, <1>4, <1>6 DEF Bound
<1>9. u = [t EXCEPT !.effects = effects, !.attestation = NotAttested]
    OBVIOUS
<1>10. /\ effects \in [Effects -> Effect]
       /\ effects["create-pr"] = x /\ effects["merge"] = z
       /\ \A f \in Effects \ {"create-pr", "merge"} : effects[f] = t.effects[f]
    BY <1>2, <1>3, <1>5, <1>7, <1>8
<1>11. NotAttested \in Attestation
    BY DEF NotAttested, Attestation
<1>12. u \in Journal /\ u.effects = effects /\ u.generation = t.generation
    BY <1>2, <1>9, <1>10, <1>11 DEF Journal
<1>13. Status(u, "merge") \in {"attempting", "verified"} =>
           Status(t, "merge") \in {"attempting", "verified"} /\ ~NeedsBody(t, "create-pr")
  <2>1. ASSUME Status(u, "merge") \in {"attempting", "verified"} PROVE Verified(u, "create-pr")
      BY <1>2, <2>1 DEF Valid, TargetOK, Planned
  <2> QED BY <1>3, <1>5, <1>7, <1>10, <1>12, <2>1 DEF Verified, Status
<1>14. Status(u, "merge") \notin {"attempting", "verified"}
    BY <1>13
<1>15. Chain(u)
  <2>1. \A f \in {"push", "ready-pr", "merge"} : Verified(t, f) => Verified(u, f)
    <3>1. Verified(t, "merge") => kept = t.effects
        BY <1>2, WithoutPlanTyped DEF Verified, Status
    <3>2. Verified(t, "merge") => Verified(u, "merge")
        BY <1>7, <1>10, <1>12, <3>1 DEF Verified, Status
    <3> QED BY <1>10, <1>12, <3>2 DEF Verified, Status, Effects
  <2>2. \A f \in Effects : Status(u, f) \in {"attempting", "verified"} =>
            Status(t, f) \in {"attempting", "verified"}
      BY <1>5, <1>10, <1>12, <1>14 DEF Status
  <2>3. u.effects["create-pr"].draft = t.effects["create-pr"].draft
      BY <1>5, <1>10, <1>12
  <2> QED BY ONLY <1>1, <2>1, <2>2, <2>3, ChainKept
<1>16. Spent(u)
    BY <1>14 DEF Spent
<1>17. LegacyUnbound(u)
  <2> SUFFICES ASSUME u.effects["create-pr"].draft = "unset" PROVE FALSE
      BY DEF LegacyUnbound
  <2>1. t.effects["create-pr"].draft = "unset" /\ t.effects["create-pr"].body = None
      BY <1>5, <1>10, <1>12 DEF Sound, LegacyUnbound
  <2>2. NeedsBody(t, "create-pr")
      BY <2>1 DEF NeedsBody
  <2>3. ~t.candidate
      BY <1>2, <2>1 DEF Sound, Valid, TargetOK
  <2>4. Status(t, "merge") \in {"attempting", "verified"}
      BY <2>1, <2>2, <2>3 DEF NeedsDraft, Terminal, Verified
  <2>5. kept = t.effects
      BY <1>2, <2>4, WithoutPlanTyped DEF Status
  <2>6. Status(u, "merge") = Status(t, "merge")
      BY <1>7, <1>10, <1>12, <2>5 DEF Status
  <2> QED BY <1>14, <2>4, <2>6
<1> QED BY <1>12, <1>15, <1>16, <1>17 DEF Sound

-----------------------------------------------------------------------------
(* The journals there are to begin with.                                   *)
LEMMA LegacySound ==
    ASSUME NEW t \in LegacyJournals
    PROVE  Sound(t) /\ t.generation = 1
<1>1. PICK mode \in Modes, commit \in Commits,
           cp \in LegacyCreatePrs, mg \in LegacyMerges, tag \in LegacyTags :
           t = [NewJournal(mode, commit) EXCEPT !.effects = LegacyEffects(cp, mg, tag)]
    BY DEF LegacyJournals
<1>2. Valid(t) /\ (t.effects["create-pr"].draft = "draft" => ~Planned(t, "merge"))
    BY DEF LegacyJournals
<1>3. ASSUME NEW s \in Statuses, NEW as \in Seq(AttemptStatuses)
      PROVE  /\ LegacyEffect(s, as) \in Effect /\ LegacyEffect(s, as).status = s
             /\ LegacyEffect(s, as).draft = "unset" /\ LegacyEffect(s, as).body = None
    BY DEF LegacyEffect, Unplanned, Effect, Drafts
<1>4. /\ \A s \in {"attempting", "verified", "denied", "blocked", "failed"} :
             s \in Statuses /\ <<s>> \in Seq(AttemptStatuses)
      /\ <<>> \in Seq(AttemptStatuses) /\ "planned" \in Statuses
    BY EmptySeq DEF AttemptStatuses, Statuses
<1>5. ASSUME NEW S \in SUBSET {"attempting", "verified", "denied", "blocked", "failed"},
             NEW x \in Started(S)
      PROVE  x \in Effect /\ x.status \in S /\ x.draft = "unset" /\ x.body = None
  <2>1. PICK s \in S : x = LegacyEffect(s, <<s>>)
      BY DEF Started
  <2>2. PICK as : as = <<s>>
      OBVIOUS
  <2>3. s \in Statuses /\ as \in Seq(AttemptStatuses) /\ x = LegacyEffect(s, as)
      BY <1>4, <2>1, <2>2
  <2>4. /\ LegacyEffect(s, as) \in Effect /\ LegacyEffect(s, as).status = s
        /\ LegacyEffect(s, as).draft = "unset" /\ LegacyEffect(s, as).body = None
      BY ONLY <1>3, <2>3
  <2> QED BY <2>3, <2>4
<1>6. /\ Unplanned \in Effect /\ Unplanned.status = "unplanned"
      /\ Unplanned.body = None
    BY EmptySeq DEF Unplanned, Effect, Statuses, Drafts
<1>7. cp \in Effect /\ cp.status \in {"attempting", "verified"} /\ cp.body = None
  <2>1. PICK ef \in Started({"attempting", "verified"}), draft \in Drafts :
            cp = [ef EXCEPT !.draft = draft]
      BY DEF LegacyCreatePrs
  <2>2. ef \in Effect /\ ef.status \in {"attempting", "verified"} /\ ef.body = None
      BY <1>5
  <2> QED BY <2>1, <2>2 DEF Effect
<1>8. mg \in Effect /\ mg.body = None
  <2>1. LegacyEffect("planned", <<>>) \in Effect /\ LegacyEffect("planned", <<>>).body = None
      BY <1>3, <1>4
  <2> QED BY <1>5, <1>6, <2>1 DEF LegacyMerges
<1>9. tag \in Effect
    BY <1>3, <1>4, <1>5, <1>6 DEF LegacyTags
<1>10. PICK push : push = LegacyEffect("verified", <<"verified">>)
    OBVIOUS
<1>11. push \in Effect /\ push.status = "verified"
    BY <1>3, <1>4, <1>10
<1>12. LegacyEffects(cp, mg, tag) = [e \in Effects |->
           CASE e = "push" -> push [] e = "create-pr" -> cp [] e = "merge" -> mg
             [] e = "place-main-tag" -> tag [] OTHER -> Unplanned]
    BY <1>10 DEF LegacyEffects
<1>13. PICK effects : effects = LegacyEffects(cp, mg, tag)
    OBVIOUS
<1>14. /\ effects \in [Effects -> Effect]
       /\ effects["push"] = push /\ effects["create-pr"] = cp /\ effects["merge"] = mg
       /\ effects["ready-pr"] = Unplanned /\ effects["tracker-update"] = Unplanned
    BY <1>6, <1>7, <1>8, <1>9, <1>11, <1>12, <1>13 DEF Effects
<1>15. t = [generation |-> 1, mode |-> mode, commit |-> commit, candidate |-> FALSE,
            evidence |-> {}, attestation |-> NotAttested, effects |-> effects, history |-> <<>>]
    BY <1>1, <1>13 DEF NewJournal
<1>16. t \in Journal
    BY <1>14, <1>15, EmptySeq DEF Journal, NotAttested, Attestation
<1>17. /\ Verified(t, "push") /\ Status(t, "create-pr") \in {"attempting", "verified"}
       /\ ~Planned(t, "ready-pr") /\ ~Planned(t, "tracker-update")
    BY <1>6, <1>7, <1>11, <1>14, <1>15 DEF Verified, Planned, Status
<1>18. ASSUME NEW e \in Effects, Status(t, e) \in {"attempting", "verified"}
       PROVE  \A d \in DependsOn(e) : Verified(t, d)
  <2>1. Planned(t, e) /\ TargetOK(t, e)
      BY <1>2, <1>18 DEF Valid, Planned
  <2> QED BY <1>17, <2>1 DEF TargetOK, DependsOn, Effects
<1>19. Chain(t)
    BY <1>2, <1>18 DEF Chain, Planned
<1>20. Spent(t) /\ LegacyUnbound(t)
    BY <1>7, <1>8, <1>14, <1>15 DEF Spent, LegacyUnbound, NotAttested
<1> QED BY <1>2, <1>16, <1>19, <1>20, <1>15 DEF Sound

LEMMA NewJournalSound ==
    ASSUME NEW mode \in Modes, NEW commit \in Commits
    PROVE  /\ Sound(NewJournal(mode, commit)) /\ NewJournal(mode, commit).generation = 1
           /\ NoJournal(commit) \in Journal /\ NoJournal(commit).generation = 0
           /\ NothingPlanned(NoJournal(commit))
<1>1. Unplanned \in Effect
    BY EmptySeq DEF Unplanned, Effect, Statuses, Drafts
<1>2. PICK effects : effects = [e \in Effects |-> Unplanned]
    OBVIOUS
<1>3. effects \in [Effects -> Effect]
    BY <1>1, <1>2
<1>4. NotAttested \in Attestation
    BY DEF NotAttested, Attestation
<1>5. ASSUME NEW m \in Modes PROVE NewJournal(m, commit) \in Journal
  <2>1. NewJournal(m, commit) =
           [generation |-> 1, mode |-> m, commit |-> commit, candidate |-> FALSE,
            evidence |-> {}, attestation |-> NotAttested, effects |-> effects, history |-> <<>>]
      BY <1>2 DEF NewJournal
  <2> QED BY <1>3, <1>4, <2>1, EmptySeq DEF Journal
<1>6. Valid(NewJournal(mode, commit))
    BY DEF Valid, Planned, Status, Unplanned, AttestationOK, NotAttested, NewJournal
<1>7. Sound(NewJournal(mode, commit)) /\ NewJournal(mode, commit).generation = 1
    BY <1>5, <1>6, FreshSound DEF NewJournal
<1>8. NoJournal(commit) \in Journal /\ NoJournal(commit).generation = 0
    BY <1>5 DEF NoJournal, Modes, Journal
<1>9. NothingPlanned(NoJournal(commit))
    BY DEF NothingPlanned, NoJournal, NewJournal, NotAttested, Unplanned, Status
<1> QED BY <1>7, <1>8, <1>9

-----------------------------------------------------------------------------
(* The invariant.                                                          *)
LEMMA InitInv == Init => IInv
<1> SUFFICES ASSUME Init PROVE IInv
    OBVIOUS
<1>1. CASE tx \in LegacyJournals
    BY <1>1, LegacySound DEF IInv, Sound, Init
<1>2. ASSUME NEW commit \in Commits, tx = NoJournal(commit) PROVE IInv
    BY <1>2, NewJournalSound DEF IInv, Modes, Init
<1> QED BY <1>1, <1>2 DEF Init

(* What every command but initialize reads.                                *)
LEMMA ReadSound ==
    ASSUME IInv, NEW t, Reads(t)
    PROVE  Sound(t) /\ ~NeedsDraft(t) /\ t.generation > 0 /\ t.generation \in Nat
<1>1. Sound(tx) /\ tx.generation > 0
    BY DEF IInv, Reads
<1>2. Sound(t) /\ t.generation = tx.generation
    BY <1>1, NormalizedSound DEF Reads
<1>3. ~NeedsDraft(t)
    BY <1>1, NormalizedOnce DEF Reads
<1> QED BY <1>1, <1>2, <1>3 DEF Sound, Journal

(* A command that holds the lock, whatever is being initialized.           *)
LEMMA CommandInv ==
    ASSUME IInv, Command, (starting \subseteq Starters)'
    PROVE  IInv'
<1>1. ASSUME NEW t, Sound(t), t.generation > 0, tx' = t PROVE IInv'
    BY <1>1 DEF IInv, Sound
<1>2. CASE Load
    BY <1>1, <1>2, ReadSound DEF Load
<1>3. CASE Attest
  <2>1. PICK t \in {Normalized(tx)} :
            /\ Reads(t) /\ Verified(t, "create-pr") /\ t.effects["create-pr"].body # None
            /\ Status(t, "merge") \notin {"attempting", "verified"}
            /\ Writes([t EXCEPT !.attestation =
                   [held |-> TRUE, body |-> t.effects["create-pr"].body, by |-> 0, fresh |-> TRUE,
                    from |-> Len(Attempts(t, "create-pr"))]])
      BY <1>3 DEF Attest
  <2>2. Sound(t) /\ t.generation > 0
      BY <2>1, ReadSound
  <2> QED BY <1>1, <2>1, <2>2, AttestSound DEF Writes
<1>4. CASE Age
  <2>1. tx' \in Journal /\ tx'.effects = tx.effects /\ tx'.generation = tx.generation
        /\ tx'.candidate = tx.candidate /\ tx'.mode = tx.mode
        /\ tx'.attestation.held = tx.attestation.held /\ tx'.attestation.body = tx.attestation.body
        /\ tx'.attestation.from = tx.attestation.from /\ tx'.attestation.by = tx.attestation.by
      BY <1>4 DEF Age, IInv, Journal, Attestation
  <2>2. CASE tx.generation > 0
    <3>1. /\ Sound(tx) /\ "merge" \in Effects
          /\ Attempts(tx, "merge") \in Seq(AttemptStatuses)
        BY <2>2, EffectTyped DEF IInv, Sound, Effects
    <3>2. Status(tx, "merge") \in {"attempting", "verified"} => Len(Attempts(tx, "merge")) # 0
        BY <3>1, EmptySeq DEF Sound, Valid, Planned, AttemptsOK, LastAttempt
    <3>3. Status(tx, "merge") \in {"attempting", "verified"} => tx.effects["merge"].body = None
        BY <1>4, <3>1, <3>2 DEF Age, Sound, Spent
    <3>4. Valid(tx')
        BY <2>1, <3>1 DEF Sound, Valid, TargetOK, AttemptsOK, AttestationOK, Planned, Verified,
                          Status, Attempts, LastAttempt
    <3>5. Chain(tx') /\ Spent(tx') /\ LegacyUnbound(tx')
        BY <2>1, <3>1, <3>3 DEF Sound, Chain, Spent, LegacyUnbound, Verified, Status
    <3> QED BY <2>1, <2>2, <3>4, <3>5 DEF IInv, Sound
  <2>3. CASE ~(tx.generation > 0)
      BY <1>4, <2>3 DEF Age, IInv, NothingPlanned
  <2> QED BY <2>2, <2>3
<1>5. ASSUME NEW e \in Effects, NEW draft \in Drafts, NEW body \in Bodies \cup {None},
             Plan(e, draft, body)
      PROVE  IInv'
  <2>1. PICK t \in {Normalized(tx)} :
            /\ Reads(t) /\ ~Planned(t, e)
            /\ (draft # "unset") <=> (e = "create-pr")
            /\ Writes([t EXCEPT !.effects[e] = Target(draft, body)])
      BY <1>5 DEF Plan
  <2>2. Sound(t) /\ t.generation > 0
      BY <2>1, ReadSound
  <2> QED BY <1>1, <2>1, <2>2, PlanSound DEF Writes
<1>6. ASSUME NEW e \in Effects, NEW granted \in BOOLEAN, NEW mergeReady \in BOOLEAN,
             Begin(e, granted, mergeReady)
      PROVE  IInv'
  <2>1. PICK t \in {Normalized(tx)} :
            /\ Reads(t) /\ MayBegin(t, e, mergeReady)
            /\ IF granted
               THEN (e = "merge" => MayConsume(t)) /\ Writes(Begun(t, e))
               ELSE Writes([t EXCEPT !.effects[e] = Attempted(@, "denied")])
      BY <1>6 DEF Begin
  <2>2. Sound(t) /\ t.generation > 0
      BY <2>1, ReadSound
  <2>3. ~Verified(t, e) /\ \A d \in DependsOn(e) : Verified(t, d)
      BY <2>1 DEF MayBegin, Verified
  <2>4. CASE ~granted
      BY <1>1, <2>1, <2>2, <2>3, <2>4, DenySound DEF Writes
  <2>5. CASE granted /\ e # "merge"
      BY <1>1, <2>1, <2>2, <2>3, <2>5, BeginSound DEF Writes
  <2>6. CASE granted /\ e = "merge"
    <3>1. Verified(t, "create-pr")
        BY <2>3, <2>6 DEF DependsOn
    <3>2. t.effects["create-pr"].draft = "draft" => Verified(t, "ready-pr")
        BY <2>1, <2>6 DEF MayBegin
    <3> QED BY <1>1, <2>1, <2>2, <2>3, <2>6, <3>1, <3>2, BeginMergeSound DEF Writes
  <2> QED BY <2>4, <2>5, <2>6
<1>7. ASSUME NEW e \in Effects, NEW outcome \in Outcomes, Reconcile(e, outcome)
      PROVE  IInv'
  <2>1. PICK t \in {Normalized(tx)} :
            /\ Reads(t) /\ Status(t, e) = "attempting"
            /\ Writes([t EXCEPT !.effects[e] = Observed(@, outcome)])
      BY <1>7 DEF Reconcile
  <2>2. Sound(t) /\ t.generation > 0
      BY <2>1, ReadSound
  <2> QED BY <1>1, <2>1, <2>2, ReconcileSound DEF Writes
<1>8. ASSUME NEW kind \in Kinds \cup {"candidate"}, BindEvidence(kind)
      PROVE  IInv'
  <2>1. PICK t \in {Normalized(tx)} :
            /\ Reads(t)
            /\ Writes(IF kind = "candidate" THEN [t EXCEPT !.candidate = TRUE]
                                            ELSE [t EXCEPT !.evidence = @ \cup {kind}])
      BY <1>8 DEF BindEvidence
  <2>2. Sound(t) /\ t.generation > 0
      BY <2>1, ReadSound
  <2> QED BY <1>1, <2>1, <2>2, BindSound DEF Writes
<1>9. ASSUME NEW commit \in Commits, Advance(commit)
      PROVE  IInv'
  <2>1. PICK t \in {Normalized(tx)} :
            /\ Reads(t)
            /\ Writes([NewJournal(t.mode, commit) EXCEPT
                   !.generation = t.generation + 1,
                   !.history = Append(t.history, Ambiguous(t))])
      BY <1>9 DEF Advance
  <2>2. Sound(t) /\ t.generation \in Nat
      BY <2>1, ReadSound
  <2>3. PICK n, history : n = t.generation + 1 /\ history = Append(t.history, Ambiguous(t))
      OBVIOUS
  <2>4. n \in Nat /\ n > 0 /\ history \in Seq(SUBSET Effects) /\ t.mode \in Modes
      BY <2>2, <2>3 DEF Sound, Journal, Ambiguous
  <2>5. NewJournal(t.mode, commit) \in Journal
      BY <2>4, NewJournalSound DEF Sound
  <2>6. PICK u : u = [NewJournal(t.mode, commit) EXCEPT !.generation = n, !.history = history]
      OBVIOUS
  <2>7. /\ u \in Journal /\ u.effects = NewJournal(t.mode, commit).effects
        /\ u.attestation = NewJournal(t.mode, commit).attestation /\ u.generation = n
      BY <2>4, <2>5, <2>6 DEF Journal
  <2>8. /\ u.effects = [e \in Effects |-> Unplanned] /\ u.attestation = NotAttested
        /\ Valid(u) /\ tx' = u
      BY <2>1, <2>3, <2>6, <2>7 DEF NewJournal, Writes
  <2> QED BY <1>1, <2>4, <2>7, <2>8, FreshSound
<1>10. ASSUME NEW body \in Bodies, MigratePrBody(body)
       PROVE  IInv'
  <2>1. PICK t \in {Normalized(tx)} :
            /\ Reads(t) /\ Planned(t, "create-pr")
            /\ NeedsBody(t, "create-pr") \/ NeedsBody(t, "merge")
            /\ NeedsBody(t, "merge") => Status(t, "merge") \notin {"attempting", "verified"}
            /\ NeedsBody(t, "create-pr") =>
                   Status(t, "merge") \in {"unplanned", "planned", "attempting", "verified"}
            /\ LET kept == IF NeedsBody(t, "create-pr") THEN WithoutPlan(t.effects) ELSE t.effects
               IN Writes([t EXCEPT !.effects = Bound(kept, body), !.attestation = NotAttested])
      BY <1>10 DEF MigratePrBody
  <2>2. Sound(t) /\ ~NeedsDraft(t) /\ t.generation > 0
      BY <2>1, ReadSound
  <2>3. PICK kept : kept = IF NeedsBody(t, "create-pr") THEN WithoutPlan(t.effects) ELSE t.effects
      OBVIOUS
  <2>4. PICK effects : effects = Bound(kept, body)
      OBVIOUS
  <2>5. PICK u : u = [t EXCEPT !.effects = effects, !.attestation = NotAttested]
      OBVIOUS
  <2>6. Valid(u) /\ tx' = u
      BY <2>1, <2>3, <2>4, <2>5 DEF Writes
  <2>7. /\ NeedsBody(t, "create-pr") => kept = WithoutPlan(t.effects)
        /\ ~NeedsBody(t, "create-pr") => kept = t.effects
      BY <2>3
  <2>8. /\ Sound(t) /\ ~NeedsDraft(t) /\ Planned(t, "create-pr")
        /\ NeedsBody(t, "create-pr") \/ NeedsBody(t, "merge")
        /\ NeedsBody(t, "merge") => Status(t, "merge") \notin {"attempting", "verified"}
        /\ NeedsBody(t, "create-pr") =>
               Status(t, "merge") \in {"unplanned", "planned", "attempting", "verified"}
      BY <2>1, <2>2
  <2>9. Sound(u) /\ u.generation = t.generation
      BY ONLY <2>4, <2>5, <2>6, <2>7, <2>8, MigrateSound
  <2> QED BY <1>1, <2>2, <2>6, <2>9
<1> QED BY <1>2, <1>3, <1>4, <1>5, <1>6, <1>7, <1>8, <1>9, <1>10 DEF Command

LEMMA StepInv == IInv /\ [Next]_vars => IInv'
<1> SUFFICES ASSUME IInv, [Next]_vars PROVE IInv'
    OBVIOUS
<1>1. CASE Command /\ UNCHANGED starting
    BY <1>1, CommandInv DEF IInv
<1>2. ASSUME NEW p \in Starters, InitializeFinds(p) \/ InitializeStops(p)
      PROVE  IInv'
    BY <1>2 DEF InitializeFinds, InitializeStops, IInv
<1>3. ASSUME NEW p \in Starters, NEW mode \in Modes, NEW commit \in Commits,
             InitializeWrites(p, mode, commit)
      PROVE  IInv'
    BY <1>3, NewJournalSound DEF InitializeWrites, IInv, Sound
<1>4. CASE UNCHANGED vars
    BY <1>4 DEF IInv, vars
<1> QED BY <1>1, <1>2, <1>3, <1>4 DEF Next

LEMMA Invariance == Spec => []IInv
BY InitInv, StepInv, PTL DEF Spec

-----------------------------------------------------------------------------
(* The file is a delivery journal, whatever commands run.                  *)
THEOREM Typed == Spec => []TypeOK
<1>1. IInv => TypeOK
    BY DEF IInv, TypeOK
<1> QED BY <1>1, Invariance, PTL

(* What a command has left can be read by the next, as it is and migrated. *)
THEOREM AlwaysLoadable == Spec => []Loadable
<1>1. IInv => Loadable
    BY NormalizedSound DEF IInv, Loadable, Sound
<1> QED BY <1>1, Invariance, PTL

(* An effect that was started or verified rests on verified ones.          *)
THEOREM Chained == Spec => []ChainHolds
<1>1. IInv => ChainHolds
    BY DEF IInv, Sound, Chain, ChainHolds, NothingPlanned
<1> QED BY <1>1, Invariance, PTL

(* A merge that was started spent the attestation of its own body.         *)
THEOREM MergeAttested == Spec => []MergeIsAttested
<1>1. "merge" \in Effects
    BY DEF Effects
<1>2. IInv => MergeIsAttested
    BY <1>1 DEF IInv, Sound, Spent, MergeIsAttested, NothingPlanned
<1> QED BY <1>2, Invariance, PTL

-----------------------------------------------------------------------------
(* The audit trail.  Planning gives an effect a new list of attempts, so   *)
(* that it takes nothing away only because an effect that is not planned   *)
(* has none: another invariant, which normalizing keeps as well.           *)
Blank(t) == \A e \in Effects : Status(t, e) = "unplanned" => Attempts(t, e) = <<>>

AuditInv == Blank(tx) /\ (tx.generation = 0 => tx.history = <<>>)

(* What the target of create-pr records stays recorded.                    *)
Recorded(t, u) ==
    /\ t.effects["create-pr"].draft # "unset" => u.effects["create-pr"].draft # "unset"
    /\ t.effects["create-pr"].body # None => u.effects["create-pr"].body # None

(* The journal u keeps what the journal t of the same generation records.  *)
Keeps(t, u) ==
    /\ u.history = t.history /\ u.generation = t.generation
    /\ Recorded(t, u)
    /\ \A e \in Effects :
           \/ Extended(t.effects[e], u.effects[e])
           \/ e = "merge" /\ Status(t, e) = "planned" /\ TargetCompleted(t, u)

LEMMA ExtendedSame ==
    ASSUME NEW ef, NEW new, ef.attempts \in Seq(AttemptStatuses), new.attempts = ef.attempts
    PROVE  Extended(ef, new)
BY DEF Extended

LEMMA ExtendedByOne ==
    ASSUME NEW ef, NEW new, ef.attempts \in Seq(AttemptStatuses), NEW a \in AttemptStatuses,
           new.attempts = Append(ef.attempts, a)
    PROVE  Extended(ef, new)
<1> DEFINE s == ef.attempts
<1>1. Len(Append(s, a)) = Len(s) + 1 /\ \A i \in 1..Len(s) : Append(s, a)[i] = s[i]
    OBVIOUS
<1> QED BY <1>1 DEF Extended

LEMMA ExtendedTwice ==
    ASSUME NEW a, NEW b, NEW c, a.attempts \in Seq(AttemptStatuses),
           b.attempts \in Seq(AttemptStatuses), c.attempts \in Seq(AttemptStatuses),
           Extended(a, b), Extended(b, c)
    PROVE  Extended(a, c)
<1> DEFINE s == a.attempts
           m == b.attempts
           u == c.attempts
<1>1. Len(s) <= Len(m) /\ Len(m) <= Len(u) /\ Len(s) \in Nat /\ Len(m) \in Nat /\ Len(u) \in Nat
    BY DEF Extended
<1>2. ASSUME NEW i \in DOMAIN s, ~(i = Len(s) /\ s[i] = "attempting")
      PROVE  u[i] = s[i]
  <2>1. m[i] = s[i]
      BY <1>2 DEF Extended
  <2>2. i \in DOMAIN m /\ ~(i = Len(m) /\ m[i] = "attempting")
      BY <1>1, <1>2, <2>1
  <2> QED BY <2>1, <2>2 DEF Extended
<1> QED BY <1>1, <1>2 DEF Extended

(* The only attempt that is settled is the last one, and it is open.       *)
LEMMA ExtendedByOutcome ==
    ASSUME NEW ef \in Effect, ef.attempts # <<>>, ef.attempts[Len(ef.attempts)] = "attempting",
           NEW outcome \in Outcomes
    PROVE  Extended(ef, Observed(ef, outcome)) /\ Observed(ef, outcome).status # "unplanned"
<1>1. PICK status \in Statuses \ {"unplanned"}, end \in AttemptStatuses :
          Observed(ef, outcome) = Settled(ef, status, end)
    BY DEF Observed, Outcomes, Statuses, AttemptStatuses
<1>2. ef.attempts \in Seq(AttemptStatuses) /\ Len(ef.attempts) \in 1..Len(ef.attempts)
    BY EmptySeq DEF Effect
<1> DEFINE as == [ef.attempts EXCEPT ![Len(ef.attempts)] = end]
<1>3. as \in Seq(AttemptStatuses) /\ Len(as) = Len(ef.attempts)
      /\ \A i \in 1..Len(ef.attempts) : i # Len(ef.attempts) => as[i] = ef.attempts[i]
    BY <1>2, ExceptSeq
<1>4. Settled(ef, status, end) = [ef EXCEPT !.status = status, !.attempts = as]
    BY DEF Settled, Effect
<1> HIDE DEF as
<1>5. Settled(ef, status, end).attempts = as /\ Settled(ef, status, end).status = status
    BY <1>4 DEF Effect
<1>6. PICK new : new = Settled(ef, status, end)
    OBVIOUS
<1>7. Len(ef.attempts) <= Len(new.attempts) /\ DOMAIN ef.attempts = 1..Len(ef.attempts)
  <2>1. Len(new.attempts) = Len(ef.attempts)
      BY <1>3, <1>5, <1>6
  <2>2. Len(ef.attempts) \in Nat /\ DOMAIN ef.attempts = 1..Len(ef.attempts)
      BY ONLY <1>2
  <2> QED BY ONLY <2>1, <2>2
<1>8. \A i \in 1..Len(ef.attempts) : \/ new.attempts[i] = ef.attempts[i]
                                     \/ i = Len(ef.attempts) /\ ef.attempts[i] = "attempting"
  <2>1. new.attempts = as
      BY <1>5, <1>6
  <2>2. PICK n : n = Len(ef.attempts)
      OBVIOUS
  <2>3. \A i \in 1..n : i # n => as[i] = ef.attempts[i]
      BY <1>3, <2>2
  <2>4. ef.attempts[n] = "attempting"
      BY <2>2
  <2> QED BY ONLY <2>1, <2>2, <2>3, <2>4
<1>9. Extended(ef, new)
    BY <1>7, <1>8 DEF Extended
<1> QED BY <1>1, <1>5, <1>6, <1>9

LEMMA KeepsTwice ==
    ASSUME NEW r \in Journal, NEW t \in Journal, NEW u \in Journal, Keeps(r, t), Keeps(t, u),
           Status(t, "merge") = "planned" => Status(r, "merge") = "planned"
    PROVE  Keeps(r, u)
<1>1. /\ Recorded(r, t) /\ Recorded(t, u) /\ Recorded(r, u)
      /\ TargetCompleted(r, t) \/ TargetCompleted(t, u) => TargetCompleted(r, u)
    BY DEF Keeps, Recorded, TargetCompleted
<1> SUFFICES ASSUME NEW e \in Effects,
                    ~(e = "merge" /\ Status(r, e) = "planned" /\ TargetCompleted(r, u))
             PROVE  Extended(r.effects[e], u.effects[e])
    BY <1>1 DEF Keeps
<1>2. Extended(r.effects[e], t.effects[e]) /\ Extended(t.effects[e], u.effects[e])
    BY <1>1 DEF Keeps
<1>3. /\ r.effects[e].attempts \in Seq(AttemptStatuses)
      /\ t.effects[e].attempts \in Seq(AttemptStatuses)
      /\ u.effects[e].attempts \in Seq(AttemptStatuses)
    BY EffectTyped DEF Attempts
<1> QED BY <1>2, <1>3, ExtendedTwice

(* A command that changes one effect and leaves it planned.                *)
LEMMA ChangeKeeps ==
    ASSUME NEW t \in Journal, Blank(t), NEW e \in Effects, NEW x, x.status # "unplanned",
           Extended(t.effects[e], x), NEW u, u.history = t.history,
           e = "create-pr" => /\ t.effects[e].draft # "unset" => x.draft # "unset"
                              /\ t.effects[e].body # None => x.body # None,
           u.generation = t.generation, u.effects = [t.effects EXCEPT ![e] = x]
    PROVE  Keeps(t, u) /\ Blank(u)
<1>1. /\ u.effects[e] = x
      /\ \A f \in Effects \ {e} : u.effects[f] = t.effects[f]
    BY DEF Journal
<1>2. \A f \in Effects : t.effects[f].attempts \in Seq(AttemptStatuses)
    BY EffectTyped DEF Attempts
<1>3. \A f \in Effects : Extended(t.effects[f], u.effects[f])
    BY <1>1, <1>2, ExtendedSame
<1>4. Blank(u)
    BY <1>1 DEF Blank, Status, Attempts
<1>5. Recorded(t, u)
    BY <1>1 DEF Recorded, Effects
<1> QED BY <1>3, <1>4, <1>5 DEF Keeps

(* A command that leaves the effects alone.                                *)
LEMMA SameKeeps ==
    ASSUME NEW t \in Journal, Blank(t), NEW u, u.history = t.history,
           u.generation = t.generation, u.effects = t.effects
    PROVE  Keeps(t, u) /\ Blank(u)
<1>1. \A f \in Effects : t.effects[f].attempts \in Seq(AttemptStatuses)
    BY EffectTyped DEF Attempts
<1>2. \A f \in Effects : Extended(t.effects[f], u.effects[f])
    BY <1>1, ExtendedSame
<1> QED BY <1>2 DEF Keeps, Recorded, Blank, Status, Attempts

(* create-pr is observed again, and a merge that was only planned may go   *)
(* if that completes the target of create-pr.                              *)
LEMMA ReopenKeeps ==
    ASSUME NEW t \in Journal, Blank(t), NEW kept, kept \in {t.effects, WithoutPlan(t.effects)},
           NEW x, NEW y, y \in {t.effects["create-pr"], Reopened(t.effects["create-pr"])},
           x.status = y.status, x.attempts = y.attempts,
           t.effects["create-pr"].draft # "unset" => x.draft # "unset",
           t.effects["create-pr"].body # None => x.body # None,
           \/ kept = t.effects
           \/ t.effects["create-pr"].draft = "unset" /\ x.draft # "unset"
           \/ t.effects["create-pr"].body = None /\ x.body # None,
           NEW z, z.status = kept["merge"].status, z.attempts = kept["merge"].attempts,
           NEW u, u.history = t.history, u.generation = t.generation,
           u.effects = [kept EXCEPT !["create-pr"] = x, !["merge"] = z]
    PROVE  Keeps(t, u) /\ Blank(u)
<1>1. /\ "create-pr" \in Effects /\ "merge" \in Effects /\ t.effects \in [Effects -> Effect]
      /\ t.effects["create-pr"] \in Effect /\ t.effects["merge"] \in Effect
      /\ \A f \in Effects : t.effects[f].attempts \in Seq(AttemptStatuses)
    BY EffectTyped DEF Effects, Journal, Attempts
<1>2. /\ kept \in [Effects -> Effect]
      /\ \A f \in Effects \ {"merge"} : kept[f] = t.effects[f]
      /\ kept["merge"] # t.effects["merge"] =>
             t.effects["merge"].status = "planned" /\ kept["merge"] = Unplanned
    BY <1>1, WithoutPlanTyped
<1>3. /\ u.effects["create-pr"] = x /\ u.effects["merge"] = z
      /\ \A f \in Effects \ {"create-pr", "merge"} : u.effects[f] = t.effects[f]
    BY <1>1, <1>2
<1>4. Extended(t.effects["create-pr"], x)
      /\ (x.status = "unplanned" => t.effects["create-pr"].status = "unplanned"
                                    /\ x.attempts = t.effects["create-pr"].attempts)
  <2>1. \/ x.attempts = t.effects["create-pr"].attempts /\ x.status = t.effects["create-pr"].status
        \/ /\ x.attempts = Append(t.effects["create-pr"].attempts, "attempting")
           /\ x.status = "attempting"
      BY <1>1, ReopenedTyped
  <2>2. "attempting" \in AttemptStatuses
      BY DEF AttemptStatuses
  <2> QED BY <1>1, <2>1, <2>2, ExtendedSame, ExtendedByOne
<1>5. \/ Extended(t.effects["merge"], z)
      \/ t.effects["merge"].status = "planned" /\ kept # t.effects
    BY <1>1, <1>2, ExtendedSame
<1>6. Recorded(t, u) /\ (kept # t.effects => TargetCompleted(t, u))
    BY <1>3 DEF Recorded, TargetCompleted
<1>7. /\ z.status = "unplanned" => z.attempts = <<>>
      /\ x.status = "unplanned" => x.attempts = <<>>
  <2>1. \A f \in Effects : t.effects[f].status = "unplanned" => t.effects[f].attempts = <<>>
      BY DEF Blank, Status, Attempts
  <2>2. Unplanned.attempts = <<>>
      BY DEF Unplanned
  <2>3. kept["merge"] = t.effects["merge"] \/ kept["merge"] = Unplanned
      BY ONLY <1>2
  <2>4. kept["merge"].status = "unplanned" => kept["merge"].attempts = <<>>
      BY ONLY <1>1, <2>1, <2>2, <2>3
  <2> QED BY ONLY <1>1, <1>4, <2>1, <2>4, z.status = kept["merge"].status,
                  z.attempts = kept["merge"].attempts
<1>8. Blank(u)
  <2> SUFFICES ASSUME NEW f \in Effects, u.effects[f].status = "unplanned"
               PROVE  u.effects[f].attempts = <<>>
      BY DEF Blank, Status, Attempts
  <2>1. CASE f \in {"create-pr", "merge"}
      BY <1>3, <1>7, <2>1
  <2>2. CASE f \notin {"create-pr", "merge"}
    <3>1. u.effects[f] = t.effects[f]
        BY <1>3, <2>2
    <3>2. t.effects[f].status = "unplanned" => t.effects[f].attempts = <<>>
        BY DEF Blank, Status, Attempts
    <3> QED BY ONLY <3>1, <3>2, u.effects[f].status = "unplanned"
  <2> QED BY <2>1, <2>2
<1>9. \A f \in Effects \ {"create-pr", "merge"} : Extended(t.effects[f], u.effects[f])
    BY <1>1, <1>3, ExtendedSame
<1> QED BY <1>3, <1>4, <1>5, <1>8, <1>9, <1>6 DEF Keeps, Status

LEMMA NormalizedKeeps ==
    ASSUME NEW t, Sound(t), Blank(t)
    PROVE  /\ Keeps(t, Normalized(t)) /\ Blank(Normalized(t))
           /\ Status(Normalized(t), "merge") = "planned" => Status(t, "merge") = "planned"
<1>1. /\ "create-pr" \in Effects /\ "merge" \in Effects
      /\ t \in Journal /\ t.effects \in [Effects -> Effect]
      /\ t.effects["create-pr"] \in Effect
    BY DEF Sound, Effects, Journal
<1>2. PICK u : u = Normalized(t)
    OBVIOUS
<1>3. CASE ~NeedsDraft(t)
    BY <1>1, <1>3, SameKeeps DEF Normalized
<1>4. CASE NeedsDraft(t) /\ Verified(t, "merge")
  <2>1. u = [t EXCEPT !.effects["create-pr"].draft = "final"]
      BY <1>2, <1>4 DEF Normalized
  <2>2. PICK x : x = [t.effects["create-pr"] EXCEPT !.draft = "final"]
      OBVIOUS
  <2>3. /\ u.history = t.history /\ u.generation = t.generation
        /\ u.effects = [t.effects EXCEPT !["create-pr"] = x]
        /\ x.status = t.effects["create-pr"].status
        /\ x.attempts = t.effects["create-pr"].attempts
        /\ x.draft = "final" /\ x.body = t.effects["create-pr"].body
      BY <1>1, <2>1, <2>2 DEF Journal, Effect
  <2>4. x.status # "unplanned"
      BY <1>4, <2>3 DEF NeedsDraft, Planned, Status
  <2>5. Extended(t.effects["create-pr"], x)
      BY <1>1, <2>3, ExtendedSame, EffectTyped DEF Attempts
  <2>6. Status(u, "merge") = Status(t, "merge")
      BY <1>1, <2>3 DEF Status
  <2> QED BY <1>1, <1>2, <2>3, <2>4, <2>5, <2>6, ChangeKeeps
<1>5. CASE NeedsDraft(t) /\ ~Verified(t, "merge")
  <2>1. PICK kept : kept = WithoutPlan(t.effects)
      OBVIOUS
  <2>2. /\ kept \in [Effects -> Effect] /\ kept["create-pr"] = t.effects["create-pr"]
        /\ kept["merge"].status # "planned"
      BY <1>1, <2>1, WithoutPlanTyped DEF Unplanned
  <2>3. PICK y : y = Reopened(t.effects["create-pr"])
      OBVIOUS
  <2>4. PICK x : x = [y EXCEPT !.draft = "final"]
      OBVIOUS
  <2>5. /\ x.status = y.status /\ x.attempts = y.attempts
        /\ x.draft = "final" /\ x.body = t.effects["create-pr"].body
        /\ t.effects["create-pr"].draft = "unset"
      BY <1>1, <1>5, <2>3, <2>4, ReopenedTyped DEF Effect, NeedsDraft
  <2>6. u = [t EXCEPT !.effects = [kept EXCEPT !["create-pr"] = x]]
      BY <1>2, <1>5, <2>1, <2>2, <2>3, <2>4 DEF Normalized
  <2>7. /\ u.history = t.history /\ u.generation = t.generation
        /\ u.effects = [kept EXCEPT !["create-pr"] = x]
      BY <1>1, <2>6 DEF Journal
  <2>8. u.effects = [kept EXCEPT !["create-pr"] = x, !["merge"] = kept["merge"]]
      BY <1>1, <2>2, <2>7
  <2>9. Keeps(t, u) /\ Blank(u)
      BY <1>1, <2>1, <2>3, <2>5, <2>7, <2>8, ReopenKeeps
  <2>10. Status(u, "merge") # "planned"
      BY <1>1, <2>2, <2>7 DEF Status
  <2> QED BY <1>2, <2>9, <2>10
<1> QED BY <1>3, <1>4, <1>5

(* A command that keeps what it reads keeps what is stored.                *)
LEMMA CommandKeeps ==
    ASSUME IInv, AuditInv, NEW t, Reads(t), NEW u \in Journal,
           Blank(t) => Keeps(t, u) /\ Blank(u)
    PROVE  Keeps(tx, u) /\ Blank(u) /\ u.generation > 0
<1>1. Sound(tx) /\ Blank(tx) /\ tx.generation > 0 /\ t = Normalized(tx)
    BY DEF IInv, AuditInv, Reads
<1>2. /\ Keeps(tx, t) /\ Blank(t)
      /\ Status(t, "merge") = "planned" => Status(tx, "merge") = "planned"
    BY <1>1, NormalizedKeeps
<1>3. tx \in Journal /\ t \in Journal
    BY ReadSound DEF IInv, Sound
<1>4. Keeps(tx, u)
    BY <1>2, <1>3, KeepsTwice
<1> QED BY <1>1, <1>2, <1>4 DEF Keeps

(* What is recorded after a step, by the generation it ends in.            *)
Audited == /\ IsPrefix(tx.history, tx'.history)
           /\ tx.generation > 0 /\ tx'.generation = tx.generation =>
                  \A e \in Effects :
                      \/ Extended(tx.effects[e], tx'.effects[e])
                      \/ e = "merge" /\ Status(tx, e) = "planned" /\ TargetCompleted(tx, tx')

LEMMA PrefixOfLonger ==
    ASSUME NEW S, NEW s \in Seq(S), NEW x \in S
    PROVE  IsPrefix(s, s) /\ IsPrefix(s, Append(s, x)) /\ IsPrefix(<<>>, s)
<1>1. IsPrefix(s, s)
    BY DEF IsPrefix
<1>2. Append(s, x) \in Seq(S) /\ Len(Append(s, x)) = Len(s) + 1 /\ Len(s) \in Nat
      /\ \A i \in 1..Len(s) : Append(s, x)[i] = s[i]
    OBVIOUS
<1>3. SubSeq(s, 1, Len(s)) = SubSeq(Append(s, x), 1, Len(s))
    BY <1>2
<1>4. IsPrefix(s, Append(s, x))
    BY <1>2, <1>3 DEF IsPrefix
<1>5. Len(<<>>) = 0 /\ SubSeq(<<>>, 1, 0) = SubSeq(s, 1, 0)
    OBVIOUS
<1>6. IsPrefix(<<>>, s)
    BY <1>2, <1>5 DEF IsPrefix
<1> QED BY <1>1, <1>4, <1>6

LEMMA KeepsAudited ==
    ASSUME IInv, NEW u, tx' = u, Keeps(tx, u), Blank(u), u.generation > 0
    PROVE  Audited /\ AuditInv'
<1>1. tx.history \in Seq(SUBSET Effects) /\ {} \in SUBSET Effects
    BY DEF IInv, Journal
<1>2. IsPrefix(tx.history, tx'.history)
    BY <1>1, PrefixOfLonger DEF Keeps
<1> QED BY <1>2 DEF Audited, AuditInv, Keeps

LEMMA CommandAudited ==
    ASSUME IInv, AuditInv, NEW t, Reads(t), NEW u \in Journal, tx' = u,
           Blank(t) => Keeps(t, u) /\ Blank(u)
    PROVE  Audited /\ AuditInv'
<1>1. Keeps(tx, u) /\ Blank(u) /\ u.generation > 0
    BY CommandKeeps
<1> QED BY <1>1, KeepsAudited

LEMMA LegacyBlank ==
    ASSUME NEW t \in LegacyJournals
    PROVE  Blank(t)
<1>1. ASSUME NEW e \in Effects, NEW u, u.effects[e] = Unplanned
      PROVE  Attempts(u, e) = <<>>
    BY <1>1 DEF Attempts, Unplanned
<1>2. PICK mode \in Modes, commit \in Commits,
           cp \in LegacyCreatePrs, mg \in LegacyMerges, tag \in LegacyTags :
           t = [NewJournal(mode, commit) EXCEPT !.effects = LegacyEffects(cp, mg, tag)]
    BY DEF LegacyJournals
<1>3. t.effects = LegacyEffects(cp, mg, tag)
    BY <1>2 DEF NewJournal
<1>4. ASSUME NEW s, NEW as PROVE LegacyEffect(s, as).status = s
    BY DEF LegacyEffect, Unplanned
<1>5. ASSUME NEW S, "unplanned" \notin S, NEW x \in Started(S)
      PROVE  x.status # "unplanned"
  <2>1. PICK s \in S : x = LegacyEffect(s, <<s>>)
      BY <1>5 DEF Started
  <2>2. x.status = s
      BY <1>4, <2>1
  <2> QED BY <1>5, <2>2
<1>6. /\ LegacyEffect("verified", <<"verified">>).status # "unplanned"
      /\ LegacyEffect("planned", <<>>).status # "unplanned"
    BY <1>4
<1>7. /\ cp.status # "unplanned" /\ (mg.status # "unplanned" \/ mg = Unplanned)
      /\ (tag.status # "unplanned" \/ tag = Unplanned)
  <2>1. cp.status # "unplanned"
    <3>1. PICK draft \in Drafts, ef \in Started({"attempting", "verified"}) :
              cp = [ef EXCEPT !.draft = draft]
        BY DEF LegacyCreatePrs
    <3>2. PICK s : ef = LegacyEffect(s, <<s>>)
        BY <3>1 DEF Started
    <3>3. cp.status = ef.status
        BY <3>1, <3>2 DEF LegacyEffect, Unplanned
    <3> QED BY <1>5, <3>3
  <2>2. mg.status # "unplanned" \/ mg = Unplanned
      BY <1>5, <1>6 DEF LegacyMerges
  <2>3. tag.status # "unplanned" \/ tag = Unplanned
      BY <1>5 DEF LegacyTags
  <2> QED BY <2>1, <2>2, <2>3
<1>8. \A e \in Effects : t.effects[e].status # "unplanned" \/ t.effects[e] = Unplanned
    BY <1>3, <1>6, <1>7 DEF LegacyEffects, Effects
<1> QED BY <1>1, <1>8 DEF Blank, Status

LEMMA InitAudit == Init => AuditInv
<1> SUFFICES ASSUME Init PROVE AuditInv
    OBVIOUS
<1>1. CASE tx \in LegacyJournals
    BY <1>1, LegacySound, LegacyBlank DEF AuditInv
<1>2. ASSUME NEW commit \in Commits, tx = NoJournal(commit) PROVE AuditInv
    BY <1>2 DEF AuditInv, Blank, Status, Attempts, NoJournal, NewJournal, Unplanned
<1> QED BY <1>1, <1>2 DEF Init

LEMMA CommandsAudited ==
    ASSUME IInv, AuditInv, Command, UNCHANGED starting
    PROVE  Audited /\ AuditInv'
<1>1. IInv' /\ tx' \in Journal
    BY CommandInv DEF IInv
<1>2. ASSUME NEW t, Reads(t), NEW u, tx' = u, Blank(t) => Keeps(t, u) /\ Blank(u)
      PROVE  Audited /\ AuditInv'
    BY <1>1, <1>2, CommandAudited
<1>3. ASSUME NEW t, Reads(t) PROVE t \in Journal /\ t.effects \in [Effects -> Effect] /\ Sound(t)
    BY <1>3, ReadSound DEF Sound, Journal
<1>4. CASE Load
  <2>1. PICK t : Reads(t) /\ tx' = t
      BY <1>4 DEF Load
  <2>2. Blank(t) => Keeps(t, t) /\ Blank(t)
      BY <1>3, <2>1, SameKeeps
  <2> QED BY <1>2, <2>1, <2>2
<1>5. CASE Attest
  <2>1. PICK t, a : Reads(t) /\ tx' = [t EXCEPT !.attestation = a]
      BY <1>5 DEF Attest, Writes
  <2>2. /\ tx'.history = t.history /\ tx'.generation = t.generation
        /\ tx'.effects = t.effects
      BY <1>3, <2>1 DEF Journal
  <2>3. Blank(t) => Keeps(t, tx') /\ Blank(tx')
      BY <1>3, <2>1, <2>2, SameKeeps
  <2> QED BY <1>2, <2>1, <2>3
<1>6. CASE Age
  <2>1. /\ tx'.history = tx.history /\ tx'.generation = tx.generation
        /\ tx'.effects = tx.effects /\ tx \in Journal /\ Blank(tx)
      BY <1>6 DEF Age, IInv, AuditInv, Journal
  <2>2. Keeps(tx, tx') /\ Blank(tx')
      BY <2>1, SameKeeps
  <2>3. CASE tx.generation > 0
      BY <2>1, <2>2, <2>3, KeepsAudited
  <2>4. CASE ~(tx.generation > 0)
    <3>1. tx.history \in Seq(SUBSET Effects) /\ {} \in SUBSET Effects
        BY <2>1 DEF Journal
    <3> QED BY <2>1, <2>2, <2>4, <3>1, PrefixOfLonger DEF Audited, AuditInv
  <2> QED BY <2>3, <2>4
<1>7. ASSUME NEW e \in Effects, NEW draft \in Drafts, NEW body \in Bodies \cup {None},
             Plan(e, draft, body)
      PROVE  Audited /\ AuditInv'
  <2>1. PICK t : /\ Reads(t) /\ ~Planned(t, e)
                 /\ (draft # "unset") <=> (e = "create-pr")
                 /\ (body # None) <=> (e \in {"create-pr", "merge"})
                 /\ tx' = [t EXCEPT !.effects[e] = Target(draft, body)]
      BY <1>7 DEF Plan, Writes
  <2>2. PICK x : x = Target(draft, body)
      OBVIOUS
  <2>3. /\ tx'.history = t.history /\ tx'.generation = t.generation
        /\ tx'.effects = [t.effects EXCEPT ![e] = x] /\ x.status # "unplanned"
        /\ e = "create-pr" => x.draft # "unset" /\ x.body # None
      BY <1>3, <2>1, <2>2 DEF Journal, Target
  <2>4. Blank(t) => Extended(t.effects[e], x)
    <3> SUFFICES ASSUME Blank(t) PROVE Extended(t.effects[e], x)
        OBVIOUS
    <3>1. t.effects[e].attempts = <<>>
        BY <2>1 DEF Blank, Planned, Status, Attempts
    <3>2. x.attempts = <<>> /\ <<>> \in Seq(AttemptStatuses)
        BY <2>2, EmptySeq DEF Target
    <3> QED BY <3>1, <3>2, ExtendedSame
  <2>5. Blank(t) => Keeps(t, tx') /\ Blank(tx')
    <3>1. t \in Journal
        BY <1>3, <2>1
    <3>2. ASSUME Blank(t) PROVE Keeps(t, tx') /\ Blank(tx')
        BY ONLY <2>3, <2>4, <3>1, <3>2, e \in Effects, ChangeKeeps
    <3> QED BY <3>2
  <2> QED BY <1>2, <2>1, <2>5
<1>8. ASSUME NEW e \in Effects, NEW granted \in BOOLEAN, NEW mergeReady \in BOOLEAN,
             Begin(e, granted, mergeReady)
      PROVE  Audited /\ AuditInv'
  <2>1. PICK t : /\ Reads(t)
                 /\ \/ tx' = Begun(t, e)
                    \/ tx' = [t EXCEPT !.effects[e] = Attempted(@, "denied")]
      BY <1>8 DEF Begin, Writes
  <2>2. t \in Journal /\ t.effects[e] \in Effect /\ t.effects[e].attempts \in Seq(AttemptStatuses)
      BY <1>3, <2>1, EffectTyped DEF Attempts
  <2>3. PICK outcome \in {"attempting", "denied"} :
            /\ tx'.history = t.history /\ tx'.generation = t.generation
            /\ tx'.effects = [t.effects EXCEPT ![e] = Attempted(@, outcome)]
    <3>1. CASE tx' = Begun(t, e)
        BY <2>2, <3>1 DEF Begun, Journal
    <3>2. CASE tx' = [t EXCEPT !.effects[e] = Attempted(@, "denied")]
        BY <2>2, <3>2 DEF Journal
    <3> QED BY <2>1, <3>1, <3>2
  <2> DEFINE x == Attempted(t.effects[e], outcome)
  <2>4. /\ x.status # "unplanned" /\ x.attempts = Append(t.effects[e].attempts, outcome)
        /\ x.draft = t.effects[e].draft /\ x.body = t.effects[e].body
        /\ outcome \in AttemptStatuses
      BY <2>2, <2>3 DEF Attempted, Effect, AttemptStatuses
  <2>5. Extended(t.effects[e], x) /\ tx'.effects = [t.effects EXCEPT ![e] = x]
      BY <2>2, <2>3, <2>4, ExtendedByOne
  <2> HIDE DEF x
  <2>6. Blank(t) => Keeps(t, tx') /\ Blank(tx')
      BY <2>2, <2>3, <2>4, <2>5, ChangeKeeps
  <2> QED BY <1>2, <2>1, <2>6
<1>9. ASSUME NEW e \in Effects, NEW outcome \in Outcomes, Reconcile(e, outcome)
      PROVE  Audited /\ AuditInv'
  <2>1. PICK t : /\ Reads(t) /\ Status(t, e) = "attempting"
                 /\ tx' = [t EXCEPT !.effects[e] = Observed(@, outcome)]
      BY <1>9 DEF Reconcile, Writes
  <2>2. PICK x : x = Observed(t.effects[e], outcome)
      OBVIOUS
  <2>3. Sound(t) /\ t \in Journal /\ t.effects[e] \in Effect
      BY <1>3, <2>1
  <2>4. /\ t.effects[e].attempts # <<>>
        /\ t.effects[e].attempts[Len(t.effects[e].attempts)] = "attempting"
      BY <2>1, <2>3 DEF Sound, Valid, Planned, AttemptsOK, LastAttempt, Attempts
  <2>5. /\ Extended(t.effects[e], x) /\ x.status # "unplanned"
        /\ x.draft = t.effects[e].draft /\ x.body = t.effects[e].body
      BY <2>2, <2>3, <2>4, ExtendedByOutcome, ObservedTyped
  <2>6. /\ tx'.history = t.history /\ tx'.generation = t.generation
        /\ tx'.effects = [t.effects EXCEPT ![e] = x]
      BY <2>1, <2>2, <2>3 DEF Journal
  <2>7. Blank(t) => Keeps(t, tx') /\ Blank(tx')
      BY <2>3, <2>5, <2>6, ChangeKeeps
  <2> QED BY <1>2, <2>1, <2>7
<1>10. ASSUME NEW kind \in Kinds \cup {"candidate"}, BindEvidence(kind)
       PROVE  Audited /\ AuditInv'
  <2>1. PICK t : /\ Reads(t)
                 /\ \/ tx' = [t EXCEPT !.candidate = TRUE]
                    \/ tx' = [t EXCEPT !.evidence = @ \cup {kind}]
      BY <1>10 DEF BindEvidence, Writes
  <2>2. /\ tx'.history = t.history /\ tx'.generation = t.generation
        /\ tx'.effects = t.effects
      BY <1>3, <2>1 DEF Journal
  <2>3. Blank(t) => Keeps(t, tx') /\ Blank(tx')
      BY <1>3, <2>1, <2>2, SameKeeps
  <2> QED BY <1>2, <2>1, <2>3
<1>11. ASSUME NEW commit \in Commits, Advance(commit)
       PROVE  Audited /\ AuditInv'
  <2>1. PICK t, u : /\ Reads(t) /\ tx' = u
                    /\ u = [NewJournal(t.mode, commit) EXCEPT
                              !.generation = t.generation + 1,
                              !.history = Append(t.history, Ambiguous(t))]
      BY <1>11 DEF Advance, Writes
  <2>2. /\ u.history = Append(t.history, Ambiguous(t)) /\ u.generation = t.generation + 1
        /\ u.effects = [e \in Effects |-> Unplanned]
      BY <2>1 DEF NewJournal
  <2>3. Keeps(tx, t)
      BY <2>1, NormalizedKeeps DEF IInv, AuditInv, Reads
  <2>4. /\ tx.history \in Seq(SUBSET Effects) /\ Ambiguous(t) \in SUBSET Effects
        /\ t.history = tx.history /\ t.generation = tx.generation /\ tx.generation \in Nat
      BY <2>3 DEF IInv, Journal, Ambiguous, Keeps
  <2>5. IsPrefix(tx.history, tx'.history)
      BY <2>1, <2>2, <2>4, PrefixOfLonger
  <2>6. Audited
      BY <2>1, <2>2, <2>4, <2>5 DEF Audited
  <2>7. Blank(u)
      BY <2>2 DEF Blank, Status, Attempts, Unplanned
  <2> QED BY <2>1, <2>2, <2>4, <2>6, <2>7 DEF AuditInv
<1>12. ASSUME NEW body \in Bodies, MigratePrBody(body)
       PROVE  Audited /\ AuditInv'
  <2>1. PICK t, kept, effects :
            /\ Reads(t) /\ kept \in {t.effects, WithoutPlan(t.effects)}
            /\ kept = t.effects \/ NeedsBody(t, "create-pr")
            /\ effects = Bound(kept, body)
            /\ tx' = [t EXCEPT !.effects = effects, !.attestation = NotAttested]
      BY <1>12 DEF MigratePrBody, Writes
  <2>2. /\ "create-pr" \in Effects /\ "merge" \in Effects
        /\ t \in Journal /\ t.effects \in [Effects -> Effect]
        /\ t.effects["create-pr"] \in Effect
      BY <1>3, <2>1 DEF Effects
  <2>3. /\ kept \in [Effects -> Effect] /\ kept["create-pr"] = t.effects["create-pr"]
      BY <2>1, <2>2, WithoutPlanTyped
  <2>4. PICK y : y = IF kept["create-pr"].body = None THEN Reopened(kept["create-pr"])
                                                      ELSE kept["create-pr"]
      OBVIOUS
  <2>5. y \in {t.effects["create-pr"], Reopened(t.effects["create-pr"])} /\ y \in Effect
      BY <2>2, <2>3, <2>4, ReopenedTyped
  <2>6. PICK x : x = IF kept["create-pr"].body = None
                     THEN [Reopened(kept["create-pr"]) EXCEPT !.body = body]
                     ELSE kept["create-pr"]
      OBVIOUS
  <2>7. /\ x.status = y.status /\ x.attempts = y.attempts
        /\ x.draft = t.effects["create-pr"].draft /\ x.body # None
    <3>1. y.draft = t.effects["create-pr"].draft /\ body # None
        BY <2>2, <2>5, ReopenedTyped, NoneIsFresh
    <3> QED BY <2>3, <2>4, <2>5, <2>6, <3>1 DEF Effect
  <2>8. kept = t.effects \/ t.effects["create-pr"].body = None
      BY <2>1 DEF NeedsBody
  <2>9. PICK z : z = IF kept["merge"].status = "unplanned" THEN kept["merge"]
                     ELSE [kept["merge"] EXCEPT !.body = body]
      OBVIOUS
  <2>10. z.status = kept["merge"].status /\ z.attempts = kept["merge"].attempts
      BY <2>2, <2>3, <2>9 DEF Effect
  <2>11. effects = [kept EXCEPT !["create-pr"] = x, !["merge"] = z]
      BY <2>1, <2>2, <2>3, <2>6, <2>9 DEF Bound
  <2>12. /\ tx'.history = t.history /\ tx'.generation = t.generation
         /\ tx'.effects = effects
      BY <2>1, <2>2 DEF Journal
  <2>13. Blank(t) => Keeps(t, tx') /\ Blank(tx')
    <3>1. PICK u : u = tx'
        OBVIOUS
    <3>2. u.effects = [kept EXCEPT !["create-pr"] = x, !["merge"] = z]
        BY <2>11, <2>12, <3>1
    <3>3. u.history = t.history /\ u.generation = t.generation
        BY <2>12, <3>1
    <3>4. kept \in {t.effects, WithoutPlan(t.effects)}
        BY <2>1
    <3>5. ASSUME Blank(t) PROVE Keeps(t, u) /\ Blank(u)
        BY ONLY <2>2, <2>5, <2>7, <2>10, <2>8, <3>2, <3>3, <3>4, <3>5, ReopenKeeps
    <3> QED BY <3>1, <3>5
  <2> QED BY <1>2, <2>1, <2>13
<1> QED BY <1>4, <1>5, <1>6, <1>7, <1>8, <1>9, <1>10, <1>11, <1>12 DEF Command

LEMMA StepAudited ==
    ASSUME IInv, AuditInv, [Next]_vars
    PROVE  (vars' # vars => (starting' = starting => Audited)) /\ AuditInv'
<1>1. CASE Command /\ UNCHANGED starting
    BY <1>1, CommandsAudited
<1>2. ASSUME NEW p \in Starters, InitializeFinds(p) \/ InitializeStops(p)
      PROVE  starting' # starting /\ AuditInv'
    BY <1>2 DEF InitializeFinds, InitializeStops, AuditInv, Blank, Status, Attempts
<1>3. ASSUME NEW p \in Starters, NEW mode \in Modes, NEW commit \in Commits,
             InitializeWrites(p, mode, commit)
      PROVE  starting' # starting /\ AuditInv'
  <2>1. tx'.generation = 1 /\ tx'.effects = [e \in Effects |-> Unplanned]
      BY <1>3 DEF InitializeWrites, NewJournal
  <2>2. starting' # starting
      BY <1>3 DEF InitializeWrites
  <2> QED BY <2>1, <2>2 DEF AuditInv, Blank, Status, Attempts, Unplanned
<1>4. CASE UNCHANGED vars
    BY <1>4 DEF AuditInv, Blank, Status, Attempts, vars
<1> QED BY <1>1, <1>2, <1>3, <1>4 DEF Next

(* Unless initialize writes over the journal, no attempt disappears, save  *)
(* those of a planned merge when the target of create-pr is completed, and *)
(* none changes once its outcome is known; what an advance left ambiguous  *)
(* stays in the history.                                                   *)
THEOREM AuditIsKept == Spec => AuditKept
<1>1. IInv /\ AuditInv /\ [Next]_vars => AuditInv' /\ [starting' = starting => Audited]_vars
    BY StepAudited
<1>2. AuditKept <=> [][starting' = starting => Audited]_vars
    BY DEF AuditKept, Audited
<1> QED BY <1>1, <1>2, Invariance, InitAudit, PTL DEF Spec

-----------------------------------------------------------------------------
(* Whatever the candidate's session and the finalizer do around it, and    *)
(* whatever they have read by then, the journal of a delivery is one of    *)
(* ReleaseTransaction: what is proved above holds there as well.           *)
THEOREM DeliveryIsTransaction ==
    ASSUME Delivered \subseteq Effects
    PROVE  DeliverySpec => Spec
<1>1. DeliveryInit => Init /\ head \in Commits
    BY DEF DeliveryInit, Init
<1>2. head \in Commits /\ [DeliveryNext]_deliveryVars => (head \in Commits)'
    BY DEF DeliveryNext, deliveryVars, Transition, MarkExternalEffect, Refresh, JournalCommand,
           Initialize, Commit, FinalizeStart, FinalizeCertify, FinalizeAttest, FinalizeSession,
           FinalizeStop
<1>3. head \in Commits /\ [DeliveryNext]_deliveryVars => [Next]_vars
  <2> SUFFICES ASSUME head \in Commits, [DeliveryNext]_deliveryVars PROVE [Next]_vars
      OBVIOUS
  <2>1. ASSUME JournalCommand PROVE Command /\ UNCHANGED starting
    <3>1. UNCHANGED starting
        BY <2>1 DEF JournalCommand
    <3>2. CASE Load \/ Attest \/ Age
        BY <3>2, <3>1 DEF Command
    <3>3. CASE \E e \in Delivered, draft \in Drafts, body \in Bodies \cup {None} :
                   Plan(e, draft, body)
        BY <3>3, <3>1 DEF Command
    <3>4. CASE \E e \in Delivered, granted \in BOOLEAN :
                   Begin(e, granted, session.state = "merge-ready")
        BY <3>4, <3>1 DEF Command
    <3>5. CASE \E e \in Delivered, outcome \in Outcomes : Reconcile(e, outcome)
        BY <3>5, <3>1 DEF Command
    <3>6. CASE \E kind \in Kinds \cup {"candidate"} : BindEvidence(kind)
        BY <3>6, <3>1 DEF Command
    <3>7. CASE Advance(head)
        BY <3>7, <3>1 DEF Command
    <3> QED BY <2>1, <3>2, <3>3, <3>4, <3>5, <3>6, <3>7 DEF JournalCommand
  <2>2. ASSUME Initialize PROVE Next
      BY <2>2 DEF Initialize, Next
  <2>3. ASSUME DeliveryNext PROVE JournalCommand \/ Initialize \/ UNCHANGED vars
      BY <2>3 DEF DeliveryNext, Transition, MarkExternalEffect, Refresh, Commit, FinalizeStart,
                  FinalizeCertify, FinalizeAttest, FinalizeSession, FinalizeStop, vars
  <2> QED BY <2>1, <2>2, <2>3 DEF deliveryVars, Next, vars
<1> QED BY <1>1, <1>2, <1>3, PTL DEF DeliverySpec, Spec
=============================================================================
