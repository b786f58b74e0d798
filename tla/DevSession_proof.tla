--------------------------- MODULE DevSession_proof ---------------------------
(***************************************************************************)
(* The safety of one run of a Dev session, for any units, paths, routes,   *)
(* skip policy and bounds.  A session only moves forward through the       *)
(* phases it is routed through, so that what a phase has established when  *)
(* it is left (its evidence, its attempts, its units) is not established   *)
(* a second time: the invariant says what the session knows before, in and *)
(* after each phase.                                                       *)
(***************************************************************************)
EXTENDS DevSession, FiniteSetTheorems, SequenceTheorems, WellFoundedInduction, TLAPS

Plain == Phase \ (Recovering \cup {"qa"})
Counted == Recovering \cup {"qa"}

(* Only the last blocker can be unresolved, and it is of the phase.        *)
BlockersSound ==
    \A i \in DOMAIN blockers :
        ~blockers[i].resolved => i = Len(blockers) /\ blockers[i].phase = phase

(* A phase is entered with no attempt of it recorded.                      *)
AttemptsPast == \A i \in DOMAIN attempts : ~Later(attempts[i].phase, phase)

(* Of the three attempts of a plain phase, attempt - 1 have failed since   *)
(* the last resolution.                                                    *)
BudgetSound ==
    status = "active" /\ phase \in Plain =>
        /\ attempt <= MaxPhaseAttempts
        /\ Failures(phase) <= MaxPhaseAttempts * Resolutions(phase) + (attempt - 1)

(* The number of the attempt is new; when the session is blocked it is     *)
(* that of the attempt that blocked it.                                    *)
NumbersSound ==
    /\ phase \in Counted => \A i \in AttemptsOf(phase) :
           IF status = "active" THEN attempts[i].attempt < attempt ELSE attempts[i].attempt <= attempt
    /\ phase = "qa" => IF status = "active" THEN attempt <= Len(runs) + 1 ELSE attempt <= Len(runs)

(* Until QA is left the ledger holds the attempts of QA and nothing else.  *)
QaCounted ==
    /\ Cardinality(AttemptsOf("qa")) <= Len(runs)
    /\ ~Later(phase, "qa") => Cardinality(AttemptsOf("qa")) = Len(runs)
    /\ evidence["qa"].commit # 0 => Later(phase, "qa")

(* Evidence is of an attempt that passed.                                  *)
EvidenceEarned ==
    \A p \in Certifying :
        evidence[p].commit # 0 =>
            \E i \in DOMAIN attempts : attempts[i].phase = p /\ attempts[i].status = "passed"

IInv ==
    /\ SessionTypeOK /\ BlockersSound /\ AttemptsPast
    /\ RetryBudget /\ BudgetSound
    /\ FreshAttempts /\ NumbersSound
    /\ QaLedgerAgrees /\ QaCounted
    /\ EvidenceEarned /\ CompleteIsCurrent
    /\ UnitsSafe

-----------------------------------------------------------------------------
(* Phases, and their order.                                                *)

LEMMA PhasesAre ==
    /\ Len(Phases) = 9
    /\ Phase = {"intake", "workspace", "readiness", "implementation", "design-critique", "qa",
                "review", "ship", "retro"}
    /\ Phases[1] = "intake" /\ Phases[2] = "workspace" /\ Phases[3] = "readiness"
    /\ Phases[4] = "implementation" /\ Phases[5] = "design-critique" /\ Phases[6] = "qa"
    /\ Phases[7] = "review" /\ Phases[8] = "ship" /\ Phases[9] = "retro"
<1>1. Len(Phases) = 9 /\ DOMAIN Phases = 1 .. 9
    BY DEF Phases
<1>2. /\ Phases[1] = "intake" /\ Phases[2] = "workspace" /\ Phases[3] = "readiness"
      /\ Phases[4] = "implementation" /\ Phases[5] = "design-critique" /\ Phases[6] = "qa"
      /\ Phases[7] = "review" /\ Phases[8] = "ship" /\ Phases[9] = "retro"
    BY DEF Phases
<1>3. 1 .. 9 = {1, 2, 3, 4, 5, 6, 7, 8, 9}
    OBVIOUS
<1>4. Phase = {Phases[i] : i \in 1 .. 9}
    BY <1>1 DEF Phase, Range
<1> QED
    BY <1>1, <1>2, <1>3, <1>4

Rank(p) ==
    CASE p = "intake" -> 1 [] p = "workspace" -> 2 [] p = "readiness" -> 3
      [] p = "implementation" -> 4 [] p = "design-critique" -> 5 [] p = "qa" -> 6
      [] p = "review" -> 7 [] p = "ship" -> 8 [] p = "retro" -> 9

LEMMA Ranks == \A p \in Phase : Rank(p) \in 1 .. 9 /\ Phases[Rank(p)] = p
BY PhasesAre DEF Rank

LEMMA RankIsIndex == \A i \in 1 .. 9 : Rank(Phases[i]) = i
<1>1. 1 .. 9 = {1, 2, 3, 4, 5, 6, 7, 8, 9}
    OBVIOUS
<1> QED
    BY <1>1, PhasesAre DEF Rank

(* Later is the order of the ranks.                                        *)
LEMMA LaterIsRank == \A p, q \in Phase : Later(p, q) <=> Rank(p) > Rank(q)
<1> SUFFICES ASSUME NEW p \in Phase, NEW q \in Phase
             PROVE  Later(p, q) <=> Rank(p) > Rank(q)
    OBVIOUS
<1>1. ASSUME Later(p, q) PROVE Rank(p) > Rank(q)
    BY <1>1, RankIsIndex, PhasesAre DEF Later
<1>2. ASSUME Rank(p) > Rank(q) PROVE Later(p, q)
    BY <1>2, Ranks, PhasesAre DEF Later
<1> QED
    BY <1>1, <1>2

LEMMA LaterOrder ==
    ASSUME NEW p \in Phase, NEW q \in Phase, NEW r \in Phase
    PROVE  /\ ~Later(p, p)
           /\ Later(p, q) /\ Later(q, r) => Later(p, r)
           /\ Later(p, q) \/ Later(q, p) \/ p = q
           /\ Later(p, q) => ~Later(q, p)
<1>1. Rank(p) \in 1 .. 9 /\ Rank(q) \in 1 .. 9 /\ Rank(r) \in 1 .. 9
    BY Ranks
<1>2. Rank(p) = Rank(q) => p = q
    BY Ranks
<1> QED
    BY <1>1, <1>2, LaterIsRank

LEMMA LaterValues ==
    ASSUME NEW p \in Phase
    PROVE  /\ p # "retro" => Later("retro", p)
           /\ Later("implementation", p) <=> p \in {"intake", "workspace", "readiness"}
           /\ Later(p, "implementation") <=>
                 p \in {"design-critique", "qa", "review", "ship", "retro"}
           /\ Later(p, "qa") <=> p \in {"review", "ship", "retro"}
BY LaterIsRank, PhasesAre DEF Rank

(* A set of naturals with an upper bound has a greatest element.           *)
LEMMA MaxOf ==
    ASSUME NEW S \in SUBSET Nat, S # {}, NEW b \in Nat, \A x \in S : x <= b
    PROVE  Max(S) \in S /\ \A x \in S : x <= Max(S)
<1> DEFINE Gaps == {k \in Nat : \E x \in S : k = b - x}
<1>1. Gaps # {} /\ Gaps \subseteq Nat
    <2>1. PICK x \in S : TRUE
        OBVIOUS
    <2>2. b - x \in Gaps
        OBVIOUS
    <2> QED
        BY <2>2
<1>2. PICK k \in Gaps : \A j \in Gaps : ~(<<j, k>> \in OpToRel(<, Nat))
    <2> HIDE DEF Gaps
    <2> QED
        BY <1>1, NatLessThanWellFounded, WFMin
<1>3. PICK m \in S : k = b - m
    OBVIOUS
<1>4. ASSUME NEW x \in S PROVE x <= m
    <2>1. b - x \in Gaps
        OBVIOUS
    <2>2. ~(b - x < k)
        BY <2>1, <1>1, <1>2 DEF OpToRel
    <2> QED
        BY <2>2, <1>3
<1>5. \E x \in S : \A y \in S : x >= y
    BY <1>4
<1>6. Max(S) \in S /\ \A y \in S : Max(S) >= y
    BY <1>5 DEF Max
<1> QED
    BY <1>6

(* The next phase is ahead, is routed, and leaves none of the route out.   *)
LEMMA NextPhase ==
    ASSUME facts \in Routing, NEW p \in Phase, p # "retro"
    PROVE  /\ Successor(p) \in Phase /\ Later(Successor(p), p)
           /\ Routed(facts, Successor(p))
           /\ \A q \in Phase : Later(q, p) /\ Routed(facts, q) => ~Later(Successor(p), q)
<1>1. "retro" \in Ahead(p)
    BY PhasesAre, LaterValues DEF Ahead, Routed
<1> DEFINE Levels == {k \in Nat : \E q \in Ahead(p) : k = Rank(q)}
<1>2. Levels # {} /\ Levels \subseteq Nat
    BY <1>1, Ranks, PhasesAre
<1>3. PICK k \in Levels : \A j \in Levels : ~(<<j, k>> \in OpToRel(<, Nat))
    <2> HIDE DEF Levels
    <2> QED
        BY <1>2, NatLessThanWellFounded, WFMin
<1>4. PICK s \in Ahead(p) : k = Rank(s)
    OBVIOUS
<1>5. ASSUME NEW r \in Ahead(p) PROVE ~Later(s, r)
    <2>1. Rank(r) \in Levels /\ Rank(r) \in Nat /\ Rank(s) \in Nat
        BY Ranks DEF Ahead
    <2>2. ~(Rank(r) < Rank(s))
        BY <2>1, <1>3, <1>4 DEF OpToRel
    <2> QED
        BY <2>1, <2>2, LaterIsRank DEF Ahead
<1>6. Successor(p) \in Ahead(p) /\ \A r \in Ahead(p) : ~Later(Successor(p), r)
    BY <1>4, <1>5 DEF Successor
<1> QED
    BY <1>6 DEF Ahead

LEMMA LastPhase ==
    ASSUME facts \in Routing, NEW p \in Phase
    PROVE  IsLast(p) <=> p = "retro"
<1>1. p # "retro" => ~IsLast(p)
    BY PhasesAre, LaterValues DEF IsLast, Ahead, Routed
<1>2. IsLast("retro")
    <2>1. \A q \in Phase : ~Later(q, "retro")
        BY LaterIsRank, PhasesAre DEF Rank
    <2> QED
        BY <2>1 DEF IsLast, Ahead
<1> QED
    BY <1>1, <1>2

(* Counting the places of a sequence: one more.                            *)
LEMMA OneMore ==
    ASSUME NEW n \in Nat, NEW A \in SUBSET (1 .. n)
    PROVE  /\ IsFiniteSet(A) /\ Cardinality(A) \in Nat
           /\ Cardinality(A \cup {n + 1}) = Cardinality(A) + 1
<1>1. IsFiniteSet(1 .. n)
    BY FS_Interval
<1>2. IsFiniteSet(A)
    BY <1>1, FS_Subset
<1>3. n + 1 \notin A
    OBVIOUS
<1> QED
    BY <1>2, <1>3, FS_CardinalityType, FS_AddElement

-----------------------------------------------------------------------------
(* What a recorded result adds.                                            *)

Statuses == {"passed", "failed", "blocked"}
Outcomes == Statuses \cup {"none"}

LEMMA Recording ==
    ASSUME SessionTypeOK, NEW st \in Statuses, NEW c \in Commit, NEW outcome \in Outcomes,
           Recorded(st, c, outcome)
    PROVE  /\ Len(attempts) \in Nat /\ DOMAIN attempts = 1 .. Len(attempts)
           /\ attempts' \in Seq(Attempt) /\ Len(attempts') = Len(attempts) + 1
           /\ DOMAIN attempts' = 1 .. Len(attempts) + 1
           /\ \A i \in DOMAIN attempts : attempts'[i] = attempts[i]
           /\ attempts'[Len(attempts) + 1] =
                  [phase |-> phase, attempt |-> attempt, status |-> st, commit |-> c]
<1> DEFINE a == [phase |-> phase, attempt |-> attempt, status |-> st, commit |-> c]
<1>1. attempts \in Seq(Attempt) /\ a \in Attempt
    BY DEF SessionTypeOK, Attempt, Statuses
<1>2. attempts' = Append(attempts, a)
    BY DEF Recorded
<1> HIDE DEF a
<1>3. /\ Len(attempts) \in Nat /\ DOMAIN attempts = 1 .. Len(attempts)
      /\ attempts' \in Seq(Attempt) /\ Len(attempts') = Len(attempts) + 1
      /\ DOMAIN attempts' = 1 .. Len(attempts')
      /\ \A i \in 1 .. Len(attempts) : attempts'[i] = attempts[i]
      /\ attempts'[Len(attempts) + 1] = a
    BY <1>1, <1>2, AppendProperties
<1> QED
    BY <1>3 DEF a

LEMMA IndexSets ==
    ASSUME SessionTypeOK, NEW p
    PROVE  /\ Len(attempts) \in Nat /\ AttemptsOf(p) \subseteq 1 .. Len(attempts)
           /\ Cardinality(AttemptsOf(p)) \in Nat /\ Failures(p) \in Nat
           /\ Len(blockers) \in Nat /\ Resolutions(p) \in Nat
           /\ Len(runs) \in Nat
<1>1. attempts \in Seq(Attempt) /\ blockers \in Seq([phase : Phase, resolved : BOOLEAN])
      /\ runs \in Seq(Run)
    BY DEF SessionTypeOK
<1>2. /\ Len(attempts) \in Nat /\ DOMAIN attempts = 1 .. Len(attempts)
      /\ Len(blockers) \in Nat /\ DOMAIN blockers = 1 .. Len(blockers)
      /\ Len(runs) \in Nat
    BY <1>1
<1>3. AttemptsOf(p) \in SUBSET (1 .. Len(attempts))
    BY <1>2 DEF AttemptsOf
<1>4. {i \in AttemptsOf(p) : attempts[i].status = "failed"} \in SUBSET (1 .. Len(attempts))
    BY <1>3
<1>5. {i \in DOMAIN blockers : blockers[i].phase = p /\ blockers[i].resolved}
          \in SUBSET (1 .. Len(blockers))
    BY <1>2
<1>6. Cardinality(AttemptsOf(p)) \in Nat
    BY <1>2, <1>3, OneMore
<1>7. Failures(p) \in Nat
    BY <1>2, <1>4, OneMore DEF Failures
<1>8. Resolutions(p) \in Nat
    BY <1>2, <1>5, OneMore DEF Resolutions
<1> QED
    BY <1>2, <1>3, <1>6, <1>7, <1>8

LEMMA RecordedCounts ==
    ASSUME SessionTypeOK, NEW st \in Statuses, NEW c \in Commit, NEW outcome \in Outcomes,
           Recorded(st, c, outcome), NEW p
    PROVE  /\ AttemptsOf(p)' =
                  IF p = phase THEN AttemptsOf(p) \cup {Len(attempts) + 1} ELSE AttemptsOf(p)
           /\ Cardinality(AttemptsOf(p))' =
                  IF p = phase THEN Cardinality(AttemptsOf(p)) + 1 ELSE Cardinality(AttemptsOf(p))
           /\ Failures(p)' =
                  IF p = phase /\ st = "failed" THEN Failures(p) + 1 ELSE Failures(p)
<1> DEFINE n == Len(attempts)
           Failed == {i \in AttemptsOf(p) : attempts[i].status = "failed"}
<1>1. /\ n \in Nat /\ DOMAIN attempts = 1 .. n /\ DOMAIN attempts' = 1 .. n + 1
      /\ \A i \in 1 .. n : attempts'[i] = attempts[i]
      /\ attempts'[n + 1].phase = phase /\ attempts'[n + 1].status = st
    <2>1. /\ n \in Nat /\ DOMAIN attempts = 1 .. n /\ DOMAIN attempts' = 1 .. n + 1
          /\ \A i \in DOMAIN attempts : attempts'[i] = attempts[i]
          /\ attempts'[n + 1] =
                 [phase |-> phase, attempt |-> attempt, status |-> st, commit |-> c]
        BY Recording
    <2> HIDE DEF n
    <2> QED
        BY <2>1
<1> HIDE DEF n
<1>2. AttemptsOf(p)' = IF p = phase THEN AttemptsOf(p) \cup {n + 1} ELSE AttemptsOf(p)
    BY <1>1 DEF AttemptsOf
<1>3. AttemptsOf(p) \in SUBSET (1 .. n) /\ Failed \in SUBSET (1 .. n)
    BY <1>1 DEF AttemptsOf
<1>4. Failed' = IF p = phase /\ st = "failed" THEN Failed \cup {n + 1} ELSE Failed
    BY <1>1, <1>2, <1>3
<1>5. Cardinality(AttemptsOf(p) \cup {n + 1}) = Cardinality(AttemptsOf(p)) + 1
    BY <1>1, <1>3, OneMore
<1>6. Cardinality(Failed \cup {n + 1}) = Cardinality(Failed) + 1
    <2> HIDE DEF Failed
    <2> QED
        BY <1>1, <1>3, OneMore
<1>7. Failures(p) = Cardinality(Failed) /\ Failures(p)' = Cardinality(Failed')
    BY DEF Failures
<1> HIDE DEF Failed
<1>8. Cardinality(AttemptsOf(p))' = Cardinality(AttemptsOf(p)')
    OBVIOUS
<1> QED
    BY <1>2, <1>4, <1>5, <1>6, <1>7, <1>8 DEF n

(* A phase ahead has no attempts.                                          *)
LEMMA Unentered ==
    ASSUME SessionTypeOK, AttemptsPast, NEW p \in Phase, Later(p, phase)
    PROVE  AttemptsOf(p) = {} /\ Failures(p) = 0
<1>1. AttemptsOf(p) = {}
    BY DEF AttemptsOf, AttemptsPast
<1> QED
    BY <1>1, FS_EmptySet DEF Failures

(* An attempt has a number of its own.                                     *)
LEMMA RecordIsFresh ==
    ASSUME IInv, NEW st \in Statuses, NEW c \in Commit, NEW outcome \in Outcomes,
           Recorded(st, c, outcome)
    PROVE  FreshAttempts'
<1>1. status = "active" /\ SessionTypeOK
    BY DEF Recorded, IInv
<1>2. /\ Len(attempts) \in Nat /\ DOMAIN attempts = 1 .. Len(attempts)
      /\ DOMAIN attempts' = 1 .. Len(attempts) + 1
      /\ \A i \in DOMAIN attempts : attempts'[i] = attempts[i]
      /\ attempts'[Len(attempts) + 1].phase = phase
      /\ attempts'[Len(attempts) + 1].attempt = attempt
    <2>1. /\ Len(attempts) \in Nat /\ DOMAIN attempts = 1 .. Len(attempts)
          /\ DOMAIN attempts' = 1 .. Len(attempts) + 1
          /\ \A i \in DOMAIN attempts : attempts'[i] = attempts[i]
          /\ attempts'[Len(attempts) + 1] =
                 [phase |-> phase, attempt |-> attempt, status |-> st, commit |-> c]
        BY <1>1, Recording
    <2> QED
        BY <2>1
<1>3. \A i \in DOMAIN attempts :
          attempts[i].phase = phase /\ phase \in Counted => attempts[i].attempt < attempt
    BY <1>1 DEF IInv, NumbersSound, AttemptsOf
<1> SUFFICES ASSUME NEW i \in DOMAIN attempts', NEW j \in DOMAIN attempts', i < j,
                    attempts'[i].phase = attempts'[j].phase, attempts'[i].phase \in Counted
             PROVE  attempts'[i].attempt < attempts'[j].attempt
    BY DEF FreshAttempts, Counted
<1>4. i \in DOMAIN attempts
    BY <1>2
<1>5. CASE j \in DOMAIN attempts
    BY <1>2, <1>4, <1>5 DEF IInv, FreshAttempts, Counted
<1>6. CASE j = Len(attempts) + 1
    BY <1>2, <1>3, <1>4, <1>6
<1> QED
    BY <1>2, <1>5, <1>6

(* A result of QA adds one run, which is its own; no other adds any.       *)
LEMMA RunsRecorded ==
    ASSUME SessionTypeOK, NEW st \in Statuses, NEW c \in Commit, NEW outcome \in Outcomes,
           Recorded(st, c, outcome)
    PROVE  /\ runs \in Seq(Run) /\ runs' \in Seq(Run) /\ Len(runs) \in Nat
           /\ Len(runs') = IF phase = "qa" THEN Len(runs) + 1 ELSE Len(runs)
           /\ \A i \in 1 .. Len(runs) : runs'[i] = runs[i]
           /\ phase = "qa" => runs'[Len(runs) + 1] = [commit |-> c, verdict |-> st]
<1> DEFINE r == [commit |-> c, verdict |-> st]
<1>1. runs \in Seq(Run) /\ r \in Run
    BY DEF SessionTypeOK, Run, Statuses
<1>2. runs' = IF phase = "qa" THEN Append(runs, r) ELSE runs
    BY DEF Recorded, WithRun
<1> HIDE DEF r
<1>3. CASE phase = "qa"
    BY <1>1, <1>2, <1>3, AppendProperties DEF r
<1>4. CASE phase # "qa"
    BY <1>1, <1>2, <1>4
<1> QED
    BY <1>3, <1>4

(* The place of an attempt of QA is that of a run.                         *)
LEMMA RanksAreRuns ==
    ASSUME SessionTypeOK, Ledgered, NEW i \in AttemptsOf("qa")
    PROVE  /\ Len(runs) \in Nat /\ i \in Nat
           /\ Cardinality(AttemptsOf("qa") \cap (1 .. i)) \in 1 .. Len(runs)
           /\ runs[Cardinality(AttemptsOf("qa") \cap (1 .. i))] =
                  [commit |-> attempts[i].commit, verdict |-> attempts[i].status]
<1> DEFINE A == AttemptsOf("qa")
           n == Cardinality(A \cap (1 .. i))
<1>1. n <= Len(runs) /\ runs[n] = [commit |-> attempts[i].commit, verdict |-> attempts[i].status]
    BY DEF Ledgered
<1>2. A \subseteq 1 .. Len(attempts) /\ Len(attempts) \in Nat /\ Len(runs) \in Nat
    BY IndexSets
<1>3. i \in Nat /\ i >= 1 /\ i \in A \cap (1 .. i)
    BY <1>2
<1>4. IsFiniteSet(A \cap (1 .. i)) /\ n \in Nat
    BY <1>3, OneMore
<1>5. n # 0
    BY <1>3, <1>4, FS_EmptySet
<1> HIDE DEF A, n
<1>6. n \in 1 .. Len(runs)
    BY <1>1, <1>2, <1>4, <1>5
<1> QED
    BY <1>1, <1>2, <1>3, <1>6 DEF n, A

LEMMA RecordIsLedgered ==
    ASSUME IInv, NEW st \in Statuses, NEW c \in Commit, NEW outcome \in Outcomes,
           Recorded(st, c, outcome)
    PROVE  /\ Ledgered'
           /\ Cardinality(AttemptsOf("qa"))' <= Len(runs)'
           /\ ~Later(phase, "qa") => Cardinality(AttemptsOf("qa"))' = Len(runs)'
<1> DEFINE n == Len(attempts)
           A == AttemptsOf("qa")
           rank(S, i) == Cardinality(S \cap (1 .. i))
<1>1. SessionTypeOK
    BY DEF IInv
<1>2. /\ n \in Nat /\ A \subseteq 1 .. n /\ Cardinality(A) \in Nat
      /\ Len(runs) \in Nat
    BY <1>1, IndexSets
<1>3. /\ A' = IF phase = "qa" THEN A \cup {n + 1} ELSE A
      /\ Cardinality(A)' = IF phase = "qa" THEN Cardinality(A) + 1 ELSE Cardinality(A)
    BY <1>1, RecordedCounts
<1>4. /\ Len(runs') = IF phase = "qa" THEN Len(runs) + 1 ELSE Len(runs)
      /\ \A i \in 1 .. Len(runs) : runs'[i] = runs[i]
      /\ phase = "qa" => runs'[Len(runs) + 1] = [commit |-> c, verdict |-> st]
    BY <1>1, RunsRecorded
<1>5. /\ DOMAIN attempts = 1 .. n
      /\ \A i \in 1 .. n : attempts'[i] = attempts[i]
      /\ attempts'[n + 1] = [phase |-> phase, attempt |-> attempt, status |-> st, commit |-> c]
    BY <1>1, Recording
<1>6. Cardinality(A) <= Len(runs) /\ (~Later(phase, "qa") => Cardinality(A) = Len(runs))
    BY DEF IInv, QaCounted
<1>7. phase = "qa" => ~Later(phase, "qa")
    BY PhasesAre, LaterValues
<1>8. \A i \in A : /\ rank(A, i) \in Nat /\ 1 <= rank(A, i) /\ rank(A, i) <= Len(runs)
                   /\ runs[rank(A, i)] = [commit |-> attempts[i].commit,
                                          verdict |-> attempts[i].status]
    <2>1. Ledgered
        BY DEF IInv, QaLedgerAgrees
    <2>2. \A i \in A : /\ rank(A, i) \in 1 .. Len(runs)
                       /\ runs[rank(A, i)] = [commit |-> attempts[i].commit,
                                              verdict |-> attempts[i].status]
        BY <1>1, <2>1, RanksAreRuns
    <2> HIDE DEF rank, A
    <2> QED
        BY <1>2, <2>2
<1> HIDE DEF n, A
<1>9. \A i \in A : rank(A', i) = rank(A, i)
    <2> SUFFICES ASSUME NEW i \in A PROVE A' \cap (1 .. i) = A \cap (1 .. i)
        OBVIOUS
    <2>1. i \in 1 .. n /\ n + 1 \notin 1 .. i
        BY <1>2
    <2> QED
        BY <2>1, <1>3
<1>10. phase = "qa" => rank(A', n + 1) = Cardinality(A) + 1
    <2>1. A \cup {n + 1} \subseteq 1 .. n + 1
        BY <1>2
    <2>2. phase = "qa" => A' \cap (1 .. n + 1) = A'
        BY <2>1, <1>3
    <2> QED
        BY <2>2, <1>3
<1> HIDE DEF rank
<1>11. \A i \in A' : /\ rank(A', i) <= Len(runs')
                     /\ runs'[rank(A', i)] = [commit |-> attempts'[i].commit,
                                              verdict |-> attempts'[i].status]
    <2> SUFFICES ASSUME NEW i \in A'
                 PROVE  /\ rank(A', i) <= Len(runs')
                        /\ runs'[rank(A', i)] = [commit |-> attempts'[i].commit,
                                                 verdict |-> attempts'[i].status]
        OBVIOUS
    <2>1. CASE i \in A
        <3>1. attempts'[i] = attempts[i]
            BY <2>1, <1>2, <1>5
        <3>2. /\ rank(A, i) \in Nat /\ 1 <= rank(A, i) /\ rank(A, i) <= Len(runs)
              /\ runs[rank(A, i)] = [commit |-> attempts[i].commit,
                                     verdict |-> attempts[i].status]
            BY <2>1, <1>8
        <3> QED
            BY <3>1, <3>2, <2>1, <1>2, <1>4, <1>9
    <2>2. CASE phase = "qa" /\ i = n + 1
        BY <2>2, <1>2, <1>4, <1>5, <1>6, <1>7, <1>10
    <2> QED
        BY <2>1, <2>2, <1>3
<1>12. Ledgered'
    BY <1>11 DEF Ledgered, A, rank
<1>13. Cardinality(A)' <= Len(runs') /\ (~Later(phase, "qa") => Cardinality(A)' = Len(runs'))
    BY <1>2, <1>3, <1>4, <1>6, <1>7
<1> QED
    BY <1>12, <1>13 DEF A

-----------------------------------------------------------------------------
(* What a step that leaves something alone keeps.                          *)

LEMMA RecordsStay ==
    ASSUME IInv, UNCHANGED <<status, phase, attempt, attempts, blockers>>,
           SessionTypeOK', Len(runs) <= Len(runs')
    PROVE  BlockersSound' /\ AttemptsPast' /\ RetryBudget' /\ BudgetSound' /\ FreshAttempts'
           /\ NumbersSound'
<1>1. \A p : AttemptsOf(p)' = AttemptsOf(p)
    BY DEF AttemptsOf
<1>2. \A p : Failures(p)' = Failures(p) /\ Resolutions(p)' = Resolutions(p)
    BY <1>1 DEF Failures, Resolutions
<1>3. BlockersSound' /\ AttemptsPast' /\ FreshAttempts'
    BY DEF IInv, BlockersSound, AttemptsPast, FreshAttempts
<1>4. RetryBudget' /\ BudgetSound'
    BY <1>2 DEF IInv, RetryBudget, BudgetSound
<1>5. NumbersSound'
    <2>1. Len(runs) \in Nat /\ Len(runs') \in Nat /\ attempt \in Nat
        BY DEF IInv, SessionTypeOK
    <2> QED
        BY <1>1, <2>1 DEF IInv, NumbersSound
<1> QED
    BY <1>3, <1>4, <1>5

LEMMA QaStays ==
    ASSUME IInv, UNCHANGED <<attempts, runs, evidence>>, phase' \in Phase,
           phase' = phase \/ Later(phase', phase)
    PROVE  QaLedgerAgrees' /\ QaCounted' /\ EvidenceEarned'
<1>1. \A p : AttemptsOf(p)' = AttemptsOf(p)
    BY DEF AttemptsOf
<1>2. phase \in Phase /\ "qa" \in Phase
    BY PhasesAre DEF IInv, SessionTypeOK
<1>3. Later(phase, "qa") => Later(phase', "qa")
    BY <1>2, LaterOrder
<1>4. Ledgered'
    BY <1>1 DEF IInv, QaLedgerAgrees, Ledgered
<1>5. QaLedgerAgrees'
    BY <1>4 DEF IInv, QaLedgerAgrees
<1>6. QaCounted'
    BY <1>1, <1>3 DEF IInv, QaCounted
<1>7. EvidenceEarned'
    BY DEF IInv, EvidenceEarned
<1> QED
    BY <1>5, <1>6, <1>7

LEMMA UnitsStay ==
    ASSUME UnitsSafe, UNCHANGED <<units, owns>>,
           Later(phase', "implementation") => Later(phase, "implementation")
    PROVE  UnitsSafe'
BY DEF UnitsSafe, InStatus, Overlap, Done

(* While a session is open it need not be certified.                       *)
LEMMA OpenIsFree == ASSUME Open(status') PROVE CompleteIsCurrent'
BY DEF CompleteIsCurrent

-----------------------------------------------------------------------------
(* The results.                                                            *)

LEMMA RecordedTypes ==
    ASSUME SessionTypeOK, NEW st \in Statuses, NEW c \in Commit, NEW outcome \in Outcomes,
           Recorded(st, c, outcome)
    PROVE  /\ status = "active"
           /\ attempts' \in Seq(Attempt) /\ runs' \in Seq(Run)
           /\ lineage' \in [Recovering -> Seq(Statuses)]
           /\ UNCHANGED <<head, facts, headless, skips, units, owns>>
<1>1. status = "active" /\ UNCHANGED <<head, facts, headless, skips, units, owns>>
    BY DEF Recorded
<1>2. attempts' \in Seq(Attempt)
    BY Recording
<1>3. runs' \in Seq(Run)
    BY RunsRecorded
<1>4. lineage' \in [Recovering -> Seq(Statuses)]
    <2>1. lineage \in [Recovering -> Seq(Statuses)]
        BY DEF SessionTypeOK, Statuses
    <2>2. lineage' = IF outcome = "none" THEN lineage
                     ELSE [lineage EXCEPT ![phase] = Append(@, outcome)]
        BY DEF Recorded, WithReport
    <2>3. outcome # "none" => outcome \in Statuses
        BY DEF Outcomes
    <2>4. ASSUME outcome # "none", phase \in Recovering
          PROVE  Append(lineage[phase], outcome) \in Seq(Statuses)
        BY <2>1, <2>3, <2>4, AppendProperties
    <2> QED
        BY <2>1, <2>2, <2>4
<1> QED
    BY <1>1, <1>2, <1>3, <1>4

(* While a session is active all blockers are resolved.                    *)
LEMMA ActiveIsResolved ==
    ASSUME SessionTypeOK, status # "blocked"
    PROVE  \A i \in DOMAIN blockers : blockers[i].resolved
BY DEF SessionTypeOK

(* What a result leaves of evidence it does not record.                    *)
LEMMA EarnedStays ==
    ASSUME IInv, NEW st \in Statuses, NEW c \in Commit, NEW outcome \in Outcomes,
           Recorded(st, c, outcome), NEW p \in Certifying,
           evidence[p].commit # 0 \/ (p = phase /\ st = "passed")
    PROVE  \E i \in DOMAIN attempts' : attempts'[i].phase = p /\ attempts'[i].status = "passed"
<1>1. /\ Len(attempts) \in Nat /\ DOMAIN attempts = 1 .. Len(attempts)
      /\ DOMAIN attempts' = 1 .. Len(attempts) + 1
      /\ \A i \in DOMAIN attempts : attempts'[i] = attempts[i]
      /\ attempts'[Len(attempts) + 1] =
             [phase |-> phase, attempt |-> attempt, status |-> st, commit |-> c]
    BY Recording DEF IInv
<1>2. CASE p = phase /\ st = "passed"
    BY <1>1, <1>2
<1>3. CASE evidence[p].commit # 0
    <2>1. PICK i \in DOMAIN attempts : attempts[i].phase = p /\ attempts[i].status = "passed"
        BY <1>3 DEF IInv, EvidenceEarned
    <2> QED
        BY <1>1, <2>1
<1> QED
    BY <1>2, <1>3

(* The same of the runs at which QA is certified.                          *)
LEMMA CertifiedStays ==
    ASSUME IInv, runs' \in Seq(Run), Len(runs) <= Len(runs'),
           \A i \in 1 .. Len(runs) : runs'[i] = runs[i],
           NEW c \in {evidence["qa"].commit, evidence["qa"].verified} \ {0}
    PROVE  \E i \in DOMAIN runs' : runs'[i] = [commit |-> c, verdict |-> "passed"]
<1>1. PICK i \in DOMAIN runs : runs[i] = [commit |-> c, verdict |-> "passed"]
    BY DEF IInv, QaLedgerAgrees
<1>2. Len(runs) \in Nat /\ DOMAIN runs = 1 .. Len(runs)
    BY DEF IInv, SessionTypeOK
<1>3. Len(runs') \in Nat /\ DOMAIN runs' = 1 .. Len(runs')
    OBVIOUS
<1>4. i \in DOMAIN runs'
    BY <1>2, <1>3
<1> QED
    BY <1>1, <1>2, <1>4

(* A result is of the phase the session is in.                             *)
LEMMA NoneAhead ==
    ASSUME IInv, NEW st \in Statuses, NEW c \in Commit, NEW outcome \in Outcomes,
           Recorded(st, c, outcome)
    PROVE  \A i \in DOMAIN attempts' :
               attempts'[i].phase \in Phase /\ ~Later(attempts'[i].phase, phase)
<1>1. /\ DOMAIN attempts' = 1 .. Len(attempts) + 1 /\ DOMAIN attempts = 1 .. Len(attempts)
      /\ Len(attempts) \in Nat
      /\ \A i \in DOMAIN attempts : attempts'[i] = attempts[i]
      /\ attempts'[Len(attempts) + 1] =
             [phase |-> phase, attempt |-> attempt, status |-> st, commit |-> c]
    BY Recording DEF IInv
<1>2. attempts \in Seq(Attempt) /\ phase \in Phase
    BY DEF IInv, SessionTypeOK
<1>3. ~Later(phase, phase)
    BY <1>2, LaterOrder
<1>4. \A i \in DOMAIN attempts : attempts[i].phase \in Phase
    <2>1. \A i \in DOMAIN attempts : attempts[i] \in Attempt
        BY <1>2
    <2> QED
        BY <2>1 DEF Attempt
<1>5. \A i \in DOMAIN attempts : ~Later(attempts[i].phase, phase)
    BY DEF IInv, AttemptsPast
<1> SUFFICES ASSUME NEW i \in DOMAIN attempts'
             PROVE  attempts'[i].phase \in Phase /\ ~Later(attempts'[i].phase, phase)
    OBVIOUS
<1>6. CASE i \in DOMAIN attempts
    BY <1>1, <1>4, <1>5, <1>6
<1>7. CASE i = Len(attempts) + 1
    <2>1. attempts'[i].phase = phase
        BY <1>1, <1>7
    <2> QED
        BY <1>2, <1>3, <2>1
<1> QED
    BY <1>1, <1>6, <1>7

LEMMA PhaseSets ==
    /\ Certifying = {"implementation", "design-critique", "qa", "review"}
    /\ Recovering = {"design-critique", "review"}
    /\ "qa" \in Certifying
<1>1. Gates = {"design-critique", "qa", "tdd", "review", "verification"}
    BY DEF Gates, UIGates
<1>2. /\ PhaseOf("design-critique") = "design-critique" /\ PhaseOf("qa") = "qa"
      /\ PhaseOf("tdd") = "implementation" /\ PhaseOf("review") = "review"
      /\ PhaseOf("verification") = "review"
    BY DEF PhaseOf
<1>3. Certifying = {"implementation", "design-critique", "qa", "review"}
    BY <1>1, <1>2 DEF Certifying
<1> QED
    BY <1>3 DEF Recovering, Threshold

(* Where a result that passed leads.                                       *)
LEMMA PassMoves ==
    ASSUME SessionTypeOK, NEW c \in Commit, NEW outcome \in Outcomes, Pass(c, outcome)
    PROVE  /\ blockers' = blockers
           /\ \/ /\ Ends /\ phase \in {"ship", "retro"}
                 /\ phase' = phase /\ attempt' = attempt /\ status' \in {"handoff", "complete"}
              \/ /\ ~Ends /\ status' = "active" /\ attempt' = 1
                 /\ phase' = Successor(phase) /\ phase # "retro"
                 /\ phase' \in Phase /\ Later(phase', phase) /\ Routed(facts, phase')
                 /\ \A q \in Phase : Later(q, phase) /\ Routed(facts, q) => ~Later(phase', q)
<1>1. status = "active" /\ blockers' = blockers
    BY DEF Pass, Recorded
<1>2. phase \in Phase /\ facts \in Routing
    BY DEF SessionTypeOK
<1>3. CASE Ends
    <2>1. phase' = phase /\ attempt' = attempt /\ status' \in {"handoff", "complete"}
        BY <1>3 DEF Pass
    <2>2. phase \in {"ship", "retro"}
        BY <1>2, <1>3, LastPhase DEF Ends
    <2> QED
        BY <1>1, <1>3, <2>1, <2>2
<1>4. CASE ~Ends
    <2>1. phase' = Successor(phase) /\ attempt' = 1 /\ status' = "active"
        BY <1>1, <1>4 DEF Pass
    <2>2. phase # "retro"
        BY <1>2, <1>4, LastPhase DEF Ends
    <2> QED
        BY <1>1, <1>2, <1>4, <2>1, <2>2, NextPhase
<1> QED
    BY <1>3, <1>4

(* The commit that the last result names is HEAD, and the newest named.    *)
LEMMA EndsAt ==
    ASSUME IInv, NEW c \in Commit, NEW outcome \in Outcomes, Pass(c, outcome), Ends
    PROVE  CertifiedAt' = LatestCommit(attempts)'
<1>1. /\ attempts \in Seq(Attempt) /\ head \in Commit \ {0} /\ head' = head /\ c \in {0, head}
      /\ phase \in Phase
    BY DEF IInv, SessionTypeOK, Pass, Recorded
<1>2. PICK a : a = [phase |-> phase, attempt |-> attempt, status |-> "passed", commit |-> c]
    OBVIOUS
<1>3. attempts' = Append(attempts, a) /\ a.commit = c
    BY <1>2 DEF Pass, Recorded
<1> DEFINE n == Len(attempts) + 1
<1>4. /\ attempts' = Append(attempts, a) /\ n \in Nat /\ DOMAIN attempts' = 1 .. n
      /\ attempts'[n] = a /\ Len(attempts') = n
    BY <1>1, <1>3
<1>5. Last(attempts').commit = c
    BY <1>3, <1>4 DEF Last
<1>6. c # 0 => LatestCommit(attempts') = head
  <2> SUFFICES ASSUME c # 0 PROVE LatestCommit(attempts') = head
      OBVIOUS
  <2> DEFINE committed == {i \in DOMAIN attempts' : attempts'[i].commit # 0}
  <2>1. committed \in SUBSET Nat /\ n \in committed /\ \A i \in committed : i <= n
      BY <1>3, <1>4
  <2>2. Max(committed) = n
    <3> HIDE DEF committed, n
    <3>1. PICK m : m = Max(committed)
        OBVIOUS
    <3>2. m \in committed /\ \A i \in committed : i <= m
        BY ONLY <1>4, <2>1, <3>1, MaxOf
    <3>3. m \in Nat /\ m <= n /\ n <= m
        BY ONLY <2>1, <3>2
    <3>4. n \in Nat
        BY <1>4
    <3> QED
        BY ONLY <3>1, <3>3, <3>4
  <2>3. attempts'[Max(committed)].commit = head
      BY <1>1, <1>3, <1>4, <2>2
  <2> QED
      BY <2>1, <2>3 DEF LatestCommit
<1>7. status' = "handoff" => c # 0
  <2>1. status' = "handoff" => phase = "ship"
      BY DEF Pass
  <2>2. phase = "ship" => c # 0
      BY CommitsRequired DEF Pass, Recorded, RequiresCommit
  <2> QED
      BY <2>1, <2>2
<1>8. LatestCommit(attempts)' = LatestCommit(attempts')
    BY <1>1 DEF LatestCommit
<1> QED
    BY <1>1, <1>5, <1>6, <1>7, <1>8 DEF CertifiedAt

(* A session that ends is certified.                                       *)
LEMMA EndIsCertified ==
    ASSUME IInv, NEW c \in Commit, NEW outcome \in Outcomes, Pass(c, outcome), Ends,
           EvidenceEarned'
    PROVE  CompleteIsCurrent'
<1> DEFINE h == CertifiedAt'
<1>1. UNCHANGED <<head, facts, skips>>
    BY DEF Pass, Recorded
<1>2. h = LatestCommit(attempts)'
    BY EndsAt
<1>3. FinalGates(h, evidence', runs')
    <2>1. LatestCommit(attempts)' = LatestCommit(attempts')
        BY <1>1 DEF LatestCommit
    <2> QED
        BY <1>2, <2>1 DEF Pass
<1> HIDE DEF h
<1>4. ASSUME NEW g \in RequiredGates(facts')
      PROVE  \/ g \in UIGates /\ skips'[g] = h /\ h \in UIFree
             \/ /\ \E i \in DOMAIN attempts' :
                       attempts'[i].phase = PhaseOf(g) /\ attempts'[i].status = "passed"
                /\ h \in {evidence'[PhaseOf(g)].commit, evidence'[PhaseOf(g)].verified}
                /\ g = "qa" => Last(runs').verdict = "passed" /\ Last(runs').commit = h
    <2>1. g \in RequiredGates(facts)
        BY <1>1, <1>4
    <2>2. Current(g, h, evidence', runs') \/ Skipped(g, h)
        BY <1>3, <2>1 DEF FinalGates
    <2>3. CASE Skipped(g, h)
        BY <1>1, <2>3 DEF Skipped
    <2>4. CASE Current(g, h, evidence', runs')
        <3>1. g \in Gates
            BY <2>1 DEF RequiredGates, Gates, UIGates
        <3>2. PhaseOf(g) \in Certifying
            BY <3>1 DEF Certifying
        <3>3. evidence'[PhaseOf(g)].commit # 0
            BY <2>4 DEF Current
        <3>4. \E i \in DOMAIN attempts' :
                  attempts'[i].phase = PhaseOf(g) /\ attempts'[i].status = "passed"
            BY <3>2, <3>3 DEF EvidenceEarned
        <3>5. g = "qa" => Last(runs') = [commit |-> h, verdict |-> "passed"]
            BY <2>4 DEF Current
        <3>6. g = "qa" => Last(runs').verdict = "passed" /\ Last(runs').commit = h
            BY <3>5
        <3>7. h \in {evidence'[PhaseOf(g)].commit, evidence'[PhaseOf(g)].verified}
            BY <2>4 DEF Current
        <3> QED
            BY <3>4, <3>6, <3>7
    <2> QED
        BY <2>2, <2>3, <2>4
<1> QED
    BY <1>4 DEF CompleteIsCurrent, h

LEMMA PassKeeps ==
    ASSUME IInv, NEW c \in Commit, NEW outcome \in Outcomes, Pass(c, outcome)
    PROVE  IInv'
<1>1. SessionTypeOK /\ phase \in Phase
    BY DEF IInv, SessionTypeOK
<1>2. Recorded("passed", c, outcome) /\ "passed" \in Statuses
    BY DEF Pass, Statuses
<1>3. /\ status = "active"
      /\ attempts' \in Seq(Attempt) /\ runs' \in Seq(Run)
      /\ lineage' \in [Recovering -> Seq(Statuses)]
      /\ UNCHANGED <<head, facts, headless, skips, units, owns>>
    BY <1>1, <1>2, RecordedTypes
<1>4. /\ blockers' = blockers
      /\ \/ /\ Ends /\ phase \in {"ship", "retro"}
            /\ phase' = phase /\ attempt' = attempt /\ status' \in {"handoff", "complete"}
         \/ /\ ~Ends /\ status' = "active" /\ attempt' = 1
            /\ phase' = Successor(phase) /\ phase # "retro"
            /\ phase' \in Phase /\ Later(phase', phase) /\ Routed(facts, phase')
            /\ \A q \in Phase : Later(q, phase) /\ Routed(facts, q) => ~Later(phase', q)
    BY <1>1, PassMoves
<1>5. evidence' = IF phase \in Certifying
                  THEN [evidence EXCEPT ![phase] = [commit |-> c, verified |-> 0]] ELSE evidence
    BY DEF Pass
<1>6. \A i \in DOMAIN blockers : blockers[i].resolved
    BY <1>1, <1>3, ActiveIsResolved
<1>7. phase' \in Phase /\ (phase' = phase \/ Later(phase', phase))
    BY <1>1, <1>4
<1>8. SessionTypeOK'
    <2>1. evidence' \in [Certifying -> [commit : Commit, verified : Commit]]
        <3>1. evidence \in [Certifying -> [commit : Commit, verified : Commit]]
            BY <1>1 DEF SessionTypeOK
        <3>2. [commit |-> c, verified |-> 0] \in [commit : Commit, verified : Commit]
            BY SessionBounds DEF Commit
        <3> QED
            BY <1>5, <3>1, <3>2
    <2>2. /\ status' \in {"active", "handoff", "complete"}
          /\ attempt' \in Nat \ {0}
          /\ Routed(facts', phase')
        BY <1>1, <1>3, <1>4 DEF SessionTypeOK
    <2> QED
        BY <1>1, <1>3, <1>4, <1>6, <1>7, <2>1, <2>2 DEF SessionTypeOK, Statuses
<1>9. BlockersSound'
    BY <1>4, <1>6 DEF BlockersSound
<1>10. AttemptsPast'
    <2>1. \A i \in DOMAIN attempts' :
              attempts'[i].phase \in Phase /\ ~Later(attempts'[i].phase, phase)
        BY <1>2, NoneAhead
    <2>2. ASSUME NEW p \in Phase, ~Later(p, phase) PROVE ~Later(p, phase')
        BY <1>1, <1>7, <2>2, LaterOrder
    <2> QED
        BY <2>1, <2>2 DEF AttemptsPast
<1>11. \A p : Failures(p)' = Failures(p) /\ Resolutions(p)' = Resolutions(p)
    <2>1. \A p : Failures(p)' = Failures(p)
        BY <1>1, <1>2, RecordedCounts
    <2>2. \A p : Resolutions(p)' = Resolutions(p)
        BY <1>4 DEF Resolutions
    <2> QED
        BY <2>1, <2>2
<1>12. RetryBudget'
    BY <1>11 DEF IInv, RetryBudget
<1>13. ASSUME ~Ends PROVE AttemptsOf(phase)' = {} /\ Failures(phase)' = 0
    <2>1. Later(phase', phase)
        BY <1>4, <1>13
    <2>2. \A i \in DOMAIN attempts' : ~Later(attempts'[i].phase, phase)
        BY <1>2, NoneAhead
    <2>3. AttemptsOf(phase)' = {}
        BY <2>1, <2>2 DEF AttemptsOf
    <2> QED
        BY <2>3, FS_EmptySet DEF Failures
<1>14. BudgetSound'
    <2>1. CASE Ends
        BY <1>4, <2>1 DEF BudgetSound
    <2>2. CASE ~Ends
        <3>1. Resolutions(phase)' \in Nat
            <4>1. \A p : Resolutions(p) \in Nat
                BY <1>1, IndexSets
            <4>2. Resolutions(phase)' = Resolutions(phase')
                BY <1>4 DEF Resolutions
            <4> QED
                BY <4>1, <4>2
        <3> QED
            BY <1>4, <1>13, <2>2, <3>1 DEF BudgetSound, MaxPhaseAttempts
    <2> QED
        BY <2>1, <2>2
<1>15. FreshAttempts'
    BY <1>2, RecordIsFresh
<1>16. /\ runs \in Seq(Run) /\ Len(runs) \in Nat /\ Len(runs') \in Nat
       /\ Len(runs) <= Len(runs')
       /\ \A i \in 1 .. Len(runs) : runs'[i] = runs[i]
       /\ phase = "qa" => Len(runs') = Len(runs) + 1
                          /\ runs'[Len(runs) + 1] = [commit |-> c, verdict |-> "passed"]
    BY <1>1, <1>2, <1>3, RunsRecorded
<1>17. NumbersSound'
    <2>1. CASE Ends
        BY <1>4, <2>1, PhaseSets DEF NumbersSound, Counted
    <2>2. CASE ~Ends
        BY <1>4, <1>13, <1>16, <2>2 DEF NumbersSound
    <2> QED
        BY <2>1, <2>2
<1>18. QaLedgerAgrees'
    <2>1. Ledgered'
        BY <1>2, RecordIsLedgered
    <2>2. ASSUME NEW k \in {evidence'["qa"].commit, evidence'["qa"].verified} \ {0}
          PROVE  \E i \in DOMAIN runs' : runs'[i] = [commit |-> k, verdict |-> "passed"]
        <3>1. CASE phase = "qa"
            <4>1. evidence'["qa"] = [commit |-> c, verified |-> 0]
                BY <1>1, <1>5, <3>1, PhaseSets DEF SessionTypeOK
            <4>2. k = c
                BY <2>2, <4>1
            <4> QED
                BY <1>3, <1>16, <3>1, <4>2
        <3>2. CASE phase # "qa"
            <4>1. evidence'["qa"] = evidence["qa"]
                BY <1>1, <1>5, <3>2, PhaseSets DEF SessionTypeOK
            <4> QED
                BY <1>3, <1>16, <2>2, <4>1, CertifiedStays
        <3> QED
            BY <3>1, <3>2
    <2> QED
        BY <2>1, <2>2 DEF QaLedgerAgrees
<1>19. QaCounted'
    <2>1. Cardinality(AttemptsOf("qa"))' <= Len(runs)'
          /\ (~Later(phase, "qa") => Cardinality(AttemptsOf("qa"))' = Len(runs)')
        BY <1>2, RecordIsLedgered
    <2>2. Later(phase, "qa") => Later(phase', "qa")
        <3>1. "qa" \in Phase
            BY PhasesAre
        <3> QED
            BY <1>1, <1>7, <3>1, LaterOrder
    <2>3. evidence'["qa"].commit # 0 => Later(phase', "qa")
        <3>1. CASE phase = "qa"
            BY <1>4, <3>1
        <3>2. CASE phase # "qa"
            <4>1. evidence'["qa"] = evidence["qa"]
                BY <1>1, <1>5, <3>2, PhaseSets DEF SessionTypeOK
            <4> QED
                BY <2>2, <4>1 DEF IInv, QaCounted
        <3> QED
            BY <3>1, <3>2
    <2> QED
        BY <2>1, <2>2, <2>3 DEF QaCounted
<1>20. EvidenceEarned'
    <2>1. ASSUME NEW p \in Certifying, evidence'[p].commit # 0
          PROVE  evidence[p].commit # 0 \/ p = phase
        BY <1>1, <1>5, <2>1 DEF SessionTypeOK
    <2> QED
        BY <1>2, <2>1, EarnedStays DEF EvidenceEarned
<1>21. CompleteIsCurrent'
    <2>1. CASE Ends
        BY <1>20, <2>1, EndIsCertified
    <2>2. CASE ~Ends
        BY <1>4, <2>2, OpenIsFree DEF Open
    <2> QED
        BY <2>1, <2>2
<1>22. UnitsSafe'
    <2>1. CASE Later(phase', "implementation") => Later(phase, "implementation")
        BY <1>3, <2>1, UnitsStay DEF IInv
    <2>2. CASE Later(phase', "implementation") /\ ~Later(phase, "implementation")
        <3>1. phase = "implementation"
            <4>1. phase' # phase /\ ~Ends
                BY <1>4, <2>2
            <4>2. Routed(facts, "implementation") /\ "implementation" \in Phase
                BY PhasesAre DEF Routed
            <4>3. ~Later("implementation", phase)
                BY <1>4, <2>2, <4>1, <4>2
            <4> QED
                BY <1>1, <2>2, <4>2, <4>3, LaterOrder
        <3>2. Done(units)
            BY <3>1 DEF Pass
        <3> QED
            BY <1>3, <3>2 DEF IInv, UnitsSafe, InStatus, Overlap, Done
    <2> QED
        BY <2>1, <2>2
<1> QED
    BY <1>8, <1>9, <1>10, <1>12, <1>14, <1>15, <1>17, <1>18, <1>19, <1>20, <1>21, <1>22 DEF IInv

(* What a result that does not pass keeps, whatever becomes of the session.*)
LEMMA NonPassing ==
    ASSUME IInv, NEW st \in {"failed", "blocked"}, NEW c \in Commit, NEW outcome \in Outcomes,
           Recorded(st, c, outcome), evidence' = Withdrawn, phase' = phase
    PROVE  /\ evidence' \in [Certifying -> [commit : Commit, verified : Commit]]
           /\ AttemptsPast' /\ FreshAttempts' /\ QaLedgerAgrees' /\ QaCounted'
           /\ EvidenceEarned' /\ UnitsSafe'
           /\ phase \in Counted => \A i \in AttemptsOf(phase)' : attempts'[i].attempt <= attempt
<1>1. st \in Statuses /\ SessionTypeOK /\ phase \in Phase
    BY DEF Statuses, IInv, SessionTypeOK
<1>2. UNCHANGED <<units, owns>>
    BY <1>1, RecordedTypes
<1>3. evidence' \in [Certifying -> [commit : Commit, verified : Commit]]
    <2>1. evidence \in [Certifying -> [commit : Commit, verified : Commit]]
        BY <1>1 DEF SessionTypeOK
    <2>2. NoEvidence \in [commit : Commit, verified : Commit]
        BY SessionBounds DEF Commit, NoEvidence
    <2> QED
        BY <2>1, <2>2 DEF Withdrawn
<1>4. \A p \in Certifying : evidence'[p] = evidence[p] \/ evidence'[p] = NoEvidence
    <2>1. evidence \in [Certifying -> [commit : Commit, verified : Commit]]
        BY <1>1 DEF SessionTypeOK
    <2> QED
        BY <2>1 DEF Withdrawn
<1>5. AttemptsPast'
    BY <1>1, NoneAhead DEF AttemptsPast
<1>6. FreshAttempts'
    BY <1>1, RecordIsFresh
<1>7. QaLedgerAgrees'
    <2>1. Ledgered'
        BY <1>1, RecordIsLedgered
    <2>2. /\ runs' \in Seq(Run) /\ Len(runs) \in Nat /\ Len(runs) <= Len(runs')
          /\ \A i \in 1 .. Len(runs) : runs'[i] = runs[i]
        <3>1. Len(runs') = IF phase = "qa" THEN Len(runs) + 1 ELSE Len(runs)
            BY <1>1, RunsRecorded
        <3>2. /\ runs' \in Seq(Run) /\ Len(runs) \in Nat
              /\ \A i \in 1 .. Len(runs) : runs'[i] = runs[i]
            BY <1>1, RunsRecorded
        <3> QED
            BY <3>1, <3>2
    <2>3. ASSUME NEW k \in {evidence'["qa"].commit, evidence'["qa"].verified} \ {0}
          PROVE  \E i \in DOMAIN runs' : runs'[i] = [commit |-> k, verdict |-> "passed"]
        <3>1. k \in {evidence["qa"].commit, evidence["qa"].verified} \ {0}
            BY <1>4, <2>3, PhaseSets DEF NoEvidence
        <3> QED
            BY <2>2, <3>1, CertifiedStays
    <2> QED
        BY <2>1, <2>3 DEF QaLedgerAgrees
<1>8. QaCounted'
    <2>1. Cardinality(AttemptsOf("qa"))' <= Len(runs)'
          /\ (~Later(phase, "qa") => Cardinality(AttemptsOf("qa"))' = Len(runs)')
        BY <1>1, RecordIsLedgered
    <2>2. evidence'["qa"].commit # 0 => evidence["qa"].commit # 0
        BY <1>4, PhaseSets DEF NoEvidence
    <2> QED
        BY <2>1, <2>2 DEF IInv, QaCounted
<1>9. EvidenceEarned'
    <2>1. \A p \in Certifying : evidence'[p].commit # 0 => evidence[p].commit # 0
        BY <1>4 DEF NoEvidence
    <2> QED
        BY <1>1, <2>1, EarnedStays DEF EvidenceEarned
<1>10. UnitsSafe'
    BY <1>2, UnitsStay DEF IInv
<1>11. ASSUME phase \in Counted, NEW i \in AttemptsOf(phase)'
       PROVE  attempts'[i].attempt <= attempt
    <2>1. /\ DOMAIN attempts' = 1 .. Len(attempts) + 1 /\ DOMAIN attempts = 1 .. Len(attempts)
          /\ Len(attempts) \in Nat
          /\ \A j \in DOMAIN attempts : attempts'[j] = attempts[j]
          /\ attempts'[Len(attempts) + 1] =
                 [phase |-> phase, attempt |-> attempt, status |-> st, commit |-> c]
        BY <1>1, Recording
    <2>2. i \in DOMAIN attempts' /\ attempts'[i].phase = phase
        BY <1>11 DEF AttemptsOf
    <2>3. attempt \in Nat /\ status = "active"
        BY <1>1 DEF SessionTypeOK, Recorded
    <2>4. CASE i \in DOMAIN attempts
        <3>1. attempts[i].attempt < attempt
            BY <1>11, <2>1, <2>2, <2>3, <2>4 DEF IInv, NumbersSound, AttemptsOf
        <3>2. attempts[i] \in Attempt
            BY <1>1, <2>4 DEF SessionTypeOK
        <3>3. attempts[i].attempt \in Nat
            BY <3>2 DEF Attempt
        <3> QED
            BY <2>1, <2>3, <2>4, <3>1, <3>3
    <2>5. CASE i = Len(attempts) + 1
        BY <2>1, <2>3, <2>5
    <2> QED
        BY <2>1, <2>2, <2>4, <2>5
<1> QED
    BY <1>3, <1>5, <1>6, <1>7, <1>8, <1>9, <1>10, <1>11

(* The session blocks: of the three attempts of a plain phase at most two  *)
(* had failed, so that this one is the last that the budget allows.        *)
LEMMA BlocksKeeps ==
    ASSUME IInv, NEW st \in {"failed", "blocked"}, NEW c \in Commit, NEW outcome \in Outcomes,
           Recorded(st, c, outcome), evidence' = Withdrawn, Blocks
    PROVE  IInv'
<1> DEFINE b == [phase |-> phase, resolved |-> FALSE]
           m == Len(blockers)
<1>1. st \in Statuses /\ SessionTypeOK /\ phase \in Phase
    BY DEF Statuses, IInv, SessionTypeOK
<1>2. /\ status' = "blocked" /\ phase' = phase /\ attempt' = attempt
      /\ blockers' = Append(blockers, b)
    BY DEF Blocks
<1>3. /\ evidence' \in [Certifying -> [commit : Commit, verified : Commit]]
      /\ AttemptsPast' /\ FreshAttempts' /\ QaLedgerAgrees' /\ QaCounted'
      /\ EvidenceEarned' /\ UnitsSafe'
      /\ phase \in Counted => \A i \in AttemptsOf(phase)' : attempts'[i].attempt <= attempt
    BY <1>2, NonPassing
<1>4. /\ status = "active"
      /\ attempts' \in Seq(Attempt) /\ runs' \in Seq(Run)
      /\ lineage' \in [Recovering -> Seq(Statuses)]
      /\ UNCHANGED <<head, facts, headless, skips, units, owns>>
    BY <1>1, RecordedTypes
<1>5. /\ m \in Nat /\ DOMAIN blockers = 1 .. m
      /\ blockers' \in Seq([phase : Phase, resolved : BOOLEAN])
      /\ Len(blockers') = m + 1 /\ DOMAIN blockers' = 1 .. m + 1
      /\ \A i \in 1 .. m : blockers'[i] = blockers[i]
      /\ blockers'[m + 1] = b
    <2>1. blockers \in Seq([phase : Phase, resolved : BOOLEAN])
          /\ b \in [phase : Phase, resolved : BOOLEAN]
        BY <1>1 DEF SessionTypeOK
    <2> HIDE DEF b
    <2> QED
        BY <1>2, <2>1, AppendProperties
<1> HIDE DEF m
<1>6. \A i \in DOMAIN blockers : blockers[i].resolved
    BY <1>1, <1>4, ActiveIsResolved
<1>7. SessionTypeOK'
    <2>1. \E i \in DOMAIN blockers' : ~blockers'[i].resolved
        <3>1. m + 1 \in DOMAIN blockers' /\ ~blockers'[m + 1].resolved
            BY <1>5
        <3> QED
            BY <3>1
    <2> QED
        BY <1>1, <1>2, <1>3, <1>4, <1>5, <2>1 DEF SessionTypeOK, Statuses
<1>8. BlockersSound'
    BY <1>2, <1>5, <1>6 DEF BlockersSound
<1>9. \A p : Resolutions(p)' = Resolutions(p)
    <2>1. \A p : {i \in DOMAIN blockers' : blockers'[i].phase = p /\ blockers'[i].resolved}
               = {i \in DOMAIN blockers : blockers[i].phase = p /\ blockers[i].resolved}
        BY <1>5
    <2> QED
        BY <2>1 DEF Resolutions
<1>10. RetryBudget'
    <2> SUFFICES ASSUME NEW p \in Plain
                 PROVE  Failures(p)' <= MaxPhaseAttempts * (1 + Resolutions(p)')
        BY DEF RetryBudget, Plain
    <2>1. Failures(p)' = IF p = phase /\ st = "failed" THEN Failures(p) + 1 ELSE Failures(p)
        BY <1>1, RecordedCounts
    <2>2. Failures(p) \in Nat /\ Resolutions(p) \in Nat /\ attempt \in Nat
        BY <1>1, IndexSets DEF SessionTypeOK
    <2>3. Failures(p) <= MaxPhaseAttempts * (1 + Resolutions(p))
        BY DEF IInv, RetryBudget, Plain
    <2>4. p = phase => attempt <= MaxPhaseAttempts
                       /\ Failures(p) <= MaxPhaseAttempts * Resolutions(p) + (attempt - 1)
        BY <1>4 DEF IInv, BudgetSound
    <2>5. Resolutions(p)' = Resolutions(p)
        BY <1>9
    <2> QED
        BY <2>1, <2>2, <2>3, <2>4, <2>5 DEF MaxPhaseAttempts
<1>11. BudgetSound'
    BY <1>2 DEF BudgetSound
<1>12. NumbersSound'
    <2>1. phase = "qa" => attempt <= Len(runs')
        <3>1. phase = "qa" => Len(runs') = Len(runs) + 1
            BY <1>1, RunsRecorded
        <3>2. phase = "qa" => attempt <= Len(runs) + 1
            BY <1>4 DEF IInv, NumbersSound
        <3> QED
            BY <3>1, <3>2
    <2> QED
        BY <1>2, <1>3, <2>1 DEF NumbersSound
<1>13. CompleteIsCurrent'
    BY <1>2, OpenIsFree DEF Open
<1> QED
    BY <1>3, <1>7, <1>8, <1>10, <1>11, <1>12, <1>13 DEF IInv

LEMMA FailKeeps ==
    ASSUME IInv, NEW c \in Commit, NEW outcome \in Outcomes, Fail(c, outcome)
    PROVE  IInv'
<1>1. /\ Recorded("failed", c, outcome) /\ evidence' = Withdrawn
      /\ "failed" \in Statuses /\ "failed" \in {"failed", "blocked"}
    BY DEF Fail, Statuses
<1>2. CASE Exhausted
    BY <1>1, <1>2, BlocksKeeps DEF Fail
<1>3. CASE ~Exhausted
    <2>1. SessionTypeOK /\ phase \in Phase /\ attempt \in Nat \ {0}
        BY DEF IInv, SessionTypeOK
    <2>2. /\ UNCHANGED <<status, phase, blockers>>
          /\ attempt' = 1 + (IF phase = "qa" THEN Max({attempt, Len(runs')}) ELSE attempt)
        BY <1>3 DEF Fail
    <2>3. /\ evidence' \in [Certifying -> [commit : Commit, verified : Commit]]
          /\ AttemptsPast' /\ FreshAttempts' /\ QaLedgerAgrees' /\ QaCounted'
          /\ EvidenceEarned' /\ UnitsSafe'
          /\ phase \in Counted => \A i \in AttemptsOf(phase)' : attempts'[i].attempt <= attempt
        BY <1>1, <2>2, NonPassing
    <2>4. /\ status = "active"
          /\ attempts' \in Seq(Attempt) /\ runs' \in Seq(Run)
          /\ lineage' \in [Recovering -> Seq(Statuses)]
          /\ UNCHANGED <<head, facts, headless, skips, units, owns>>
        BY <1>1, <2>1, RecordedTypes
    <2>5. phase = "qa" => attempt' = 1 + Len(runs') /\ attempt <= Len(runs')
        <3> SUFFICES ASSUME phase = "qa" PROVE attempt' = 1 + Len(runs') /\ attempt <= Len(runs')
            OBVIOUS
        <3>1. Len(runs) \in Nat /\ Len(runs') = Len(runs) + 1
            BY <1>1, <2>1, RunsRecorded
        <3>2. attempt <= Len(runs')
            BY <2>4, <3>1 DEF IInv, NumbersSound
        <3>3. Max({attempt, Len(runs')}) = Len(runs')
            <4> DEFINE S == {attempt, Len(runs')}
            <4>1. /\ S \in SUBSET Nat /\ S # {} /\ \A x \in S : x <= Len(runs')
                  /\ Len(runs') \in Nat
                BY <2>1, <3>1, <3>2
            <4>2. Max(S) \in S /\ \A x \in S : x <= Max(S)
                <5> HIDE DEF S
                <5> QED
                    BY <4>1, MaxOf
            <4> QED
                BY <2>1, <3>1, <3>2, <4>2
        <3> QED
            BY <2>2, <3>2, <3>3
    <2>6. attempt' \in Nat \ {0} /\ attempt < attempt'
        <3>1. Len(runs') \in Nat
            BY <2>4
        <3> QED
            BY <2>1, <2>2, <2>5, <3>1
    <2>7. SessionTypeOK'
        BY <2>1, <2>2, <2>3, <2>4, <2>6 DEF SessionTypeOK, Statuses
    <2>8. BlockersSound'
        BY <2>2 DEF IInv, BlockersSound
    <2>9. phase \in Plain => attempt < MaxPhaseAttempts /\ attempt' = attempt + 1
        BY <1>3, <2>1, <2>2 DEF Exhausted, Plain, MaxPhaseAttempts
    <2>10. ASSUME NEW p
           PROVE  /\ Resolutions(p)' = Resolutions(p)
                  /\ Resolutions(p) \in Nat /\ Failures(p) \in Nat
                  /\ Failures(p)' = IF p = phase THEN Failures(p) + 1 ELSE Failures(p)
        <3>1. Resolutions(p)' = Resolutions(p)
            BY <2>2 DEF Resolutions
        <3> QED
            BY <1>1, <2>1, <3>1, RecordedCounts, IndexSets
    <2>11. phase \in Plain =>
               Failures(phase) <= MaxPhaseAttempts * Resolutions(phase) + (attempt - 1)
        BY <2>4 DEF IInv, BudgetSound
    <2>12. RetryBudget'
        <3> SUFFICES ASSUME NEW p \in Plain
                     PROVE  Failures(p)' <= MaxPhaseAttempts * (1 + Resolutions(p)')
            BY DEF RetryBudget, Plain
        <3>1. Failures(p) <= MaxPhaseAttempts * (1 + Resolutions(p))
            BY DEF IInv, RetryBudget, Plain
        <3> QED
            BY <2>1, <2>9, <2>10, <2>11, <3>1 DEF MaxPhaseAttempts
    <2>13. BudgetSound'
        <3>1. Failures(phase)' = Failures(phase) + 1 /\ Resolutions(phase)' = Resolutions(phase)
            BY <2>2, <2>10
        <3>2. Failures(phase) \in Nat /\ Resolutions(phase) \in Nat
            BY <2>10
        <3>3. phase \in Plain =>
                  /\ attempt' <= MaxPhaseAttempts
                  /\ Failures(phase)' <= MaxPhaseAttempts * Resolutions(phase)' + (attempt' - 1)
            BY <2>1, <2>9, <2>11, <3>1, <3>2 DEF MaxPhaseAttempts
        <3> QED
            BY <2>2, <3>3 DEF BudgetSound
    <2>14. NumbersSound'
        <3>1. phase \in Counted => \A i \in AttemptsOf(phase)' : attempts'[i].attempt < attempt'
            <4>1. \A i \in AttemptsOf(phase)' : attempts'[i] \in Attempt
                BY <2>4 DEF AttemptsOf
            <4>2. \A i \in AttemptsOf(phase)' : attempts'[i].attempt \in Nat
                BY <4>1 DEF Attempt
            <4> QED
                BY <2>1, <2>3, <2>6, <4>2
        <3>2. phase = "qa" => attempt' <= Len(runs') + 1
            <4>1. Len(runs') \in Nat
                BY <2>4
            <4> QED
                BY <2>5, <4>1
        <3> QED
            BY <2>2, <2>4, <3>1, <3>2 DEF NumbersSound
    <2>15. CompleteIsCurrent'
        BY <2>2, <2>4, OpenIsFree DEF Open
    <2> QED
        BY <2>3, <2>7, <2>8, <2>12, <2>13, <2>14, <2>15 DEF IInv
<1> QED
    BY <1>2, <1>3

LEMMA BlockKeeps ==
    ASSUME IInv, NEW c \in Commit, NEW outcome \in Outcomes, Block(c, outcome)
    PROVE  IInv'
BY BlocksKeeps DEF Block

-----------------------------------------------------------------------------
(* The other commands.                                                     *)

LEMMA RouteKeeps == ASSUME IInv, NEW f \in Routings, Route(f) PROVE IInv'
<1>1. /\ SessionTypeOK /\ phase = "intake" /\ phase \in Phase
      /\ UNCHANGED <<head, headless, status, phase, attempt, attempts, blockers, evidence,
                     runs, lineage, skips>>
      /\ Open(status')
    BY DEF IInv, SessionTypeOK, Route, Open
<1>2. /\ facts' = f /\ owns' = Owns
      /\ units' = [u \in Unit |-> IF f.multi THEN "pending" ELSE "unrouted"]
    BY DEF Route
<1>3. SessionTypeOK'
    <2>1. facts' \in Routing /\ Routed(facts', phase')
        BY <1>1, <1>2, CommandInputs DEF Routed
    <2>2. units' \in [Unit -> UnitStatuses] /\ owns' \in [Unit -> SUBSET Paths]
        BY <1>2, UnitContracts DEF UnitStatuses, Unit
    <2> QED
        BY <1>1, <2>1, <2>2 DEF SessionTypeOK
<1>4. Len(runs') = Len(runs) /\ Len(runs) \in Nat
    BY <1>1 DEF SessionTypeOK
<1>5. BlockersSound' /\ AttemptsPast' /\ RetryBudget' /\ BudgetSound' /\ FreshAttempts'
      /\ NumbersSound'
    BY <1>1, <1>3, <1>4, RecordsStay
<1>6. QaLedgerAgrees' /\ QaCounted' /\ EvidenceEarned'
    BY <1>1, QaStays
<1>7. CompleteIsCurrent'
    BY <1>1, OpenIsFree
<1>8. UnitsSafe'
    <2>1. ~Later(phase', "implementation")
        BY <1>1, LaterValues
    <2>2. \A u \in Unit : units'[u] # "running"
        BY <1>2
    <2> QED
        BY <2>1, <2>2 DEF UnitsSafe, InStatus
<1> QED
    BY <1>3, <1>5, <1>6, <1>7, <1>8 DEF IInv

(* The number that a resumed phase goes on with.                           *)
LEMMA ResumedIsNew ==
    ASSUME IInv, status = "blocked"
    PROVE  /\ Resumed \in Nat \ {0}
           /\ phase \in Plain => Resumed = 1
           /\ phase \in Counted => \A i \in AttemptsOf(phase) : attempts[i].attempt < Resumed
           /\ phase = "qa" => Resumed <= Len(runs) + 1
<1>1. /\ SessionTypeOK /\ phase \in Phase /\ attempt \in Nat \ {0}
      /\ Len(runs) \in Nat /\ Cardinality(AttemptsOf("qa")) \in Nat
    BY IndexSets DEF IInv, SessionTypeOK
<1>2. \A i \in AttemptsOf(phase) : attempts[i].attempt \in Nat
    <2>1. \A i \in AttemptsOf(phase) : attempts[i] \in Attempt
        BY <1>1 DEF SessionTypeOK, AttemptsOf
    <2> QED
        BY <2>1 DEF Attempt
<1>3. phase \in Counted => \A i \in AttemptsOf(phase) : attempts[i].attempt <= attempt
    BY DEF IInv, NumbersSound
<1>4. CASE phase = "qa"
    <2> DEFINE S == {attempt, Len(runs) + 1, Cardinality(AttemptsOf("qa")) + 1}
    <2>1. Cardinality(AttemptsOf("qa")) = Len(runs) /\ attempt <= Len(runs)
        <3>1. ~Later(phase, "qa")
            BY <1>4, PhasesAre, LaterValues
        <3> QED
            BY <1>4, <3>1 DEF IInv, QaCounted, NumbersSound
    <2>2. /\ S \in SUBSET Nat /\ S # {} /\ \A x \in S : x <= Len(runs) + 1
          /\ Len(runs) + 1 \in Nat /\ Len(runs) + 1 \in S
        BY <1>1, <2>1
    <2>3. Max(S) \in S /\ \A x \in S : x <= Max(S)
        <3> HIDE DEF S
        <3> QED
            BY <2>2, MaxOf
    <2>4. Max(S) = Len(runs) + 1
        <3> HIDE DEF S
        <3>1. Max(S) \in Nat
            BY <2>2, <2>3
        <3> QED
            BY <2>2, <2>3, <3>1
    <2>5. Resumed = Len(runs) + 1
        <3>1. phase \notin Recovering
            BY <1>4, PhaseSets
        <3> QED
            BY <1>4, <2>4, <3>1 DEF Resumed
    <2>6. \A i \in AttemptsOf(phase) : attempts[i].attempt < Len(runs) + 1
        BY <1>1, <1>2, <1>3, <1>4, <2>1 DEF Counted
    <2> QED
        BY <1>1, <1>4, <2>5, <2>6 DEF Plain
<1>5. CASE phase \in Recovering
    <2> DEFINE S == {attempt} \cup {attempts[i].attempt + 1 : i \in AttemptsOf(phase)}
    <2>1. \A i \in AttemptsOf(phase) : attempts[i].attempt <= attempt
        BY <1>3, <1>5 DEF Counted
    <2>2. /\ S \in SUBSET Nat /\ S # {} /\ \A x \in S : x <= attempt + 1
          /\ attempt + 1 \in Nat /\ attempt \in S
        BY <1>1, <1>2, <2>1
    <2>3. \A i \in AttemptsOf(phase) : attempts[i].attempt + 1 \in S
        OBVIOUS
    <2>4. Max(S) \in S /\ \A x \in S : x <= Max(S)
        <3> HIDE DEF S
        <3> QED
            BY <2>2, MaxOf
    <2>5. Max(S) \in Nat \ {0}
        <3> HIDE DEF S
        <3>1. Max(S) \in Nat /\ attempt <= Max(S)
            BY <2>2, <2>4
        <3> QED
            BY <1>1, <3>1
    <2>6. \A i \in AttemptsOf(phase) : attempts[i].attempt < Max(S)
        <3> HIDE DEF S
        <3>1. \A i \in AttemptsOf(phase) : attempts[i].attempt + 1 <= Max(S)
            BY <2>3, <2>4
        <3> QED
            BY <1>2, <2>5, <3>1
    <2>7. phase # "qa"
        BY <1>5, PhaseSets
    <2>8. Resumed = Max(S)
        BY <1>5, <2>7 DEF Resumed
    <2> HIDE DEF S
    <2> QED
        BY <1>5, <2>5, <2>6, <2>7, <2>8 DEF Plain
<1>6. CASE phase \notin Recovering /\ phase # "qa"
    BY <1>6 DEF Resumed, Counted
<1> QED
    BY <1>4, <1>5, <1>6

(* The blocker that is resolved is the one there is.                       *)
LEMMA UnblockResolves ==
    ASSUME IInv, Unblock
    PROVE  /\ blockers' \in Seq([phase : Phase, resolved : BOOLEAN])
           /\ \A i \in DOMAIN blockers' : blockers'[i].resolved
           /\ \A p : Resolutions(p)' =
                         IF p = phase THEN Resolutions(p) + 1 ELSE Resolutions(p)
<1> DEFINE T == [phase : Phase, resolved : BOOLEAN]
           open == {j \in DOMAIN blockers : ~blockers[j].resolved}
           m == Len(blockers)
           b == [blockers[m] EXCEPT !.resolved = TRUE]
           R(p) == {i \in DOMAIN blockers : blockers[i].phase = p /\ blockers[i].resolved}
<1>1. SessionTypeOK /\ status = "blocked" /\ phase \in Phase
    BY DEF IInv, SessionTypeOK, Unblock
<1>2. blockers \in Seq(T) /\ m \in Nat /\ DOMAIN blockers = 1 .. m
    BY <1>1 DEF SessionTypeOK
<1>3. open # {} /\ \A j \in open : j = m /\ blockers[j].phase = phase
    BY <1>1 DEF IInv, SessionTypeOK, BlockersSound
<1>4. m \in open /\ m \in 1 .. m /\ blockers[m].phase = phase /\ ~blockers[m].resolved
    <2>1. m \in open
        BY <1>3
    <2> QED
        BY <1>2, <1>3, <2>1
<1>5. Max(open) = m
    <2>1. open \in SUBSET Nat /\ \A x \in open : x <= m
        BY <1>2
    <2>2. Max(open) \in open
        <3> HIDE DEF open, m
        <3> QED
            BY <1>2, <1>3, <2>1, MaxOf
    <2> QED
        BY <1>3, <2>2
<1>6. blockers' = [blockers EXCEPT ![m].resolved = TRUE]
    BY <1>5 DEF Unblock
<1>7. blockers' = [blockers EXCEPT ![m] = b]
    BY <1>6
<1>8. b \in T /\ b.phase = phase /\ b.resolved
    <2>1. blockers[m] \in T
        <3> HIDE DEF T, m
        <3> QED
            BY <1>2, <1>4
    <2> QED
        BY <1>4, <2>1
<1> HIDE DEF m, b, T, open
<1>9. /\ blockers' \in Seq(T) /\ DOMAIN blockers' = 1 .. m
      /\ \A i \in 1 .. m : blockers'[i] = IF i = m THEN b ELSE blockers[i]
    BY <1>2, <1>4, <1>7, <1>8
<1>10. \A i \in 1 .. m : i # m => blockers[i].resolved
    BY <1>2, <1>3 DEF open
<1>11. \A i \in DOMAIN blockers' : blockers'[i].resolved
    BY <1>8, <1>9, <1>10
<1>12. ASSUME NEW p PROVE Resolutions(p)' = IF p = phase THEN Resolutions(p) + 1 ELSE Resolutions(p)
    <2>1. R(p)' = IF p = phase THEN R(p) \cup {m} ELSE R(p)
        BY <1>2, <1>4, <1>8, <1>9
    <2>2. R(p) \in SUBSET (1 .. m - 1) /\ m - 1 \in Nat /\ (m - 1) + 1 = m
        BY <1>2, <1>4
    <2>3. Cardinality(R(p) \cup {m}) = Cardinality(R(p)) + 1
        <3> HIDE DEF R
        <3>1. Cardinality(R(p) \cup {(m - 1) + 1}) = Cardinality(R(p)) + 1
            BY <2>2, OneMore
        <3> QED
            BY <2>2, <3>1
    <2>4. Resolutions(p) = Cardinality(R(p)) /\ Resolutions(p)' = Cardinality(R(p)')
        BY DEF Resolutions
    <2> HIDE DEF R
    <2> QED
        BY <2>1, <2>3, <2>4
<1> QED
    BY <1>9, <1>11, <1>12 DEF T

LEMMA UnblockKeeps == ASSUME IInv, Unblock PROVE IInv'
<1>1. /\ SessionTypeOK /\ phase \in Phase /\ status = "blocked"
      /\ status' = "active" /\ attempt' = Resumed
      /\ UNCHANGED <<head, facts, headless, phase, attempts, evidence, runs, lineage, skips,
                     units, owns>>
    BY DEF IInv, SessionTypeOK, Unblock
<1>2. /\ blockers' \in Seq([phase : Phase, resolved : BOOLEAN])
      /\ \A i \in DOMAIN blockers' : blockers'[i].resolved
      /\ \A p : Resolutions(p)' = IF p = phase THEN Resolutions(p) + 1 ELSE Resolutions(p)
    BY UnblockResolves
<1>3. /\ attempt' \in Nat \ {0}
      /\ phase \in Plain => attempt' = 1
      /\ phase \in Counted => \A i \in AttemptsOf(phase) : attempts[i].attempt < attempt'
      /\ phase = "qa" => attempt' <= Len(runs) + 1
    BY <1>1, ResumedIsNew
<1>4. SessionTypeOK'
    BY <1>1, <1>2, <1>3 DEF SessionTypeOK
<1>5. BlockersSound'
    BY <1>2 DEF BlockersSound
<1>6. AttemptsPast' /\ FreshAttempts'
    BY <1>1 DEF IInv, AttemptsPast, FreshAttempts
<1>7. \A p : AttemptsOf(p)' = AttemptsOf(p) /\ Failures(p)' = Failures(p)
    BY <1>1 DEF AttemptsOf, Failures
<1>8. ASSUME NEW p \in Plain
      PROVE  /\ Failures(p)' <= MaxPhaseAttempts * (1 + Resolutions(p)')
             /\ p = phase => Failures(p)' <= MaxPhaseAttempts * Resolutions(p)'
    <2>1. Failures(p) <= MaxPhaseAttempts * (1 + Resolutions(p))
        BY DEF IInv, RetryBudget, Plain
    <2>2. Failures(p) \in Nat /\ Resolutions(p) \in Nat
        BY <1>1, IndexSets
    <2>3. /\ Failures(p)' = Failures(p)
          /\ Resolutions(p)' = IF p = phase THEN Resolutions(p) + 1 ELSE Resolutions(p)
        BY <1>2, <1>7
    <2> QED
        BY <2>1, <2>2, <2>3 DEF MaxPhaseAttempts
<1>9. RetryBudget'
    BY <1>8 DEF RetryBudget, Plain
<1>10. BudgetSound'
    <2> SUFFICES ASSUME phase' \in Plain
                 PROVE  /\ attempt' <= MaxPhaseAttempts
                        /\ Failures(phase)' <= MaxPhaseAttempts * Resolutions(phase)' + (attempt' - 1)
        BY DEF BudgetSound
    <2>1. phase \in Plain
        BY <1>1
    <2>2. /\ Failures(phase)' = Failures(phase) /\ Failures(phase) \in Nat
          /\ Resolutions(phase)' = Resolutions(phase) + 1 /\ Resolutions(phase) \in Nat
        BY <1>1, <1>2, <1>7, IndexSets
    <2>3. Failures(phase) <= MaxPhaseAttempts * (1 + Resolutions(phase))
        BY <2>1 DEF IInv, RetryBudget, Plain
    <2> QED
        BY <1>3, <2>1, <2>2, <2>3 DEF MaxPhaseAttempts
<1>11. NumbersSound'
    BY <1>1, <1>3, <1>7 DEF NumbersSound
<1>12. QaLedgerAgrees' /\ QaCounted' /\ EvidenceEarned'
    BY <1>1, QaStays
<1>13. CompleteIsCurrent' /\ UnitsSafe'
    BY <1>1, OpenIsFree, UnitsStay DEF Open, IInv
<1> QED
    BY <1>4, <1>5, <1>6, <1>9, <1>10, <1>11, <1>12, <1>13 DEF IInv

LEMMA GateSkipKeeps == ASSUME IInv, NEW g \in UIGates, GateSkip(g) PROVE IInv'
<1>1. /\ SessionTypeOK /\ phase \in Phase /\ facts \in Routing
      /\ UNCHANGED <<head, facts, headless, status, attempts, blockers, evidence, runs,
                     lineage, units, owns>>
      /\ skips' \in [UIGates -> Commit]
      /\ Open(status')
    BY DEF IInv, SessionTypeOK, GateSkip, Commit
<1>2. Len(runs') = Len(runs) /\ Len(runs) \in Nat
    BY <1>1 DEF SessionTypeOK
<1>3. CompleteIsCurrent'
    BY <1>1, OpenIsFree
<1>4. CASE UNCHANGED <<phase, attempt>>
    <2>1. SessionTypeOK'
        BY <1>1, <1>4 DEF SessionTypeOK
    <2>2. BlockersSound' /\ AttemptsPast' /\ RetryBudget' /\ BudgetSound' /\ FreshAttempts'
          /\ NumbersSound'
        BY <1>1, <1>2, <1>4, <2>1, RecordsStay
    <2>3. QaLedgerAgrees' /\ QaCounted' /\ EvidenceEarned'
        BY <1>1, <1>4, QaStays
    <2>4. UnitsSafe'
        BY <1>1, <1>4, UnitsStay DEF IInv
    <2> QED
        BY <1>3, <2>1, <2>2, <2>3, <2>4 DEF IInv
<1>5. CASE status = "active" /\ phase = g /\ phase' = Successor(g) /\ attempt' = 1
    <2>1. phase # "retro" /\ Later(phase, "implementation")
        BY <1>1, <1>5, LaterValues DEF UIGates
    <2>2. phase' \in Phase /\ Later(phase', phase) /\ Routed(facts, phase')
        BY <1>1, <1>5, <2>1, NextPhase
    <2>3. SessionTypeOK'
        BY <1>1, <1>5, <2>2 DEF SessionTypeOK
    <2>4. BlockersSound'
        BY <1>1, <1>5, ActiveIsResolved DEF BlockersSound
    <2>5. \A i \in DOMAIN attempts : ~Later(attempts[i].phase, phase')
        <3> SUFFICES ASSUME NEW i \in DOMAIN attempts
                     PROVE  ~Later(attempts[i].phase, phase')
            OBVIOUS
        <3>1. attempts[i] \in Attempt
            BY <1>1 DEF SessionTypeOK
        <3>2. attempts[i].phase \in Phase /\ ~Later(attempts[i].phase, phase)
            BY <3>1 DEF IInv, AttemptsPast, Attempt
        <3> QED
            BY <1>1, <2>2, <3>2, LaterOrder
    <2>6. AttemptsPast'
        BY <1>1, <2>5 DEF AttemptsPast
    <2>7. \A p : AttemptsOf(p)' = AttemptsOf(p) /\ Failures(p)' = Failures(p)
                 /\ Resolutions(p)' = Resolutions(p)
        BY <1>1 DEF AttemptsOf, Failures, Resolutions
    <2>8. RetryBudget'
        BY <2>7 DEF IInv, RetryBudget
    <2>9. AttemptsOf(phase') = {} /\ Failures(phase') = 0 /\ Resolutions(phase') \in Nat
        BY <1>1, <2>2, Unentered, IndexSets DEF IInv
    <2>10. AttemptsOf(phase)' = {} /\ Failures(phase)' = 0 /\ Resolutions(phase)' \in Nat
        BY <2>7, <2>9
    <2>11. BudgetSound'
        BY <1>5, <2>10 DEF BudgetSound, MaxPhaseAttempts
    <2>12. FreshAttempts'
        BY <1>1 DEF IInv, FreshAttempts
    <2>13. NumbersSound'
        BY <1>1, <1>2, <1>5, <2>10 DEF NumbersSound
    <2>14. QaLedgerAgrees' /\ QaCounted' /\ EvidenceEarned'
        BY <1>1, <2>2, QaStays
    <2>15. UnitsSafe'
        BY <1>1, <2>1, UnitsStay DEF IInv
    <2> QED
        BY <1>3, <2>3, <2>4, <2>6, <2>8, <2>11, <2>12, <2>13, <2>14, <2>15 DEF IInv
<1> QED
    BY <1>4, <1>5 DEF GateSkip

LEMMA GateRowKeeps ==
    ASSUME IInv, NEW g \in UIGates, NEW row \in {"passed", "failed"}, GateRow(g, row)
    PROVE  IInv'
<1>1. /\ SessionTypeOK /\ phase \in Phase /\ 0 \in Commit
      /\ UNCHANGED <<head, facts, headless, status, phase, attempt, attempts, blockers,
                     evidence, runs, lineage, units, owns>>
      /\ skips' = [skips EXCEPT ![g] = 0] /\ Open(status')
    BY SessionBounds DEF IInv, SessionTypeOK, GateRow, Commit
<1>2. SessionTypeOK'
    BY <1>1 DEF SessionTypeOK
<1>3. Len(runs') = Len(runs) /\ Len(runs) \in Nat
    BY <1>1 DEF SessionTypeOK
<1>4. BlockersSound' /\ AttemptsPast' /\ RetryBudget' /\ BudgetSound' /\ FreshAttempts'
      /\ NumbersSound'
    BY <1>1, <1>2, <1>3, RecordsStay
<1>5. QaLedgerAgrees' /\ QaCounted' /\ EvidenceEarned'
    BY <1>1, QaStays
<1>6. CompleteIsCurrent' /\ UnitsSafe'
    BY <1>1, OpenIsFree, UnitsStay DEF IInv
<1> QED
    BY <1>2, <1>4, <1>5, <1>6 DEF IInv

(* A run that is added to the ledger after QA.                             *)
LEMMA RunAdded ==
    ASSUME IInv, UNCHANGED attempts, NEW c \in Commit, NEW verdict \in Statuses,
           runs' = WithRun(c, verdict)
    PROVE  /\ runs' \in Seq(Run) /\ Len(runs) \in Nat /\ Len(runs') = Len(runs) + 1
           /\ \A i \in 1 .. Len(runs) : runs'[i] = runs[i]
           /\ runs'[Len(runs) + 1] = [commit |-> c, verdict |-> verdict]
           /\ Ledgered'
           /\ Cardinality(AttemptsOf("qa"))' <= Len(runs)'
<1> DEFINE r == [commit |-> c, verdict |-> verdict]
           A == AttemptsOf("qa")
           rank(i) == Cardinality(A \cap (1 .. i))
<1>1. runs \in Seq(Run) /\ r \in Run /\ runs' = Append(runs, r)
    BY DEF IInv, SessionTypeOK, Run, Statuses, WithRun
<1>2. /\ runs' \in Seq(Run) /\ Len(runs) \in Nat
      /\ Len(runs') = Len(runs) + 1
      /\ \A i \in 1 .. Len(runs) : runs'[i] = runs[i]
      /\ runs'[Len(runs) + 1] = r
    <2> HIDE DEF r
    <2> QED
        BY <1>1, AppendProperties
<1>3. A' = A /\ Cardinality(A)' = Cardinality(A)
    BY DEF AttemptsOf
<1>4. \A i \in A : /\ rank(i) \in 1 .. Len(runs)
                   /\ runs[rank(i)] = [commit |-> attempts[i].commit,
                                       verdict |-> attempts[i].status]
    BY RanksAreRuns DEF IInv, QaLedgerAgrees
<1>5. Ledgered'
    <2>1. \A i \in A' : rank(i)' = rank(i)
        BY <1>3
    <2> SUFFICES ASSUME NEW i \in A'
                 PROVE  /\ rank(i)' <= Len(runs')
                        /\ runs'[rank(i)'] = [commit |-> attempts'[i].commit,
                                              verdict |-> attempts'[i].status]
        BY DEF Ledgered
    <2>2. rank(i)' = rank(i) /\ rank(i) \in 1 .. Len(runs) /\ attempts' = attempts
        BY <1>3, <1>4, <2>1
    <2>3. runs[rank(i)] = [commit |-> attempts[i].commit, verdict |-> attempts[i].status]
        BY <1>3, <1>4
    <2> HIDE DEF rank
    <2> QED
        BY <1>2, <2>2, <2>3
<1>6. Cardinality(A)' <= Len(runs')
    <2>1. Cardinality(A) <= Len(runs) /\ Cardinality(A) \in Nat
        BY IndexSets DEF IInv, QaCounted
    <2> QED
        BY <1>2, <1>3, <2>1
<1> QED
    BY <1>2, <1>5, <1>6

LEMMA RecertifyKeeps == ASSUME IInv, NEW ps \in Recertified, Recertify(ps) PROVE IInv'
<1>1. /\ SessionTypeOK /\ phase \in Phase /\ head \in Commit
      /\ UNCHANGED <<head, facts, headless, status, phase, attempt, attempts, blockers,
                     lineage, skips, units, owns>>
      /\ Open(status') /\ \A p \in ps : evidence[p].commit # 0
      /\ evidence' = [p \in Certifying |->
                          IF p \in ps THEN [evidence[p] EXCEPT !.verified = head] ELSE evidence[p]]
      /\ ps \subseteq Certifying
    BY CommandInputs DEF IInv, SessionTypeOK, Recertify
<1>2. /\ evidence' \in [Certifying -> [commit : Commit, verified : Commit]]
      /\ \A p \in Certifying : evidence'[p].commit = evidence[p].commit
    <2>1. evidence \in [Certifying -> [commit : Commit, verified : Commit]]
        BY <1>1 DEF SessionTypeOK
    <2> QED
        BY <1>1, <2>1
<1>3. /\ runs' \in Seq(Run) /\ Len(runs) \in Nat /\ Len(runs) <= Len(runs')
      /\ \A i \in 1 .. Len(runs) : runs'[i] = runs[i]
      /\ Ledgered' /\ Cardinality(AttemptsOf("qa"))' <= Len(runs)'
      /\ "qa" \in ps => \E i \in DOMAIN runs' : runs'[i] = [commit |-> head, verdict |-> "passed"]
    <2>1. CASE "qa" \in ps
        <3>1. runs' = WithRun(head, "passed") /\ "passed" \in Statuses
            BY <2>1 DEF Recertify, Statuses
        <3>2. /\ runs' \in Seq(Run) /\ Len(runs) \in Nat /\ Len(runs') = Len(runs) + 1
              /\ \A i \in 1 .. Len(runs) : runs'[i] = runs[i]
              /\ runs'[Len(runs) + 1] = [commit |-> head, verdict |-> "passed"]
              /\ Ledgered' /\ Cardinality(AttemptsOf("qa"))' <= Len(runs)'
            BY <1>1, <3>1, RunAdded
        <3>3. Len(runs) + 1 \in DOMAIN runs'
            BY <3>2
        <3> QED
            BY <3>2, <3>3
    <2>2. CASE "qa" \notin ps
        <3>1. runs' = runs
            BY <2>2 DEF Recertify
        <3>2. \A p : AttemptsOf(p)' = AttemptsOf(p)
            BY <1>1 DEF AttemptsOf
        <3>3. Ledgered'
            BY <1>1, <3>1, <3>2 DEF IInv, QaLedgerAgrees, Ledgered
        <3>4. runs \in Seq(Run) /\ Len(runs) \in Nat
            BY <1>1 DEF SessionTypeOK
        <3> QED
            BY <2>2, <3>1, <3>2, <3>3, <3>4 DEF IInv, QaCounted
    <2> QED
        BY <2>1, <2>2
<1>4. SessionTypeOK'
    BY <1>1, <1>2, <1>3 DEF SessionTypeOK
<1>5. BlockersSound' /\ AttemptsPast' /\ RetryBudget' /\ BudgetSound' /\ FreshAttempts'
      /\ NumbersSound'
    BY <1>1, <1>3, <1>4, RecordsStay
<1>6. QaLedgerAgrees'
    <2>1. ASSUME NEW k \in {evidence'["qa"].commit, evidence'["qa"].verified} \ {0}
          PROVE  \E i \in DOMAIN runs' : runs'[i] = [commit |-> k, verdict |-> "passed"]
        <3>1. CASE k \in {evidence["qa"].commit, evidence["qa"].verified} \ {0}
            BY <1>3, <3>1, CertifiedStays
        <3>2. CASE "qa" \in ps /\ k = head
            BY <1>3, <3>2
        <3>3. evidence'["qa"].commit = evidence["qa"].commit
              /\ (evidence'["qa"].verified = evidence["qa"].verified
                  \/ ("qa" \in ps /\ evidence'["qa"].verified = head))
            <4>1. evidence["qa"] \in [commit : Commit, verified : Commit]
                BY <1>1, PhaseSets DEF SessionTypeOK
            <4> QED
                BY <1>1, <4>1, PhaseSets
        <3> QED
            BY <2>1, <3>1, <3>2, <3>3
    <2> QED
        BY <1>3, <2>1 DEF QaLedgerAgrees
<1>7. QaCounted'
    <2>1. evidence'["qa"].commit # 0 => Later(phase', "qa")
        BY <1>1, <1>2, PhaseSets DEF IInv, QaCounted
    <2>2. ~Later(phase', "qa") => Cardinality(AttemptsOf("qa"))' = Len(runs)'
        <3> SUFFICES ASSUME ~Later(phase', "qa") PROVE Cardinality(AttemptsOf("qa"))' = Len(runs)'
            OBVIOUS
        <3>1. evidence["qa"].commit = 0 /\ ~Later(phase, "qa")
            BY <1>1 DEF IInv, QaCounted
        <3>2. runs' = runs
            BY <1>1, <3>1 DEF Recertify
        <3>3. AttemptsOf("qa")' = AttemptsOf("qa")
            BY <1>1 DEF AttemptsOf
        <3> QED
            BY <3>1, <3>2, <3>3 DEF IInv, QaCounted
    <2> QED
        BY <1>3, <2>1, <2>2 DEF QaCounted
<1>8. EvidenceEarned'
    BY <1>1, <1>2 DEF IInv, EvidenceEarned
<1>9. CompleteIsCurrent' /\ UnitsSafe'
    BY <1>1, OpenIsFree, UnitsStay DEF IInv
<1> QED
    BY <1>4, <1>5, <1>6, <1>7, <1>8, <1>9 DEF IInv

LEMMA NonPassingKeeps ==
    ASSUME IInv, NEW verdict \in {"failed", "blocked"}, RecordNonPassing(verdict)
    PROVE  IInv'
<1>1. /\ SessionTypeOK /\ phase \in Phase /\ head \in Commit /\ verdict \in Statuses
      /\ UNCHANGED <<head, facts, headless, status, phase, attempt, attempts, blockers,
                     evidence, lineage, skips, units, owns>>
      /\ Open(status') /\ Later(phase, "qa") /\ runs' = WithRun(head, verdict)
    BY DEF IInv, SessionTypeOK, RecordNonPassing, Open, Statuses
<1>2. /\ runs' \in Seq(Run) /\ Len(runs) \in Nat /\ Len(runs') = Len(runs) + 1
      /\ \A i \in 1 .. Len(runs) : runs'[i] = runs[i]
      /\ Ledgered' /\ Cardinality(AttemptsOf("qa"))' <= Len(runs)'
    BY <1>1, RunAdded
<1>3. Len(runs) <= Len(runs')
    BY <1>2
<1>4. SessionTypeOK'
    BY <1>1, <1>2 DEF SessionTypeOK
<1>5. BlockersSound' /\ AttemptsPast' /\ RetryBudget' /\ BudgetSound' /\ FreshAttempts'
      /\ NumbersSound'
    BY <1>1, <1>3, <1>4, RecordsStay
<1>6. QaLedgerAgrees'
    <2>1. \A k \in {evidence'["qa"].commit, evidence'["qa"].verified} \ {0} :
              \E i \in DOMAIN runs' : runs'[i] = [commit |-> k, verdict |-> "passed"]
        BY <1>1, <1>2, <1>3, CertifiedStays
    <2> QED
        BY <1>2, <2>1 DEF QaLedgerAgrees
<1>7. QaCounted'
    BY <1>1, <1>2 DEF QaCounted
<1>8. EvidenceEarned'
    BY <1>1 DEF IInv, EvidenceEarned
<1>9. CompleteIsCurrent' /\ UnitsSafe'
    BY <1>1, OpenIsFree, UnitsStay DEF IInv
<1> QED
    BY <1>4, <1>5, <1>6, <1>7, <1>8, <1>9 DEF IInv

LEMMA CommitsKeeps == ASSUME IInv, Commits PROVE IInv'
<1>1. /\ SessionTypeOK /\ phase \in Phase /\ Open(status')
      /\ UNCHANGED <<facts, headless, status, phase, attempt, attempts, blockers, evidence, runs,
                     lineage, skips, units, owns>>
      /\ head' \in Commit \ {0}
    BY SessionBounds DEF IInv, SessionTypeOK, Commits, Commit
<1>2. SessionTypeOK' /\ Len(runs') = Len(runs) /\ Len(runs) \in Nat
    BY <1>1 DEF SessionTypeOK
<1>3. BlockersSound' /\ AttemptsPast' /\ RetryBudget' /\ BudgetSound' /\ FreshAttempts'
      /\ NumbersSound'
    BY <1>1, <1>2, RecordsStay
<1>4. QaLedgerAgrees' /\ QaCounted' /\ EvidenceEarned'
    BY <1>1, QaStays
<1>5. CompleteIsCurrent' /\ UnitsSafe'
    BY <1>1, OpenIsFree, UnitsStay DEF IInv
<1> QED
    BY <1>2, <1>3, <1>4, <1>5 DEF IInv

(* A unit only starts beside units that own other paths.                   *)
LEMMA RunnableIsApart ==
    ASSUME NEW u \in Runnable
    PROVE  u \in InStatus("pending") /\ \A v \in InStatus("running") : ~Overlap(owns, u, v)
<1>1. PICK chosen \in SUBSET Ready : u \in chosen /\ Selection(chosen)
    BY DEF Runnable
<1> QED
    BY <1>1 DEF Selection, Ready

LEMMA MoveUnitKeeps ==
    ASSUME IInv, NEW u \in Unit, NEW s \in UnitStatuses, MoveUnit(u, s)
    PROVE  IInv'
<1>1. /\ SessionTypeOK /\ phase = "implementation" /\ phase \in Phase /\ Open(status')
      /\ UNCHANGED <<head, facts, headless, status, phase, attempt, attempts, blockers,
                     evidence, runs, lineage, skips, owns>>
      /\ units' = [units EXCEPT ![u] = s]
    BY DEF IInv, SessionTypeOK, MoveUnit, Open
<1>2. SessionTypeOK' /\ Len(runs') = Len(runs) /\ Len(runs) \in Nat
    BY <1>1 DEF SessionTypeOK
<1>3. BlockersSound' /\ AttemptsPast' /\ RetryBudget' /\ BudgetSound' /\ FreshAttempts'
      /\ NumbersSound'
    BY <1>1, <1>2, RecordsStay
<1>4. QaLedgerAgrees' /\ QaCounted' /\ EvidenceEarned'
    BY <1>1, QaStays
<1>5. CompleteIsCurrent'
    BY <1>1, OpenIsFree
<1>6. UnitsSafe'
    <2>1. units \in [Unit -> UnitStatuses]
        BY <1>1 DEF SessionTypeOK
    <2>2. ~Later(phase', "implementation")
        BY <1>1, LaterOrder
    <2>3. s = "running" => \A v \in InStatus("running") : ~Overlap(owns, u, v)
        <3>1. s = "running" => u \in Runnable
            BY DEF MoveUnit
        <3> QED
            BY <3>1, RunnableIsApart
    <2>4. \A v \in InStatus("running")' : v \in InStatus("running") \/ (v = u /\ s = "running")
        BY <1>1, <2>1 DEF InStatus
    <2>5. \A v, w \in InStatus("running") : v # w => ~Overlap(owns, v, w)
        BY DEF IInv, UnitsSafe
    <2>6. \A v, w \in InStatus("running")' : v # w => ~Overlap(owns', v, w)
        BY <1>1, <2>3, <2>4, <2>5 DEF Overlap
    <2> QED
        BY <2>2, <2>6 DEF UnitsSafe
<1> QED
    BY <1>2, <1>3, <1>4, <1>5, <1>6 DEF IInv

LEMMA RebindKeeps ==
    ASSUME IInv, NEW corrected \in SUBSET Unit, NEW u \in Unit, NEW added \in SUBSET Paths,
           Rebind(corrected, u, added)
    PROVE  IInv'
<1>1. /\ SessionTypeOK /\ phase \in Phase /\ phase \in Rebindable /\ Open(status')
      /\ UNCHANGED <<head, facts, headless, status, phase, attempt, attempts, blockers,
                     evidence, runs, lineage, skips>>
      /\ owns' = [owns EXCEPT ![u] = @ \cup added]
      /\ units' = [v \in Unit |->
                      IF v \in corrected /\ units[v] = "completed" THEN "pending" ELSE units[v]]
    BY DEF IInv, SessionTypeOK, Rebind
<1>2. SessionTypeOK'
    <2>1. units' \in [Unit -> UnitStatuses]
        BY <1>1 DEF SessionTypeOK, UnitStatuses
    <2>2. owns' \in [Unit -> SUBSET Paths]
        BY <1>1 DEF SessionTypeOK
    <2> QED
        BY <1>1, <2>1, <2>2 DEF SessionTypeOK
<1>3. Len(runs') = Len(runs) /\ Len(runs) \in Nat
    BY <1>1 DEF SessionTypeOK
<1>4. BlockersSound' /\ AttemptsPast' /\ RetryBudget' /\ BudgetSound' /\ FreshAttempts'
      /\ NumbersSound'
    BY <1>1, <1>2, <1>3, RecordsStay
<1>5. QaLedgerAgrees' /\ QaCounted' /\ EvidenceEarned'
    BY <1>1, QaStays
<1>6. CompleteIsCurrent'
    BY <1>1, OpenIsFree
<1>7. UnitsSafe'
    <2>1. InStatus("running")' = InStatus("running")
        BY <1>1 DEF InStatus
    <2>2. \A v, w \in InStatus("running") : v # w => ~Overlap(owns', v, w)
        BY DEF Rebind
    <2>3. ~Later(phase', "implementation")
        BY <1>1, LaterValues DEF Rebindable
    <2> QED
        BY <2>1, <2>2, <2>3 DEF UnitsSafe, Overlap
<1> QED
    BY <1>2, <1>4, <1>5, <1>6, <1>7 DEF IInv

-----------------------------------------------------------------------------

LEMMA Starts == SessionInit => IInv
<1> SUFFICES ASSUME SessionInit PROVE IInv
    OBVIOUS
<1>1. phase \in Phase /\ 0 \in Commit /\ 1 \in Commit \ {0}
    BY PhasesAre, SessionBounds DEF SessionInit, Commit
<1>2. /\ attempts = <<>> /\ DOMAIN attempts = {} /\ blockers = <<>> /\ DOMAIN blockers = {}
      /\ runs = <<>> /\ Len(runs) = 0
    BY DEF SessionInit
<1>3. \A p : AttemptsOf(p) = {} /\ Failures(p) = 0 /\ Resolutions(p) = 0
    BY <1>2, FS_EmptySet DEF AttemptsOf, Failures, Resolutions
<1>4. SessionTypeOK
    <2>1. Unrouted \in Routing /\ Routed(Unrouted, "intake")
        BY DEF Unrouted, Routing, Routed
    <2>2. /\ evidence \in [Certifying -> [commit : Commit, verified : Commit]]
          /\ lineage \in [Recovering -> Seq({"passed", "failed", "blocked"})]
          /\ skips \in [UIGates -> Commit]
        BY <1>1 DEF SessionInit, NoEvidence
    <2>3. units \in [Unit -> UnitStatuses] /\ owns \in [Unit -> SUBSET Paths]
        BY UnitContracts DEF SessionInit, UnitStatuses, Unit
    <2> QED
        BY <1>1, <1>2, <2>1, <2>2, <2>3 DEF SessionTypeOK, SessionInit
<1>5. BlockersSound /\ AttemptsPast /\ FreshAttempts /\ NumbersSound
    BY <1>2, <1>3 DEF BlockersSound, AttemptsPast, FreshAttempts, NumbersSound, SessionInit
<1>6. RetryBudget /\ BudgetSound
    BY <1>3 DEF RetryBudget, BudgetSound, MaxPhaseAttempts, SessionInit
<1>7. QaLedgerAgrees /\ QaCounted /\ EvidenceEarned
    <2>1. \A p \in Certifying : evidence[p] = [commit |-> 0, verified |-> 0]
        BY DEF SessionInit, NoEvidence
    <2>2. evidence["qa"] = [commit |-> 0, verified |-> 0]
        BY <2>1, PhaseSets
    <2>3. QaLedgerAgrees
        BY <1>3, <2>2 DEF QaLedgerAgrees, Ledgered
    <2>4. QaCounted
        BY <1>2, <1>3, <2>2, FS_EmptySet DEF QaCounted
    <2>5. EvidenceEarned
        BY <2>1 DEF EvidenceEarned
    <2> QED
        BY <2>3, <2>4, <2>5
<1>8. CompleteIsCurrent
    BY DEF CompleteIsCurrent, Open, SessionInit
<1>9. UnitsSafe
    <2>1. ~Later(phase, "implementation")
        BY <1>1, LaterValues DEF SessionInit
    <2>2. \A u \in Unit : units[u] # "running"
        BY DEF SessionInit
    <2> QED
        BY <2>1, <2>2 DEF UnitsSafe, InStatus
<1> QED
    BY <1>4, <1>5, <1>6, <1>7, <1>8, <1>9 DEF IInv

LEMMA Stutters == ASSUME IInv, UNCHANGED sessionVars PROVE IInv'
<1>1. SessionTypeOK' /\ phase' \in Phase /\ Len(runs) <= Len(runs')
    BY DEF IInv, SessionTypeOK, sessionVars
<1>2. BlockersSound' /\ AttemptsPast' /\ RetryBudget' /\ BudgetSound' /\ FreshAttempts'
      /\ NumbersSound'
    BY <1>1, RecordsStay DEF sessionVars
<1>3. QaLedgerAgrees' /\ QaCounted' /\ EvidenceEarned'
    BY <1>1, QaStays DEF sessionVars
<1>4. UnitsSafe'
    BY UnitsStay DEF sessionVars, IInv
<1>5. CompleteIsCurrent'
    BY DEF sessionVars, IInv, CompleteIsCurrent, CertifiedAt, LatestCommit
<1> QED
    BY <1>1, <1>2, <1>3, <1>4, <1>5 DEF IInv

LEMMA Invariance == IInv /\ [SessionNext]_sessionVars => IInv'
<1> SUFFICES ASSUME IInv, [SessionNext]_sessionVars PROVE IInv'
    OBVIOUS
<1>1. ASSUME NEW c \in Commit, NEW outcome \in {"none", "passed", "failed", "blocked"},
             Pass(c, outcome) \/ Fail(c, outcome) \/ Block(c, outcome)
      PROVE  IInv'
    <2>1. outcome \in Outcomes
        BY DEF Outcomes, Statuses
    <2> QED
        BY <1>1, <2>1, PassKeeps, FailKeeps, BlockKeeps
<1>2. ASSUME NEW f \in Routings, Route(f) PROVE IInv'
    BY <1>2, RouteKeeps
<1>3. ASSUME Unblock PROVE IInv'
    BY <1>3, UnblockKeeps
<1>4. ASSUME NEW g \in UIGates, NEW row \in {"passed", "failed"}, GateSkip(g) \/ GateRow(g, row)
      PROVE  IInv'
    BY <1>4, GateSkipKeeps, GateRowKeeps
<1>5. ASSUME NEW ps \in Recertified, Recertify(ps) PROVE IInv'
    BY <1>5, RecertifyKeeps
<1>6. ASSUME NEW verdict \in {"failed", "blocked"}, RecordNonPassing(verdict) PROVE IInv'
    BY <1>6, NonPassingKeeps
<1>7. ASSUME Commits PROVE IInv'
    BY <1>7, CommitsKeeps
<1>8. ASSUME NEW u \in Unit, NEW s \in UnitStatuses, MoveUnit(u, s) PROVE IInv'
    BY <1>8, MoveUnitKeeps
<1>9. ASSUME NEW corrected \in SUBSET Unit, NEW u \in Unit, NEW added \in SUBSET Paths,
             Rebind(corrected, u, added)
      PROVE  IInv'
    BY <1>9, RebindKeeps
<1>10. CASE UNCHANGED sessionVars
    BY <1>10, Stutters
<1> QED
    BY <1>1, <1>2, <1>3, <1>4, <1>5, <1>6, <1>7, <1>8, <1>9, <1>10 DEF SessionNext

(* A session only moves forward, and knows of each phase what it had       *)
(* established when it left it.                                            *)
THEOREM SessionInductive == SessionSpec => []IInv
BY Starts, Invariance, PTL DEF SessionSpec

(* session.json keeps its types; the session is blocked exactly while a    *)
(* blocker is unresolved; its phase is one it is routed through.           *)
THEOREM SessionTypeCorrect == SessionSpec => []SessionTypeOK
<1>1. IInv => SessionTypeOK
    BY DEF IInv
<1> QED
    BY <1>1, SessionInductive, PTL

(* A session that is handed off, or completed by a result that names a     *)
(* commit, is certified at HEAD, any other that is complete at the newest  *)
(* commit a result has named, whatever was committed, skipped, recertified *)
(* or withdrawn on the way (assertFinalGates).                             *)
THEOREM CompletionIsCurrent == SessionSpec => []CompleteIsCurrent
<1>1. IInv => CompleteIsCurrent
    BY DEF IInv
<1> QED
    BY <1>1, SessionInductive, PTL

(* Each further three failures of a phase cost a resolution, with any      *)
(* number of results and resolutions in any order (MAX_PHASE_ATTEMPTS).    *)
THEOREM BudgetIsKept == SessionSpec => []RetryBudget
<1>1. IInv => RetryBudget
    BY DEF IInv
<1> QED
    BY <1>1, SessionInductive, PTL

(* No attempt number of QA, review or the design critique is used twice,   *)
(* whatever fails, blocks and is resumed (recordResult, resumeBlocked).    *)
THEOREM AttemptsAreFresh == SessionSpec => []FreshAttempts
<1>1. IInv => FreshAttempts
    BY DEF IInv
<1> QED
    BY <1>1, SessionInductive, PTL

(* The first runs of the QA ledger are the attempts of the QA phase, so    *)
(* that the next run can be recorded, and the commits at which QA is       *)
(* certified are of runs that passed (validateQaEvidence).                 *)
THEOREM LedgerAgrees == SessionSpec => []QaLedgerAgrees
<1>1. IInv => QaLedgerAgrees
    BY DEF IInv
<1> QED
    BY <1>1, SessionInductive, PTL

(* Running units own different paths, through any number of moves and      *)
(* amendments, and past implementation no unit is unfinished               *)
(* (analyzeWorkUnits, rebindRfcContract).                                  *)
THEOREM UnitsAreSafe == SessionSpec => []UnitsSafe
<1>1. IInv => UnitsSafe
    BY DEF IInv
<1> QED
    BY <1>1, SessionInductive, PTL
=============================================================================
