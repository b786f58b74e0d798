----------------------------- MODULE KbSync_proof -----------------------------
(***************************************************************************)
(* The properties of KbSync for all clones and edits.  What makes them     *)
(* hold is a relation between the state of a clone and the point its       *)
(* command is at: conflict markers are only in files git calls unmerged,   *)
(* nothing is staged beside them, and a stash is either what a rebase that *)
(* is under way has put aside or what clashed when it was taken out.       *)
(***************************************************************************)
EXTENDS KbSync, SequenceTheorems, WellFoundedInduction, TLAPS

Points == {"idle", "begin", "recognize", "refresh", "pull", "rebase", "rebase-rejected", "add",
           "commit", "send", "resend", "observe"}
States == {"planned", "attempting", "verified", "ambiguous", "blocked"}
Branch == Seq(SUBSET Edits)
Contents == SUBSET (Edits \cup {Markers})
Clone == [head : Branch, tracked : Branch, index : SUBSET Edits, work : Contents,
          stash : SUBSET Edits, unmerged : BOOLEAN, rebasing : BOOLEAN]
Surfaces == {Surface(c) : c \in Clone}
Call == [at : Points, mode : Modes \cup {None}, before : Surfaces \cup {None}]
Entry == [state : States, before : Surfaces \cup {None}]

CloneSound(c, at) ==
    /\ Markers \in c.work => c.unmerged
    /\ c.unmerged => c.index = {}
    /\ c.stash # {} => c.unmerged \/ c.rebasing
    /\ c.rebasing => c.work = {} /\ c.index = {} /\ ~c.unmerged
    /\ c.rebasing => at \in {"idle", "rebase", "rebase-rejected"}
    /\ at \in {"rebase", "rebase-rejected"} => c.rebasing

SyncTypeOK ==
    /\ remote \in Branch
    /\ clone \in [Clones -> Clone]
    /\ call \in [Clones -> Call]
    /\ journal \in [Clones -> [Modes -> Entry]]

IInv ==
    /\ SyncTypeOK
    /\ \A m \in Clones : /\ CloneSound(clone[m], call[m].at)
                         /\ call[m].at # "idle" => call[m].mode \in Modes

(* What a clone has of the edits.                                          *)
Has(c) == c.work \cup c.index \cup c.stash \cup InBranch(c.head)

-----------------------------------------------------------------------------
(* Branches.                                                               *)

LEMMA InBranchTyped ==
    ASSUME NEW b \in Branch
    PROVE  InBranch(b) \subseteq Edits
<1>1. \A i \in DOMAIN b : b[i] \subseteq Edits
    BY DEF Branch
<1> QED
    BY <1>1 DEF InBranch, Range

(* Any two sequences have a longest common prefix: the least length that   *)
(* does not go on in both.                                                 *)
LEMMA SharedExists ==
    ASSUME NEW S, NEW a \in Seq(S), NEW b \in Seq(S)
    PROVE  /\ Shared(a, b) \in 0 .. Len(a)
           /\ Shared(a, b) <= Len(b)
           /\ SubSeq(a, 1, Shared(a, b)) = SubSeq(b, 1, Shared(a, b))
<1> DEFINE Fits(n) == /\ n <= Len(a) /\ n <= Len(b)
                      /\ SubSeq(a, 1, n) = SubSeq(b, 1, n)
           Rest == {k \in Nat : \E n \in Nat : k = Len(a) - n /\ Fits(n)}
<1>1. Fits(0)
    <2>1. SubSeq(a, 1, 0) = << >> /\ SubSeq(b, 1, 0) = << >>
        BY SubSeqEmpty
    <2> QED
        BY <2>1
<1>2. Len(a) \in Rest
    BY <1>1
<1>3. PICK k \in Rest : \A j \in Rest : ~(<<j, k>> \in OpToRel(<, Nat))
    <2> HIDE DEF Rest
    <2>1. Rest \subseteq Nat
        BY DEF Rest
    <2> QED
        BY <1>2, <2>1, NatLessThanWellFounded, WFMin
<1>4. PICK n \in Nat : k = Len(a) - n /\ Fits(n)
    OBVIOUS
<1>5. n < Len(a) /\ n < Len(b) => a[n + 1] # b[n + 1]
    <2> SUFFICES ASSUME n < Len(a), n < Len(b), a[n + 1] = b[n + 1]
                 PROVE  FALSE
        OBVIOUS
    <2>1. \A i \in 1 .. n : a[i] = b[i]
        <3>1. \A i \in 1 .. n : SubSeq(a, 1, n)[i] = a[i] /\ SubSeq(b, 1, n)[i] = b[i]
            BY <1>4
        <3> QED
            BY <3>1, <1>4
    <2>2. SubSeq(a, 1, n + 1) = SubSeq(b, 1, n + 1)
        <3>1. n + 1 <= Len(a) /\ n + 1 <= Len(b) /\ \A i \in 1 .. n + 1 : a[i] = b[i]
            BY <1>4, <2>1
        <3>2. /\ SubSeq(a, 1, n + 1) = [i \in 1 .. n + 1 |-> a[i]]
              /\ SubSeq(b, 1, n + 1) = [i \in 1 .. n + 1 |-> b[i]]
            BY <1>4, <3>1
        <3> QED
            BY <3>1, <3>2
    <2>3. Len(a) - (n + 1) \in Rest
        <3>1. Len(a) \in Nat /\ Len(b) \in Nat
            OBVIOUS
        <3> HIDE DEF Fits, Rest
        <3>2. n + 1 \in Nat /\ n + 1 <= Len(a) /\ n + 1 <= Len(b)
            BY <3>1
        <3>3. Len(a) - (n + 1) \in Nat
            BY <3>1, <3>2
        <3>4. Fits(n + 1)
            BY <3>2, <2>2 DEF Fits
        <3> QED
            BY <3>2, <3>3, <3>4 DEF Rest
    <2>4. <<Len(a) - (n + 1), k>> \in OpToRel(<, Nat)
        <3>1. Len(a) - (n + 1) \in Nat /\ k \in Nat /\ Len(a) - (n + 1) < k
            BY <1>4, <2>3
        <3> QED
            BY <3>1 DEF OpToRel
    <2> QED
        BY <1>3, <2>3, <2>4
<1>6. \E l \in 0 .. Len(a) :
          /\ l <= Len(b) /\ SubSeq(a, 1, l) = SubSeq(b, 1, l)
          /\ l < Len(a) /\ l < Len(b) => a[l + 1] # b[l + 1]
    <2>1. n \in 0 .. Len(a) /\ n <= Len(b) /\ SubSeq(a, 1, n) = SubSeq(b, 1, n)
        BY <1>4
    <2> QED
        BY <2>1, <1>5, Zenon
<1> QED
    BY <1>6 DEF Shared

LEMMA BeyondTyped ==
    ASSUME NEW a \in Branch, NEW b \in Branch
    PROVE  /\ Beyond(a, b) \in Branch
           /\ InBranch(a) \subseteq InBranch(b) \cup InBranch(Beyond(a, b))
<1> DEFINE n == Shared(a, b)
<1>1. /\ n \in 0 .. Len(a) /\ n <= Len(b)
      /\ SubSeq(a, 1, n) = SubSeq(b, 1, n)
    BY SharedExists DEF Branch
<1> HIDE DEF n
<1>2. Beyond(a, b) = SubSeq(a, n + 1, Len(a))
    BY DEF Beyond, n
<1>3. a \in Seq(SUBSET Edits) /\ b \in Seq(SUBSET Edits)
    BY DEF Branch
<1>4. SubSeq(a, n + 1, Len(a)) \in Seq(SUBSET Edits)
    BY <1>1, <1>3
<1>5. ASSUME NEW i \in DOMAIN a
      PROVE  a[i] \in Range(b) \cup Range(Beyond(a, b))
    <2>1. i \in 1 .. Len(a)
        BY <1>3
    <2>2. CASE i <= n
        <3>1. SubSeq(a, 1, n)[i] = a[i] /\ SubSeq(b, 1, n)[i] = b[i]
            BY <1>1, <1>3, <2>1, <2>2
        <3>2. i \in DOMAIN b
            BY <1>1, <1>3, <2>1, <2>2
        <3> QED
            BY <1>1, <3>1, <3>2 DEF Range
    <2>3. CASE i > n
        <3> DEFINE r == SubSeq(a, n + 1, Len(a))
        <3>3. /\ n + 1 \in Int /\ Len(a) \in Int /\ n + 1 <= Len(a)
              /\ i - n \in 1 .. Len(a) - n /\ (n + 1) + (i - n) - 1 = i
              /\ Len(a) - (n + 1) + 1 = Len(a) - n
            BY <1>1, <1>3, <2>1, <2>3
        <3>4. \A j \in n + 1 .. Len(a) : a[j] \in SUBSET Edits
            BY <1>1, <1>3
        <3>5. /\ Len(r) = Len(a) - n
              /\ \A j \in 1 .. Len(a) - n : r[j] = a[(n + 1) + j - 1]
            BY <3>3, <3>4, SubSeqProperties
        <3>1. i - n \in 1 .. Len(r) /\ r[i - n] = a[i]
            BY <3>3, <3>5
        <3>2. i - n \in DOMAIN r
            BY <3>1, <1>4
        <3> QED
            BY <1>2, <3>1, <3>2 DEF Range
    <2> QED
        BY <1>1, <2>1, <2>2, <2>3
<1>6. InBranch(a) \subseteq InBranch(b) \cup InBranch(Beyond(a, b))
    BY <1>5 DEF InBranch, Range
<1> QED
    BY <1>2, <1>4, <1>6 DEF Branch

LEMMA Joined ==
    ASSUME NEW a \in Branch, NEW b \in Branch
    PROVE  /\ a \o b \in Branch
           /\ InBranch(a \o b) = InBranch(a) \cup InBranch(b)
<1>1. a \in Seq(SUBSET Edits) /\ b \in Seq(SUBSET Edits)
    BY DEF Branch
<1>2. /\ a \o b \in Seq(SUBSET Edits)
      /\ Len(a \o b) = Len(a) + Len(b)
      /\ \A i \in 1 .. Len(a) + Len(b) :
             (a \o b)[i] = IF i <= Len(a) THEN a[i] ELSE b[i - Len(a)]
    BY <1>1
<1>3. Range(a \o b) \subseteq Range(a) \cup Range(b)
    <2> SUFFICES ASSUME NEW i \in DOMAIN (a \o b)
                 PROVE  (a \o b)[i] \in Range(a) \cup Range(b)
        BY DEF Range
    <2>1. i \in 1 .. Len(a) + Len(b)
        BY <1>2
    <2>2. CASE i <= Len(a)
        BY <1>1, <1>2, <2>1, <2>2 DEF Range
    <2>3. CASE i > Len(a)
        <3>1. i - Len(a) \in DOMAIN b
            BY <1>1, <2>1, <2>3
        <3> QED
            BY <1>1, <1>2, <2>1, <2>3, <3>1 DEF Range
    <2> QED
        BY <1>1, <2>1, <2>2, <2>3
<1>4. ASSUME NEW i \in DOMAIN a PROVE a[i] \in Range(a \o b)
    <2>1. i \in DOMAIN (a \o b) /\ (a \o b)[i] = a[i]
        BY <1>1, <1>2
    <2> QED
        BY <2>1 DEF Range
<1>5. ASSUME NEW i \in DOMAIN b PROVE b[i] \in Range(a \o b)
    <2>1. Len(a) + i \in DOMAIN (a \o b) /\ (a \o b)[Len(a) + i] = b[i]
        BY <1>1, <1>2
    <2> QED
        BY <2>1 DEF Range
<1>6. Range(a \o b) = Range(a) \cup Range(b)
    BY <1>3, <1>4, <1>5 DEF Range
<1> QED
    BY <1>2, <1>6 DEF Branch, InBranch

LEMMA Committing ==
    ASSUME NEW b \in Branch, NEW changes \in SUBSET Edits
    PROVE  /\ Append(b, changes) \in Branch
           /\ InBranch(Append(b, changes)) = InBranch(b) \cup changes
<1>1. b \in Seq(SUBSET Edits) /\ <<changes>> \in Seq(SUBSET Edits)
    BY DEF Branch
<1>2. Append(b, changes) = b \o <<changes>>
    BY <1>1
<1>3. InBranch(<<changes>>) = changes
    BY DEF InBranch, Range
<1> QED
    BY <1>1, <1>2, <1>3, Joined DEF Branch

LEMMA PrefixKept ==
    ASSUME NEW a \in Branch, NEW b \in Branch, IsPrefix(a, b)
    PROVE  InBranch(a) \subseteq InBranch(b)
<1>1. a \in Seq(SUBSET Edits) /\ b \in Seq(SUBSET Edits)
    BY DEF Branch
<1>2. Len(a) <= Len(b) /\ \A i \in 1 .. Len(a) : a[i] = b[i]
    BY <1>1 DEF IsPrefix
<1>3. \A i \in DOMAIN a : i \in DOMAIN b /\ a[i] = b[i]
    BY <1>1, <1>2
<1> QED
    BY <1>3 DEF InBranch, Range

-----------------------------------------------------------------------------
(* What git does to a clone: it stays a clone and has what it had.         *)

LEMMA HasTyped ==
    ASSUME NEW c \in Clone
    PROVE  Has(c) \subseteq Edits \cup {Markers}
BY InBranchTyped DEF Has, Clone, Contents

LEMMA RebasingKeeps ==
    ASSUME NEW c \in Clone, NEW at, CloneSound(c, at), ~c.unmerged, ~c.rebasing, remote \in Branch
    PROVE  /\ Rebasing(c) \in Clone
           /\ \A p \in {"rebase", "rebase-rejected"} : CloneSound(Rebasing(c), p)
           /\ Has(c) \subseteq Has(Rebasing(c))
<1>1. Markers \notin c.work /\ c.stash = {}
    BY DEF CloneSound
<1>2. c.work \cup c.index \in SUBSET Edits
    BY <1>1 DEF Clone, Contents
<1>3. /\ Rebasing(c) \in Clone
      /\ Rebasing(c).head = c.head /\ Rebasing(c).stash = c.work \cup c.index
      /\ Rebasing(c).work = {} /\ Rebasing(c).index = {}
      /\ Rebasing(c).rebasing = TRUE /\ Rebasing(c).unmerged = c.unmerged
    BY <1>2 DEF Rebasing, Clone, Contents
<1> QED
    BY <1>1, <1>3 DEF CloneSound, Has

LEMMA RebasedKeeps ==
    ASSUME NEW c \in Clone, NEW at, CloneSound(c, at), c.rebasing
    PROVE  /\ Rebased(c) \in Clone
           /\ \A p \in Points \ {"rebase", "rebase-rejected"} : CloneSound(Rebased(c), p)
           /\ Has(c) \subseteq Has(Rebased(c))
<1> DEFINE clash == Files(c.stash) \cap Files(InBranch(Beyond(c.tracked, c.head))) # {}
           moved == c.tracked \o Beyond(c.head, c.tracked)
<1>1. c.work = {} /\ c.index = {} /\ ~c.unmerged
    BY DEF CloneSound
<1>2. moved \in Branch /\ InBranch(c.head) \subseteq InBranch(moved)
    <2>1. c.head \in Branch /\ c.tracked \in Branch
        BY DEF Clone
    <2> QED
        BY <2>1, BeyondTyped, Joined
<1>3. Rebased(c) = [c EXCEPT !.head = moved, !.rebasing = FALSE, !.unmerged = clash,
                             !.work = IF clash THEN {Markers} ELSE c.stash,
                             !.stash = IF clash THEN c.stash ELSE {}]
    BY Zenon DEF Rebased
<1>4. clash \in BOOLEAN
    OBVIOUS
<1> HIDE DEF clash, moved
<1>5. /\ Rebased(c) \in Clone
      /\ Rebased(c).head = moved /\ Rebased(c).index = {}
      /\ Rebased(c).rebasing = FALSE /\ Rebased(c).unmerged = clash
      /\ Rebased(c).work = IF clash THEN {Markers} ELSE c.stash
      /\ Rebased(c).stash = IF clash THEN c.stash ELSE {}
    BY <1>1, <1>2, <1>3, <1>4 DEF Clone, Contents
<1>6. \A p \in Points \ {"rebase", "rebase-rejected"} : CloneSound(Rebased(c), p)
    <2>1. Markers \notin c.stash
        BY EditsAreOfClones DEF Clone
    <2> QED
        BY <1>4, <1>5, <2>1 DEF CloneSound
<1> QED
    BY <1>1, <1>2, <1>4, <1>5, <1>6 DEF Has

LEMMA AbortedKeeps ==
    ASSUME NEW c \in Clone, NEW at, CloneSound(c, at), c.rebasing
    PROVE  /\ Aborted(c) \in Clone
           /\ CloneSound(Aborted(c), "idle")
           /\ Has(c) \subseteq Has(Aborted(c))
<1>1. c.work = {} /\ c.index = {} /\ ~c.unmerged
    BY DEF CloneSound
<1>2. Markers \notin c.stash
    BY EditsAreOfClones DEF Clone
<1>3. /\ Aborted(c) \in Clone
      /\ Aborted(c).head = c.head /\ Aborted(c).index = {} /\ Aborted(c).work = c.stash
      /\ Aborted(c).stash = {} /\ Aborted(c).rebasing = FALSE
      /\ Aborted(c).unmerged = c.unmerged
    BY <1>1 DEF Aborted, Clone, Contents
<1> QED
    BY <1>1, <1>2, <1>3 DEF CloneSound, Has

LEMMA AddedKeeps ==
    ASSUME NEW c \in Clone, NEW at, CloneSound(c, at), ~c.unmerged, ~c.rebasing
    PROVE  /\ Added(c) \in Clone
           /\ \A p \in Points \ {"rebase", "rebase-rejected"} : CloneSound(Added(c), p)
           /\ Has(c) \subseteq Has(Added(c))
<1>1. Markers \notin c.work /\ c.stash = {}
    BY DEF CloneSound
<1>2. c.index \cup c.work \in SUBSET Edits
    BY <1>1 DEF Clone, Contents
<1>3. /\ Added(c) \in Clone
      /\ Added(c).head = c.head /\ Added(c).index = c.index \cup c.work /\ Added(c).work = {}
      /\ Added(c).stash = c.stash /\ Added(c).rebasing = c.rebasing
      /\ Added(c).unmerged = c.unmerged
    BY <1>2 DEF Added, Clone, Contents
<1> QED
    BY <1>1, <1>3 DEF CloneSound, Has

LEMMA CommittedKeeps ==
    ASSUME NEW c \in Clone, CloneSound(c, "commit"), c.index # {}
    PROVE  /\ Committed(c) \in Clone
           /\ CloneSound(Committed(c), "send")
           /\ Has(c) \subseteq Has(Committed(c))
<1>1. ~c.unmerged /\ ~c.rebasing /\ Markers \notin c.work /\ c.stash = {}
    BY DEF CloneSound
<1> DEFINE longer == Append(c.head, c.index)
<1>2. longer \in Branch /\ InBranch(longer) = InBranch(c.head) \cup c.index
    BY Committing DEF Clone
<1>3. Committed(c) = [c EXCEPT !.head = longer, !.index = {}, !.unmerged = FALSE]
    BY Zenon DEF Committed
<1> HIDE DEF longer
<1>4. /\ Committed(c) \in Clone
      /\ Committed(c).head = longer /\ Committed(c).index = {} /\ Committed(c).work = c.work
      /\ Committed(c).stash = c.stash /\ Committed(c).rebasing = c.rebasing
      /\ Committed(c).unmerged = FALSE
    BY <1>2, <1>3 DEF Clone, Contents
<1> QED
    BY <1>1, <1>2, <1>4 DEF CloneSound, Has

-----------------------------------------------------------------------------
(* Steps.  A step gives one clone the state d and its command the state k. *)

Stepped(m, d, k) ==
    /\ clone' = [clone EXCEPT ![m] = d]
    /\ call' = [call EXCEPT ![m] = k]

Kept == (Made \ {Markers}) \subseteq Made'

LEMMA MadeIs ==
    Made = UNION {Has(clone[m]) : m \in Clones} \cup InBranch(remote)
BY DEF Made, Has

LEMMA StepIsSound ==
    ASSUME IInv, NEW m \in Clones, NEW d \in Clone, NEW k \in Call, Stepped(m, d, k),
           CloneSound(d, k.at), k.at # "idle" => k.mode \in Modes,
           Has(clone[m]) \ {Markers} \subseteq Has(d),
           remote' \in Branch, InBranch(remote) \subseteq InBranch(remote'),
           journal' \in [Clones -> [Modes -> Entry]]
    PROVE  IInv' /\ Kept
<1>1. clone' \in [Clones -> Clone] /\ call' \in [Clones -> Call]
    BY DEF IInv, SyncTypeOK, Stepped
<1>2. \A n \in Clones : /\ clone'[n] = IF n = m THEN d ELSE clone[n]
                        /\ call'[n] = IF n = m THEN k ELSE call[n]
    BY DEF IInv, SyncTypeOK, Stepped
<1>3. IInv'
    BY <1>1, <1>2 DEF IInv, SyncTypeOK
<1>4. Made' = UNION {Has(clone'[n]) : n \in Clones} \cup InBranch(remote')
    BY DEF Made, Has
<1>5. \A n \in Clones : Has(clone[n]) \ {Markers} \subseteq Has(clone'[n])
    BY <1>2
<1>6. Kept
    BY <1>4, <1>5, MadeIs DEF Kept
<1> QED
    BY <1>3, <1>6

(* What is newly verified is published.                                    *)
Published ==
    \A m \in Clones, mode \in Modes :
        journal[m][mode].state # "verified" /\ journal'[m][mode].state = "verified" =>
            /\ IsPrefix(clone[m].head, remote)
            /\ mode # "pull" =>
                   clone[m].work \cup clone[m].index \cup clone[m].stash = {}

LEMMA Going ==
    ASSUME IInv, NEW m \in Clones, NEW d \in Clone, NEW p \in Points,
           call[m].at # "idle", Goto(m, p), Becomes(m, d), CloneSound(d, p),
           Has(clone[m]) \ {Markers} \subseteq Has(d),
           remote' \in Branch, InBranch(remote) \subseteq InBranch(remote'),
           journal' = journal
    PROVE  IInv' /\ Kept /\ Published
<1> DEFINE k == [call[m] EXCEPT !.at = p]
<1>1. k \in Call /\ k.at = p /\ k.mode = call[m].mode
    BY DEF IInv, SyncTypeOK, Call
<1>2. call' = [call EXCEPT ![m] = k]
    BY DEF Goto
<1>3. call[m].mode \in Modes /\ journal' \in [Clones -> [Modes -> Entry]]
    BY DEF IInv, SyncTypeOK
<1> HIDE DEF k
<1>4. IInv' /\ Kept
    BY <1>1, <1>2, <1>3, StepIsSound DEF Stepped, Becomes
<1> QED
    BY <1>4 DEF Published

LEMMA AnswerTyped ==
    ASSUME IInv, NEW m \in Clones, call[m].at # "idle", NEW s \in States, Answer(m, s)
    PROVE  /\ journal' \in [Clones -> [Modes -> Entry]]
           /\ \A n \in Clones, mode \in Modes :
                  journal[n][mode].state # "verified" /\ journal'[n][mode].state = "verified" =>
                      n = m /\ mode = call[m].mode /\ s = "verified"
<1> DEFINE old == journal[m][call[m].mode]
           new == IF s = "verified" THEN [state |-> s, before |-> None]
                  ELSE IF old.state = "verified" THEN old ELSE [old EXCEPT !.state = s]
<1>1. call[m].mode \in Modes /\ journal \in [Clones -> [Modes -> Entry]]
    BY DEF IInv, SyncTypeOK
<1>2. old \in Entry
    BY <1>1
<1>3. new \in Entry /\ (new.state = "verified" => s = "verified" \/ old.state = "verified")
    <2> HIDE DEF old
    <2>1. CASE s = "verified"
        <3>1. new = [state |-> s, before |-> None]
            BY <2>1
        <3>2. [state |-> s, before |-> None] \in Entry
            BY DEF Entry
        <3> QED
            BY <2>1, <3>1, <3>2
    <2>2. CASE s # "verified" /\ old.state = "verified"
        <3>1. new = old
            BY <2>2
        <3> QED
            BY <1>2, <2>2, <3>1
    <2>3. CASE s # "verified" /\ old.state # "verified"
        <3>1. new = [old EXCEPT !.state = s]
            BY <2>3
        <3>2. [old EXCEPT !.state = s] \in Entry /\ [old EXCEPT !.state = s].state = s
            BY <1>2 DEF Entry
        <3> QED
            BY <2>3, <3>1, <3>2
    <2> QED
        BY <2>1, <2>2, <2>3
<1>4. journal' = [journal EXCEPT ![m][call[m].mode] = new]
    BY DEF Answer
<1> HIDE DEF new
<1>5. journal' \in [Clones -> [Modes -> Entry]]
    BY <1>1, <1>3, <1>4
<1>6. \A n \in Clones, mode \in Modes :
          journal'[n][mode] = IF n = m /\ mode = call[m].mode THEN new ELSE journal[n][mode]
    BY <1>1, <1>4
<1> QED
    BY <1>3, <1>5, <1>6

LEMMA Answering ==
    ASSUME IInv, NEW m \in Clones, NEW d \in Clone, NEW s \in States,
           call[m].at # "idle", Answer(m, s), Becomes(m, d), CloneSound(d, "idle"),
           Has(clone[m]) \ {Markers} \subseteq Has(d),
           remote' \in Branch, InBranch(remote) \subseteq InBranch(remote'),
           s = "verified" => /\ IsPrefix(clone[m].head, remote)
                             /\ call[m].mode # "pull" =>
                                clone[m].work \cup clone[m].index \cup clone[m].stash = {}
    PROVE  IInv' /\ Kept /\ Published
<1>1. Idle \in Call /\ Idle.at = "idle"
    BY DEF Idle, Call, Points
<1>2. call' = [call EXCEPT ![m] = Idle]
    BY DEF Answer
<1>3. journal' \in [Clones -> [Modes -> Entry]]
    BY AnswerTyped
<1>4. Stepped(m, d, Idle)
    BY <1>2 DEF Stepped, Becomes
<1>5. IInv' /\ Kept
    BY <1>1, <1>3, <1>4, StepIsSound
<1>6. Published
    BY AnswerTyped DEF Published
<1> QED
    BY <1>5, <1>6

LEMMA Same ==
    ASSUME IInv, NEW m \in Clones
    PROVE  /\ clone[m] \in Clone /\ CloneSound(clone[m], call[m].at)
           /\ CloneSound(clone[m], "idle")
           /\ ~clone[m].rebasing =>
                  \A p \in Points \ {"rebase", "rebase-rejected"} : CloneSound(clone[m], p)
           /\ clone' = clone => Becomes(m, clone[m])
           /\ remote \in Branch
BY DEF IInv, SyncTypeOK, CloneSound, Becomes

LEMMA FailsIsSound ==
    ASSUME IInv, NEW m \in Clones, call[m].at # "idle", NEW s \in States \ {"verified"},
           Answer(m, s), UNCHANGED <<remote, clone>>
    PROVE  IInv' /\ Kept /\ Published
BY Same, Answering

(* The commands.                                                           *)

LEMMA StartIsSound ==
    ASSUME IInv, NEW m \in Clones, NEW mode \in Modes, Start(m, mode)
    PROVE  IInv' /\ Kept /\ Published
<1> DEFINE k == [at |-> IF journal[m][mode].state = "planned" THEN "begin"
                        ELSE IF mode = "push" THEN "recognize"
                        ELSE IF journal[m][mode].state = "verified" THEN "begin"
                        ELSE "refresh",
                 mode |-> mode,
                 before |-> IF mode = "push" THEN None ELSE Surface(clone[m])]
<1>1. Surface(clone[m]) \in Surfaces
    BY Same DEF Surfaces
<1>2. k \in Call /\ k.at \in Points \ {"rebase", "rebase-rejected"} /\ k.mode \in Modes
    BY <1>1 DEF Call, Points
<1>3. call' = [call EXCEPT ![m] = k] /\ UNCHANGED <<remote, clone, journal>> /\ ~clone[m].rebasing
    BY DEF Start
<1> HIDE DEF k
<1>4. journal' \in [Clones -> [Modes -> Entry]]
    BY <1>3 DEF IInv, SyncTypeOK
<1>5. IInv' /\ Kept
    BY <1>2, <1>3, <1>4, Same, StepIsSound DEF Stepped, Becomes
<1> QED
    BY <1>3, <1>5 DEF Published

LEMMA RefreshIsSound ==
    ASSUME IInv, NEW m \in Clones, Refresh(m)
    PROVE  IInv' /\ Kept /\ Published
<1> DEFINE d == [clone[m] EXCEPT !.tracked = remote]
<1>1. d \in Clone /\ Has(d) = Has(clone[m]) /\ CloneSound(d, "recognize")
    <2>1. ~clone[m].rebasing
        BY Same DEF Refresh, At, CloneSound
    <2>2. CloneSound(clone[m], "recognize")
        BY <2>1, Same DEF Points
    <2> QED
        BY <2>2, Same DEF Clone, Has, CloneSound
<1> HIDE DEF d
<1>2. Goto(m, "recognize") /\ Becomes(m, d) /\ call[m].at # "idle" /\ UNCHANGED <<remote, journal>>
    BY DEF Refresh, At, d
<1> QED
    BY <1>1, <1>2, Same, Going DEF Points

LEMMA VerifiedIsTrue ==
    ASSUME IInv, NEW m \in Clones, call[m].at \in {"recognize", "observe"}, Observed(m) = "verified"
    PROVE  /\ IsPrefix(clone[m].head, remote)
           /\ call[m].mode # "pull" =>
                  clone[m].work \cup clone[m].index \cup clone[m].stash = {}
<1>1. /\ ~clone[m].unmerged /\ Aligned(clone[m])
      /\ call[m].mode = "pull" \/ Clean(clone[m])
    BY DEF Observed
<1>2. clone[m].head = remote /\ remote \in Seq(SUBSET Edits)
    BY <1>1, Same DEF Aligned, Branch
<1>3. IsPrefix(clone[m].head, remote)
    BY <1>2 DEF IsPrefix
<1>4. clone[m].stash = {}
    BY <1>1, Same DEF CloneSound
<1> QED
    BY <1>1, <1>3, <1>4 DEF Clean

LEMMA RecognizeIsSound ==
    ASSUME IInv, NEW m \in Clones, Recognize(m)
    PROVE  IInv' /\ Kept /\ Published
<1>1. At(m, "recognize") /\ call[m].at = "recognize" /\ UNCHANGED <<remote, clone>>
    BY DEF Recognize, At
<1>2. ~clone[m].rebasing
    BY <1>1, Same DEF CloneSound
<1>3. CASE Observed(m) = "verified" /\ Answer(m, "verified")
    BY <1>1, <1>3, VerifiedIsTrue, Same, Answering DEF States
<1>4. CASE Goto(m, "begin") /\ UNCHANGED journal
    BY <1>1, <1>2, <1>4, Same, Going DEF Points
<1>5. CASE Answer(m, "ambiguous")
    BY <1>1, <1>5, FailsIsSound DEF States
<1> QED
    BY <1>3, <1>4, <1>5 DEF Recognize

LEMMA ObserveIsSound ==
    ASSUME IInv, NEW m \in Clones, Observe(m)
    PROVE  IInv' /\ Kept /\ Published
<1>1. At(m, "observe") /\ call[m].at = "observe" /\ UNCHANGED <<remote, clone>>
    BY DEF Observe, At
<1>2. Observed(m) \in {"verified", "ambiguous", "absent"}
    BY DEF Observed
<1>3. CASE Answer(m, IF Observed(m) = "absent" THEN "blocked" ELSE Observed(m))
    <2>1. CASE Observed(m) = "verified"
        BY <1>1, <1>3, <2>1, VerifiedIsTrue, Same, Answering DEF States
    <2>2. CASE Observed(m) = "ambiguous"
        BY <1>1, <1>3, <2>2, FailsIsSound DEF States
    <2>3. CASE Observed(m) = "absent"
        BY <1>1, <1>3, <2>3, FailsIsSound DEF States
    <2> QED
        BY <1>2, <2>1, <2>2, <2>3
<1>4. CASE Answer(m, "ambiguous")
    BY <1>1, <1>4, FailsIsSound DEF States
<1> QED
    BY <1>3, <1>4 DEF Observe

LEMMA BeginIsSound ==
    ASSUME IInv, NEW m \in Clones, Begin(m)
    PROVE  IInv' /\ Kept /\ Published
<1> DEFINE p == IF call[m].mode = "push" THEN "add" ELSE "pull"
           k == [call[m] EXCEPT !.at = p]
           entry == [state |-> "attempting", before |-> call[m].before]
<1>1. call[m].at = "begin" /\ call[m] \in Call /\ call[m].mode \in Modes
    BY DEF Begin, At, IInv, SyncTypeOK
<1>2. /\ k \in Call /\ k.at \in {"add", "pull"} /\ k.mode = call[m].mode
      /\ entry \in Entry /\ entry.state # "verified"
    BY <1>1 DEF Call, Points, Entry, States
<1>3. /\ call' = [call EXCEPT ![m] = k] /\ UNCHANGED <<remote, clone>>
      /\ journal' = [journal EXCEPT ![m][call[m].mode] = entry]
    BY DEF Begin, Goto
<1> HIDE DEF p, k, entry
<1>4. journal \in [Clones -> [Modes -> Entry]]
    BY DEF IInv, SyncTypeOK
<1>5. journal' \in [Clones -> [Modes -> Entry]]
    BY <1>1, <1>2, <1>3, <1>4
<1>6. \A n \in Clones, mode \in Modes :
          journal'[n][mode] = IF n = m /\ mode = call[m].mode THEN entry ELSE journal[n][mode]
    BY <1>1, <1>3, <1>4
<1>7. ~clone[m].rebasing
    BY <1>1, Same DEF CloneSound
<1>8. CloneSound(clone[m], k.at)
    BY <1>2, <1>7, Same DEF Points
<1>9. IInv' /\ Kept
    BY <1>1, <1>2, <1>3, <1>5, <1>8, Same, StepIsSound DEF Stepped, Becomes
<1> QED
    BY <1>2, <1>6, <1>9 DEF Published

LEMMA RebasingIsSound ==
    ASSUME IInv, NEW m \in Clones, NEW p \in {"rebase", "rebase-rejected"},
           call[m].at \in {"pull", "send"}, ~clone[m].unmerged,
           Becomes(m, Rebasing(clone[m])), Goto(m, p), UNCHANGED <<remote, journal>>
    PROVE  IInv' /\ Kept /\ Published
<1>1. ~clone[m].rebasing
    BY Same DEF CloneSound
<1>2. /\ Rebasing(clone[m]) \in Clone /\ CloneSound(Rebasing(clone[m]), p)
      /\ Has(clone[m]) \subseteq Has(Rebasing(clone[m]))
    BY <1>1, Same, RebasingKeeps
<1> QED
    BY <1>2, Same, Going DEF Points

LEMMA PullIsSound ==
    ASSUME IInv, NEW m \in Clones, Pull(m)
    PROVE  IInv' /\ Kept /\ Published
<1>1. call[m].at = "pull"
    BY DEF Pull, At
<1>2. CASE Fails(m)
    BY <1>1, <1>2, FailsIsSound DEF Fails, States
<1>3. CASE /\ MayPull(clone[m]) /\ Becomes(m, Rebasing(clone[m])) /\ Goto(m, "rebase")
           /\ UNCHANGED <<remote, journal>>
    BY <1>1, <1>3, RebasingIsSound DEF MayPull
<1> QED
    BY <1>2, <1>3 DEF Pull

LEMMA RebaseIsSound ==
    ASSUME IInv, NEW m \in Clones, call[m].at \in {"rebase", "rebase-rejected"},
           NEW next \in {"observe", "add", "resend"}, Rebase(m, next)
    PROVE  IInv' /\ Kept /\ Published
<1> DEFINE d == Rebased(clone[m])
<1>1. clone[m].rebasing
    BY Same DEF CloneSound
<1>2. /\ d \in Clone /\ CloneSound(d, "idle") /\ CloneSound(d, next)
      /\ Has(clone[m]) \ {Markers} \subseteq Has(d)
    BY <1>1, Same, RebasedKeeps DEF Points
<1>3. Becomes(m, d) /\ UNCHANGED remote
    BY DEF Rebase
<1>4. CASE Answer(m, "ambiguous")
    <2> HIDE DEF d
    <2> QED
        BY <1>2, <1>3, <1>4, Same, Answering DEF States
<1>5. CASE Goto(m, next) /\ UNCHANGED journal
    <2> HIDE DEF d
    <2> QED
        BY <1>2, <1>3, <1>5, Same, Going DEF Points
<1> QED
    BY <1>4, <1>5 DEF Rebase

LEMMA FinishPullIsSound ==
    ASSUME IInv, NEW m \in Clones, FinishPull(m)
    PROVE  IInv' /\ Kept /\ Published
<1>1. call[m].at \in {"rebase", "rebase-rejected"}
    BY DEF FinishPull, At
<1>2. CASE \E next \in {"observe", "add", "resend"} : Rebase(m, next)
    BY <1>1, <1>2, RebaseIsSound
<1>3. CASE Abort(m)
    <2>1. clone[m].rebasing
        BY <1>1, Same DEF CloneSound
    <2>2. /\ Aborted(clone[m]) \in Clone /\ CloneSound(Aborted(clone[m]), "idle")
          /\ Has(clone[m]) \subseteq Has(Aborted(clone[m]))
        BY <2>1, Same, AbortedKeeps
    <2> QED
        BY <1>1, <1>3, <2>2, Same, Answering DEF Abort, States
<1>4. CASE Fails(m)
    BY <1>1, <1>4, FailsIsSound DEF Fails, States
<1> QED
    BY <1>2, <1>3, <1>4 DEF FinishPull

LEMMA AddIsSound ==
    ASSUME IInv, NEW m \in Clones, Add(m)
    PROVE  IInv' /\ Kept /\ Published
<1>1. call[m].at = "add"
    BY DEF Add, At
<1>2. CASE Fails(m)
    BY <1>1, <1>2, FailsIsSound DEF Fails, States
<1>3. CASE /\ MayAdd(clone[m]) /\ Becomes(m, Added(clone[m])) /\ Goto(m, "commit")
           /\ UNCHANGED <<remote, journal>>
    <2>1. ~clone[m].unmerged /\ ~clone[m].rebasing
        BY <1>1, <1>3, Same DEF CloneSound, MayAdd
    <2>2. /\ Added(clone[m]) \in Clone /\ CloneSound(Added(clone[m]), "commit")
          /\ Has(clone[m]) \subseteq Has(Added(clone[m]))
        BY <2>1, Same, AddedKeeps DEF Points
    <2> QED
        BY <1>1, <1>3, <2>2, Same, Going DEF Points
<1> QED
    BY <1>2, <1>3 DEF Add

LEMMA CommitIsSound ==
    ASSUME IInv, NEW m \in Clones, Commit(m)
    PROVE  IInv' /\ Kept /\ Published
<1>1. call[m].at = "commit" /\ ~clone[m].rebasing
    BY Same DEF Commit, At, CloneSound
<1>2. CASE Fails(m)
    BY <1>1, <1>2, FailsIsSound DEF Fails, States
<1>3. CASE /\ IF clone[m].index = {} THEN UNCHANGED clone ELSE Becomes(m, Committed(clone[m]))
           /\ Goto(m, "send") /\ UNCHANGED <<remote, journal>>
    <2>1. CASE clone[m].index = {}
        <3>1. Becomes(m, clone[m]) /\ CloneSound(clone[m], "send")
            BY <1>1, <1>3, <2>1, Same DEF Points
        <3> QED
            BY <1>1, <1>3, <3>1, Same, Going DEF Points
    <2>2. CASE clone[m].index # {}
        <3>1. /\ Committed(clone[m]) \in Clone /\ CloneSound(Committed(clone[m]), "send")
              /\ Has(clone[m]) \subseteq Has(Committed(clone[m]))
            BY <1>1, <2>2, Same, CommittedKeeps
        <3> QED
            BY <1>1, <1>3, <2>2, <3>1, Same, Going DEF Points
    <2> QED
        BY <2>1, <2>2
<1> QED
    BY <1>2, <1>3 DEF Commit

LEMMA SendIsSound ==
    ASSUME IInv, NEW m \in Clones, Send(m)
    PROVE  IInv' /\ Kept /\ Published
<1>1. call[m].at \in {"send", "resend"} /\ ~clone[m].rebasing
    BY Same DEF Send, CloneSound
<1>2. CASE Fails(m)
    BY <1>1, <1>2, FailsIsSound DEF Fails, States
<1>3. CASE /\ IsPrefix(remote, clone[m].head) /\ remote' = clone[m].head
           /\ \/ /\ Becomes(m, [clone[m] EXCEPT !.tracked = clone[m].head])
                 /\ Goto(m, "observe") /\ UNCHANGED journal
              \/ Answer(m, "ambiguous") /\ UNCHANGED clone
    <2> DEFINE d == [clone[m] EXCEPT !.tracked = clone[m].head]
    <2>1. remote' \in Branch /\ InBranch(remote) \subseteq InBranch(remote')
        BY <1>3, Same, PrefixKept DEF Clone
    <2>2. CASE Becomes(m, d) /\ Goto(m, "observe") /\ UNCHANGED journal
        <3>1. CloneSound(clone[m], "observe")
            BY <1>1, Same DEF Points
        <3>2. d \in Clone /\ CloneSound(d, "observe") /\ Has(d) = Has(clone[m])
            BY <3>1, Same DEF Clone, CloneSound, Has
        <3> HIDE DEF d
        <3> QED
            BY <1>1, <2>1, <2>2, <3>2, Going DEF Points
    <2>3. CASE Answer(m, "ambiguous") /\ UNCHANGED clone
        BY <1>1, <2>1, <2>3, Same, Answering DEF States
    <2> QED
        BY <1>3, <2>2, <2>3
<1>4. CASE /\ call[m].at = "send" /\ ~clone[m].unmerged
           /\ Becomes(m, Rebasing(clone[m])) /\ Goto(m, "rebase-rejected")
           /\ UNCHANGED <<remote, journal>>
    BY <1>4, RebasingIsSound
<1> QED
    BY <1>2, <1>3, <1>4 DEF Send, At

-----------------------------------------------------------------------------
(* People and processes.                                                   *)

(* A step that changes the clone only, and keeps what it has.              *)
LEMMA ByHand ==
    ASSUME IInv, NEW m \in Clones, NEW d \in Clone, Becomes(m, d), CloneSound(d, call[m].at),
           Has(clone[m]) \ {Markers} \subseteq Has(d), UNCHANGED <<remote, call, journal>>
    PROVE  IInv' /\ Kept /\ Published
<1>1. /\ call[m] \in Call /\ (call[m].at # "idle" => call[m].mode \in Modes)
      /\ call \in [Clones -> Call] /\ journal' \in [Clones -> [Modes -> Entry]]
    BY DEF IInv, SyncTypeOK
<1>2. Stepped(m, d, call[m])
    BY <1>1 DEF Stepped, Becomes
<1>3. IInv' /\ Kept
    BY <1>1, <1>2, Same, StepIsSound
<1> QED
    BY <1>3 DEF Published

LEMMA DieIsSound ==
    ASSUME IInv, NEW m \in Clones, Die(m)
    PROVE  IInv' /\ Kept /\ Published
<1>1. Idle \in Call /\ Idle.at = "idle"
    BY DEF Idle, Call, Points
<1>2. Stepped(m, clone[m], Idle) /\ UNCHANGED <<remote, journal>>
    BY Same DEF Die, Stepped, Becomes
<1>3. journal' \in [Clones -> [Modes -> Entry]]
    BY <1>2 DEF IInv, SyncTypeOK
<1>4. IInv' /\ Kept
    BY <1>1, <1>2, <1>3, Same, StepIsSound
<1> QED
    BY <1>2, <1>4 DEF Published

LEMMA EditIsSound ==
    ASSUME IInv, NEW e \in Edits, Edit(e)
    PROVE  IInv' /\ Kept /\ Published
<1> DEFINE m == e.by
           d == [clone[m] EXCEPT !.work = @ \cup {e}]
<1>1. m \in Clones /\ e # Markers
    BY EditsAreOfClones
<1>2. /\ ~clone[m].rebasing /\ ~clone[m].unmerged /\ Becomes(m, d)
      /\ UNCHANGED <<remote, call, journal>>
    BY DEF Edit
<1> HIDE DEF m
<1>3. d \in Clone /\ CloneSound(d, call[m].at) /\ Has(clone[m]) \subseteq Has(d)
    BY <1>1, <1>2, Same DEF Clone, Contents, CloneSound, Has
<1> HIDE DEF d
<1> QED
    BY <1>1, <1>2, <1>3, ByHand

LEMMA StageIsSound ==
    ASSUME IInv, NEW m \in Clones, Stage(m)
    PROVE  IInv' /\ Kept /\ Published
<1>1. /\ ~clone[m].rebasing /\ ~clone[m].unmerged /\ Becomes(m, Added(clone[m]))
      /\ UNCHANGED <<remote, call, journal>>
    BY DEF Stage
<1>2. call[m].at \in Points \ {"rebase", "rebase-rejected"}
    BY <1>1, Same DEF IInv, SyncTypeOK, Call, CloneSound
<1>3. /\ Added(clone[m]) \in Clone /\ CloneSound(Added(clone[m]), call[m].at)
      /\ Has(clone[m]) \subseteq Has(Added(clone[m]))
    BY <1>1, <1>2, Same, AddedKeeps
<1> QED
    BY <1>1, <1>3, ByHand

LEMMA ResolveIsSound ==
    ASSUME IInv, NEW m \in Clones, Resolve(m)
    PROVE  IInv' /\ Kept /\ Published
<1> DEFINE d == [clone[m] EXCEPT !.work = (@ \ {Markers}) \cup clone[m].stash, !.stash = {},
                                 !.unmerged = FALSE]
<1>1. /\ call[m].at = "idle" /\ clone[m].unmerged /\ Becomes(m, d)
      /\ UNCHANGED <<remote, call, journal>>
    BY DEF Resolve, At
<1>2. /\ clone[m].index = {} /\ ~clone[m].rebasing
      /\ Markers \notin clone[m].stash
    BY <1>1, Same, EditsAreOfClones DEF CloneSound, Clone
<1>4. clone[m] \in Clone
    BY Same
<1>5. d \in Clone
    BY <1>2, <1>4 DEF Clone, Contents
<1>6. /\ d.work = (clone[m].work \ {Markers}) \cup clone[m].stash /\ d.stash = {}
      /\ d.unmerged = FALSE /\ d.index = clone[m].index /\ d.rebasing = clone[m].rebasing
      /\ d.head = clone[m].head
    BY <1>4 DEF Clone
<1>7. CloneSound(d, "idle")
    BY <1>2, <1>6 DEF CloneSound
<1>3. /\ d \in Clone /\ CloneSound(d, "idle")
      /\ Has(clone[m]) \ {Markers} \subseteq Has(d)
    BY <1>5, <1>6, <1>7 DEF Has
<1> HIDE DEF d
<1> QED
    BY <1>1, <1>3, ByHand

LEMMA EndRebaseIsSound ==
    ASSUME IInv, NEW m \in Clones, EndRebase(m)
    PROVE  IInv' /\ Kept /\ Published
<1>1. /\ call[m].at = "idle" /\ clone[m].rebasing /\ Becomes(m, Aborted(clone[m]))
      /\ UNCHANGED <<remote, call, journal>>
    BY DEF EndRebase, At
<1>2. /\ Aborted(clone[m]) \in Clone /\ CloneSound(Aborted(clone[m]), "idle")
      /\ Has(clone[m]) \subseteq Has(Aborted(clone[m]))
    BY <1>1, Same, AbortedKeeps
<1> QED
    BY <1>1, <1>2, ByHand

-----------------------------------------------------------------------------
(* The invariant holds at the start and every step keeps it, keeps every   *)
(* edit somewhere, and verifies only what is published.                    *)

LEMMA InitSound ==
    SyncInit => IInv
<1> SUFFICES ASSUME SyncInit PROVE IInv
    OBVIOUS
<1>1. << >> \in Branch
    BY DEF Branch
<1> DEFINE c == [head |-> <<>>, tracked |-> <<>>, index |-> {}, work |-> {}, stash |-> {},
                 unmerged |-> FALSE, rebasing |-> FALSE]
           e == [state |-> "planned", before |-> None]
<1>2. c \in Clone /\ CloneSound(c, "idle")
    BY <1>1 DEF Clone, Contents, CloneSound
<1>3. Idle \in Call /\ Idle.at = "idle"
    BY DEF Idle, Call, Points
<1>4. e \in Entry
    BY DEF Entry, States
<1>5. /\ remote = << >> /\ clone = [m \in Clones |-> c] /\ call = [m \in Clones |-> Idle]
      /\ journal = [m \in Clones |-> [mode \in Modes |-> e]]
    BY DEF SyncInit
<1> HIDE DEF c, e
<1>6. journal \in [Clones -> [Modes -> Entry]]
    BY <1>4, <1>5
<1> QED
    BY <1>1, <1>2, <1>3, <1>5, <1>6 DEF IInv, SyncTypeOK

LEMMA NextIsSound ==
    ASSUME IInv, [SyncNext]_syncVars
    PROVE  IInv' /\ Kept /\ Published
<1>1. ASSUME NEW m \in Clones, NEW mode \in Modes, Start(m, mode)
      PROVE  IInv' /\ Kept /\ Published
    BY <1>1, StartIsSound
<1>2. ASSUME NEW m \in Clones, RefreshFailed(m)
      PROVE  IInv' /\ Kept /\ Published
    BY <1>2, FailsIsSound DEF RefreshFailed, At, States
<1>3. ASSUME NEW m \in Clones,
             Refresh(m) \/ Recognize(m) \/ Begin(m) \/ Observe(m) \/ Pull(m) \/ FinishPull(m)
      PROVE  IInv' /\ Kept /\ Published
    BY <1>3, RefreshIsSound, RecognizeIsSound, BeginIsSound, ObserveIsSound, PullIsSound,
       FinishPullIsSound
<1>4. ASSUME NEW m \in Clones,
             Add(m) \/ Commit(m) \/ Send(m) \/ Die(m) \/ Stage(m) \/ Resolve(m) \/ EndRebase(m)
      PROVE  IInv' /\ Kept /\ Published
    BY <1>4, AddIsSound, CommitIsSound, SendIsSound, DieIsSound, StageIsSound, ResolveIsSound,
       EndRebaseIsSound
<1>5. ASSUME NEW e \in Edits, Edit(e)
      PROVE  IInv' /\ Kept /\ Published
    BY <1>5, EditIsSound
<1>6. CASE UNCHANGED syncVars
    <2>1. IInv'
        BY <1>6 DEF syncVars, IInv, SyncTypeOK
    <2>2. Made' = Made
        BY <1>6 DEF syncVars, Made
    <2> QED
        BY <1>6, <2>1, <2>2 DEF Kept, Published, syncVars
<1> QED
    BY <1>1, <1>2, <1>3, <1>4, <1>5, <1>6 DEF SyncNext

(* What a clone, its command and its journal may be at any time, and that  *)
(* a rebase, a stash and conflict markers are only where the code expects  *)
(* them.                                                                   *)
THEOREM Invariance ==
    SyncSpec => []IInv
<1>1. IInv /\ [SyncNext]_syncVars => IInv'
    BY NextIsSound
<1> QED
    BY InitSound, <1>1, PTL DEF SyncSpec

(* No commit has conflict markers, in a clone or at the remote.            *)
THEOREM MarkersNeverCommitted ==
    SyncSpec => []MarkersStayLocal
<1>1. IInv => MarkersStayLocal
    <2> SUFFICES ASSUME IInv PROVE MarkersStayLocal
        OBVIOUS
    <2>1. remote \in Branch /\ \A m \in Clones : clone[m].head \in Branch
        BY DEF IInv, SyncTypeOK, Clone
    <2> QED
        BY <2>1, InBranchTyped, EditsAreOfClones DEF MarkersStayLocal
<1> QED
    BY <1>1, Invariance, PTL

(* Nothing that somebody edited is lost, by any command, at any time.      *)
THEOREM EditsAreKept ==
    SyncSpec => NothingLost
<1>1. IInv /\ [SyncNext]_syncVars => [(Made \ {Markers}) \subseteq Made']_syncVars
    BY NextIsSound DEF Kept
<1> QED
    BY <1>1, Invariance, PTL DEF SyncSpec, NothingLost

(* A command that succeeds has published the branch, and a push or a sync  *)
(* all that was edited.                                                    *)
THEOREM SuccessIsPublished ==
    SyncSpec => VerifiedIsPublished
<1>1. IInv /\ [SyncNext]_syncVars =>
          [\A m \in Clones, mode \in Modes :
              journal[m][mode].state # "verified" /\ journal'[m][mode].state = "verified" =>
                  /\ IsPrefix(clone[m].head, remote)
                  /\ mode # "pull" =>
                         clone[m].work \cup clone[m].index \cup clone[m].stash = {}]_syncVars
    BY NextIsSound DEF Published
<1> QED
    BY <1>1, Invariance, PTL DEF SyncSpec, VerifiedIsPublished
=============================================================================
