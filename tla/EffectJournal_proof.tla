------------------------ MODULE EffectJournal_proof ------------------------
(***************************************************************************)
(* Proofs about EffectJournal, for every number of processes, receipts and *)
(* attempts.                                                               *)
(***************************************************************************)
EXTENDS EffectJournal, TLAPS

(* Whoever is past the lock owns the lock file.                            *)
HolderOwnsLock ==
    \A p \in Procs : pc[p] \in Held => lock # None /\ lock.owner = p

(* A journal on disk was begun, and has a receipt exactly when verified.   *)
DiskSound ==
    disk # None =>
        /\ disk.state # "planned"
        /\ disk.state = "verified" <=> disk.receipt # None

(* What a call knows at each point: the journal it read is the one on      *)
(* disk, and it only begins an attempt when nothing is in place.           *)
CallSound(p) ==
    /\ pc[p] \in {"replay", "recover", "mutating", "caught", "observe"} =>
         /\ disk # None /\ disk = mem[p]
         /\ disk.state = "verified" <=> pc[p] = "replay"
    /\ pc[p] = "begin" =>
         /\ target = None /\ live = {}
         /\ mem[p].receipt = None
         /\ disk # None => {disk.receipt} \cup disk.history \subseteq {None} \cup mem[p].history

(* The effect, the journal and the calls fit together.                     *)
Sound ==
    /\ AtMostOnce
    /\ EffectIsJournaled
    /\ DiskSound
    /\ AnswerIsRecorded
    /\ \A p \in Procs : CallSound(p)

(* The inductive invariant.                                                *)
IInv ==
    /\ TypeOK
    /\ HolderOwnsLock
    /\ Sound

LEMMA InitSound == Init => IInv
BY NoneIsFresh
   DEF Init, IInv, Sound, TypeOK, HolderOwnsLock, AtMostOnce, EffectIsJournaled, DiskSound,
       AnswerIsRecorded, CallSound, NewJournal, Journal, Points, Held, Attempts, Returns

(* What a call makes of a journal is a journal, field by field.            *)
LEMMA AttemptingJournal ==
    ASSUME NEW j \in Journal
    PROVE  /\ Attempting(j) \in Journal
           /\ Attempting(j).state = "attempting"
           /\ Attempting(j).receipt = j.receipt
           /\ Attempting(j).history = j.history
<1>1. PICK n \in Nat : n = j.tries + 1
  BY DEF Journal
<1>2. Attempting(j) = [j EXCEPT !.state = "attempting", !.tries = n, !.attempt = "attempting"]
  BY <1>1 DEF Attempting, Journal
<1> QED
  BY <1>2 DEF Journal, Attempts

LEMMA EndedJournal ==
    ASSUME NEW j \in Journal, NEW s \in Attempts, NEW a \in Attempts \cup {None}
    PROVE  /\ Ended(j, s, a) \in Journal
           /\ Ended(j, s, a).state = s
           /\ Ended(j, s, a).receipt = j.receipt
           /\ Ended(j, s, a).history = j.history
BY DEF Ended, Journal, Attempts

LEMMA ProvedJournal ==
    ASSUME NEW j \in Journal, NEW r \in Receipts
    PROVE  /\ Proved(j, r) \in Journal
           /\ Proved(j, r).state = "verified"
           /\ Proved(j, r).receipt = r
           /\ Proved(j, r).history = j.history
BY DEF Proved, Ended, Journal, Attempts

LEMMA RetiredReceipts ==
    ASSUME NEW j \in Journal
    PROVE  Retired(j) \in SUBSET Receipts
BY DEF Journal, Retired

LEMMA RefreshedJournal ==
    ASSUME NEW j \in Journal, NEW r \in Receipts
    PROVE  /\ Refreshed(j, r) \in Journal
           /\ Refreshed(j, r).state = j.state
           /\ Refreshed(j, r).receipt = r
           /\ Refreshed(j, r).history = Retired(j)
BY RetiredReceipts DEF Refreshed, Journal

LEMMA WithdrawnJournal ==
    ASSUME NEW j \in Journal
    PROVE  /\ Withdrawn(j) \in Journal
           /\ Withdrawn(j).state = "planned"
           /\ Withdrawn(j).receipt = None
           /\ Withdrawn(j).history = Retired(j)
BY RetiredReceipts DEF Withdrawn, Journal, Attempts

LEMMA NewIsJournal == NewJournal \in Journal
BY DEF NewJournal, Journal, Attempts

(* Every step keeps the types.                                             *)
LEMMA StepKeepsTypes == IInv /\ Next => TypeOK'
<1> SUFFICES ASSUME IInv, Next PROVE TypeOK'
  OBVIOUS
<1> TypeOK /\ HolderOwnsLock
  BY DEF IInv
<1> USE DEF TypeOK, Goto, Points, Held
<1>1. ASSUME NEW p \in Procs, Open(p) \/ LockTimeout(p)
      PROVE TypeOK'
  <2>1. [owner |-> p, named |-> FALSE] \in LockFile
    BY DEF LockFile
  <2> QED
    BY <1>1, <2>1 DEF Open, LockTimeout
<1>2. ASSUME NEW p \in Procs, NameOwner(p)
      PROVE TypeOK'
  <2>1. lock \in LockFile
    BY <1>2 DEF NameOwner, HolderOwnsLock
  <2>2. lock' \in LockFile
    BY <1>2, <2>1 DEF NameOwner, LockFile
  <2> QED
    BY <1>2, <2>2 DEF NameOwner
<1>3. ASSUME NEW p \in Procs, Refused(p) \/ Told(p) \/ Release(p) \/ Die(p)
      PROVE TypeOK'
  BY <1>3, NewIsJournal DEF Refused, Told, Release, Die, Leave, Returns
<1>4. ASSUME NEW p \in Procs, ReadJournal(p)
      PROVE TypeOK'
  BY <1>4, NewIsJournal DEF ReadJournal, Route
<1>5. ASSUME NEW p \in Procs, Replay(p)
      PROVE TypeOK'
  BY <1>5, RefreshedJournal, WithdrawnJournal
     DEF Replay, Verified, SafelyAbsent, Return, Returns
<1>6. ASSUME NEW p \in Procs, Recover(p) \/ Caught(p) \/ Observe(p)
      PROVE TypeOK'
  <2>1. mem[p] \in Journal /\ mem[p].attempt \in Attempts \cup {None}
    BY DEF Journal
  <2>2. ASSUME NEW s \in Attempts, NEW a \in Attempts \cup {None}
        PROVE  Ended(mem[p], s, a) \in Journal
    BY <2>1, EndedJournal
  <2>3. target # None => Proved(mem[p], target) \in Journal
    BY <2>1, ProvedJournal
  <2>4. CASE Recover(p)
    BY <2>1, <2>2, <2>3, <2>4
       DEF Recover, Finish, Settle, Return, Verified, SafelyAbsent, Attempts, Returns
  <2>5. CASE Caught(p)
    BY <2>1, <2>2, <2>3, <2>5
       DEF Caught, Finish, Settle, Return, Verified, SafelyAbsent, Attempts, Returns
  <2>6. CASE Observe(p)
    BY <2>1, <2>2, <2>3, <2>6
       DEF Observe, Finish, Settle, Return, Verified, SafelyAbsent, Attempts, Returns
  <2> QED
    BY <1>6, <2>4, <2>5, <2>6
<1>7. ASSUME NEW p \in Procs, Begin(p)
      PROVE TypeOK'
  BY <1>7, AttemptingJournal DEF Begin
<1>8. ASSUME NEW p \in Procs, Mutated(p)
      PROVE TypeOK'
  BY <1>8, EndedJournal DEF Mutated, Settle, Return, Attempts, Returns
<1>9. ASSUME NEW p \in Procs, Throws(p) \/ Restart(p) \/ Land(p) \/ Fizzle(p)
      PROVE TypeOK'
  BY <1>9 DEF Throws, Restart, Land, Fizzle, Return, Returns
<1>10. CASE Drift \/ ManualRemoval
  BY <1>10 DEF Drift, ManualRemoval
<1> QED
  BY <1>1, <1>2, <1>3, <1>4, <1>5, <1>6, <1>7, <1>8, <1>9, <1>10 DEF Next

(* Every step leaves the lock file with whoever is past the lock.          *)
LEMMA StepKeepsLock == IInv /\ Next => HolderOwnsLock'
<1> SUFFICES ASSUME IInv, Next PROVE HolderOwnsLock'
  OBVIOUS
<1> TypeOK /\ HolderOwnsLock
  BY DEF IInv
<1> USE DEF TypeOK, HolderOwnsLock, Goto, Return, Leave, Held, Points
<1>1. ASSUME NEW p \in Procs, Open(p) \/ LockTimeout(p) \/ Refused(p) \/ Told(p)
      PROVE HolderOwnsLock'
  <2> DEFINE file == [owner |-> p, named |-> FALSE]
  <2>1. file # None /\ file.owner = p
    <3>1. file \in LockFile
      BY DEF LockFile
    <3> QED
      BY <3>1, NoneIsFresh
  <2> HIDE DEF file
  <2>2. CASE Open(p)
    BY <2>1, <2>2 DEF Open, file
  <2>3. CASE LockTimeout(p) \/ Refused(p) \/ Told(p)
    BY <2>3 DEF LockTimeout, Refused, Told
  <2> QED
    BY <1>1, <2>2, <2>3
<1>2. ASSUME NEW p \in Procs, NameOwner(p)
      PROVE HolderOwnsLock'
  <2>1. lock \in LockFile /\ lock.owner = p
    BY <1>2 DEF NameOwner
  <2>2. lock' \in LockFile /\ lock'.owner = p
    BY <1>2, <2>1 DEF NameOwner, LockFile
  <2> QED
    BY <1>2, <2>1, <2>2, NoneIsFresh DEF NameOwner
<1>3. ASSUME NEW p \in Procs, Release(p) \/ Die(p) \/ Restart(p)
      PROVE HolderOwnsLock'
  BY <1>3 DEF Release, Die, Restart
<1>4. ASSUME NEW p \in Procs, ReadJournal(p) \/ Replay(p) \/ Recover(p) \/ Begin(p)
      PROVE HolderOwnsLock'
  BY <1>4 DEF ReadJournal, Route, Replay, Recover, Begin, Finish, Settle
<1>5. ASSUME NEW p \in Procs, Mutated(p) \/ Caught(p) \/ Observe(p) \/ Throws(p)
      PROVE HolderOwnsLock'
  BY <1>5 DEF Mutated, Caught, Observe, Throws, Finish, Settle
<1>6. ASSUME NEW p \in Procs, Land(p) \/ Fizzle(p)
      PROVE HolderOwnsLock'
  BY <1>6 DEF Land, Fizzle
<1>7. CASE Drift \/ ManualRemoval
  BY <1>7 DEF Drift, ManualRemoval
<1> QED
  BY <1>1, <1>2, <1>3, <1>4, <1>5, <1>6, <1>7 DEF Next

(* While p is past the lock, a step that moves only p leaves nothing to    *)
(* ask of the other calls.                                                 *)
LEMMA OthersAreOutside ==
    ASSUME IInv, NEW p \in Procs, pc[p] \in Held,
           NEW q \in Procs, q # p, pc'[q] = pc[q]
    PROVE  CallSound(q)' /\ pc'[q] \notin Held
BY DEF IInv, HolderOwnsLock, CallSound, Held

(* The actions that neither write the journal nor begin an attempt.        *)
LEMMA QuietStepsAreSound ==
    ASSUME IInv, UNCHANGED <<target, disk>>, live' \subseteq live,
           NEW p \in Procs,
           \A q \in Procs : q # p => /\ pc'[q] = pc[q] /\ mem'[q] = mem[q] /\ ret'[q] = ret[q],
           \/ pc'[p] \notin {"replay", "recover", "mutating", "caught", "observe", "begin", "release"}
           \/ pc'[p] = "release" /\ ret'[p] # "verified"
           \/ pc'[p] = pc[p] /\ mem'[p] = mem[p] /\ ret'[p] = ret[p]
    PROVE  Sound'
<1>1. AtMostOnce' /\ EffectIsJournaled' /\ DiskSound'
  BY DEF IInv, Sound, AtMostOnce, EffectIsJournaled, DiskSound
<1>2. AnswerIsRecorded'
  BY DEF IInv, Sound, AnswerIsRecorded
<1>3. ASSUME NEW q \in Procs PROVE CallSound(q)'
  <2>1. CallSound(q)
    BY DEF IInv, Sound
  <2> QED
    BY <2>1 DEF CallSound
<1> QED
  BY <1>1, <1>2, <1>3 DEF Sound

LEMMA StepKeepsSound == IInv /\ Next => Sound'
<1> SUFFICES ASSUME IInv, Next PROVE Sound'
  OBVIOUS
<1> TypeOK /\ HolderOwnsLock /\ Sound
  BY DEF IInv
<1> USE DEF Goto
<1>1. ASSUME NEW p \in Procs,
             \/ Open(p) \/ NameOwner(p) \/ LockTimeout(p) \/ Refused(p)
             \/ Told(p) \/ Release(p) \/ Die(p) \/ Restart(p)
      PROVE Sound'
  BY <1>1, QuietStepsAreSound
     DEF Open, NameOwner, LockTimeout, Refused, Told, Release, Die, Restart, Leave, TypeOK
<1>2. ASSUME NEW p \in Procs, Throws(p)
      PROVE Sound'
  BY <1>2, QuietStepsAreSound DEF Throws, Return, TypeOK
<1>3. ASSUME NEW p \in Procs, Fizzle(p)
      PROVE Sound'
  BY <1>3, QuietStepsAreSound DEF Fizzle
<1>4. CASE ManualRemoval
  BY <1>4 DEF ManualRemoval, Sound, AtMostOnce, EffectIsJournaled, DiskSound, AnswerIsRecorded,
              CallSound
<1>5. CASE Drift
  BY <1>5 DEF Drift, Sound, AtMostOnce, EffectIsJournaled, DiskSound, AnswerIsRecorded, CallSound
<1>6. ASSUME NEW p \in Procs, Land(p)
      PROVE Sound'
  BY <1>6 DEF Land, Sound, AtMostOnce, EffectIsJournaled, DiskSound, AnswerIsRecorded, CallSound
<1>7. ASSUME NEW p \in Procs, ReadJournal(p)
      PROVE Sound'
  <2>1. pc[p] \in Held /\ UNCHANGED <<target, live, lock, disk, ret>>
    BY <1>7 DEF ReadJournal, Held
  <2>2. CallSound(p)' /\ pc'[p] # "release"
    <3>1. CASE disk = None
      BY <1>7, <3>1 DEF ReadJournal, Route, NewJournal, CallSound, TypeOK, Sound, EffectIsJournaled
    <3>2. CASE disk # None
      BY <1>7, <3>2 DEF ReadJournal, Route, CallSound, TypeOK, Sound, DiskSound
    <3> QED
      BY <3>1, <3>2
  <2>3. \A q \in Procs : q # p => CallSound(q)' /\ pc'[q] \notin Held
    BY <1>7, <2>1, OthersAreOutside DEF ReadJournal, TypeOK
  <2> QED
    BY <2>1, <2>2, <2>3 DEF Sound, AtMostOnce, EffectIsJournaled, DiskSound, AnswerIsRecorded, Held
<1>8. ASSUME NEW p \in Procs, Begin(p)
      PROVE Sound'
  <2>1. pc[p] \in Held /\ mem[p] \in Journal
    BY <1>8 DEF Begin, Held, TypeOK
  <2>2. /\ disk' = Attempting(mem[p]) /\ mem'[p] = Attempting(mem[p]) /\ pc'[p] = "mutating"
        /\ target' = None /\ live' = {p} /\ mem[p].receipt = None
    BY <1>8 DEF Begin, Sound, CallSound, TypeOK
  <2>3. /\ disk' # None /\ disk'.state = "attempting" /\ disk'.receipt = None
    BY <2>1, <2>2, AttemptingJournal, NoneIsFresh
  <2>4. \A q \in Procs : q # p => CallSound(q)' /\ pc'[q] \notin Held
    BY <1>8, <2>1, OthersAreOutside DEF Begin, TypeOK
  <2>5. CallSound(p)'
    BY <2>2, <2>3 DEF CallSound
  <2> QED
    BY <2>2, <2>3, <2>4, <2>5
       DEF Sound, AtMostOnce, EffectIsJournaled, DiskSound, AnswerIsRecorded, Held
<1>9. ASSUME NEW p \in Procs, Finish(p), Verified, UNCHANGED <<target, live, lock, mem>>,
             pc[p] \in {"recover", "caught", "observe"}
      PROVE Sound'
  <2>1. mem[p] \in Journal /\ target \in Receipts /\ pc[p] \in Held
    BY <1>9 DEF TypeOK, Verified, Held
  <2>2. /\ disk' # None /\ disk'.state = "verified" /\ disk'.receipt # None
        /\ live' = {} /\ pc'[p] = "release"
    BY <1>9, <2>1, ProvedJournal, NoneIsFresh
       DEF Finish, Return, TypeOK, Verified, Sound, AtMostOnce
  <2>3. \A q \in Procs : q # p => CallSound(q)' /\ pc'[q] \notin Held
    BY <1>9, <2>1, OthersAreOutside DEF Finish, Return, TypeOK
  <2> QED
    BY <1>9, <2>2, <2>3
       DEF Sound, AtMostOnce, EffectIsJournaled, DiskSound, AnswerIsRecorded, CallSound, Held
<1>10. ASSUME NEW p \in Procs, NEW a \in Attempts \cup {None},
              Settle(p, "blocked", a) \/ Settle(p, "ambiguous", a),
              UNCHANGED <<target, lock, mem>>, live' \subseteq live,
              pc[p] \in {"recover", "mutating", "caught", "observe"}
      PROVE Sound'
  <2>1. mem[p] \in Journal /\ pc[p] \in Held /\ mem[p].receipt = None
    BY <1>10 DEF TypeOK, Held, Sound, CallSound, DiskSound
  <2>2. /\ disk' # None /\ disk'.state \in {"blocked", "ambiguous"} /\ disk'.receipt = None
        /\ pc'[p] = "release" /\ ret'[p] # "verified"
    BY <1>10, <2>1, EndedJournal, NoneIsFresh DEF Settle, Return, TypeOK, Attempts
  <2>3. \A q \in Procs : q # p => CallSound(q)' /\ pc'[q] \notin Held
    BY <1>10, <2>1, OthersAreOutside DEF Settle, Return, TypeOK
  <2> QED
    BY <1>10, <2>2, <2>3
       DEF Sound, AtMostOnce, EffectIsJournaled, DiskSound, AnswerIsRecorded, CallSound, Held
<1>11. ASSUME NEW p \in Procs, Replay(p)
      PROVE Sound'
  <2>1. /\ mem[p] \in Journal /\ pc[p] \in Held
        /\ disk = mem[p] /\ disk # None /\ disk.state = "verified" /\ mem[p].receipt # None
    BY <1>11 DEF Replay, TypeOK, Held, Sound, CallSound, DiskSound
  <2>2. \A q \in Procs : q # p => CallSound(q)' /\ pc'[q] \notin Held
    BY <1>11, <2>1, OthersAreOutside DEF Replay, Return, TypeOK
  <2>3. CASE /\ Verified
             /\ disk' = IF target = mem[p].receipt THEN disk ELSE Refreshed(mem[p], target)
             /\ Return(p, "verified")
    <3>1. /\ disk' # None /\ disk'.state = "verified" /\ disk'.receipt # None
          /\ pc'[p] = "release"
      BY <2>1, <2>3, RefreshedJournal, NoneIsFresh DEF Verified, Return, TypeOK
    <3> QED
      BY <1>11, <2>1, <2>2, <3>1
         DEF Replay, Sound, AtMostOnce, EffectIsJournaled, DiskSound, AnswerIsRecorded, CallSound,
             Held
  <2>4. CASE /\ SafelyAbsent
             /\ mem' = [mem EXCEPT ![p] = Withdrawn(mem[p])]
             /\ pc' = [pc EXCEPT ![p] = "begin"]
             /\ UNCHANGED <<disk, ret>>
    <3>1. /\ pc'[p] = "begin" /\ mem'[p].receipt = None
          /\ {disk'.receipt} \cup disk'.history \subseteq {None} \cup mem'[p].history
      BY <2>1, <2>4, WithdrawnJournal DEF TypeOK, Retired
    <3> QED
      BY <1>11, <2>1, <2>2, <2>4, <3>1
         DEF Replay, Sound, AtMostOnce, EffectIsJournaled, DiskSound, AnswerIsRecorded, CallSound,
             SafelyAbsent, Held
  <2>5. CASE Return(p, "ambiguous") /\ UNCHANGED <<disk, mem>>
    BY <1>11, <2>5, QuietStepsAreSound DEF Replay, Return, TypeOK
  <2> QED
    BY <1>11, <2>3, <2>4, <2>5 DEF Replay
<1>12. ASSUME NEW p \in Procs, Recover(p) \/ Caught(p) \/ Observe(p)
      PROVE Sound'
  <2>1. CASE Verified /\ Finish(p)
    BY <1>12, <1>9, <2>1 DEF Recover, Caught, Observe
  <2>2. CASE \E a \in Attempts \cup {None} : Settle(p, "blocked", a) \/ Settle(p, "ambiguous", a)
    BY <1>12, <1>10, <2>2 DEF Recover, Caught, Observe
  <2>3. CASE /\ pc[p] = "recover" /\ SafelyAbsent
             /\ pc' = [pc EXCEPT ![p] = "begin"] /\ UNCHANGED <<disk, ret>>
    <3>1. /\ pc[p] \in Held /\ pc'[p] = "begin" /\ UNCHANGED <<target, live, lock, mem>>
          /\ disk # None /\ disk = mem[p] /\ disk.receipt = None
      BY <1>12, <2>3 DEF Recover, Caught, Observe, TypeOK, Held, Sound, CallSound, DiskSound
    <3>2. \A q \in Procs : q # p => CallSound(q)' /\ pc'[q] \notin Held
      BY <2>3, <3>1, OthersAreOutside DEF TypeOK
    <3> QED
      BY <2>3, <3>1, <3>2
         DEF Sound, AtMostOnce, EffectIsJournaled, DiskSound, AnswerIsRecorded, CallSound,
             SafelyAbsent, Held
  <2>4. mem[p].attempt \in Attempts \cup {None} /\ {"blocked", "ambiguous"} \subseteq Attempts
    BY DEF TypeOK, Journal, Attempts
  <2> QED
    BY <1>12, <2>1, <2>2, <2>3, <2>4 DEF Recover, Caught, Observe
<1>13. ASSUME NEW p \in Procs, Mutated(p)
      PROVE Sound'
  <2>1. pc[p] = "mutating" /\ live' \subseteq live /\ UNCHANGED <<target, lock, mem>>
    BY <1>13 DEF Mutated
  <2>2. CASE Settle(p, "blocked", "blocked") \/ Settle(p, "ambiguous", "ambiguous")
    BY <1>10, <2>1, <2>2 DEF Attempts
  <2>3. CASE /\ pc' = [pc EXCEPT ![p] = "observe"] \/ pc' = [pc EXCEPT ![p] = "caught"]
             /\ UNCHANGED <<disk, ret>>
    <3>1. /\ pc[p] \in Held /\ pc'[p] \in {"observe", "caught"} /\ CallSound(p)
      BY <2>1, <2>3 DEF TypeOK, Held, Sound
    <3>2. \A q \in Procs : q # p => CallSound(q)' /\ pc'[q] \notin Held
      BY <2>3, <3>1, OthersAreOutside DEF TypeOK
    <3> QED
      BY <2>1, <2>3, <3>1, <3>2
         DEF Sound, AtMostOnce, EffectIsJournaled, DiskSound, AnswerIsRecorded, CallSound, Held
  <2> QED
    BY <1>13, <2>2, <2>3 DEF Mutated
<1> QED
  BY <1>1, <1>2, <1>3, <1>4, <1>5, <1>6, <1>7, <1>8, <1>11, <1>12, <1>13 DEF Next

(* No step drops a receipt.                                                *)
Kept == disk # None =>
            /\ disk' # None
            /\ {disk.receipt} \cup disk.history \subseteq {disk'.receipt, None} \cup disk'.history

LEMMA StepKeepsReceipts == IInv /\ [Next]_vars => Kept
<1> SUFFICES ASSUME IInv, [Next]_vars, disk # None
             PROVE  /\ disk' # None
                    /\ {disk.receipt} \cup disk.history
                         \subseteq {disk'.receipt, None} \cup disk'.history
  BY DEF Kept
<1> TypeOK /\ Sound
  BY DEF IInv
<1>1. CASE UNCHANGED disk
  BY <1>1
<1>2. ASSUME NEW p \in Procs, Begin(p)
      PROVE  /\ disk' # None
             /\ {disk.receipt} \cup disk.history \subseteq {disk'.receipt, None} \cup disk'.history
  BY <1>2, AttemptingJournal, NoneIsFresh DEF Begin, TypeOK, Sound, CallSound
<1>3. ASSUME NEW p \in Procs, Replay(p)
      PROVE  /\ disk' # None
             /\ {disk.receipt} \cup disk.history \subseteq {disk'.receipt, None} \cup disk'.history
  <2>1. mem[p] \in Journal /\ disk = mem[p]
    BY <1>3 DEF Replay, TypeOK, Sound, CallSound
  <2>2. CASE Verified /\ disk' = Refreshed(mem[p], target)
    <3>1. target \in Receipts /\ disk' \in Journal /\ disk'.history = Retired(disk)
      BY <2>1, <2>2, RefreshedJournal DEF Verified, TypeOK
    <3> QED
      BY <3>1, NoneIsFresh DEF Retired
  <2> QED
    BY <1>1, <1>3, <2>2 DEF Replay
<1>4. ASSUME NEW p \in Procs, Recover(p) \/ Mutated(p) \/ Caught(p) \/ Observe(p)
      PROVE  /\ disk' # None
             /\ {disk.receipt} \cup disk.history \subseteq {disk'.receipt, None} \cup disk'.history
  <2>1. mem[p] \in Journal /\ disk = mem[p] /\ disk.receipt = None
    BY <1>4 DEF Recover, Mutated, Caught, Observe, TypeOK, Sound, CallSound, DiskSound
  <2>2. CASE Verified /\ Finish(p)
    <3>1. target \in Receipts /\ disk' = Proved(mem[p], target)
      BY <2>2 DEF Verified, Finish, TypeOK
    <3> QED
      BY <2>1, <3>1, ProvedJournal, NoneIsFresh
  <2>3. CASE \E a \in Attempts \cup {None} : Settle(p, "blocked", a) \/ Settle(p, "ambiguous", a)
    <3>1. PICK a \in Attempts \cup {None}, state \in Attempts : disk' = Ended(mem[p], state, a)
      BY <2>3 DEF Settle, Attempts
    <3> QED
      BY <2>1, <3>1, EndedJournal, NoneIsFresh
  <2>4. mem[p].attempt \in Attempts \cup {None} /\ {"blocked", "ambiguous"} \subseteq Attempts
    BY <2>1 DEF Journal, Attempts
  <2>5. UNCHANGED disk \/ (Verified /\ Finish(p))
          \/ \E a \in Attempts \cup {None} : Settle(p, "blocked", a) \/ Settle(p, "ambiguous", a)
    BY <1>4, <2>4 DEF Recover, Mutated, Caught, Observe
  <2> QED
    BY <1>1, <2>2, <2>3, <2>5
<1>5. ASSUME NEW p \in Procs,
             \/ Open(p) \/ NameOwner(p) \/ LockTimeout(p) \/ Refused(p) \/ Told(p) \/ Release(p)
             \/ ReadJournal(p) \/ Throws(p) \/ Die(p) \/ Restart(p) \/ Land(p) \/ Fizzle(p)
      PROVE UNCHANGED disk
  BY <1>5 DEF Open, NameOwner, LockTimeout, Refused, Told, Release, ReadJournal, Throws, Die,
              Restart, Land, Fizzle
<1>6. CASE Drift \/ ManualRemoval
  BY <1>1, <1>6 DEF Drift, ManualRemoval
<1>7. CASE UNCHANGED vars
  BY <1>1, <1>7 DEF vars
<1> QED
  BY <1>1, <1>2, <1>3, <1>4, <1>5, <1>6, <1>7 DEF Next

(* The strengthened invariant holds throughout.                            *)
THEOREM Inductive == Spec => []IInv
<1>1. IInv /\ [Next]_vars => IInv'
  <2>1. CASE Next
    BY <2>1, StepKeepsTypes, StepKeepsLock, StepKeepsSound DEF IInv
  <2>2. CASE UNCHANGED vars
    BY <2>2 DEF vars, IInv, TypeOK, HolderOwnsLock, Sound, AtMostOnce, EffectIsJournaled,
                DiskSound, AnswerIsRecorded, CallSound
  <2> QED
    BY <2>1, <2>2
<1> QED
  BY <1>1, InitSound, PTL DEF Spec

(* The records, the lock file and the journal keep their types.            *)
THEOREM TypeCorrect == Spec => []TypeOK
BY Inductive, PTL DEF IInv

(* One process at a time is past the lock.                                 *)
THEOREM LockExclusion == Spec => []OneHolder
<1>1. IInv => OneHolder
  BY DEF IInv, HolderOwnsLock, OneHolder
<1> QED
  BY <1>1, Inductive, PTL

(* The effect is put in place at most once, whatever dies or throws.       *)
THEOREM AppliedAtMostOnce == Spec => []AtMostOnce
<1>1. IInv => AtMostOnce
  BY DEF IInv, Sound
<1> QED
  BY <1>1, Inductive, PTL

(* An effect in place or under way is always in the journal.               *)
THEOREM Journaled == Spec => []EffectIsJournaled
<1>1. IInv => EffectIsJournaled
  BY DEF IInv, Sound
<1> QED
  BY <1>1, Inductive, PTL

(* "verified" is only answered when the journal says so.                   *)
THEOREM AnswersAreRecorded == Spec => []AnswerIsRecorded
<1>1. IInv => AnswerIsRecorded
  BY DEF IInv, Sound
<1> QED
  BY <1>1, Inductive, PTL

(* No receipt is ever lost.                                                *)
THEOREM NoReceiptLost == Spec => ReceiptsKept
<1>1. IInv /\ [Next]_vars => [Kept]_vars
  BY StepKeepsReceipts
<1>2. Spec => [][Kept]_vars
  BY <1>1, Inductive, PTL DEF Spec
<1> QED
  BY <1>2 DEF ReceiptsKept, Kept

-----------------------------------------------------------------------------
(* The journal implements OutwardEffect.  An attempt may write what the    *)
(* call has in memory, because nothing else has been put on record since   *)
(* the call read it.                                                       *)
BeginSound == \A p \in Procs : pc[p] = "begin" => Retired(mem[p]) = Recorded

(* What becomes of the record when a call changes the journal.             *)
LEMMA RetiredOf ==
    ASSUME NEW j \in Journal
    PROVE  /\ Retired(Attempting(j)) = Retired(j)
           /\ \A s \in Attempts, a \in Attempts \cup {None} : Retired(Ended(j, s, a)) = Retired(j)
           /\ Retired(Withdrawn(j)) = Retired(j)
           /\ \A r \in Receipts :
                  /\ Retired(Refreshed(j, r)) = Retired(j) \cup {r}
                  /\ j.receipt = None => Retired(Proved(j, r)) = Retired(j) \cup {r}
<1>1. Retired(Attempting(j)) = Retired(j)
  BY AttemptingJournal DEF Retired
<1>2. ASSUME NEW s \in Attempts, NEW a \in Attempts \cup {None}
      PROVE  Retired(Ended(j, s, a)) = Retired(j)
  BY EndedJournal DEF Retired
<1>3. Retired(Withdrawn(j)) = Retired(j)
  BY WithdrawnJournal DEF Retired
<1>4. ASSUME NEW r \in Receipts
      PROVE  /\ Retired(Refreshed(j, r)) = Retired(j) \cup {r}
             /\ j.receipt = None => Retired(Proved(j, r)) = Retired(j) \cup {r}
  BY RefreshedJournal, ProvedJournal, NoneIsFresh DEF Retired
<1> QED
  BY <1>1, <1>2, <1>3, <1>4

(* A step that changes the journal records nothing but the target, and an  *)
(* attempt that it starts finds nothing in place or under way.             *)
LEMMA JournalStep ==
    ASSUME IInv, BeginSound, NEW p \in Procs,
           Replay(p) \/ Recover(p) \/ Caught(p) \/ Observe(p) \/ Begin(p) \/ Mutated(p)
    PROVE  /\ \/ Recorded' = Recorded
              \/ target # None /\ Recorded' = Recorded \cup {target} /\ live' = live
           /\ target' = target
           /\ pc'[p] = "begin" => Retired(mem'[p]) = Recorded'
           /\ \A q \in Procs \ {p} : pc'[q] = pc[q] /\ mem'[q] = mem[q]
<1> TypeOK /\ Sound
  BY DEF IInv
<1>1. mem[p] \in Journal /\ target \in Receipts \cup {None}
  BY DEF TypeOK
<1>2. mem[p].attempt \in Attempts \cup {None} /\ {"blocked", "ambiguous"} \subseteq Attempts
  BY <1>1 DEF Journal, Attempts
<1>3. target' = target
  BY DEF Replay, Recover, Caught, Observe, Begin, Mutated
<1>4. \A q \in Procs \ {p} : pc'[q] = pc[q] /\ mem'[q] = mem[q]
  BY DEF Replay, Recover, Caught, Observe, Begin, Mutated, Finish, Settle, Return, Goto, TypeOK
<1>5. pc[p] # "begin" => disk # None /\ disk = mem[p] /\ Recorded = Retired(mem[p])
  BY DEF Replay, Recover, Caught, Observe, Begin, Mutated, Sound, CallSound, Recorded
<1>6. pc[p] \notin {"begin", "replay"} => mem[p].receipt = None
  BY <1>5 DEF Replay, Recover, Caught, Observe, Begin, Mutated, Sound, CallSound, DiskSound
<1>7. ASSUME Verified, Finish(p), live' = live, pc[p] \notin {"begin", "replay"}
      PROVE  /\ target # None /\ Recorded' = Recorded \cup {target} /\ live' = live
             /\ pc'[p] # "begin"
  <2>1. target \in Receipts /\ disk' = Proved(mem[p], target) /\ pc'[p] = "release"
    BY <1>1, <1>7 DEF Verified, Finish, Return, Goto, TypeOK
  <2>2. disk' # None /\ Recorded' = Retired(disk')
    BY <1>1, <2>1, ProvedJournal, NoneIsFresh DEF Recorded
  <2> QED
    BY <1>1, <1>5, <1>6, <1>7, <2>1, <2>2, RetiredOf DEF Verified
<1>8. ASSUME NEW a \in Attempts \cup {None}, NEW s \in Attempts, Settle(p, s, a), pc[p] # "begin"
      PROVE  Recorded' = Recorded /\ pc'[p] # "begin"
  <2>1. disk' = Ended(mem[p], s, a) /\ pc'[p] = "release"
    BY <1>8 DEF Settle, Return, Goto, TypeOK
  <2>2. disk' # None
    BY <1>1, <1>8, <2>1, EndedJournal, NoneIsFresh
  <2> QED
    BY <1>1, <1>5, <1>8, <2>1, <2>2, RetiredOf DEF Recorded
<1>9. ASSUME UNCHANGED disk PROVE Recorded' = Recorded
  BY <1>9 DEF Recorded, Retired
<1>10. CASE Replay(p)
  <2>1. pc[p] = "replay" /\ live' = live
    BY <1>10 DEF Replay
  <2>2. CASE /\ Verified
             /\ disk' = IF target = mem[p].receipt THEN disk ELSE Refreshed(mem[p], target)
             /\ Return(p, "verified")
    <3>1. pc'[p] # "begin" /\ target \in Receipts
      BY <1>1, <2>2 DEF Return, Goto, TypeOK, Verified
    <3>2. CASE target = mem[p].receipt
      BY <1>3, <1>4, <1>9, <2>2, <3>1, <3>2
    <3>3. CASE target # mem[p].receipt
      <4>1. disk' = Refreshed(mem[p], target) /\ disk' # None
        BY <1>1, <2>2, <3>1, <3>3, RefreshedJournal, NoneIsFresh
      <4>2. Recorded' = Recorded \cup {target}
        BY <1>1, <1>5, <2>1, <3>1, <4>1, RetiredOf DEF Recorded
      <4> QED
        BY <1>3, <1>4, <2>1, <2>2, <3>1, <4>2 DEF Verified
    <3> QED
      BY <1>3, <1>4, <3>1, <3>2, <3>3
  <2>3. CASE mem' = [mem EXCEPT ![p] = Withdrawn(mem[p])] /\ UNCHANGED disk
    <3>1. mem'[p] = Withdrawn(mem[p])
      BY <2>3 DEF TypeOK
    <3> QED
      BY <1>1, <1>3, <1>4, <1>5, <1>9, <2>1, <2>3, <3>1, RetiredOf
  <2>4. CASE Return(p, "ambiguous") /\ UNCHANGED <<disk, mem>>
    <3>1. pc'[p] # "begin"
      BY <2>4 DEF Return, Goto, TypeOK
    <3> QED
      BY <1>3, <1>4, <1>9, <2>4, <3>1
  <2> QED
    BY <1>10, <2>2, <2>3, <2>4 DEF Replay
<1>11. CASE Recover(p) \/ Caught(p) \/ Observe(p)
  <2>1. pc[p] \notin {"begin", "replay"} /\ live' = live /\ mem' = mem
    BY <1>11 DEF Recover, Caught, Observe
  <2>2. CASE Verified /\ Finish(p)
    BY <1>3, <1>4, <1>7, <2>1, <2>2
  <2>3. CASE \E a \in Attempts \cup {None} : Settle(p, "blocked", a) \/ Settle(p, "ambiguous", a)
    BY <1>2, <1>3, <1>4, <1>8, <2>1, <2>3
  <2>4. CASE UNCHANGED disk
    BY <1>3, <1>4, <1>5, <1>9, <2>1, <2>4
  <2> QED
    BY <1>2, <1>11, <2>2, <2>3, <2>4 DEF Recover, Caught, Observe
<1>12. CASE Begin(p)
  <2>1. /\ disk' = Attempting(mem[p]) /\ pc[p] = "begin" /\ pc'[p] = "mutating"
    BY <1>12 DEF Begin, Goto, TypeOK
  <2>2. disk' # None
    BY <1>1, <2>1, AttemptingJournal, NoneIsFresh
  <2>3. Recorded' = Recorded
    BY <1>1, <2>1, <2>2, RetiredOf DEF Recorded, BeginSound
  <2> QED
    BY <1>3, <1>4, <2>1, <2>3
<1>13. CASE Mutated(p)
  <2>1. pc[p] # "begin" /\ mem' = mem
    BY <1>13 DEF Mutated
  <2>2. CASE Settle(p, "blocked", "blocked") \/ Settle(p, "ambiguous", "ambiguous")
    BY <1>2, <1>3, <1>4, <1>8, <2>1, <2>2
  <2>3. CASE (Goto(p, "observe") \/ Goto(p, "caught")) /\ UNCHANGED disk
    <3>1. pc'[p] # "begin"
      BY <2>3 DEF Goto, TypeOK
    <3> QED
      BY <1>3, <1>4, <1>9, <2>3, <3>1
  <2> QED
    BY <1>13, <2>2, <2>3 DEF Mutated
<1> QED
  BY <1>10, <1>11, <1>12, <1>13

(* The other steps leave the journal alone; only a call that found no      *)
(* journal or a planned one begins without having observed the target.     *)
LEMMA OtherStep ==
    ASSUME IInv, BeginSound, NEW p \in Procs,
           \/ Open(p) \/ NameOwner(p) \/ LockTimeout(p) \/ Refused(p) \/ Told(p) \/ Release(p)
           \/ ReadJournal(p) \/ Throws(p) \/ Die(p) \/ Restart(p) \/ Land(p) \/ Fizzle(p)
    PROVE  /\ disk' = disk
           /\ \A q \in Procs : pc'[q] = "begin" =>
                  \/ pc[q] = "begin" /\ mem'[q] = mem[q]
                  \/ Retired(mem'[q]) = Recorded
<1> TypeOK /\ Sound
  BY DEF IInv
<1>1. CASE ReadJournal(p)
  <2>1. PICK j : /\ j = IF disk = None THEN NewJournal ELSE disk
                 /\ mem' = [mem EXCEPT ![p] = j] /\ pc' = [pc EXCEPT ![p] = Route(j.state)]
    BY <1>1 DEF ReadJournal, Goto
  <2>2. /\ mem'[p] = j /\ pc'[p] = Route(j.state)
        /\ \A q \in Procs \ {p} : pc'[q] = pc[q] /\ mem'[q] = mem[q]
    BY <2>1 DEF TypeOK
  <2>3. ASSUME pc'[p] = "begin" PROVE Retired(mem'[p]) = Recorded
    <3>1. CASE disk # None
      BY <2>1, <2>2, <3>1 DEF Recorded
    <3>2. CASE disk = None
      BY <2>1, <2>2, <3>2 DEF Recorded, Retired, NewJournal
    <3> QED
      BY <3>1, <3>2
  <2> QED
    BY <1>1, <2>2, <2>3 DEF ReadJournal
<1>2. CASE \/ Open(p) \/ NameOwner(p) \/ LockTimeout(p) \/ Refused(p) \/ Throws(p) \/ Restart(p)
           \/ Land(p) \/ Fizzle(p)
  BY <1>2 DEF Open, NameOwner, LockTimeout, Refused, Throws, Restart, Land, Fizzle, Return, Goto,
              TypeOK
<1>3. CASE Told(p) \/ Release(p) \/ Die(p)
  BY <1>3 DEF Told, Release, Die, Leave, Goto, TypeOK
<1> QED
  BY <1>1, <1>2, <1>3

LEMMA StepKeepsBegin == IInv /\ BeginSound /\ [Next]_vars => BeginSound'
<1> SUFFICES ASSUME IInv, BeginSound, [Next]_vars PROVE BeginSound'
  OBVIOUS
<1> TypeOK /\ HolderOwnsLock
  BY DEF IInv
<1>1. ASSUME UNCHANGED disk PROVE Recorded' = Recorded
  BY <1>1 DEF Recorded, Retired
<1>2. ASSUME NEW p \in Procs,
             Replay(p) \/ Recover(p) \/ Caught(p) \/ Observe(p) \/ Begin(p) \/ Mutated(p)
      PROVE  BeginSound'
  <2>1. pc[p] \in Held
    BY <1>2 DEF Replay, Recover, Caught, Observe, Begin, Mutated, Held
  <2>2. \A q \in Procs \ {p} : pc[q] # "begin"
    BY <2>1 DEF HolderOwnsLock, Held
  <2>3. /\ pc'[p] = "begin" => Retired(mem'[p]) = Recorded'
        /\ \A q \in Procs \ {p} : pc'[q] = pc[q]
    BY <1>2, JournalStep
  <2> QED
    BY <2>2, <2>3 DEF BeginSound, Retired
<1>3. ASSUME NEW p \in Procs,
             \/ Open(p) \/ NameOwner(p) \/ LockTimeout(p) \/ Refused(p) \/ Told(p) \/ Release(p)
             \/ ReadJournal(p) \/ Throws(p) \/ Die(p) \/ Restart(p) \/ Land(p) \/ Fizzle(p)
      PROVE  BeginSound'
  <2>1. /\ disk' = disk
        /\ \A q \in Procs : pc'[q] = "begin" => Retired(mem'[q]) = Recorded
    BY <1>3, OtherStep DEF BeginSound
  <2> QED
    BY <1>1, <2>1 DEF BeginSound, Retired
<1>4. CASE Drift \/ ManualRemoval \/ UNCHANGED vars
  BY <1>1, <1>4 DEF Drift, ManualRemoval, vars, BeginSound, Retired
<1> QED
  BY <1>2, <1>3, <1>4 DEF Next

(* Every step is one of OutwardEffect's, or nothing to it.                 *)
LEMMA StepRefines == IInv /\ BeginSound /\ [Next]_vars => [Effect!Next]_(Effect!effectVars)
<1> SUFFICES ASSUME IInv, BeginSound, [Next]_vars
             PROVE  Effect!Next \/ UNCHANGED <<target, live # {}, Recorded>>
  BY DEF Effect!effectVars
<1> TypeOK /\ Sound
  BY DEF IInv
<1>1. ASSUME UNCHANGED disk PROVE Recorded' = Recorded
  BY <1>1 DEF Recorded, Retired
<1>2. ASSUME live' \subseteq live, UNCHANGED <<target, Recorded>>
      PROVE  Effect!Next \/ UNCHANGED <<target, live # {}, Recorded>>
  <2>1. CASE live = {} \/ live' # {}
    BY <1>2, <2>1
  <2>2. CASE live # {} /\ live' = {}
    BY <1>2, <2>2 DEF Effect!Next, Effect!Fail
  <2> QED
    BY <2>1, <2>2
<1>3. ASSUME NEW p \in Procs, Begin(p) PROVE Effect!Next
  <2>1. /\ target = None /\ live = {} /\ live' # {} /\ target' = target
    BY <1>3 DEF Begin, Sound, CallSound
  <2>2. Recorded' = Recorded
    BY <1>3, <2>1, JournalStep DEF Begin
  <2> QED
    BY <2>1, <2>2 DEF Effect!Next, Effect!Attempt
<1>4. ASSUME NEW p \in Procs, Replay(p) \/ Recover(p) \/ Caught(p) \/ Observe(p) \/ Mutated(p)
      PROVE  Effect!Next \/ UNCHANGED <<target, live # {}, Recorded>>
  <2>1. live' \subseteq live /\ target' = target
    BY <1>4 DEF Replay, Recover, Caught, Observe, Mutated
  <2>2. CASE Recorded' = Recorded
    BY <1>2, <2>1, <2>2
  <2>3. CASE target # None /\ Recorded' = Recorded \cup {target} /\ live' = live
    BY <2>1, <2>3 DEF Effect!Next, Effect!Record
  <2> QED
    BY <1>4, <2>2, <2>3, JournalStep
<1>5. ASSUME NEW p \in Procs, Land(p) PROVE Effect!Next
  <2>1. live # {} /\ live' = {} /\ target' \in Receipts
    BY <1>5 DEF Land, Sound, AtMostOnce, TypeOK
  <2>2. Recorded' = Recorded
    BY <1>1, <1>5 DEF Land
  <2> QED
    BY <2>1, <2>2 DEF Effect!Next, Effect!Land
<1>6. ASSUME NEW p \in Procs,
             \/ Open(p) \/ NameOwner(p) \/ LockTimeout(p) \/ Refused(p) \/ Told(p) \/ Release(p)
             \/ ReadJournal(p) \/ Throws(p) \/ Die(p) \/ Restart(p) \/ Fizzle(p)
      PROVE  Effect!Next \/ UNCHANGED <<target, live # {}, Recorded>>
  <2>1. live' \subseteq live /\ target' = target
    BY <1>6 DEF Open, NameOwner, LockTimeout, Refused, Told, Release, ReadJournal, Throws, Die,
                Restart, Fizzle
  <2>2. Recorded' = Recorded
    BY <1>1, <1>6, OtherStep
  <2> QED
    BY <1>2, <2>1, <2>2
<1>7. CASE Drift
  <2>1. target # None /\ target' \in Receipts \cup {None} /\ live' = live /\ Recorded' = Recorded
    BY <1>1, <1>7 DEF Drift
  <2> QED
    BY <2>1 DEF Effect!Next, Effect!Drift
<1>8. CASE ManualRemoval \/ UNCHANGED vars
  BY <1>1, <1>8 DEF ManualRemoval, vars
<1> QED
  BY <1>3, <1>4, <1>5, <1>6, <1>7, <1>8 DEF Next

(* The journal, the lock and any number of processes that die, are cut off *)
(* or throw implement one outward effect (runOperationalEffect).           *)
THEOREM Refinement == Spec => EffectSpec
<1>1. Init => Effect!Init /\ BeginSound
  BY DEF Init, Effect!Init, Recorded, BeginSound
<1> QED
  BY <1>1, StepKeepsBegin, StepRefines, Inductive, PTL DEF Spec, EffectSpec, Effect!Spec
=============================================================================
