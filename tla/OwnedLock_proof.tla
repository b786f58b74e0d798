---------------------------- MODULE OwnedLock_proof ----------------------------
(***************************************************************************)
(* For any number of processes, of which any may die: a lock has one owner *)
(* and nobody removes that of a live one.  The file of a dead guard stays, *)
(* so that the guards of the dead form a chain that only grows, and every  *)
(* reclaimer that walks it stands on it.  The chain has one end, where at  *)
(* most one live guard is; so one process at a time decides what becomes   *)
(* of an abandoned lock.                                                   *)
(*                                                                         *)
(* All of it holds until a walk strays: it goes on behind a guard that was *)
(* dropped, by a process that ended, between being read and being probed.  *)
(* After that it is not true.                                              *)
(***************************************************************************)
EXTENDS OwnedLock, TLAPS

Points == {"link", "inspect", "publish", "reinspect", "unlink", "drop",
           "critical", "undo"} \cup Walks

Holding == {"reinspect", "unlink", "drop"}
Reclaiming == {"guard", "publish", "reinspect", "unlink"}

LockTypeOK ==
    /\ alive \subseteq Procs
    /\ lock \in Owners \cup {None}
    /\ guard \in [Paths -> Owners \cup {None}]
    /\ pc \in [Procs -> Points]
    /\ at \in [Procs -> Paths]
    /\ seen \in [Procs -> Owners \cup {None}]
    /\ obs \in [Procs -> Tokens \cup {None}]
    /\ late \subseteq Procs
    /\ strayed \in BOOLEAN

Dead == Owners \ alive

(* The paths of guards that may be published, by recoveryGuardState; and   *)
(* where that stops.                                                       *)
Chain == {Base} \cup {d \in Dead : \E x \in Paths : guard[x] = d}
IsEnd(x) == x \in Chain /\ guard[x] \notin Dead

GuardsSound ==
    /\ \A x \in Paths : guard[x] # None => x \in Chain
    /\ \A x, y \in Paths : guard[x] # None /\ guard[x] = guard[y] => x = y
    /\ \A x, y \in Paths : IsEnd(x) /\ IsEnd(y) => x = y
    /\ \A x \in Paths : guard[x] \in alive => pc[guard[x]] \in Holding /\ at[guard[x]] = x
    /\ \A p \in alive : pc[p] \in Holding => guard[at[p]] = p

WalksSound ==
    \A p \in alive :
        /\ pc[p] \in Walks \cup {"publish"} => at[p] \in Chain
        /\ pc[p] \in {"link", "publish"} => seen[p] = None

LockSound ==
    \A p \in alive :
        /\ pc[p] \in {"recheck", "critical", "undo"} => lock = p
        /\ pc[p] \in Reclaiming => obs[p] \in Dead \cup PastTokens
        /\ pc[p] = "unlink" => lock = obs[p]

Sound == LockTypeOK /\ GuardsSound /\ WalksSound /\ LockSound

IInv == LockTypeOK /\ (~strayed => Sound)

-----------------------------------------------------------------------------
LEMMA Apart ==
    /\ None \notin Paths /\ None \notin Owners /\ None \notin PastTokens
    /\ Base \notin Owners /\ Base \in Paths /\ PastTokens \cap Owners = {}
    /\ Procs \subseteq Owners /\ Owners \subseteq Paths /\ Tokens \subseteq Paths
    /\ Gone \in Owners /\ Gone \notin Procs
BY NamesApart DEF Paths, Tokens, Owners

(* At most one live process holds a guard.                                 *)
LEMMA OneHolds ==
    ASSUME Sound, NEW p \in alive, NEW q \in alive, pc[p] \in Holding, pc[q] \in Holding
    PROVE  p = q
<1> USE DEF Sound, LockTypeOK
<1>1. guard[at[p]] = p /\ guard[at[q]] = q /\ at[p] \in Paths /\ at[q] \in Paths
    BY DEF GuardsSound
<1>2. IsEnd(at[p]) /\ IsEnd(at[q])
    BY <1>1, Apart DEF GuardsSound, IsEnd, Dead, Owners
<1> QED
    BY <1>1, <1>2 DEF GuardsSound

LEMMA Initially ==
    Init => Sound
<1> SUFFICES ASSUME Init PROVE Sound
    OBVIOUS
<1> USE DEF Init
<1>1. LockTypeOK
    BY DEF LockTypeOK, Paths, Tokens, Owners, Points, Walks
<1>2. GuardsSound /\ WalksSound /\ LockSound
    BY Apart DEF GuardsSound, WalksSound, LockSound, IsEnd, Chain, Dead, Paths, Owners,
                      Holding, Reclaiming, Walks
<1> QED
    BY <1>1, <1>2 DEF Sound

(* Steps that touch neither guards nor the lock.                           *)
LEMMA LocalKeeps ==
    ASSUME Sound, NEW p \in alive, pc[p] \notin Holding,
           UNCHANGED <<alive, lock, guard>>,
           LockTypeOK',
           \A q \in alive \ {p} : pc'[q] = pc[q] /\ at'[q] = at[q] /\ seen'[q] = seen[q] /\ obs'[q] = obs[q],
           pc'[p] \notin Holding,
           pc'[p] \in Walks \cup {"publish"} => at'[p] \in Chain,
           pc'[p] \in {"link", "publish"} => seen'[p] = None,
           pc'[p] \in {"recheck", "critical", "undo"} => lock = p,
           pc'[p] \in Reclaiming => obs'[p] \in Dead \cup PastTokens
    PROVE  Sound'
<1>1. Chain' = Chain /\ Dead' = Dead /\ \A x : IsEnd(x)' <=> IsEnd(x)
    BY DEF Chain, Dead, IsEnd
<1>2. GuardsSound'
    BY <1>1 DEF Sound, GuardsSound
<1>3. WalksSound'
    BY <1>1 DEF Sound, WalksSound
<1>4. LockSound'
    BY <1>1 DEF Sound, LockSound, Holding
<1> QED
    BY <1>2, <1>3, <1>4 DEF Sound

(* The lock is published where there is none.                              *)
LEMMA LinkKeeps ==
    ASSUME Sound, LockTypeOK', NEW p \in Procs, Link(p)
    PROVE  Sound'
<1> USE DEF Link, At, WalkFrom, Goto
<1>1. p \in alive /\ seen[p] = None
    BY DEF Sound, LockTypeOK, WalksSound, Points, Walks, Paths, Owners
<1>2. CASE lock = None
    <2>1. /\ lock' = p /\ UNCHANGED <<alive, guard, seen, obs>>
          /\ pc' = [pc EXCEPT ![p] = "recheck"] /\ at' = [at EXCEPT ![p] = Base]
        BY <1>2
    <2>2. Chain' = Chain /\ Dead' = Dead /\ \A x : IsEnd(x)' <=> IsEnd(x)
        BY <2>1 DEF Chain, Dead, IsEnd
    <2> USE DEF Sound, LockTypeOK
    <2>3. GuardsSound'
        BY <1>1, <2>1, <2>2 DEF GuardsSound, Holding
    <2>4. WalksSound'
        BY <1>1, <2>1, <2>2, Apart DEF WalksSound, Walks, Chain, Dead, Owners
    <2>5. LockSound'
        BY <1>1, <1>2, <2>1, <2>2, Apart DEF LockSound, Reclaiming, Dead, Owners
    <2> QED
        BY <1>1, <2>3, <2>4, <2>5
<1>3. CASE lock # None
    BY <1>1, <1>3, LocalKeeps DEF Sound, LockTypeOK, Walks, Holding, Reclaiming
<1> QED
    BY <1>2, <1>3

(* A process removes its own lock; nobody was to unlink that.              *)
LEMMA UnlockKeeps ==
    ASSUME Sound, LockTypeOK', NEW p \in Procs, Unlock(p, "undo") \/ Unlock(p, "critical")
    PROVE  Sound'
<1> USE DEF Sound, LockTypeOK
<1>1. /\ p \in alive /\ lock = p /\ lock' = None /\ pc[p] \in {"undo", "critical"}
      /\ UNCHANGED <<alive, guard>>
      /\ pc' = [pc EXCEPT ![p] = "check"] /\ at' = [at EXCEPT ![p] = Base]
      /\ seen' = [seen EXCEPT ![p] = None] /\ obs' = [obs EXCEPT ![p] = None]
    BY DEF Unlock, At, Leave, WalkFrom, Goto, LockSound
<1>2. Chain' = Chain /\ Dead' = Dead /\ \A x : IsEnd(x)' <=> IsEnd(x)
    BY <1>1 DEF Chain, Dead, IsEnd
<1>3. GuardsSound'
    BY <1>1, <1>2 DEF GuardsSound, Holding
<1>4. WalksSound'
    BY <1>1, <1>2 DEF WalksSound, Walks, Chain
<1>5. LockSound'
    BY <1>1, <1>2, Apart DEF LockSound, Reclaiming, Dead
<1> QED
    BY <1>3, <1>4, <1>5

-----------------------------------------------------------------------------
LEMMA WalkVacantKeeps ==
    ASSUME Sound, LockTypeOK', NEW p \in Procs, WalkVacant(p)
    PROVE  Sound'
<1> USE DEF Sound, LockTypeOK
<1> DEFINE next == CASE pc[p] = "check" -> "link"
                     [] pc[p] = "recheck" -> "critical"
                     [] pc[p] = "guard" -> "publish"
<1>1. /\ p \in alive /\ pc[p] \in Walks /\ seen[p] = None
      /\ pc' = [pc EXCEPT ![p] = next] /\ UNCHANGED <<alive, lock, guard, at, seen, obs>>
    BY DEF WalkVacant, Goto
<1>2. /\ next \in {"link", "critical", "publish"}
      /\ next = "critical" => pc[p] = "recheck"
      /\ next = "publish" => pc[p] = "guard"
    BY <1>1 DEF Walks
<1> HIDE DEF next
<1>3. at[p] \in Chain /\ (pc[p] = "recheck" => lock = p) /\ (pc[p] = "guard" => obs[p] \in Dead \cup PastTokens)
    BY <1>1 DEF WalksSound, LockSound, Reclaiming
<1> QED
    BY <1>1, <1>2, <1>3, LocalKeeps DEF Walks, Holding, Reclaiming

LEMMA ReadsKeep ==
    ASSUME Sound, LockTypeOK', NEW p \in Procs, WalkReads(p) \/ InspectReads(p)
    PROVE  Sound'
<1> USE DEF Sound, LockTypeOK
<1> DEFINE owner == IF pc[p] = "inspect" THEN lock ELSE guard[at[p]]
<1>1. /\ p \in alive /\ pc[p] \in Walks \cup {"inspect"}
      /\ seen' = [seen EXCEPT ![p] = owner] /\ UNCHANGED <<alive, lock, guard, pc, at, obs>>
    BY DEF WalkReads, InspectReads, Read, At, Walks
<1>2. owner \in Owners \cup {None} /\ (pc[p] # "inspect" => owner = guard[at[p]])
    BY <1>1
<1> HIDE DEF owner
<1> QED
    BY <1>1, <1>2, LocalKeeps DEF WalksSound, LockSound, Walks, Holding, Reclaiming

(* From a dead guard the walk goes on to where its successor may be.       *)
LEMMA WalkProbesKeeps ==
    ASSUME Sound, LockTypeOK', ~strayed', NEW p \in Procs, WalkProbes(p)
    PROVE  Sound'
<1> USE DEF Sound, LockTypeOK
<1>1. /\ p \in alive /\ pc[p] \in Walks /\ seen[p] \in Owners
      /\ UNCHANGED <<alive, lock, guard>>
    BY DEF WalkProbes
<1>2. CASE seen[p] \in alive /\ BackOff(p)
    <2>1. CASE pc[p] = "recheck" /\ Goto(p, "undo") /\ UNCHANGED <<at, obs>>
                                /\ seen' = [seen EXCEPT ![p] = None]
        <3>1. lock = p
            BY <1>1, <2>1 DEF LockSound
        <3> QED
            BY <1>1, <2>1, <3>1, LocalKeeps DEF Goto, Walks, Holding, Reclaiming
    <2>2. CASE pc[p] # "recheck" /\ Leave(p)
        BY <1>1, <2>2, LocalKeeps DEF Leave, WalkFrom, Goto, Walks, Holding, Reclaiming, Chain
    <2> QED
        BY <1>2, <2>1, <2>2 DEF BackOff
<1>3. CASE /\ seen[p] \notin alive
           /\ GoOn(p)
    <2>1. /\ at' = [at EXCEPT ![p] = seen[p]] /\ seen' = [seen EXCEPT ![p] = None]
          /\ UNCHANGED <<pc, obs>> /\ guard[at[p]] = seen[p]
        BY <1>3 DEF GoOn, Token
    <2>2. seen[p] \in Dead /\ at[p] \in Paths
        BY <1>1, <1>3 DEF Dead
    <2>3. seen[p] \in Chain
        BY <2>1, <2>2 DEF Chain, Dead
    <2>4. (pc[p] = "recheck" => lock = p) /\ (pc[p] = "guard" => obs[p] \in Dead \cup PastTokens)
        BY <1>1 DEF LockSound, Reclaiming
    <2> QED
        BY <1>1, <1>3, <2>1, <2>3, <2>4, Apart, LocalKeeps
           DEF Walks, Holding, Reclaiming, Dead, Owners
<1> QED
    BY <1>2, <1>3 DEF WalkProbes

-----------------------------------------------------------------------------
LEMMA InspectKeeps ==
    ASSUME Sound, LockTypeOK', NEW p \in Procs, InspectDeclines(p) \/ InspectFinds(p)
    PROVE  Sound'
<1> USE DEF Sound, LockTypeOK
<1>1. /\ p \in alive /\ pc[p] = "inspect" /\ UNCHANGED <<alive, lock, guard>>
    BY DEF InspectDeclines, InspectFinds, At
<1>2. CASE InspectDeclines(p)
    BY <1>1, <1>2, LocalKeeps
       DEF InspectDeclines, Leave, WalkFrom, Goto, Walks, Holding, Reclaiming, Chain
<1>3. CASE InspectFinds(p)
    <2>1. seen[p] \in Dead /\ (Token(p) \in Dead \cup PastTokens \/ p \in late)
        BY <1>1, <1>3 DEF InspectFinds, Dead, Token
    <2>2. p \in late => Token(p) \in PastTokens
        BY <1>1, <1>3 DEF InspectFinds, Token, PastTokens
    <2> QED
        BY <1>1, <1>3, <2>1, <2>2, Apart, LocalKeeps
           DEF InspectFinds, WalkFrom, Goto, Walks, Holding, Reclaiming, Chain, Dead, Owners
<1> QED
    BY <1>2, <1>3

(* A guard is published at the end of the chain, or not at all.            *)
LEMMA PublishKeeps ==
    ASSUME Sound, LockTypeOK', NEW p \in Procs, Publish(p)
    PROVE  Sound'
<1> USE DEF Sound, LockTypeOK
<1>1. /\ p \in alive /\ pc[p] = "publish" /\ seen[p] = None /\ at[p] \in Chain /\ at[p] \in Paths
      /\ obs[p] \in Dead \cup PastTokens /\ UNCHANGED <<alive, lock>>
    BY DEF Publish, At, WalksSound, LockSound, Reclaiming
<1>2. CASE guard[at[p]] = None /\ guard' = [guard EXCEPT ![at[p]] = p] /\ Goto(p, "reinspect")
           /\ UNCHANGED <<at, seen, obs>>
    <2>1. pc' = [pc EXCEPT ![p] = "reinspect"]
        BY <1>2 DEF Goto
    <2>2. Dead' = Dead /\ p \notin Dead /\ None \notin Dead
        BY <1>1, Apart DEF Dead, Owners
    <2>3. Chain' = Chain
        BY <1>1, <1>2, <2>2 DEF Chain
    <2>4. \A x \in Paths : IsEnd(x)' <=> IsEnd(x)
        BY <1>1, <1>2, <2>2, <2>3 DEF IsEnd
    <2>5. \A x \in Paths : guard[x] # p
        BY <1>1 DEF GuardsSound, Holding
    <2>6. GuardsSound'
        <3>1. \A x \in Paths : guard'[x] = IF x = at[p] THEN p ELSE guard[x]
            BY <1>1, <1>2
        <3>2. (\A x \in Paths : guard[x] # None => x \in Chain)'
            BY <1>1, <2>3, <3>1 DEF GuardsSound
        <3>3. (\A x, y \in Paths : guard[x] # None /\ guard[x] = guard[y] => x = y)'
            BY <1>1, <2>5, <3>1 DEF GuardsSound
        <3>4. (\A x, y \in Paths : IsEnd(x) /\ IsEnd(y) => x = y)'
            BY <2>4 DEF GuardsSound
        <3>5. (\A x \in Paths : guard[x] \in alive => pc[guard[x]] \in Holding /\ at[guard[x]] = x)'
            BY <1>1, <1>2, <2>1, <2>5, <3>1 DEF GuardsSound, Holding
        <3>6. (\A q \in alive : pc[q] \in Holding => guard[at[q]] = q)'
            <4> SUFFICES ASSUME NEW q \in alive, pc'[q] \in Holding PROVE guard'[at[q]] = q
                BY <1>1, <1>2
            <4>1. CASE q = p
                BY <1>1, <3>1, <4>1
            <4>2. CASE q # p
                <5>1. guard[at[q]] = q
                    BY <2>1, <4>2 DEF GuardsSound
                <5> QED
                    BY <1>1, <1>2, <3>1, <5>1, Apart DEF Owners
            <4> QED
                BY <4>1, <4>2
        <3> QED
            BY <3>2, <3>3, <3>4, <3>5, <3>6 DEF GuardsSound
    <2>7. WalksSound'
        <3> SUFFICES ASSUME NEW q \in alive
                     PROVE  /\ pc'[q] \in Walks \cup {"publish"} => at[q] \in Chain
                            /\ pc'[q] \in {"link", "publish"} => seen[q] = None
            BY <1>1, <1>2, <2>2, <2>3 DEF WalksSound
        <3> QED
            BY <1>1, <1>2, <2>1, <2>2 DEF WalksSound, Walks
    <2>8. LockSound'
        BY <1>1, <1>2, <2>1, <2>2 DEF LockSound, Reclaiming
    <2> QED
        BY <2>6, <2>7, <2>8
<1>3. CASE WalkFrom(p, "guard") /\ UNCHANGED <<guard, seen, obs>>
    <2> QED
        BY <1>1, <1>3, Apart, LocalKeeps
           DEF WalkFrom, Goto, Walks, Holding, Reclaiming, Chain, Dead, Owners
<1>4. CASE Leave(p) /\ UNCHANGED guard
    <2> QED
        BY <1>1, <1>4, LocalKeeps DEF Leave, WalkFrom, Goto, Walks, Holding, Reclaiming, Chain
<1> QED
    BY <1>2, <1>3, <1>4 DEF Publish

(* Under a guard the lock is looked at again, and stays as it was then.    *)
LEMMA ReinspectKeeps ==
    ASSUME Sound, LockTypeOK', NEW p \in Procs, Reinspect(p)
    PROVE  Sound'
<1> USE DEF Sound, LockTypeOK
<1> DEFINE next == IF lock = obs[p] THEN "unlink" ELSE "drop"
<1>1. /\ p \in alive /\ pc[p] = "reinspect" /\ pc' = [pc EXCEPT ![p] = next]
      /\ UNCHANGED <<alive, lock, guard, at, seen, obs>>
    BY DEF Reinspect, At, Goto
<1>2. next \in {"unlink", "drop"} /\ (next = "unlink" => lock = obs[p])
    OBVIOUS
<1> HIDE DEF next
<1>3. Chain' = Chain /\ Dead' = Dead /\ \A x : IsEnd(x)' <=> IsEnd(x)
    BY <1>1 DEF Chain, Dead, IsEnd
<1>4. GuardsSound'
    BY <1>1, <1>2, <1>3 DEF GuardsSound, Holding
<1>5. WalksSound'
    BY <1>1, <1>2, <1>3 DEF WalksSound, Walks
<1>6. LockSound'
    BY <1>1, <1>2, <1>3 DEF LockSound, Reclaiming
<1> QED
    BY <1>4, <1>5, <1>6

LEMMA UnlinkKeeps ==
    ASSUME Sound, LockTypeOK', NEW p \in Procs, Unlink(p)
    PROVE  Sound'
<1> USE DEF Sound, LockTypeOK
<1>1. /\ p \in alive /\ pc[p] = "unlink" /\ pc' = [pc EXCEPT ![p] = "drop"]
      /\ lock' = None /\ UNCHANGED <<alive, guard, at, seen, obs>>
    BY DEF Unlink, At, Goto
<1>2. lock \in Dead
    BY <1>1, Apart DEF LockSound, Reclaiming
<1>3. \A q \in alive : pc[q] = "unlink" => q = p
    BY <1>1, OneHolds DEF Holding
<1>4. Chain' = Chain /\ Dead' = Dead /\ \A x : IsEnd(x)' <=> IsEnd(x)
    BY <1>1 DEF Chain, Dead, IsEnd
<1>5. GuardsSound'
    BY <1>1, <1>4 DEF GuardsSound, Holding
<1>6. WalksSound'
    BY <1>1, <1>4 DEF WalksSound, Walks
<1>7. LockSound'
    BY <1>1, <1>2, <1>3, <1>4 DEF LockSound, Reclaiming, Dead
<1> QED
    BY <1>5, <1>6, <1>7

LEMMA DropKeeps ==
    ASSUME Sound, LockTypeOK', NEW p \in Procs, Drop(p)
    PROVE  Sound'
<1> USE DEF Sound, LockTypeOK
<1>1. /\ p \in alive /\ pc[p] = "drop" /\ guard[at[p]] = p /\ at[p] \in Paths
      /\ guard' = [guard EXCEPT ![at[p]] = None]
      /\ pc' = [pc EXCEPT ![p] = "check"] /\ at' = [at EXCEPT ![p] = Base]
      /\ seen' = [seen EXCEPT ![p] = None] /\ obs' = [obs EXCEPT ![p] = None]
      /\ UNCHANGED <<alive, lock>>
    BY DEF Drop, At, Leave, WalkFrom, Goto, GuardsSound, Holding
<1>2. Dead' = Dead /\ p \notin Dead /\ None \notin Dead /\ None \notin alive
    BY <1>1, Apart DEF Dead, Owners
<1>3. Chain' = Chain
    BY <1>1, <1>2 DEF Chain
<1>4. \A x \in Paths : guard'[x] = IF x = at[p] THEN None ELSE guard[x]
    BY <1>1
<1>5. GuardsSound'
    <2>1. (\A x \in Paths : guard[x] # None => x \in Chain)'
        BY <1>3, <1>4 DEF GuardsSound
    <2>2. (\A x, y \in Paths : guard[x] # None /\ guard[x] = guard[y] => x = y)'
        BY <1>4 DEF GuardsSound
    <2>3. (\A x, y \in Paths : IsEnd(x) /\ IsEnd(y) => x = y)'
        BY <1>1, <1>2, <1>3, <1>4 DEF GuardsSound, IsEnd
    <2>4. (\A x \in Paths : guard[x] \in alive => pc[guard[x]] \in Holding /\ at[guard[x]] = x)'
        <3> SUFFICES ASSUME NEW x \in Paths, guard'[x] \in alive
                     PROVE  pc'[guard'[x]] \in Holding /\ at'[guard'[x]] = x
            BY <1>1
        <3>1. x # at[p] /\ guard'[x] = guard[x]
            BY <1>2, <1>4
        <3>2. guard[x] # p /\ pc[guard[x]] \in Holding /\ at[guard[x]] = x
            BY <1>1, <3>1 DEF GuardsSound
        <3> QED
            BY <1>1, <3>1, <3>2
    <2>5. (\A q \in alive : pc[q] \in Holding => guard[at[q]] = q)'
        <3> SUFFICES ASSUME NEW q \in alive, pc'[q] \in Holding PROVE guard'[at'[q]] = q
            BY <1>1
        <3>1. q # p /\ pc[q] \in Holding /\ at'[q] = at[q]
            BY <1>1 DEF Holding
        <3>2. guard[at[q]] = q
            BY <3>1 DEF GuardsSound
        <3> QED
            BY <1>1, <1>4, <3>1, <3>2
    <2> QED
        BY <2>1, <2>2, <2>3, <2>4, <2>5 DEF GuardsSound
<1>6. WalksSound'
    <2> SUFFICES ASSUME NEW q \in alive
                 PROVE  /\ pc'[q] \in Walks \cup {"publish"} => at'[q] \in Chain
                        /\ pc'[q] \in {"link", "publish"} => seen'[q] = None
        BY <1>1, <1>2, <1>3 DEF WalksSound
    <2> QED
        BY <1>1, <1>2, <1>4 DEF WalksSound, Walks, Chain
<1>7. LockSound'
    BY <1>1, <1>2 DEF LockSound, Reclaiming
<1> QED
    BY <1>5, <1>6, <1>7

-----------------------------------------------------------------------------
(* The end of the chain moves on when the process whose guard is there     *)
(* ends.                                                                   *)
LEMMA EndsKeeps ==
    ASSUME Sound, LockTypeOK', NEW p \in Procs, Ends(p)
    PROVE  Sound'
<1> USE DEF Sound, LockTypeOK
<1>1. /\ p \in alive /\ alive' = alive \ {p} /\ UNCHANGED <<lock, guard>>
      /\ pc' = [pc EXCEPT ![p] = "check"] /\ at' = [at EXCEPT ![p] = Base]
      /\ seen' = [seen EXCEPT ![p] = None] /\ obs' = [obs EXCEPT ![p] = None]
    BY DEF Ends, Leave, WalkFrom, Goto
<1>2. Dead' = Dead \cup {p} /\ p \notin Dead /\ p \in Owners
    BY <1>1 DEF Dead, Owners
<1>3. Chain \subseteq Chain' /\ Chain' \subseteq Chain \cup {p}
    BY <1>1, <1>2 DEF Chain
<1>4. p \notin Chain /\ guard[p] = None /\ p \in Paths
    BY <1>1, <1>2, Apart DEF Chain, GuardsSound, Paths
<1>5. GuardsSound'
    <2>1. (\A x \in Paths : guard[x] # None => x \in Chain)'
        BY <1>1, <1>3 DEF GuardsSound
    <2>2. (\A x, y \in Paths : guard[x] # None /\ guard[x] = guard[y] => x = y)'
        BY <1>1 DEF GuardsSound
    <2>3. (\A x, y \in Paths : IsEnd(x) /\ IsEnd(y) => x = y)'
        <3>1. ASSUME NEW x \in Paths, IsEnd(x)', x # p PROVE IsEnd(x) /\ guard[x] # p
            BY <1>1, <1>2, <1>3, <3>1 DEF IsEnd
        <3>2. ASSUME NEW x \in Paths, IsEnd(x)', x # p, IsEnd(p)' PROVE FALSE
            <4>1. PICK y \in Paths : guard[y] = p
                BY <1>1, <1>2, <1>4, <3>2 DEF IsEnd, Chain
            <4>2. y \in Chain /\ IsEnd(y)
                BY <1>1, <1>2, <4>1, Apart DEF GuardsSound, IsEnd, Owners
            <4>3. x = y
                BY <3>1, <3>2, <4>2 DEF GuardsSound
            <4> QED
                BY <3>1, <3>2, <4>1, <4>3
        <3>3. ASSUME NEW x \in Paths, NEW y \in Paths, IsEnd(x)', IsEnd(y)' PROVE x = y
            <4>1. CASE x # p /\ y # p
                BY <3>1, <3>3, <4>1 DEF GuardsSound
            <4>2. CASE x = p \/ y = p
                BY <3>2, <3>3, <4>2
            <4> QED
                BY <4>1, <4>2
        <3> QED
            BY <3>3
    <2>4. (\A x \in Paths : guard[x] \in alive => pc[guard[x]] \in Holding /\ at[guard[x]] = x)'
        BY <1>1 DEF GuardsSound
    <2>5. (\A q \in alive : pc[q] \in Holding => guard[at[q]] = q)'
        BY <1>1 DEF GuardsSound, Holding
    <2> QED
        BY <2>1, <2>2, <2>3, <2>4, <2>5 DEF GuardsSound
<1>6. WalksSound'
    <2> SUFFICES ASSUME NEW q \in alive \ {p}
                 PROVE  /\ pc[q] \in Walks \cup {"publish"} => at[q] \in Chain'
                        /\ pc[q] \in {"link", "publish"} => seen[q] = None
        BY <1>1 DEF WalksSound
    <2> QED
        BY <1>2, <1>3 DEF WalksSound
<1>7. LockSound'
    BY <1>1, <1>2 DEF LockSound, Reclaiming
<1> QED
    BY <1>5, <1>6, <1>7

LEMMA StepKeeps ==
    ASSUME Sound, LockTypeOK', ~strayed', [Next]_vars
    PROVE  Sound'
<1>1. ASSUME NEW p \in Procs, Step(p) PROVE Sound'
    BY <1>1, LinkKeeps, UnlockKeeps, WalkVacantKeeps, ReadsKeep, WalkProbesKeeps,
       InspectKeeps, PublishKeeps, ReinspectKeeps, UnlinkKeeps, DropKeeps DEF Step
<1>2. ASSUME NEW p \in Procs, Ends(p) PROVE Sound'
    BY <1>2, EndsKeeps
<1>3. CASE UNCHANGED vars
    BY <1>3 DEF vars, Sound, LockTypeOK, GuardsSound, WalksSound, LockSound, IsEnd, Chain, Dead
<1> QED
    BY <1>1, <1>2, <1>3 DEF Next

-----------------------------------------------------------------------------
(* The types, strayed or not.                                              *)
LEMMA TypeKept ==
    ASSUME LockTypeOK, [Next]_vars
    PROVE  LockTypeOK'
<1> USE DEF LockTypeOK, Goto, WalkFrom, Leave, Done, Replaced, At
<1>1. Base \in Paths /\ Owners \subseteq Tokens /\ Tokens \subseteq Paths /\ Procs \subseteq Owners
    BY DEF Paths, Tokens, Owners
<1>2. \A p \in Procs : seen[p] # None => Token(p) \in Tokens
    BY Apart DEF Token, Tokens, PastTokens, Owners
<1>3. ASSUME NEW p \in Procs, Link(p) PROVE LockTypeOK'
    BY <1>1, <1>3 DEF Link, Points, Walks
<1>4. ASSUME NEW p \in Procs, Unlock(p, "undo") \/ Unlock(p, "critical") PROVE LockTypeOK'
    BY <1>1, <1>4 DEF Unlock, Points, Walks
<1>5. ASSUME NEW p \in Procs, WalkVacant(p) PROVE LockTypeOK'
    BY <1>5 DEF WalkVacant, Points, Walks
<1>6. ASSUME NEW p \in Procs, WalkReads(p) \/ InspectReads(p) PROVE LockTypeOK'
    BY <1>1, <1>6 DEF WalkReads, InspectReads, Read
<1>7. ASSUME NEW p \in Procs, WalkProbes(p) PROVE LockTypeOK'
    <2>1. CASE BackOff(p) /\ Done(p) /\ UNCHANGED strayed
        BY <1>1, <1>7, <2>1 DEF WalkProbes, BackOff, Points, Walks
    <2>2. CASE GoOn(p)
        BY <1>1, <1>2, <1>7, <2>2 DEF WalkProbes, GoOn
    <2> QED
        BY <1>7, <2>1, <2>2 DEF WalkProbes
<1>8. ASSUME NEW p \in Procs, InspectDeclines(p) \/ InspectFinds(p) PROVE LockTypeOK'
    BY <1>1, <1>2, <1>8 DEF InspectDeclines, InspectFinds, Points, Walks
<1>9. ASSUME NEW p \in Procs, Publish(p) PROVE LockTypeOK'
    BY <1>1, <1>9 DEF Publish, Points, Walks
<1>10. ASSUME NEW p \in Procs, Reinspect(p) \/ Unlink(p) \/ Drop(p) PROVE LockTypeOK'
    BY <1>1, <1>10 DEF Reinspect, Unlink, Drop, Points, Walks
<1>11. ASSUME NEW p \in Procs, Ends(p) PROVE LockTypeOK'
    BY <1>1, <1>11 DEF Ends, Points, Walks
<1>12. CASE UNCHANGED vars
    BY <1>12 DEF vars
<1> QED
    BY <1>3, <1>4, <1>5, <1>6, <1>7, <1>8, <1>9, <1>10, <1>11, <1>12 DEF Next, Step

(* A walk that has strayed has strayed for good.                           *)
LEMMA StrayedStays ==
    ASSUME LockTypeOK, [Next]_vars, strayed
    PROVE  strayed'
<1> USE DEF LockTypeOK
<1>1. ASSUME NEW p \in Procs, Step(p) PROVE strayed'
    BY <1>1 DEF Step, Link, Unlock, WalkVacant, WalkReads, WalkProbes, GoOn, InspectReads, Read,
                InspectDeclines, InspectFinds, Publish, Reinspect, Unlink, Drop
<1> QED
    BY <1>1 DEF Next, Ends, vars

(* The invariant holds in every state.                                     *)
THEOREM Invariance == Spec => []IInv
<1>1. Init => IInv
    BY Initially DEF Sound, IInv
<1>2. IInv /\ [Next]_vars => IInv'
    BY TypeKept, StrayedStays, StepKeeps DEF IInv
<1> QED
    BY <1>1, <1>2, PTL DEF Spec

(* Of the live processes one at most is in the critical section, until a   *)
(* walk strays.                                                            *)
THEOREM MutualExclusion == Spec => []OneOwner
<1>1. IInv => OneOwner
    BY DEF IInv, Sound, LockSound, OneOwner
<1> QED
    BY <1>1, Invariance, PTL

(* What is reclaimed is never the lock of a live process, until a walk     *)
(* strays.                                                                 *)
THEOREM LiveLockIsKept == Spec => LiveLockIsSafe
<1>1. ASSUME Sound, [Next]_vars PROVE OwnersLeaveIt
    <2> USE DEF Sound, LockTypeOK, OwnersLeaveIt
    <2>1. ASSUME NEW p \in Procs, Link(p) PROVE OwnersLeaveIt
        BY <1>1, <2>1, Apart DEF Link, Owners, Paths, Tokens
    <2>2. ASSUME NEW p \in Procs, Unlock(p, "undo") \/ Unlock(p, "critical") PROVE OwnersLeaveIt
        BY <1>1, <2>2 DEF Unlock, At, Leave, WalkFrom, Goto
    <2>3. ASSUME NEW p \in Procs, Unlink(p) PROVE OwnersLeaveIt
        BY <1>1, <2>3, Apart DEF Unlink, At, LockSound, Reclaiming, Dead, PastTokens, Owners
    <2>4. ASSUME NEW p \in Procs, Step(p) \/ Ends(p) PROVE OwnersLeaveIt
        BY <2>1, <2>2, <2>3, <2>4
           DEF Step, Ends, WalkVacant, WalkReads, WalkProbes, InspectReads,
               InspectDeclines, InspectFinds, Publish, Reinspect, Drop, Read
    <2> QED
        BY <1>1, <2>4 DEF Next, vars
<1>2. IInv /\ [Next]_vars => [~strayed => OwnersLeaveIt]_vars
    BY <1>1 DEF IInv
<1> QED
    BY <1>2, Invariance, PTL DEF Spec, LiveLockIsSafe
=============================================================================
