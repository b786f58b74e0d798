------------------------------- MODULE KbSync -------------------------------
(***************************************************************************)
(* scripts/kb-sync-git.js: clones of the knowledge base on several         *)
(* machines, edited at any time, each synchronized with one branch of a    *)
(* remote by the commands pull, push and sync.  A command is an effect of  *)
(* the journal of EffectJournal.tla: this module gives its observe and     *)
(* mutate, and how git runs inside them, step by step, with network        *)
(* failures, time-outs and processes that die.                             *)
(*                                                                         *)
(* An edit is the change somebody makes to one file of a clone.  A commit  *)
(* is the set of its changes, a branch the sequence of its commits.  Of    *)
(* git the module assumes that two edits of a file made apart conflict,    *)
(* that a push is refused unless it is a fast forward, and that --abort    *)
(* puts back what --autostash took away.                                   *)
(***************************************************************************)
EXTENDS Naturals, SequencesExt

CONSTANTS
    Clones,
    Edits,      \* bound: the edits that may be made, by clone and file
    Used(_),    \* bound: the commands used in a clone
    None

Markers == [by |-> None, file |-> None]  \* what git leaves in a file with a conflict

ASSUME EditsAreOfClones == Markers \notin Edits /\ \A e \in Edits : e.by \in Clones

VARIABLES
    remote,     \* the branch at the remote
    clone,      \* per clone, its git state
    call,       \* per clone, the command under way
    journal     \* per clone and mode, the journal of the effect

syncVars == <<remote, clone, call, journal>>

Modes == {"pull", "push", "sync"}

(* localGitState is what a clone looks like, but for upstream.             *)
Surface(c) == <<c.head, c.index, c.work, c.unmerged, c.rebasing>>
Clean(c) == c.work = {} /\ c.index = {} /\ ~c.unmerged

InBranch(b) == UNION Range(b)
Files(changes) == {e.file : e \in changes \ {Markers}}

(* The commits that are not in other, and those of a that follow the last  *)
(* common one.                                                             *)
Shared(a, b) ==
    CHOOSE n \in 0 .. Len(a) :
        /\ n <= Len(b) /\ SubSeq(a, 1, n) = SubSeq(b, 1, n)
        /\ n < Len(a) /\ n < Len(b) => a[n + 1] # b[n + 1]
Beyond(a, b) == SubSeq(a, Shared(a, b) + 1, Len(a))

Idle == [at |-> "idle", mode |-> None, before |-> None]

SyncInit ==
    /\ remote = <<>>
    /\ clone = [m \in Clones |->
                   [head |-> <<>>, tracked |-> <<>>, index |-> {}, work |-> {}, stash |-> {},
                    unmerged |-> FALSE, rebasing |-> FALSE]]
    /\ call = [m \in Clones |-> Idle]
    /\ journal = [m \in Clones |-> [mode \in Modes |-> [state |-> "planned", before |-> None]]]

At(m, point) == call[m].at = point
Goto(m, point) == call' = [call EXCEPT ![m].at = point]
Becomes(m, c) == clone' = [clone EXCEPT ![m] = c]

(* The command is over; its journal keeps the precondition of an attempt   *)
(* as long as the attempt may have to be recovered, and a verified outcome *)
(* that cannot be observed again stays verified.                           *)
Answer(m, state) ==
    /\ call' = [call EXCEPT ![m] = Idle]
    /\ journal' = [journal EXCEPT ![m][call[m].mode] =
                      IF state = "verified" THEN [state |-> state, before |-> None]
                      ELSE IF @.state = "verified" THEN @
                      ELSE [@ EXCEPT !.state = state]]

-----------------------------------------------------------------------------
(* runSyncEffect.                                                          *)

(* A detached HEAD is another effect, which is blocked and does nothing.   *)
Start(m, mode) ==
    /\ mode \in Used(m)
    /\ At(m, "idle") /\ ~clone[m].rebasing
    /\ call' = [call EXCEPT ![m] =
                   [at |-> IF journal[m][mode].state = "planned" THEN "begin"
                           ELSE IF mode = "push" THEN "recognize"
                           ELSE IF journal[m][mode].state = "verified" THEN "begin"
                           ELSE "refresh",
                    mode |-> mode,
                    before |-> IF mode = "push" THEN None ELSE Surface(clone[m])]]
    /\ UNCHANGED <<remote, clone, journal>>

(* refreshRemoteForRecovery *)
RefreshFailed(m) == At(m, "refresh") /\ Answer(m, "ambiguous") /\ UNCHANGED <<remote, clone>>
Refresh(m) ==
    /\ At(m, "refresh")
    /\ Becomes(m, [clone[m] EXCEPT !.tracked = remote])
    /\ Goto(m, "recognize")
    /\ UNCHANGED <<remote, journal>>

(* Mutant: what is pending is left to the next sync.                       *)
ObservedRefs(m) ==
    IF clone[m].unmerged THEN "ambiguous"
    ELSE IF clone[m].head = clone[m].tracked /\ clone[m].head = remote THEN "verified"
    ELSE "absent"

(* syncObservation: the remote is asked, whatever the tracking ref says.   *)
Aligned(c) == c.head = c.tracked /\ c.head = remote

Observed(m) ==
    LET c == clone[m] IN
    IF c.unmerged THEN "ambiguous"
    ELSE IF Aligned(c) /\ (call[m].mode = "pull" \/ Clean(c)) THEN "verified"
    ELSE "absent"

(* unchangedLocalMutationSurface *)
Unchanged(m) == journal[m][call[m].mode].before = Surface(clone[m])

(* observe, of an earlier attempt.                                         *)
Recognize(m) ==
    /\ At(m, "recognize")
    /\ \/ Observed(m) = "verified" /\ Answer(m, "verified")
       \/ /\ Observed(m) = "absent"
          /\ call[m].mode = "push" \/ Unchanged(m)
          /\ Goto(m, "begin") /\ UNCHANGED journal
       \/ /\ Observed(m) = "ambiguous" \/ (call[m].mode # "push" /\ ~Unchanged(m))
          /\ Observed(m) # "verified"
          /\ Answer(m, "ambiguous")
       \/ Answer(m, "ambiguous")    \* the remote does not answer
    /\ UNCHANGED <<remote, clone>>

Begin(m) ==
    /\ At(m, "begin")
    /\ journal' = [journal EXCEPT ![m][call[m].mode] =
                      [state |-> "attempting", before |-> call[m].before]]
    /\ Goto(m, IF call[m].mode = "push" THEN "add" ELSE "pull")
    /\ UNCHANGED <<remote, clone>>

(* observe, of this attempt; what is absent is blocked.                    *)
Observe(m) ==
    /\ At(m, "observe")
    /\ \/ Answer(m, IF Observed(m) = "absent" THEN "blocked" ELSE Observed(m))
       \/ Answer(m, "ambiguous")
    /\ UNCHANGED <<remote, clone>>

Fails(m) == Answer(m, "ambiguous") /\ UNCHANGED <<remote, clone>>

-----------------------------------------------------------------------------
(* git pull --rebase --autostash, of pull and of pushWithAutoRebase.       *)

Rebasing(c) ==
    [c EXCEPT !.tracked = remote, !.stash = c.work \cup c.index, !.work = {}, !.index = {},
              !.rebasing = TRUE]

MayPull(c) == ~c.unmerged /\ c.index = {}
Pull(m) ==
    /\ At(m, "pull")
    /\ \/ Fails(m)
       \/ /\ MayPull(clone[m])
          /\ Becomes(m, Rebasing(clone[m])) /\ Goto(m, "rebase")
          /\ UNCHANGED <<remote, journal>>

(* The local commits follow those of the upstream, and the stash is taken  *)
(* out; git succeeds also when that leaves a conflict in the files.        *)
Rebased(c) ==
    LET news == InBranch(Beyond(c.tracked, c.head))
        clash == Files(c.stash) \cap Files(news) # {}
    IN [c EXCEPT !.head = c.tracked \o Beyond(c.head, c.tracked), !.rebasing = FALSE,
                 !.unmerged = clash,
                 !.work = IF clash THEN {Markers} ELSE c.stash,
                 !.stash = IF clash THEN c.stash ELSE {}]
RebaseClashes(c) ==
    Files(InBranch(Beyond(c.head, c.tracked))) \cap Files(InBranch(Beyond(c.tracked, c.head))) # {}

(* After a pull the files are looked at; sync goes on to push, a push      *)
(* that was refused tries once more.                                       *)
Rebase(m, next) ==
    /\ ~RebaseClashes(clone[m])
    /\ Becomes(m, Rebased(clone[m]))
    /\ IF next # "resend" /\ Rebased(clone[m]).unmerged
       THEN Answer(m, "ambiguous") ELSE Goto(m, next) /\ UNCHANGED journal
    /\ UNCHANGED remote

(* Mutant: a hard reset to the upstream.                                   *)
Reset(c) == [c EXCEPT !.head = c.tracked, !.rebasing = FALSE, !.work = {}, !.stash = {}]

(* rebase --abort, after a conflict or a time-out.                         *)
Aborted(c) == [c EXCEPT !.rebasing = FALSE, !.work = c.stash, !.stash = {}]

Abort(m) == Becomes(m, Aborted(clone[m])) /\ Answer(m, "ambiguous") /\ UNCHANGED remote

FinishPull(m) ==
    \/ /\ At(m, "rebase")
       /\ Rebase(m, IF call[m].mode = "pull" THEN "observe" ELSE "add") \/ Abort(m) \/ Fails(m)
    \/ At(m, "rebase-rejected") /\ (Rebase(m, "resend") \/ Abort(m) \/ Fails(m))

-----------------------------------------------------------------------------
(* push.                                                                   *)

Added(c) == [c EXCEPT !.index = c.index \cup c.work, !.work = {}]
Committed(c) == [c EXCEPT !.head = Append(c.head, c.index), !.index = {}, !.unmerged = FALSE]

(* Mutant: the files are not looked at.                                    *)
AddAnyway(c) == TRUE

MayAdd(c) == ~c.unmerged

Add(m) ==
    /\ At(m, "add")
    /\ \/ Fails(m)
       \/ /\ MayAdd(clone[m])
          /\ Becomes(m, Added(clone[m])) /\ Goto(m, "commit")
          /\ UNCHANGED <<remote, journal>>

Commit(m) ==
    /\ At(m, "commit")
    /\ \/ Fails(m)
       \/ /\ IF clone[m].index = {} THEN UNCHANGED clone ELSE Becomes(m, Committed(clone[m]))
          /\ Goto(m, "send")
          /\ UNCHANGED <<remote, journal>>

(* pushWithAutoRebase.  An answer of the remote may be lost.               *)
Send(m) ==
    /\ call[m].at \in {"send", "resend"}
    /\ \/ Fails(m)
       \/ /\ IsPrefix(remote, clone[m].head)
          /\ remote' = clone[m].head
          /\ \/ /\ Becomes(m, [clone[m] EXCEPT !.tracked = clone[m].head])
                /\ Goto(m, "observe") /\ UNCHANGED journal
             \/ Answer(m, "ambiguous") /\ UNCHANGED clone
       \/ /\ At(m, "send") /\ ~IsPrefix(remote, clone[m].head) /\ ~clone[m].unmerged
          /\ Becomes(m, Rebasing(clone[m])) /\ Goto(m, "rebase-rejected")
          /\ UNCHANGED <<remote, journal>>

-----------------------------------------------------------------------------
(* The process dies, and what git was doing with it.                       *)
Die(m) ==
    /\ ~At(m, "idle")
    /\ call' = [call EXCEPT ![m] = Idle]
    /\ UNCHANGED <<remote, clone, journal>>

(* People and agents edit files, at any time but while git moves them;     *)
(* stage what they have edited; resolve a conflict and drop the stash;     *)
(* and end a rebase they find in their way.                                *)
Made == UNION {clone[m].work \cup clone[m].index \cup clone[m].stash \cup InBranch(clone[m].head) :
                   m \in Clones} \cup InBranch(remote)
Edit(e) ==
    LET m == e.by IN
    /\ e \notin Made /\ ~clone[m].rebasing /\ ~clone[m].unmerged
    /\ Becomes(m, [clone[m] EXCEPT !.work = @ \cup {e}])
    /\ UNCHANGED <<remote, call, journal>>
Stage(m) ==
    /\ clone[m].work # {} /\ ~clone[m].rebasing /\ ~clone[m].unmerged
    /\ Becomes(m, Added(clone[m]))
    /\ UNCHANGED <<remote, call, journal>>
Resolve(m) ==
    /\ At(m, "idle") /\ clone[m].unmerged
    /\ Becomes(m, [clone[m] EXCEPT !.work = (@ \ {Markers}) \cup clone[m].stash, !.stash = {},
                                   !.unmerged = FALSE])
    /\ UNCHANGED <<remote, call, journal>>
EndRebase(m) ==
    /\ At(m, "idle") /\ clone[m].rebasing
    /\ Becomes(m, Aborted(clone[m]))
    /\ UNCHANGED <<remote, call, journal>>

SyncNext ==
    \/ \E m \in Clones :
           \/ \E mode \in Modes : Start(m, mode)
           \/ RefreshFailed(m) \/ Refresh(m) \/ Recognize(m) \/ Begin(m) \/ Observe(m)
           \/ Pull(m) \/ FinishPull(m) \/ Add(m) \/ Commit(m) \/ Send(m)
           \/ Die(m) \/ Stage(m) \/ Resolve(m) \/ EndRebase(m)
    \/ \E e \in Edits : Edit(e)

SyncSpec == SyncInit /\ [][SyncNext]_syncVars

-----------------------------------------------------------------------------
(* Whatever is edited stays: in the files, the index or the stash of its   *)
(* clone, in a branch, or at the remote; although pulls move files away,   *)
(* clash, time out and are aborted, and processes die in between.          *)
NothingLost == [][(Made \ {Markers}) \subseteq Made']_syncVars

(* tests/kb-sync-git.test.js:1532: an autostash conflict never publishes   *)
(* conflict markers, nor commits them.                                     *)
MarkersStayLocal ==
    /\ Markers \notin InBranch(remote)
    /\ \A m \in Clones : Markers \notin InBranch(clone[m].head)

(* skills/sync/SKILL.md:50: a command that succeeds leaves the branch of   *)
(* the clone at the remote, and a push or a sync all that was edited, with *)
(* nothing in the files, the index or a retained stash.                    *)
VerifiedIsPublished ==
    [][\A m \in Clones, mode \in Modes :
          journal[m][mode].state # "verified" /\ journal'[m][mode].state = "verified" =>
              /\ IsPrefix(clone[m].head, remote)
              /\ mode # "pull" =>
                     clone[m].work \cup clone[m].index \cup clone[m].stash = {}]_syncVars
=============================================================================
