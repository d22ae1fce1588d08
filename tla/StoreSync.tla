----------------------------- MODULE StoreSync -----------------------------
(***************************************************************************)
(* The fleet sync of ams-store: the pass of sync.Once, the merge round and *)
(* its materialization, and the deferred queue, for one fact file of one   *)
(* workspace on every PC and one hub.                                      *)
(*                                                                         *)
(* A version of the file is a set of lines in its canonical form (Canon    *)
(* drops line endings and what harvest writes), or Absent.  A commit is a  *)
(* number, 0 being "no commit"; commits[c] holds the version its tree has  *)
(* of the file and the commits reachable from it, itself included.  A pass *)
(* holds the per-PC lock (module PerPcLock), so each PC has at most one at *)
(* a time; the sessions of the PC, the other PCs and a crash come between  *)
(* any two of its steps.                                                   *)
(*                                                                         *)
(* session[p] is what Liveness.Probe and the mtime test of blocked can     *)
(* tell: no transcript was written within the window; one was, after the   *)
(* file's last write; or one was, and the file was written since.          *)
(***************************************************************************)
EXTENDS Naturals, Sequences, FiniteSets

CONSTANTS
    PCs,
    Lines,             \* the lines a fact file may have
    Absent,            \* no such file
    None,              \* no queue entry, no decision
    StartFiles,        \* the files the PCs may have before their first sync
    MaxPushAttempts,
    MaxEdits,          \* bound on the sessions' edits
    MaxCommits,        \* bound on the commits of the fleet
    MaxCrashes         \* bound on crashes

Contents == {Absent} \cup SUBSET Lines

ASSUME SyncAssumption ==
    /\ \A v \in SUBSET Lines : v # Absent
    /\ StartFiles \subseteq [PCs -> Contents]
    /\ MaxPushAttempts \in Nat \ {0}
    /\ MaxEdits \in Nat
    /\ MaxCommits \in Nat
    /\ MaxCrashes \in Nat

(* deferred.json: the merged blob (Absent: a deletion) and the bytes on    *)
(* disk when the change was queued                                         *)
Entries == [want : Contents, ours : Contents]

(* what a step read and decided, and the next step does: write the file or *)
(* leave it, and queue an entry or not                                     *)
Decisions == [write : BOOLEAN, to : Contents, saw : Contents,
              later : BOOLEAN, defer : {None} \cup Entries]

ASSUME NoneAssumption ==
    (\A e \in Entries : e # None) /\ (\A d \in Decisions : d # None)

Sessions == {"none", "live", "touched"}

Steps == {"idle", "drainWrite", "drainSave", "stage", "commit", "fetch",
          "merge", "materialize", "apply", "push"}

VARIABLES
    commits,    \* the commits made by anybody so far
    hub,        \* the hub's branch
    head,       \* head[p]: refs/heads/main of p
    tracking,   \* tracking[p]: refs/remotes/hub/main of p
    index,      \* index[p]: p's index entry of the file
    disk,       \* disk[p]: the file in p's work tree
    queue,      \* queue[p]: p's deferred entry, or None
    session,
    pc,
    attempt,    \* attempt[p]: of the push loop, 0 before it
    prev,       \* prev[p]: the file in the tree the round started from
    todo,       \* todo[p]: the decision taken, or None
    edits, crashes,
    (* observers, read by no action *)
    edited,     \* a session of p wrote the file since p's branch had it
    astray      \* PCs whose work tree fell behind their branch unrecorded

repo    == <<commits, hub, head, tracking>>
locals  == <<attempt, prev, todo>>
bounds  == <<edits, crashes>>
watched == <<edited, astray>>
vars == <<repo, index, disk, queue, session, pc, locals, bounds, watched>>

Tree(c) == IF c = 0 THEN Absent ELSE commits[c].tree
Past(c) == IF c = 0 THEN {} ELSE commits[c].past

Init ==
    /\ commits = <<>>
    /\ hub = 0
    /\ head = [p \in PCs |-> 0]
    /\ tracking = [p \in PCs |-> 0]
    /\ index = [p \in PCs |-> Absent]
    /\ disk \in StartFiles
    /\ queue = [p \in PCs |-> None]
    /\ session = [p \in PCs |-> "none"]
    /\ pc = [p \in PCs |-> "idle"]
    /\ attempt = [p \in PCs |-> 0]
    /\ prev = [p \in PCs |-> Absent]
    /\ todo = [p \in PCs |-> None]
    /\ edits = 0
    /\ crashes = 0
    /\ edited = [p \in PCs |-> disk[p] # Absent]
    /\ astray = {}

Goto(p, l) == pc' = [pc EXCEPT ![p] = l]
EndPass(p) == Goto(p, "idle") /\ attempt' = [attempt EXCEPT ![p] = 0]

(***************************************************************************)
(* The merge of one file.                                                  *)
(***************************************************************************)

\* splitFile of a side that is not there.
Text(v) == IF v = Absent THEN {} ELSE v

\* What git merge-file makes of two sides that changed different lines.
MergeFile(b, o, t) ==
    {l \in Lines : IF (l \in o) = (l \in b) THEN l \in t ELSE l \in o}

\* The outcomes of mergeContent.  Whether two changes overlap depends on
\* where in the file they are: they merge cleanly, or a winner is taken whole.
mergeContent(b, o, t, winners) ==
    IF o = t \/ t = Text(b) THEN {o}
    ELSE IF o = Text(b) THEN {t}
    ELSE {MergeFile(Text(b), o, t)} \cup winners

\* The deletion table; the winner of a conflict is the later commit by the
\* committing PCs' clocks.
resolvePath(b, o, t) ==
    CASE o = Absent /\ t = Absent -> {Absent}
      [] o # Absent /\ t = Absent -> {IF o = b THEN Absent ELSE o}
      [] o = Absent /\ t # Absent -> {IF t = b THEN Absent ELSE t}
      [] OTHER -> mergeContent(b, o, t, {o, t})

isAncestor(c, d) == c \in Past(d)

CommonAncestors(c, d) == Past(c) \cap Past(d)

\* The candidates for a merge base: no other common ancestor descends from
\* them.  git merge-base prints one of them.
MergeBases(c, d) ==
    {b \in CommonAncestors(c, d) :
        \A e \in CommonAncestors(c, d) : isAncestor(b, e) => e = b}

\* A path the hub's history deleted.
DeletedPath(c) == Tree(c) = Absent /\ \E d \in Past(c) : Tree(d) # Absent

\* The merged versions of Round.  With no base everything is an addition,
\* save a local file that the hub's history deleted: it is quarantined.
Merged(o, t) ==
    IF MergeBases(o, t) = {}
    THEN IF DeletedPath(t) THEN {Absent} ELSE resolvePath(Absent, Tree(o), Tree(t))
    ELSE UNION {resolvePath(Tree(b), Tree(o), Tree(t)) : b \in MergeBases(o, t)}

\* A new commit c with tree v on top of the commits ps.
NewCommit == Len(commits) + 1
CommitTree(v, ps) ==
    /\ Len(commits) < MaxCommits
    /\ commits' = Append(commits,
          [tree |-> v, past |-> {NewCommit} \cup UNION {Past(c) : c \in ps}])

(***************************************************************************)
(* The live-session guard.                                                 *)
(***************************************************************************)

blocked(p, v) ==
    IF v = Absent THEN session[p] # "none"
    ELSE disk[p] # Absent /\ session[p] = "touched"

\* The file is written now, after every transcript.
Touch(s) == IF s = "none" THEN "none" ELSE "touched"

WriteFile(p, v) ==
    /\ disk' = [disk EXCEPT ![p] = v]
    /\ session' = [session EXCEPT ![p] = IF v = Absent THEN @ ELSE Touch(@)]

(***************************************************************************)
(* drainDeferred, the first thing a pass does.  ApplyDeferred reads the    *)
(* queue, the transcripts and the file; writes; and saves the queue.       *)
(***************************************************************************)

\* Mutant: the drain is a replay.
untouchedAlways(p) == disk[p] # Absent

\* diskStillHoldsQueuedBytes
untouched(p) == disk[p] # Absent /\ disk[p] = queue[p].ours

\* reconcileLaterEdit: the disk is the later edit and wins a conflict.
reconcileLaterEdit(p) ==
    mergeContent(queue[p].ours, disk[p], queue[p].want, {disk[p]})

Decide(p, w, v, l, e) ==
    todo' = [todo EXCEPT ![p] =
        [write |-> w, to |-> v, saw |-> disk[p], later |-> l, defer |-> e]]

\* Mutant: an entry that is still blocked is dropped.
DrainNothingDrops(p) ==
    /\ pc[p] = "idle"
    /\ queue[p] # None => blocked(p, queue[p].want)
    /\ queue' = [queue EXCEPT ![p] = None]
    /\ Goto(p, "stage")
    /\ UNCHANGED <<repo, index, disk, session, locals, bounds, watched>>

\* Nothing is queued, or a live session still blocks it.
DrainNothing(p) ==
    /\ pc[p] = "idle"
    /\ queue[p] # None => blocked(p, queue[p].want)
    /\ Goto(p, "stage")
    /\ UNCHANGED <<repo, index, disk, queue, session, locals, bounds, watched>>

\* A queued deletion: the file is gone, is removed, or was edited since.
DrainDelete(p) ==
    /\ pc[p] = "idle"
    /\ queue[p] # None
    /\ queue[p].want = Absent
    /\ ~blocked(p, Absent)
    /\ IF untouched(p) THEN Decide(p, TRUE, Absent, FALSE, None)
                       ELSE Decide(p, FALSE, Absent, FALSE, None)
    /\ Goto(p, "drainWrite")
    /\ UNCHANGED <<repo, index, disk, queue, session, attempt, prev, bounds, watched>>

\* A queued replacement lands, or is merged with the session's later edit.
DrainReplace(p) ==
    /\ pc[p] = "idle"
    /\ queue[p] # None
    /\ queue[p].want # Absent
    /\ ~blocked(p, queue[p].want)
    /\ IF untouched(p) \/ disk[p] = Absent
       THEN Decide(p, TRUE, queue[p].want, FALSE, None)
       ELSE \E v \in reconcileLaterEdit(p) : Decide(p, TRUE, v, TRUE, None)
    /\ Goto(p, "drainWrite")
    /\ UNCHANGED <<repo, index, disk, queue, session, attempt, prev, bounds, watched>>

\* The write of the file, or none.  A version that is neither the branch's
\* nor a session's comes from an entry older than the branch.
DrainWrite(p) ==
    /\ pc[p] = "drainWrite"
    /\ IF todo[p].write
       THEN /\ WriteFile(p, todo[p].to)
            /\ edited' = [edited EXCEPT ![p] = @ /\ todo[p].later]
            /\ astray' = IF queue[p].want = Tree(head[p]) THEN astray ELSE astray \cup {p}
       ELSE UNCHANGED <<disk, session, watched>>
    /\ todo' = [todo EXCEPT ![p] = None]
    /\ Goto(p, "drainSave")
    /\ UNCHANGED <<repo, index, queue, attempt, prev, bounds>>

DrainSave(p) ==
    /\ pc[p] = "drainSave"
    /\ queue' = [queue EXCEPT ![p] = None]
    /\ Goto(p, "stage")
    /\ UNCHANGED <<repo, index, disk, session, locals, bounds, watched>>

(***************************************************************************)
(* Derive, stage and commit: before the network, and after a merge.        *)
(***************************************************************************)

\* Derive may rewrite the file (harvest), which moves its mtime only; the
\* blanket add takes what is on disk, a queued path excepted.
Stage(p) ==
    /\ pc[p] = "stage"
    /\ index' = [index EXCEPT ![p] = IF queue[p] = None THEN disk[p] ELSE @]
    /\ \/ disk[p] # Absent /\ session' = [session EXCEPT ![p] = Touch(@)]
       \/ UNCHANGED session
    /\ Goto(p, "commit")
    /\ UNCHANGED <<repo, disk, queue, locals, bounds, watched>>

\* unstageQueued: HEAD's entry for a queued path.
unstageQueued(p) == IF queue[p] = None THEN index[p] ELSE Tree(head[p])

\* The work tree and the branch agree again.
Settled(p, v) == disk[p] = v /\ queue[p] = None

Observe(p, v) ==
    /\ edited' = [edited EXCEPT ![p] = @ /\ ~Settled(p, v)]
    /\ astray' = IF Settled(p, v) THEN astray \ {p} ELSE astray

AfterCommit(p) == IF attempt[p] = 0 THEN "fetch" ELSE "push"

Commit(p) ==
    LET v == unstageQueued(p)
    IN /\ pc[p] = "commit"
       /\ v # Tree(head[p])
       /\ CommitTree(v, {head[p]})
       /\ head' = [head EXCEPT ![p] = NewCommit]
       /\ index' = [index EXCEPT ![p] = v]
       /\ Observe(p, v)
       /\ Goto(p, AfterCommit(p))
       /\ UNCHANGED <<hub, tracking, disk, queue, session, locals, bounds>>

CommitNothing(p) ==
    LET v == unstageQueued(p)
    IN /\ pc[p] = "commit"
       /\ v = Tree(head[p])
       /\ index' = [index EXCEPT ![p] = v]
       /\ Observe(p, v)
       /\ Goto(p, AfterCommit(p))
       /\ UNCHANGED <<repo, disk, queue, session, locals, bounds>>

(***************************************************************************)
(* The bounded fetch, merge and push loop.                                 *)
(***************************************************************************)

Fetch(p) ==
    /\ pc[p] = "fetch"
    /\ tracking' = [tracking EXCEPT ![p] = hub]
    /\ attempt' = [attempt EXCEPT ![p] = @ + 1]
    /\ Goto(p, "merge")
    /\ UNCHANGED <<commits, hub, head, index, disk, queue, session, prev, todo, bounds, watched>>

\* No hub configured, a refused remote, or a network failure.
Offline(p) ==
    /\ pc[p] \in {"fetch", "push"}
    /\ EndPass(p)
    /\ UNCHANGED <<repo, index, disk, queue, session, prev, todo, bounds, watched>>

\* The hub is empty, or its history is contained in ours.
RoundUpToDate(p) ==
    /\ pc[p] = "merge"
    /\ tracking[p] = 0 \/ isAncestor(tracking[p], head[p])
    /\ Goto(p, "push")
    /\ UNCHANGED <<repo, index, disk, queue, session, locals, bounds, watched>>

\* No branch of our own, or one that is behind.
RoundForward(p) ==
    /\ pc[p] = "merge"
    /\ tracking[p] # 0
    /\ ~isAncestor(tracking[p], head[p])
    /\ head[p] = 0 \/ isAncestor(head[p], tracking[p])
    /\ head' = [head EXCEPT ![p] = tracking[p]]
    /\ prev' = [prev EXCEPT ![p] = Tree(head[p])]
    /\ Goto(p, "materialize")
    /\ UNCHANGED <<commits, hub, tracking, index, disk, queue, session, attempt, todo, bounds, watched>>

\* Mutant: the merge commit names our side only.
MergeParentsOurs(p) == {head[p]}

\* Both parents, always.
MergeParents(p) == {head[p], tracking[p]}

RoundMerge(p) ==
    /\ pc[p] = "merge"
    /\ tracking[p] # 0
    /\ head[p] # 0
    /\ ~isAncestor(tracking[p], head[p])
    /\ ~isAncestor(head[p], tracking[p])
    /\ \E v \in Merged(head[p], tracking[p]) : CommitTree(v, MergeParents(p))
    /\ head' = [head EXCEPT ![p] = NewCommit]
    /\ prev' = [prev EXCEPT ![p] = Tree(head[p])]
    /\ Goto(p, "materialize")
    /\ UNCHANGED <<hub, tracking, index, disk, queue, session, attempt, todo, bounds, watched>>

\* read-tree brings the index to the merged tree; the file is compared with
\* it, and a change is applied, or queued for a live session.
Materialize(p) ==
    LET v == Tree(head[p])
        change == IF v = Absent THEN prev[p] # Absent ELSE disk[p] # v
        entry == [want |-> v, ours |-> disk[p]]
    IN /\ pc[p] = "materialize"
       /\ index' = [index EXCEPT ![p] = v]
       /\ IF change /\ ~blocked(p, v)
          THEN Decide(p, TRUE, v, FALSE, None)
          ELSE Decide(p, FALSE, v, FALSE, IF change THEN entry ELSE None)
       /\ prev' = [prev EXCEPT ![p] = Absent]
       /\ Goto(p, "apply")
       /\ UNCHANGED <<repo, disk, queue, session, attempt, bounds, watched>>

\* The file is written or removed, or queueDeferred replaces the entry.
Apply(p) ==
    /\ pc[p] = "apply"
    /\ IF todo[p].write
       THEN /\ WriteFile(p, todo[p].to)
            /\ edited' = [edited EXCEPT ![p] = FALSE]
       ELSE UNCHANGED <<disk, session, edited>>
    /\ queue' = [queue EXCEPT ![p] = IF todo[p].defer = None THEN @ ELSE todo[p].defer]
    /\ todo' = [todo EXCEPT ![p] = None]
    /\ Goto(p, "stage")
    /\ UNCHANGED <<repo, index, attempt, prev, bounds, astray>>

\* Mutant: a forced push.
CanPushForced(p) == head[p] # 0

\* A fast-forward of the hub; git moves the tracking branch with it.
CanPush(p) == head[p] # 0 /\ (hub = 0 \/ isAncestor(hub, head[p]))

Push(p) ==
    /\ pc[p] = "push"
    /\ CanPush(p)
    /\ hub' = head[p]
    /\ tracking' = [tracking EXCEPT ![p] = head[p]]
    /\ EndPass(p)
    /\ UNCHANGED <<commits, head, index, disk, queue, session, prev, todo, bounds, watched>>

\* The hub took the push and its answer was lost, or came after the timeout.
PushUnanswered(p) ==
    /\ pc[p] = "push"
    /\ CanPush(p)
    /\ hub # head[p]
    /\ hub' = head[p]
    /\ EndPass(p)
    /\ UNCHANGED <<commits, head, tracking, index, disk, queue, session, prev, todo, bounds, watched>>

\* Another PC pushed first: merge again, up to MaxPushAttempts times.
PushRejected(p) ==
    /\ pc[p] = "push"
    /\ head[p] # 0
    /\ ~CanPush(p)
    /\ IF attempt[p] < MaxPushAttempts THEN Goto(p, "fetch") /\ UNCHANGED attempt
                                       ELSE EndPass(p)
    /\ UNCHANGED <<repo, index, disk, queue, session, prev, todo, bounds, watched>>

\* No branch of our own to push: git refuses, and the pass ends.
PushRefused(p) ==
    /\ pc[p] = "push"
    /\ head[p] = 0
    /\ EndPass(p)
    /\ UNCHANGED <<repo, index, disk, queue, session, prev, todo, bounds, watched>>

(***************************************************************************)
(* The sessions, and a pass that dies.                                     *)
(***************************************************************************)

\* A session writes or removes the file.
Edit(p, v) ==
    /\ edits < MaxEdits
    /\ v # disk[p]
    /\ WriteFile(p, v)
    /\ edits' = edits + 1
    /\ edited' = [edited EXCEPT ![p] = TRUE]
    /\ UNCHANGED <<repo, index, queue, pc, locals, crashes, astray>>

\* A transcript is written: what the file holds is older than that.
SessionSpeaks(p) ==
    /\ session[p] # "live"
    /\ session' = [session EXCEPT ![p] = "live"]
    /\ UNCHANGED <<repo, index, disk, queue, pc, locals, bounds, watched>>

\* The window passes with no transcript written.  A pass reads the clock
\* once, when it starts, so no session ends for it while it runs.
SessionEnds(p) ==
    /\ session[p] # "none"
    /\ pc[p] = "idle"
    /\ session' = [session EXCEPT ![p] = "none"]
    /\ UNCHANGED <<repo, index, disk, queue, pc, locals, bounds, watched>>

\* The process is killed, or a step fails and ends the pass.
Crash(p) ==
    /\ crashes < MaxCrashes
    /\ pc[p] # "idle"
    /\ EndPass(p)
    /\ crashes' = crashes + 1
    /\ prev' = [prev EXCEPT ![p] = Absent]
    /\ todo' = [todo EXCEPT ![p] = None]
    /\ astray' = IF pc[p] \in {"materialize", "apply"} THEN astray \cup {p} ELSE astray
    /\ UNCHANGED <<repo, index, disk, queue, session, edits, edited>>

(***************************************************************************)
(* The specification.                                                      *)
(***************************************************************************)

ApplyDeferred(p) ==
    \/ DrainNothing(p) \/ DrainDelete(p) \/ DrainReplace(p)
    \/ DrainWrite(p) \/ DrainSave(p)

Record(p) == Stage(p) \/ Commit(p) \/ CommitNothing(p)

Round(p) ==
    \/ RoundUpToDate(p) \/ RoundForward(p) \/ RoundMerge(p)
    \/ Materialize(p) \/ Apply(p)

Network(p) ==
    \/ Fetch(p) \/ Push(p) \/ PushUnanswered(p) \/ PushRejected(p) \/ PushRefused(p)
    \/ Offline(p)

Once(p) == ApplyDeferred(p) \/ Record(p) \/ Round(p) \/ Network(p)

Users(p) ==
    \/ \E v \in Contents : Edit(p, v)
    \/ SessionSpeaks(p)
    \/ SessionEnds(p)

Next == \E p \in PCs : Once(p) \/ Users(p) \/ Crash(p)

Spec == Init /\ [][Next]_vars

\* A pass that started goes on; passes keep starting (session hooks, the
\* watcher, the nightly job); the network is not down for ever.
Fairness ==
    \A p \in PCs :
        /\ WF_vars(ApplyDeferred(p) \/ Record(p) \/ Round(p)
                    \/ PushRejected(p) \/ PushRefused(p))
        /\ SF_vars(Fetch(p))
        /\ SF_vars(Push(p))

FairSpec == Spec /\ Fairness

(***************************************************************************)
(* Properties.                                                             *)
(***************************************************************************)

TypeOK ==
    /\ commits \in Seq([tree : Contents, past : SUBSET Nat])
    /\ hub \in 0 .. Len(commits)
    /\ head \in [PCs -> 0 .. Len(commits)]
    /\ tracking \in [PCs -> 0 .. Len(commits)]
    /\ index \in [PCs -> Contents]
    /\ disk \in [PCs -> Contents]
    /\ queue \in [PCs -> {None} \cup Entries]
    /\ session \in [PCs -> Sessions]
    /\ pc \in [PCs -> Steps]
    /\ attempt \in [PCs -> 0 .. MaxPushAttempts]
    /\ prev \in [PCs -> Contents]
    /\ todo \in [PCs -> {None} \cup Decisions]
    /\ edits \in 0 .. MaxEdits
    /\ crashes \in 0 .. MaxCrashes
    /\ edited \in [PCs -> BOOLEAN]
    /\ astray \subseteq PCs

(* The history of a PC and of the hub only ever grow: the ref guards, the  *)
(* push that must fast-forward and both parents of a merge keep every      *)
(* commit, the loser of a conflict included, reachable for good.           *)
HistoryOnlyGrows ==
    [][/\ \A p \in PCs : Past(head[p]) \subseteq Past(head[p])'
       /\ Past(hub) \subseteq Past(hub)']_vars

(* A pass commits a change only if a session of its PC made it.  The other *)
(* PCs' merged work is undone in two windows: a pass that dies after       *)
(* update-ref, and a drained entry older than the branch (astray).         *)
CommitsOnlyLocalEdits ==
    [][\A p \in PCs : Commit(p) => edited[p] \/ p \in astray]_vars

(* The drain re-checks: what a session changed in the file after the       *)
(* change was queued, line added or removed, is still so after the drain.  *)
LaterEditSurvives ==
    [][\A p \in PCs :
          /\ DrainWrite(p)
          /\ disk[p] = todo[p].saw
          /\ disk[p] # Absent
          /\ queue[p].ours \notin {Absent, disk[p]}
          => /\ disk'[p] # Absent
             /\ \A l \in Lines : (l \in disk[p]) # (l \in queue[p].ours)
                                 => (l \in disk'[p]) = (l \in disk[p])]_vars

(* docs/systems/ams-store.md: a queued path is already resolved in history *)
(* and only withheld from the work tree.                                   *)
QueueHoldsHead ==
    \A p \in PCs :
        pc[p] = "idle" /\ queue[p] # None => queue[p].want = Tree(head[p])

(* Once the sessions stop editing, every PC's branch becomes the hub's and *)
(* every work tree shows it, but for a change a live session withholds.    *)
EventuallyConverged ==
    <>[](\A p \in PCs :
            /\ head[p] = hub
            /\ queue[p] = None => disk[p] = Tree(hub))
=============================================================================
