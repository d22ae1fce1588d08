-------------------------- MODULE StoreSync_proofs --------------------------
(***************************************************************************)
(* Proofs about StoreSync, for every set of PCs and of lines, every fleet  *)
(* at the start, and all bounds.                                           *)
(*                                                                         *)
(* None of the properties is inductive.  The history grows because what is *)
(* reachable from a commit is closed under reachability.  What a pass      *)
(* commits is a session's because the work tree, between two merges,       *)
(* differs from the branch only by what a session wrote, by a version      *)
(* withheld in the queue, or after one of the two windows.                 *)
(***************************************************************************)
EXTENDS StoreSync, TLAPS

USE DEF Goto, repo, locals, bounds, watched

-----------------------------------------------------------------------------
(* The inductive invariants. *)

\* A step that follows a decision has one; only a push loop with attempts
\* left goes back to the fetch.
StepInv == \A p \in PCs :
    /\ pc[p] \in {"drainWrite", "apply"} => todo[p] # None
    /\ pc[p] = "drainWrite" => queue[p] # None
    /\ pc[p] = "fetch" => attempt[p] < MaxPushAttempts

\* What is reachable from a commit is closed under reachability.
PastInv == \A c \in 1 .. Len(commits) :
    /\ c \in Past(c)
    /\ Past(c) \subseteq 1 .. Len(commits)
    /\ \A d \in Past(c) : Past(d) \subseteq Past(c)

\* A session's edit, or one of the two windows, explains the work tree of p.
Explained(p) == edited[p] \/ p \in astray

\* The file is as a queue entry found it.
AsQueued(p, e) == e # None /\ disk[p] = e.ours /\ disk[p] # Absent

\* Between two merges the file is the branch's, explained, or withheld.
Shown(p) == disk[p] = Tree(head[p]) \/ Explained(p) \/ AsQueued(p, queue[p])

\* What the drain decided brings the file to the branch, or is explained.
DrainDecision(p) ==
    /\ ~todo[p].write => disk[p] = Tree(head[p]) \/ Explained(p)
    /\ todo[p].write /\ ~todo[p].later => todo[p].to = queue[p].want
    /\ todo[p].write /\ todo[p].later /\ queue[p].want = Tree(head[p]) =>
          todo[p].to = Tree(head[p]) \/ Explained(p)

\* What the materialization decided brings it to the merge, or is queued.
MergeDecision(p) ==
    /\ todo[p].write => todo[p].to = Tree(head[p]) /\ todo[p].defer = None
    /\ ~todo[p].write =>
          \/ disk[p] = Tree(head[p])
          \/ Explained(p)
          \/ AsQueued(p, todo[p].defer)
          \/ todo[p].defer = None /\ AsQueued(p, queue[p])

WorkTree(p) ==
    /\ pc[p] \notin {"materialize", "apply"} => Shown(p)
    /\ pc[p] = "drainWrite" => DrainDecision(p)
    /\ pc[p] = "drainSave" => disk[p] = Tree(head[p]) \/ Explained(p)
    /\ pc[p] = "commit" /\ queue[p] = None => index[p] = disk[p] \/ edited[p]
    /\ pc[p] = "materialize" =>
          disk[p] = prev[p] \/ Explained(p) \/ AsQueued(p, queue[p])
    /\ pc[p] = "apply" => MergeDecision(p)

WorkTreeInv == \A p \in PCs : WorkTree(p)

\* The drain keeps what changed in s after the entry q was made.
KeepsLater(s, q, v) ==
    s # Absent /\ q.ours \notin {Absent, s} =>
        /\ v # Absent
        /\ \A l \in Lines : (l \in s) # (l \in q.ours) => (l \in v) = (l \in s)

LaterInv == \A p \in PCs :
    pc[p] = "drainWrite" /\ todo[p].write =>
        KeepsLater(todo[p].saw, queue[p], todo[p].to)

IInv == TypeOK /\ StepInv /\ PastInv /\ WorkTreeInv /\ LaterInv

-----------------------------------------------------------------------------
(* What the merge and a commit make. *)

\* Two sides that changed different lines merge to a set of lines.
LEMMA MergeContentType ==
    ASSUME NEW b \in Contents, NEW o \in SUBSET Lines, NEW t \in SUBSET Lines,
           NEW w, w \subseteq Contents, NEW v \in mergeContent(b, o, t, w)
    PROVE  v \in Contents
  BY SyncAssumption DEF mergeContent, MergeFile, Text, Contents

\* The deletion table yields a version of the file.
LEMMA ResolvePathType ==
    ASSUME NEW b \in Contents, NEW o \in Contents, NEW t \in Contents,
           NEW v \in resolvePath(b, o, t)
    PROVE  v \in Contents
<1>1. CASE o # Absent /\ t # Absent
    <2>1. v \in mergeContent(b, o, t, {o, t})
        BY <1>1 DEF resolvePath
    <2>2. o \in SUBSET Lines /\ t \in SUBSET Lines
        BY <1>1 DEF Contents
    <2>3. {o, t} \subseteq Contents
        OBVIOUS
    <2> QED
        BY <2>1, <2>2, <2>3, MergeContentType
<1>2. CASE o = Absent \/ t = Absent
    BY <1>2 DEF resolvePath, Contents
<1> QED
    BY <1>1, <1>2

\* The part of the type invariant that the other invariants need.
Shapes ==
    /\ Len(commits) \in Nat
    /\ head \in [PCs -> 0 .. Len(commits)]
    /\ tracking \in [PCs -> 0 .. Len(commits)]
    /\ index \in [PCs -> Contents]
    /\ disk \in [PCs -> Contents]
    /\ queue \in [PCs -> {None} \cup Entries]
    /\ pc \in [PCs -> Steps]
    /\ attempt \in [PCs -> 0 .. MaxPushAttempts]
    /\ prev \in [PCs -> Contents]
    /\ todo \in [PCs -> {None} \cup Decisions]
    /\ edited \in [PCs -> BOOLEAN]
    /\ astray \subseteq PCs

LEMMA ShapesOK == TypeOK => Shapes
  BY DEF TypeOK, Shapes

\* The tree of a commit is a version of the file, its past a set of numbers.
LEMMA TreeType ==
    ASSUME TypeOK, NEW c \in 0 .. Len(commits)
    PROVE  Tree(c) \in Contents /\ Past(c) \subseteq Nat
<1>1. commits \in Seq([tree : Contents, past : SUBSET Nat])
    BY DEF TypeOK
<1>2. CASE c = 0
    BY <1>2 DEF Tree, Past, Contents
<1>3. CASE c # 0
    <2>1. c \in 1 .. Len(commits)
        <3>1. Len(commits) \in Nat
            BY <1>1
        <3> QED
            BY <1>3, <3>1
    <2>2. \A R : commits \in Seq(R) => commits[c] \in R
        BY <2>1
    <2>3. commits[c] \in [tree : Contents, past : SUBSET Nat]
        BY <1>1, <2>2
    <2> QED
        BY <1>3, <2>3 DEF Tree, Past
<1> QED
    BY <1>2, <1>3

\* A merge round yields a version of the file.
LEMMA MergedType ==
    ASSUME TypeOK, PastInv, NEW o \in 0 .. Len(commits), NEW t \in 0 .. Len(commits),
           NEW v \in Merged(o, t)
    PROVE  v \in Contents
<1>1. Tree(o) \in Contents /\ Tree(t) \in Contents /\ Absent \in Contents
    BY TreeType DEF Contents
<1>2. CASE MergeBases(o, t) = {}
    BY <1>1, <1>2, ResolvePathType DEF Merged
<1>3. CASE MergeBases(o, t) # {}
    <2>1. PICK b \in MergeBases(o, t) : v \in resolvePath(Tree(b), Tree(o), Tree(t))
        BY <1>3 DEF Merged
    <2>2. b \in 0 .. Len(commits)
        BY DEF MergeBases, CommonAncestors, PastInv, Past, TypeOK
    <2> QED
        BY <1>1, <2>1, <2>2, TreeType, ResolvePathType
<1> QED
    BY <1>2, <1>3

\* A commit adds itself on top of its parents and changes no other.
LEMMA Grown ==
    ASSUME TypeOK, NEW v \in Contents,
           NEW c \in 0 .. Len(commits), NEW d \in 0 .. Len(commits),
           CommitTree(v, {c, d}), NEW n, n = NewCommit
    PROVE  /\ commits' \in Seq([tree : Contents, past : SUBSET Nat])
           /\ n \in Nat \ {0}
           /\ Len(commits') = n
           /\ n = Len(commits) + 1
           /\ \A e \in 0 .. Len(commits) : Tree(e)' = Tree(e) /\ Past(e)' = Past(e)
           /\ Tree(n)' = v
           /\ Past(n)' = {n} \cup Past(c) \cup Past(d)
<1> DEFINE r == [tree |-> v, past |-> {n} \cup Past(c) \cup Past(d)]
<1>1. UNION {Past(e) : e \in {c, d}} = Past(c) \cup Past(d)
    OBVIOUS
<1>2. commits' = Append(commits, r)
    <2>1. commits' = Append(commits, [tree |-> v, past |->
              {NewCommit} \cup UNION {Past(e) : e \in {c, d}}])
        BY DEF CommitTree
    <2>2. {NewCommit} \cup UNION {Past(e) : e \in {c, d}} = {n} \cup Past(c) \cup Past(d)
        BY <1>1
    <2> QED
        BY <2>1, <2>2
<1>3. n \in Nat \ {0} /\ n = Len(commits) + 1
    BY DEF TypeOK, NewCommit
<1>4. r \in [tree : Contents, past : SUBSET Nat]
    BY <1>3, TreeType
<1>5. /\ commits' \in Seq([tree : Contents, past : SUBSET Nat])
      /\ Len(commits') = n
      /\ commits'[n] = r
      /\ \A e \in 1 .. Len(commits) : commits'[e] = commits[e]
    <2> HIDE DEF r
    <2> QED
        BY <1>2, <1>3, <1>4 DEF TypeOK
<1>6. \A e \in 0 .. Len(commits) : Tree(e)' = Tree(e) /\ Past(e)' = Past(e)
    BY <1>5 DEF Tree, Past
<1> QED
    BY <1>3, <1>5, <1>6 DEF Tree, Past



\* A step of a PC that makes a commit moves its branch to the new commit.
LEMMA Committed ==
    ASSUME TypeOK, PastInv, NEW p \in PCs, Commit(p) \/ RoundMerge(p)
    PROVE  \E n \in Nat \ {0}, v \in Contents, d \in {head[p], tracking[p]} :
              /\ commits' \in Seq([tree : Contents, past : SUBSET Nat])
              /\ Len(commits') = n
              /\ n = Len(commits) + 1
              /\ \A e \in 0 .. Len(commits) : Tree(e)' = Tree(e) /\ Past(e)' = Past(e)
              /\ Tree(n)' = v
              /\ Past(n)' = {n} \cup Past(head[p]) \cup Past(d)
              /\ head' = [head EXCEPT ![p] = n]
              /\ Commit(p) => v = unstageQueued(p)
<1> SUFFICES ASSUME NEW n, n = NewCommit, NEW c, c = head[p],
                    NEW d, d \in {c, tracking[p]},
                    NEW v \in Contents, CommitTree(v, {c, d}),
                    head' = [head EXCEPT ![p] = n],
                    Commit(p) => v = unstageQueued(p)
             PROVE  /\ commits' \in Seq([tree : Contents, past : SUBSET Nat])
                    /\ n \in Nat \ {0}
                    /\ Len(commits') = n
                    /\ n = Len(commits) + 1
                    /\ \A e \in 0 .. Len(commits) : Tree(e)' = Tree(e) /\ Past(e)' = Past(e)
                    /\ Tree(n)' = v
                    /\ Past(n)' = {n} \cup Past(c) \cup Past(d)
    <2>1. head[p] \in 0 .. Len(commits) /\ tracking[p] \in 0 .. Len(commits)
        BY ShapesOK DEF Shapes
    <2>2. PICK n, c, d : n = NewCommit /\ c = head[p] /\ d = tracking[p]
        OBVIOUS
    <2>3. CASE Commit(p)
        <3>1. PICK v : v = unstageQueued(p)
            OBVIOUS
        <3>2. v \in Contents
            BY <2>1, <3>1, TreeType DEF unstageQueued, TypeOK
        <3>3. CommitTree(v, {c, c}) /\ head' = [head EXCEPT ![p] = n]
            BY <2>2, <2>3, <3>1 DEF Commit
        <3> QED
            BY <2>2, <3>1, <3>2, <3>3
    <2>4. CASE RoundMerge(p)
        <3>1. PICK v \in Merged(head[p], tracking[p]) : CommitTree(v, {head[p], tracking[p]})
            BY <2>4 DEF RoundMerge, MergeParents
        <3>2. v \in Contents
            BY <2>1, <3>1, MergedType
        <3>3. head' = [head EXCEPT ![p] = n] /\ ~Commit(p)
            BY <2>2, <2>4 DEF RoundMerge, Commit
        <3> QED
            BY <2>2, <3>1, <3>2, <3>3
    <2> QED
        BY <2>3, <2>4
<1>1. c \in 0 .. Len(commits) /\ d \in 0 .. Len(commits)
    <2>1. head[p] \in 0 .. Len(commits) /\ tracking[p] \in 0 .. Len(commits)
        BY ShapesOK DEF Shapes
    <2> QED
        BY <2>1
<1>2. n \in Nat \ {0} /\ n = Len(commits) + 1 /\ Len(commits') = n
    BY <1>1, Grown
<1>3. commits' \in Seq([tree : Contents, past : SUBSET Nat])
    BY <1>1, Grown
<1>4. \A e \in 0 .. Len(commits) : Tree(e)' = Tree(e) /\ Past(e)' = Past(e)
    BY <1>1, Grown
<1>5. Tree(n)' = v /\ Past(n)' = {n} \cup Past(c) \cup Past(d)
    BY <1>1, Grown
<1> QED
    BY <1>2, <1>3, <1>4, <1>5

-----------------------------------------------------------------------------
(* Type correctness. *)

\* A decision is one of Decisions, and holds what was decided.
LEMMA DecideType ==
    ASSUME Shapes, NEW p \in PCs, NEW w \in BOOLEAN, NEW v \in Contents,
           NEW l \in BOOLEAN, NEW e \in {None} \cup Entries, Decide(p, w, v, l, e)
    PROVE  /\ todo' \in [PCs -> {None} \cup Decisions]
           /\ todo'[p] # None
           /\ todo'[p].write = w /\ todo'[p].to = v /\ todo'[p].saw = disk[p]
           /\ todo'[p].later = l /\ todo'[p].defer = e
           /\ \A q \in PCs : q # p => todo'[q] = todo[q]
<1> DEFINE d == [write |-> w, to |-> v, saw |-> disk[p], later |-> l, defer |-> e]
<1>1. d \in Decisions
    BY DEF Shapes, Decisions
<1>2. d # None
    BY <1>1, NoneAssumption
<1>3. todo' = [todo EXCEPT ![p] = d]
    BY DEF Decide
<1>4. /\ d.write = w /\ d.to = v /\ d.saw = disk[p]
      /\ d.later = l /\ d.defer = e
    OBVIOUS
<1> HIDE DEF d
<1>5. todo' \in [PCs -> {None} \cup Decisions] /\ todo'[p] = d
    BY <1>1, <1>3 DEF Shapes
<1>6. \A q \in PCs : q # p => todo'[q] = todo[q]
    BY <1>3 DEF Shapes
<1> QED
    BY <1>2, <1>4, <1>5, <1>6

\* A drained entry: what was decided, and for which version.
LEMMA DrainDecides ==
    ASSUME TypeOK, NEW p \in PCs, DrainDelete(p) \/ DrainReplace(p)
    PROVE  \E w \in BOOLEAN, v \in Contents, l \in BOOLEAN :
              /\ Decide(p, w, v, l, None)
              /\ ~w => ~untouched(p) /\ queue[p].want = Absent
              /\ w /\ ~l => v = queue[p].want /\ (untouched(p) \/ disk[p] = Absent)
              /\ w /\ l => /\ ~untouched(p)
                           /\ disk[p] \in SUBSET Lines
                           /\ queue[p].want \in SUBSET Lines
                           /\ v \in reconcileLaterEdit(p)
<1>1. Shapes
    BY ShapesOK
<1>2. Absent \in Contents
    BY DEF Contents
<1>3. CASE DrainDelete(p)
    BY <1>2, <1>3 DEF DrainDelete
<1>4. CASE DrainReplace(p)
    <2>1. queue[p] \in Entries
        BY <1>1, <1>4 DEF DrainReplace, Shapes
    <2>2. queue[p].want \in Contents /\ queue[p].ours \in Contents
        BY <2>1 DEF Entries
    <2>3. CASE untouched(p) \/ disk[p] = Absent
        BY <1>4, <2>2, <2>3 DEF DrainReplace
    <2>4. CASE ~(untouched(p) \/ disk[p] = Absent)
        <3>1. PICK v \in reconcileLaterEdit(p) : Decide(p, TRUE, v, TRUE, None)
            BY <1>4, <2>4 DEF DrainReplace
        <3>2. disk[p] \in SUBSET Lines /\ queue[p].want \in SUBSET Lines
            BY <1>1, <1>4, <2>2, <2>4 DEF DrainReplace, Shapes, Contents
        <3>3. {disk[p]} \subseteq Contents
            BY <1>1 DEF Shapes
        <3>4. v \in mergeContent(queue[p].ours, disk[p], queue[p].want, {disk[p]})
            BY <3>1 DEF reconcileLaterEdit
        <3>5. v \in Contents
            BY <2>2, <3>2, <3>3, <3>4, MergeContentType
        <3> QED
            BY <2>4, <3>1, <3>2, <3>5
    <2> QED
        BY <2>3, <2>4
<1> QED
    BY <1>3, <1>4

\* What the drain and the materialization decide is a decision.
LEMMA Decided ==
    ASSUME TypeOK, StepInv, NEW p \in PCs,
           DrainDelete(p) \/ DrainReplace(p) \/ Materialize(p)
    PROVE  \E w \in BOOLEAN, v \in Contents, l \in BOOLEAN, e \in {None} \cup Entries :
              Decide(p, w, v, l, e)
<1>1. Shapes
    BY ShapesOK
<1>2. None \in {None} \cup Entries
    OBVIOUS
<1>3. CASE DrainDelete(p) \/ DrainReplace(p)
    BY <1>2, <1>3, DrainDecides
<1>4. CASE Materialize(p)
    <2>1. Tree(head[p]) \in Contents
        BY <1>1, TreeType DEF Shapes
    <2>2. [want |-> Tree(head[p]), ours |-> disk[p]] \in Entries
        BY <1>1, <2>1 DEF Entries, Shapes
    <2>3. \E w \in BOOLEAN, e \in {None, [want |-> Tree(head[p]), ours |-> disk[p]]} :
              Decide(p, w, Tree(head[p]), FALSE, e)
        BY <1>4 DEF Materialize
    <2> QED
        BY <2>1, <2>2, <2>3
<1> QED
    BY <1>3, <1>4


\* A decision stands until it is carried out; the fetches of a pass are bounded.
LEMMA StepStep == TypeOK /\ StepInv /\ [Next]_vars => StepInv'
<1> SUFFICES ASSUME TypeOK, StepInv, [Next]_vars PROVE StepInv'
    OBVIOUS
<1> USE SyncAssumption, ShapesOK DEF StepInv, Shapes, Steps
<1>1. ASSUME NEW p \in PCs,
           DrainNothing(p) \/ DrainSave(p) \/ DrainWrite(p)
     PROVE  StepInv'
    BY <1>1 DEF DrainNothing, DrainSave, DrainWrite, WriteFile
<1>2. ASSUME NEW p \in PCs,
           DrainDelete(p) \/ DrainReplace(p) \/ Materialize(p)
     PROVE  StepInv'
    <2>1. PICK w \in BOOLEAN, v \in Contents, l \in BOOLEAN, e \in {None} \cup Entries :
              Decide(p, w, v, l, e)
        BY <1>2, Decided
    <2>2. todo'[p] # None /\ \A q \in PCs : q # p => todo'[q] = todo[q]
        BY <2>1, DecideType
    <2>3. /\ UNCHANGED <<queue, attempt>>
          /\ \/ pc' = [pc EXCEPT ![p] = "drainWrite"] /\ queue[p] # None
             \/ pc' = [pc EXCEPT ![p] = "apply"]
        BY <1>2 DEF DrainDelete, DrainReplace, Materialize
    <2> QED
        BY <2>2, <2>3
<1>3. ASSUME NEW p \in PCs,
           Stage(p) \/ Commit(p) \/ CommitNothing(p)
     PROVE  StepInv'
    BY <1>3 DEF Stage, Commit, Observe, unstageQueued, AfterCommit,
       CommitNothing
<1>4. ASSUME NEW p \in PCs,
           RoundUpToDate(p) \/ RoundForward(p) \/ RoundMerge(p)
     PROVE  StepInv'
    BY <1>4 DEF RoundUpToDate, RoundForward, RoundMerge
<1>5. ASSUME NEW p \in PCs,
           Apply(p) \/ Fetch(p)
     PROVE  StepInv'
    BY <1>5 DEF Apply, WriteFile, Fetch
<1>6. ASSUME NEW p \in PCs,
           Push(p) \/ PushUnanswered(p) \/ PushRejected(p) \/
           PushRefused(p) \/ Offline(p)
     PROVE  StepInv'
    BY <1>6 DEF Push, EndPass, PushUnanswered, PushRejected, PushRefused,
       Offline
<1>7. ASSUME NEW p \in PCs, NEW v \in Contents, Edit(p, v) PROVE StepInv'
    BY <1>7 DEF Edit, WriteFile
<1>8. ASSUME NEW p \in PCs,
           SessionSpeaks(p) \/ SessionEnds(p) \/ Crash(p)
     PROVE  StepInv'
    BY <1>8 DEF SessionSpeaks, SessionEnds, Crash, EndPass
<1>9. CASE UNCHANGED vars
    BY <1>9 DEF vars
<1> QED
    BY <1>1, <1>2, <1>3, <1>4, <1>5, <1>6, <1>7, <1>8, <1>9 DEF Next, Once,
       Users, ApplyDeferred, Record, Round, Network

\* What is reachable stays closed under reachability.
LEMMA PastStep == TypeOK /\ PastInv /\ [Next]_vars => PastInv'
<1> SUFFICES ASSUME TypeOK, PastInv, [Next]_vars PROVE PastInv'
    OBVIOUS
<1>1. ASSUME NEW p \in PCs, Commit(p) \/ RoundMerge(p) PROVE PastInv'
    <2>1. PICK n \in Nat \ {0}, d \in {head[p], tracking[p]} :
              /\ Len(commits') = n
              /\ n = Len(commits) + 1
              /\ \A e \in 0 .. Len(commits) : Past(e)' = Past(e)
              /\ Past(n)' = {n} \cup Past(head[p]) \cup Past(d)
        BY <1>1, Committed
    <2>2. head[p] \in 0 .. Len(commits) /\ d \in 0 .. Len(commits) /\ Len(commits) \in Nat
        BY DEF TypeOK
    <2>3. \A c \in 0 .. Len(commits) :
              /\ Past(c) \subseteq 1 .. Len(commits)
              /\ \A e \in Past(c) : Past(e) \subseteq Past(c)
        BY <2>2 DEF PastInv, Past
    <2>4. \A c \in 1 .. Len(commits) : c \in Past(c)
        BY DEF PastInv
    <2>5. ASSUME NEW c \in 1 .. n
          PROVE  /\ c \in Past(c)'
                 /\ Past(c)' \subseteq 1 .. n
                 /\ \A e \in Past(c)' : Past(e)' \subseteq Past(c)'
        <3>1. CASE c = n
            <4>1. c \in Past(c)' /\ Past(c)' \subseteq 1 .. n
                BY <2>1, <2>2, <2>3, <3>1
            <4>2. ASSUME NEW e \in Past(c)' PROVE Past(e)' \subseteq Past(c)'
                <5>1. CASE e = n
                    BY <3>1, <5>1
                <5>2. CASE e \in Past(head[p]) \cup Past(d)
                    <6>1. e \in 0 .. Len(commits)
                        BY <2>2, <2>3, <5>2
                    <6> QED
                        BY <2>1, <2>2, <2>3, <3>1, <5>2, <6>1
                <5> QED
                    BY <2>1, <3>1, <5>1, <5>2
            <4> QED
                BY <4>1, <4>2
        <3>2. CASE c # n
            <4>1. c \in 1 .. Len(commits) /\ Past(c)' = Past(c)
                BY <2>1, <2>2, <3>2
            <4>2. Past(c) \subseteq 0 .. Len(commits)
                BY <2>2, <2>3, <4>1
            <4> QED
                BY <2>1, <2>2, <2>3, <2>4, <4>1, <4>2
        <3> QED
            BY <3>1, <3>2
    <2> QED
        BY <2>1, <2>5 DEF PastInv
<1>2. CASE UNCHANGED commits
    BY <1>2 DEF PastInv, Past
<1> QED
    BY <1>1, <1>2 DEF Next, Once, Users, ApplyDeferred, Record, Round, Network, vars,
       DrainNothing, DrainDelete, DrainReplace, DrainWrite, DrainSave, Stage,
       CommitNothing, RoundUpToDate, RoundForward, Materialize, Apply, Fetch, Push,
       PushUnanswered, PushRejected, PushRefused, Offline, Edit, SessionSpeaks,
       SessionEnds, Crash

\* The branches name commits that were made.
RepoType ==
    /\ commits \in Seq([tree : Contents, past : SUBSET Nat])
    /\ hub \in 0 .. Len(commits)
    /\ head \in [PCs -> 0 .. Len(commits)]
    /\ tracking \in [PCs -> 0 .. Len(commits)]

\* The rest of the type invariant.
LocalType ==
    /\ index \in [PCs -> Contents]
    /\ disk \in [PCs -> Contents]
    /\ queue \in [PCs -> {None} \cup Entries]
    /\ session \in [PCs -> Sessions]
    /\ pc \in [PCs -> Steps]
    /\ attempt \in [PCs -> 0 .. MaxPushAttempts]
    /\ prev \in [PCs -> Contents]
    /\ todo \in [PCs -> {None} \cup Decisions]
    /\ edits \in 0 .. MaxEdits
    /\ crashes \in 0 .. MaxCrashes
    /\ edited \in [PCs -> BOOLEAN]
    /\ astray \subseteq PCs

LEMMA TypeParts == TypeOK <=> RepoType /\ LocalType
  BY DEF TypeOK, RepoType, LocalType

\* Every step keeps the branches on commits that were made.
LEMMA RepoStep == TypeOK /\ PastInv /\ [Next]_vars => RepoType'
<1> SUFFICES ASSUME TypeOK, PastInv, [Next]_vars PROVE RepoType'
    OBVIOUS
<1>1. /\ Len(commits) \in Nat
      /\ hub \in 0 .. Len(commits)
      /\ head \in [PCs -> 0 .. Len(commits)]
      /\ tracking \in [PCs -> 0 .. Len(commits)]
    BY DEF TypeOK
<1>2. ASSUME NEW p \in PCs, Commit(p) \/ RoundMerge(p) PROVE RepoType'
    <2>1. PICK n \in Nat \ {0} :
              /\ commits' \in Seq([tree : Contents, past : SUBSET Nat])
              /\ Len(commits') = n
              /\ n = Len(commits) + 1
              /\ head' = [head EXCEPT ![p] = n]
        BY <1>2, Committed
    <2>2. UNCHANGED <<hub, tracking>>
        BY <1>2 DEF Commit, RoundMerge
    <2> QED
        BY <1>1, <2>1, <2>2 DEF RepoType
<1>3. ASSUME UNCHANGED commits,
             /\ hub' \in 0 .. Len(commits)
             /\ head' \in [PCs -> 0 .. Len(commits)]
             /\ tracking' \in [PCs -> 0 .. Len(commits)]
      PROVE  RepoType'
    <2>1. commits \in Seq([tree : Contents, past : SUBSET Nat])
        BY DEF TypeOK
    <2> QED
        BY <1>3, <2>1 DEF RepoType
<1>4. ASSUME NEW p \in PCs,
           RoundForward(p) \/ Fetch(p) \/ Push(p) \/ PushUnanswered(p)
      PROVE  RepoType'
    <2>1. /\ UNCHANGED commits
          /\ hub' \in 0 .. Len(commits)
          /\ head' \in [PCs -> 0 .. Len(commits)]
          /\ tracking' \in [PCs -> 0 .. Len(commits)]
        BY <1>1, <1>4 DEF RoundForward, Fetch, Push, PushUnanswered
    <2> QED
        BY <1>3, <2>1
<1>5. CASE UNCHANGED repo
    BY <1>1, <1>3, <1>5
<1> QED
    BY <1>2, <1>4, <1>5 DEF Next, Once, Users, ApplyDeferred, Record, Round, Network,
       vars, DrainNothing, DrainDelete, DrainReplace, DrainWrite, DrainSave, Stage,
       CommitNothing, RoundUpToDate, Materialize, Apply, PushRejected, PushRefused,
       Offline, Edit, SessionSpeaks, SessionEnds, Crash

\* Every step keeps the types of what a PC holds.
LEMMA LocalStep == TypeOK /\ StepInv /\ [Next]_vars => LocalType'
<1> SUFFICES ASSUME TypeOK, StepInv, [Next]_vars PROVE LocalType'
    OBVIOUS
<1>0. LocalType
    BY TypeParts
<1> USE <1>0, SyncAssumption DEF LocalType, StepInv, Steps, Sessions
<1>1. ASSUME NEW p \in PCs,
           DrainNothing(p) \/ DrainSave(p)
     PROVE  LocalType'
    BY <1>1 DEF DrainNothing, DrainSave
<1>2. ASSUME NEW p \in PCs,
           DrainDelete(p) \/ DrainReplace(p) \/ Materialize(p)
     PROVE  LocalType'
    <2>1. PICK w \in BOOLEAN, v \in Contents, l \in BOOLEAN, e \in {None} \cup Entries :
              Decide(p, w, v, l, e)
        BY <1>2, Decided
    <2>2. todo' \in [PCs -> {None} \cup Decisions]
        BY <2>1, ShapesOK, DecideType
    <2>3. /\ UNCHANGED <<disk, queue, session, attempt, bounds, watched>>
          /\ \/ pc' = [pc EXCEPT ![p] = "drainWrite"]
             \/ pc' = [pc EXCEPT ![p] = "apply"]
          /\ UNCHANGED index \/ index' = [index EXCEPT ![p] = Tree(head[p])]
          /\ UNCHANGED prev \/ prev' = [prev EXCEPT ![p] = Absent]
        BY <1>2 DEF DrainDelete, DrainReplace, Materialize
    <2>4. Tree(head[p]) \in Contents
        BY ShapesOK, TreeType DEF Shapes
    <2>5. index' \in [PCs -> Contents] /\ prev' \in [PCs -> Contents] /\ pc' \in [PCs -> Steps]
        BY <2>3, <2>4 DEF Contents
    <2> QED
        BY <2>2, <2>3, <2>5
<1>3. ASSUME NEW p \in PCs, DrainWrite(p) PROVE LocalType'
    <2>1. todo[p] \in Decisions
        BY <1>3 DEF DrainWrite
    <2>2. todo[p].to \in Contents /\ todo[p].defer \in {None} \cup Entries
          /\ todo[p].later \in BOOLEAN
        BY <2>1 DEF Decisions
    <2> QED
        BY <1>3, <2>2 DEF DrainWrite, WriteFile, Touch
<1>4. ASSUME NEW p \in PCs, Apply(p) PROVE LocalType'
    <2>1. todo[p] \in Decisions
        BY <1>4 DEF Apply
    <2>2. todo[p].to \in Contents /\ todo[p].defer \in {None} \cup Entries
          /\ todo[p].later \in BOOLEAN
        BY <2>1 DEF Decisions
    <2> QED
        BY <1>4, <2>2 DEF Apply, WriteFile, Touch
<1>5. ASSUME NEW p \in PCs, Stage(p) PROVE LocalType'
    BY <1>5 DEF Stage, Touch
<1>6. ASSUME NEW p \in PCs,
           Commit(p) \/ CommitNothing(p)
     PROVE  LocalType'
    <2>1. Tree(head[p]) \in Contents
        BY ShapesOK, TreeType DEF Shapes
    <2>2. PICK v \in Contents : v = unstageQueued(p)
        BY <2>1 DEF unstageQueued
    <2>3. /\ UNCHANGED <<disk, queue, session, locals, bounds>>
          /\ index' = [index EXCEPT ![p] = v]
          /\ pc' = [pc EXCEPT ![p] = AfterCommit(p)]
          /\ Observe(p, v)
        BY <1>6, <2>2 DEF Commit, CommitNothing
    <2>4. AfterCommit(p) \in Steps
        BY DEF AfterCommit
    <2>5. edited' \in [PCs -> BOOLEAN] /\ astray' \subseteq PCs
        BY <2>3 DEF Observe
    <2> QED
        BY <2>3, <2>4, <2>5
<1>7. ASSUME NEW p \in PCs, RoundUpToDate(p) PROVE LocalType'
    BY <1>7 DEF RoundUpToDate
<1>8. ASSUME NEW p \in PCs,
           RoundForward(p) \/ RoundMerge(p)
     PROVE  LocalType'
    <2>1. Tree(head[p]) \in Contents
        BY ShapesOK, TreeType DEF Shapes
    <2> QED
        BY <1>8, <2>1 DEF RoundForward, RoundMerge
<1>9. ASSUME NEW p \in PCs, Fetch(p) PROVE LocalType'
    BY <1>9 DEF Fetch
<1>10. ASSUME NEW p \in PCs,
           Push(p) \/ PushUnanswered(p) \/ PushRejected(p) \/
           PushRefused(p) \/ Offline(p)
     PROVE  LocalType'
    BY <1>10 DEF Push, EndPass, PushUnanswered, PushRejected, PushRefused,
       Offline
<1>11. ASSUME NEW p \in PCs, NEW v \in Contents, Edit(p, v) PROVE LocalType'
    BY <1>11 DEF Edit, WriteFile, Touch
<1>12. ASSUME NEW p \in PCs,
           SessionSpeaks(p) \/ SessionEnds(p)
     PROVE  LocalType'
    BY <1>12 DEF SessionSpeaks, SessionEnds
<1>13. ASSUME NEW p \in PCs, Crash(p) PROVE LocalType'
    BY <1>13 DEF Crash, EndPass, Contents
<1>14. CASE UNCHANGED vars
    BY <1>14 DEF vars
<1> QED
    BY <1>1, <1>2, <1>3, <1>4, <1>5, <1>6, <1>7, <1>8, <1>9, <1>10, <1>11,
       <1>12, <1>13, <1>14 DEF Next, Once, Users, ApplyDeferred, Record,
       Round, Network

\* Every step keeps the type invariant.
LEMMA TypeStep == TypeOK /\ StepInv /\ PastInv /\ [Next]_vars => TypeOK'
<1> SUFFICES ASSUME TypeOK, StepInv, PastInv, [Next]_vars PROVE TypeOK'
    OBVIOUS
<1>1. RepoType' /\ LocalType'
    BY RepoStep, LocalStep
<1> QED
    BY <1>1 DEF TypeOK, RepoType, LocalType

-----------------------------------------------------------------------------
(* The work tree. *)

\* What a PC does, its sessions included.
StepOf(p) == Once(p) \/ Users(p) \/ Crash(p)

\* A commit of another PC changes no version a branch shows.
LEMMA TreesKept ==
    ASSUME TypeOK, PastInv, NEW p \in PCs, StepOf(p)
    PROVE  \A e \in 0 .. Len(commits) : Tree(e)' = Tree(e)
<1>1. CASE Commit(p) \/ RoundMerge(p)
    BY <1>1, Committed
<1>2. CASE UNCHANGED commits
    BY <1>2 DEF Tree
<1> QED
    BY <1>1, <1>2 DEF StepOf, Once, Users, ApplyDeferred, Record, Round, Network,
       DrainNothing, DrainDelete, DrainReplace, DrainWrite, DrainSave, Stage,
       CommitNothing, RoundUpToDate, RoundForward, Materialize, Apply, Fetch, Push,
       PushUnanswered, PushRejected, PushRefused, Offline, Edit, SessionSpeaks,
       SessionEnds, Crash

\* A step of p leaves the work tree and the decisions of q alone.
LEMMA OthersKeep ==
    ASSUME TypeOK, StepInv, PastInv, NEW p \in PCs, NEW q \in PCs, q # p, StepOf(p)
    PROVE  /\ Tree(head[q])' = Tree(head[q])
           /\ pc'[q] = pc[q] /\ disk'[q] = disk[q] /\ queue'[q] = queue[q]
           /\ index'[q] = index[q] /\ prev'[q] = prev[q] /\ todo'[q] = todo[q]
           /\ edited'[q] = edited[q] /\ (q \in astray' <=> q \in astray)
<1>0. Shapes
    BY ShapesOK
<1> USE <1>0 DEF Shapes
<1>1. pc'[q] = pc[q]
    BY DEF StepOf, Once, Users, ApplyDeferred, Record, Round, Network,
       DrainNothing, DrainDelete, DrainReplace, DrainWrite, DrainSave,
       Stage, Commit, AfterCommit, CommitNothing, RoundUpToDate,
       RoundForward, RoundMerge, Materialize, Apply, Fetch, Push,
       EndPass, PushUnanswered, PushRejected, PushRefused, Offline,
       Edit, SessionSpeaks, SessionEnds, Crash
<1>2. disk'[q] = disk[q]
    BY DEF StepOf, Once, Users, ApplyDeferred, Record, Round, Network,
       DrainNothing, DrainDelete, Decide, DrainReplace, DrainWrite,
       WriteFile, DrainSave, Stage, Commit, Observe, unstageQueued,
       AfterCommit, CommitNothing, RoundUpToDate, RoundForward, RoundMerge,
       Materialize, Apply, Fetch, Push, EndPass, PushUnanswered,
       PushRejected, PushRefused, Offline, Edit, SessionSpeaks, SessionEnds,
       Crash
<1>3. queue'[q] = queue[q] /\ index'[q] = index[q] /\ prev'[q] = prev[q]
    BY DEF StepOf, Once, Users, ApplyDeferred, Record, Round, Network,
       DrainNothing, DrainDelete, DrainReplace, DrainWrite, DrainSave, Stage,
       Commit, AfterCommit, CommitNothing, RoundUpToDate, RoundForward,
       RoundMerge, Materialize, Apply, Fetch, Push, EndPass, PushUnanswered,
       PushRejected, PushRefused, Offline, Edit, SessionSpeaks, SessionEnds,
       Crash
<1>4. edited'[q] = edited[q] /\ (q \in astray' <=> q \in astray)
    <2>1. edited'[q] = edited[q]
        BY DEF StepOf, Once, Users, ApplyDeferred, Record, Round, Network,
           DrainNothing, DrainDelete, Decide, DrainReplace, DrainWrite,
           WriteFile, DrainSave, Stage, Commit, Observe, unstageQueued,
           AfterCommit, CommitNothing, RoundUpToDate, RoundForward,
           RoundMerge, Materialize, Apply, Fetch, Push, EndPass,
           PushUnanswered, PushRejected, PushRefused, Offline, Edit,
           SessionSpeaks, SessionEnds, Crash
    <2>2. CASE DrainWrite(p) \/ Commit(p) \/ CommitNothing(p) \/ Crash(p)
        <3>1. \/ astray' = astray
              \/ astray' = astray \cup {p}
              \/ astray' = astray \ {p}
            BY <2>2 DEF DrainWrite, Commit, CommitNothing, Observe, Crash
        <3> QED
            BY <2>1, <3>1
    <2>3. CASE UNCHANGED astray
        BY <2>1, <2>3
    <2> QED
        BY <2>2, <2>3 DEF StepOf, Once, Users, ApplyDeferred, Record, Round,
           Network, DrainNothing, DrainDelete, DrainReplace, DrainSave,
           Stage, RoundUpToDate, RoundForward, RoundMerge, Materialize,
           Apply, Fetch, Push, PushUnanswered, PushRejected, PushRefused,
           Offline, Edit, SessionSpeaks, SessionEnds
<1>5. todo'[q] = todo[q]
    BY DEF StepOf, Once, Users, ApplyDeferred, Record, Round, Network,
       DrainNothing, DrainDelete, Decide, DrainReplace, DrainWrite,
       WriteFile, DrainSave, Stage, Commit, Observe, unstageQueued,
       AfterCommit, CommitNothing, RoundUpToDate, RoundForward, RoundMerge,
       Materialize, Apply, Fetch, Push, EndPass, PushUnanswered,
       PushRejected, PushRefused, Offline, Edit, SessionSpeaks, SessionEnds,
       Crash
<1>6. head'[q] = head[q]
    BY DEF StepOf, Once, Users, ApplyDeferred, Record, Round, Network,
       DrainNothing, DrainDelete, DrainReplace, DrainWrite, DrainSave, Stage,
       Commit, AfterCommit, CommitNothing, RoundUpToDate, RoundForward,
       RoundMerge, Materialize, Apply, Fetch, Push, EndPass, PushUnanswered,
       PushRejected, PushRefused, Offline, Edit, SessionSpeaks, SessionEnds,
       Crash
<1>7. Tree(head[q])' = Tree(head[q])
    <2>1. PICK c \in 0 .. Len(commits) : c = head[q]
        OBVIOUS
    <2>2. Tree(c)' = Tree(c)
        BY <2>1, TreesKept
    <2> QED
        BY <1>6, <2>1, <2>2 DEF Tree
<1> QED
    BY <1>1, <1>2, <1>3, <1>4, <1>5, <1>7

\* The branch of p shows what it showed when no commit moves it.
LEMMA TreeKept ==
    ASSUME TypeOK, NEW p \in PCs, UNCHANGED <<commits, head>>
    PROVE  Tree(head[p])' = Tree(head[p])
  BY DEF Tree

\* The drain's decision brings the file to the entry, or keeps a later edit.
LEMMA DrainShown ==
    ASSUME TypeOK, NEW p \in PCs, WorkTree(p), DrainDelete(p) \/ DrainReplace(p)
    PROVE  WorkTree(p)'
<1>1. Shapes
    BY ShapesOK
<1>2. PICK w \in BOOLEAN, v \in Contents, l \in BOOLEAN :
          /\ Decide(p, w, v, l, None)
          /\ ~w => ~untouched(p) /\ queue[p].want = Absent
          /\ w /\ ~l => v = queue[p].want
          /\ w /\ l => /\ ~untouched(p)
                       /\ disk[p] \in SUBSET Lines
                       /\ queue[p].want \in SUBSET Lines
                       /\ v \in reconcileLaterEdit(p)
    BY DrainDecides
<1>3. /\ pc'[p] = "drainWrite"
      /\ UNCHANGED <<repo, disk, queue, watched>>
      /\ pc[p] = "idle"
      /\ queue[p] # None
    BY <1>1 DEF DrainDelete, DrainReplace, Shapes
<1>4. Tree(head[p])' = Tree(head[p])
    BY <1>3, TreeKept
<1>5. /\ todo'[p].write = w /\ todo'[p].to = v /\ todo'[p].later = l
    BY <1>1, <1>2, DecideType
<1>6. Shown(p)
    BY <1>3 DEF WorkTree
<1>7. ~untouched(p) => disk[p] = Tree(head[p]) \/ Explained(p)
    BY <1>6 DEF untouched, Shown, AsQueued
<1>8. w /\ l /\ queue[p].want = Tree(head[p]) => v = Tree(head[p]) \/ Explained(p)
    BY <1>2, <1>7 DEF reconcileLaterEdit, mergeContent
<1>9. DrainDecision(p)'
    BY <1>2, <1>3, <1>4, <1>5, <1>7, <1>8 DEF DrainDecision, Explained
<1> QED
    BY <1>3, <1>4, <1>6, <1>9 DEF WorkTree, Shown, AsQueued, Explained

\* What the drain decided for a later edit keeps what it changed.
LEMMA DrainKeeps ==
    ASSUME TypeOK, NEW p \in PCs, DrainDelete(p) \/ DrainReplace(p)
    PROVE  todo'[p].write => KeepsLater(todo'[p].saw, queue[p], todo'[p].to)
<1>1. Shapes
    BY ShapesOK
<1>2. PICK w \in BOOLEAN, v \in Contents, l \in BOOLEAN :
          /\ Decide(p, w, v, l, None)
          /\ ~w => ~untouched(p) /\ queue[p].want = Absent
          /\ w /\ ~l => v = queue[p].want /\ (untouched(p) \/ disk[p] = Absent)
          /\ w /\ l => /\ ~untouched(p)
                       /\ disk[p] \in SUBSET Lines
                       /\ queue[p].want \in SUBSET Lines
                       /\ v \in reconcileLaterEdit(p)
    BY DrainDecides
<1>3. todo'[p].write = w /\ todo'[p].to = v /\ todo'[p].saw = disk[p]
    BY <1>1, <1>2, DecideType
<1>4. SUFFICES ASSUME w, disk[p] # Absent, queue[p].ours \notin {Absent, disk[p]}
               PROVE  /\ v # Absent
                      /\ \A x \in Lines : (x \in disk[p]) # (x \in queue[p].ours) =>
                            (x \in v) = (x \in disk[p])
    BY <1>3 DEF KeepsLater
<1>5. l
    BY <1>2, <1>3, <1>4 DEF untouched
<1>6. \/ v = disk[p]
      \/ v = MergeFile(queue[p].ours, disk[p], queue[p].want)
    BY <1>2, <1>3, <1>4, <1>5 DEF reconcileLaterEdit, mergeContent, Text
<1>7. CASE v = disk[p]
    BY <1>4, <1>7
<1>8. CASE v = MergeFile(queue[p].ours, disk[p], queue[p].want)
    <2>1. v \in SUBSET Lines
        BY <1>8 DEF MergeFile
    <2> QED
        BY <1>8, <2>1, SyncAssumption DEF MergeFile
<1> QED
    BY <1>6, <1>7, <1>8

\* Each step of p keeps what explains its work tree.
LEMMA OwnWorkTree ==
    ASSUME TypeOK, StepInv, PastInv, NEW p \in PCs, WorkTree(p), StepOf(p)
    PROVE  WorkTree(p)'
<1>0. Shapes /\ NoneAssumption
    BY ShapesOK, NoneAssumption
<1>1. UNCHANGED <<commits, head>> => Tree(head[p])' = Tree(head[p])
    BY TreeKept
<1>2. CASE DrainDelete(p) \/ DrainReplace(p)
    BY <1>2, DrainShown
<1>3. CASE DrainNothing(p)
    BY <1>0, <1>1, <1>3 DEF DrainNothing, Shapes, WorkTree, Shown, Explained, AsQueued
<1>4. CASE DrainWrite(p)
    <2>1. /\ pc[p] = "drainWrite" /\ pc'[p] = "drainSave"
          /\ UNCHANGED <<repo, queue>>
          /\ Tree(head[p])' = Tree(head[p])
        BY <1>0, <1>1, <1>4 DEF DrainWrite, Shapes
    <2>2. DrainDecision(p)
        BY <2>1 DEF WorkTree
    <2>3. disk'[p] = Tree(head[p]) \/ Explained(p)'
        <3>1. CASE todo[p].write
            BY <1>0, <1>4, <2>2, <3>1 DEF DrainWrite, WriteFile, DrainDecision, Explained, Shapes
        <3>2. CASE ~todo[p].write
            BY <1>4, <2>2, <3>2 DEF DrainWrite, DrainDecision, Explained
        <3> QED
            BY <3>1, <3>2
    <2> QED
        BY <2>1, <2>3 DEF WorkTree, Shown
<1>5. CASE DrainSave(p)
    BY <1>0, <1>1, <1>5 DEF DrainSave, Shapes, WorkTree, Shown, Explained, AsQueued
<1>6. CASE Stage(p)
    BY <1>0, <1>1, <1>6 DEF Stage, Shapes, WorkTree, Shown, Explained, AsQueued
<1>7. CASE RoundUpToDate(p) \/ Fetch(p) \/ Push(p) \/ PushUnanswered(p)
           \/ PushRejected(p) \/ PushRefused(p) \/ Offline(p)
    BY <1>0, <1>1, <1>7 DEF RoundUpToDate, Fetch, Push, PushUnanswered, PushRejected,
       PushRefused, Offline, EndPass, Shapes, WorkTree, Shown, Explained, AsQueued
<1>8. CASE SessionSpeaks(p) \/ SessionEnds(p)
    BY <1>0, <1>1, <1>8 DEF SessionSpeaks, SessionEnds, Shapes, WorkTree, Shown,
       Explained, AsQueued, DrainDecision, MergeDecision
<1>9. ASSUME NEW v \in Contents, Edit(p, v) PROVE WorkTree(p)'
    BY <1>0, <1>1, <1>9 DEF Edit, WriteFile, Shapes, WorkTree, Shown, Explained,
       DrainDecision, MergeDecision
<1>10. CASE Crash(p)
    BY <1>0, <1>1, <1>10 DEF Crash, EndPass, Shapes, WorkTree, Shown, Explained, AsQueued
<1>11. CASE RoundForward(p) \/ RoundMerge(p)
    BY <1>0, <1>11 DEF RoundForward, RoundMerge, Shapes, WorkTree, Shown, Explained, AsQueued
<1>12. CASE Apply(p)
    <2>1. /\ pc[p] = "apply" /\ pc'[p] = "stage"
          /\ Tree(head[p])' = Tree(head[p])
        BY <1>0, <1>1, <1>12 DEF Apply, Shapes
    <2>2. MergeDecision(p)
        BY <2>1 DEF WorkTree
    <2>3. Shown(p)'
        BY <1>0, <1>12, <2>1, <2>2 DEF Apply, WriteFile, MergeDecision, Shown,
           Explained, AsQueued, Shapes
    <2> QED
        BY <2>1, <2>3 DEF WorkTree
<1>13. CASE CommitNothing(p)
    <2>1. /\ pc[p] = "commit"
          /\ pc'[p] \in {"fetch", "push"}
          /\ Tree(head[p])' = Tree(head[p])
          /\ UNCHANGED <<disk, queue>>
          /\ Observe(p, Tree(head[p]))
        BY <1>0, <1>1, <1>13 DEF CommitNothing, Shapes, AfterCommit
    <2>2. Shown(p)
        BY <2>1 DEF WorkTree
    <2>3. Shown(p)'
        BY <1>0, <2>1, <2>2 DEF Observe, Settled, Shown, Explained, AsQueued, Shapes
    <2> QED
        BY <2>1, <2>3 DEF WorkTree
<1>14. CASE Commit(p)
    <2>1. PICK n \in Nat, v \in Contents :
              Tree(n)' = v /\ head' = [head EXCEPT ![p] = n] /\ v = unstageQueued(p)
        BY <1>14, Committed
    <2>2. Tree(head[p])' = v
        BY <1>0, <2>1 DEF Shapes, Tree
    <2>3. /\ pc[p] = "commit"
          /\ pc'[p] \in {"fetch", "push"}
          /\ UNCHANGED <<disk, queue>>
          /\ Observe(p, v)
          /\ v # Tree(head[p])
        BY <1>0, <1>14, <2>1 DEF Commit, Shapes, AfterCommit
    <2>4. queue[p] = None /\ v = index[p]
        BY <2>1, <2>3 DEF unstageQueued
    <2>5. disk[p] = v \/ edited[p]
        BY <2>3, <2>4 DEF WorkTree
    <2>6. Shown(p)'
        BY <1>0, <2>2, <2>3, <2>4, <2>5 DEF Observe, Settled, Shown, Explained, Shapes
    <2> QED
        BY <2>3, <2>6 DEF WorkTree
<1>15. CASE Materialize(p)
    <2>1. /\ pc[p] = "materialize" /\ pc'[p] = "apply"
          /\ Tree(head[p])' = Tree(head[p])
          /\ UNCHANGED <<disk, queue, watched>>
        BY <1>0, <1>1, <1>15 DEF Materialize, Shapes
    <2>2. disk[p] = prev[p] \/ Explained(p) \/ AsQueued(p, queue[p])
        BY <2>1 DEF WorkTree
    <2>3. MergeDecision(p)'
        <3> DEFINE v == Tree(head[p])
                   change == IF v = Absent THEN prev[p] # Absent ELSE disk[p] # v
                   entry == [want |-> v, ours |-> disk[p]]
        <3>1. v \in Contents /\ entry \in Entries
            <4>1. v \in Contents
                BY <1>0, TreeType DEF Shapes
            <4> QED
                BY <1>0, <4>1 DEF Shapes, Entries
        <3>2. CASE ~change
            <4>1. Decide(p, FALSE, v, FALSE, None)
                BY <1>15, <3>2 DEF Materialize
            <4>2. ~todo'[p].write /\ todo'[p].defer = None
                <5>1. \A w, l \in BOOLEAN, x \in Contents, e \in {None} \cup Entries :
                          Decide(p, w, x, l, e) => todo'[p].write = w /\ todo'[p].defer = e
                    BY <1>0, DecideType
                <5> HIDE DEF v, entry
                <5> QED
                    BY <3>1, <4>1, <5>1
            <4>3. disk[p] = v \/ Explained(p) \/ AsQueued(p, queue[p])
                <5>1. disk[p] = prev[p] \/ Explained(p) \/ AsQueued(p, queue[p])
                    BY <2>2
                <5>2. v = Absent => prev[p] = Absent
                    BY <3>2
                <5>3. v # Absent => disk[p] = v
                    BY <3>2
                <5> QED
                    BY <5>1, <5>2, <5>3
            <4> QED
                BY <2>1, <4>2, <4>3 DEF MergeDecision, Explained, AsQueued
        <3>3. CASE change /\ blocked(p, v)
            <4>1. Decide(p, FALSE, v, FALSE, entry)
                BY <1>15, <3>3 DEF Materialize
            <4>2. ~todo'[p].write /\ todo'[p].defer = entry
                <5>1. \A w, l \in BOOLEAN, x \in Contents, e \in {None} \cup Entries :
                          Decide(p, w, x, l, e) => todo'[p].write = w /\ todo'[p].defer = e
                    BY <1>0, DecideType
                <5> HIDE DEF v, entry
                <5> QED
                    BY <3>1, <4>1, <5>1
            <4>3. entry # None /\ entry.ours = disk[p]
                BY <1>0, <3>1
            <4>4. disk[p] = v \/ disk[p] # Absent
                BY <3>3 DEF blocked
            <4> QED
                BY <2>1, <4>2, <4>3, <4>4 DEF MergeDecision, Explained, AsQueued
        <3>4. CASE change /\ ~blocked(p, v)
            <4>1. Decide(p, TRUE, v, FALSE, None)
                BY <1>15, <3>4 DEF Materialize
            <4>2. todo'[p].to = v /\ todo'[p].defer = None /\ todo'[p].write
                BY <1>0, <4>1 DEF Decide, Shapes
            <4> QED
                BY <2>1, <4>2 DEF MergeDecision
        <3> QED
            BY <3>2, <3>3, <3>4
    <2> QED
        BY <2>1, <2>3 DEF WorkTree
<1> QED
    BY <1>2, <1>3, <1>4, <1>5, <1>6, <1>7, <1>8, <1>9, <1>10, <1>11, <1>12, <1>13,
       <1>14, <1>15 DEF StepOf, Once, Users, ApplyDeferred, Record, Round, Network


\* Every step keeps what explains the work trees.
LEMMA WorkTreeStep == TypeOK /\ StepInv /\ PastInv /\ WorkTreeInv /\ [Next]_vars => WorkTreeInv'
<1> SUFFICES ASSUME TypeOK, StepInv, PastInv, WorkTreeInv, [Next]_vars,
                    NEW q \in PCs
             PROVE  WorkTree(q)'
    BY DEF WorkTreeInv
<1>1. WorkTree(q)
    BY DEF WorkTreeInv
<1>2. ASSUME NEW p \in PCs, StepOf(p) PROVE WorkTree(q)'
    <2>1. CASE p = q
        BY <1>1, <1>2, <2>1, OwnWorkTree
    <2>2. CASE p # q
        <3>1. /\ Tree(head[q])' = Tree(head[q])
              /\ pc'[q] = pc[q] /\ disk'[q] = disk[q] /\ queue'[q] = queue[q]
              /\ index'[q] = index[q] /\ prev'[q] = prev[q] /\ todo'[q] = todo[q]
              /\ edited'[q] = edited[q] /\ (q \in astray' <=> q \in astray)
            BY <1>2, <2>2, OthersKeep
        <3> QED
            BY <1>1, <3>1 DEF WorkTree, Shown, Explained, AsQueued, DrainDecision, MergeDecision
    <2> QED
        BY <2>1, <2>2
<1>3. CASE UNCHANGED vars
    BY <1>1, <1>3 DEF vars, WorkTree, Shown, Explained, AsQueued, DrainDecision,
       MergeDecision, Tree
<1> QED
    BY <1>2, <1>3 DEF Next, StepOf

\* Every step keeps the later edits in the drain's decisions.
LEMMA LaterStep == TypeOK /\ StepInv /\ PastInv /\ LaterInv /\ [Next]_vars => LaterInv'
<1> SUFFICES ASSUME TypeOK, StepInv, PastInv, LaterInv, [Next]_vars,
                    NEW q \in PCs, pc'[q] = "drainWrite", todo'[q].write
             PROVE  KeepsLater(todo'[q].saw, queue'[q], todo'[q].to)
    BY DEF LaterInv, KeepsLater
<1>0. Shapes
    BY ShapesOK
<1>1. ASSUME pc[q] = "drainWrite", todo'[q] = todo[q], queue'[q] = queue[q]
      PROVE  KeepsLater(todo'[q].saw, queue'[q], todo'[q].to)
    BY <1>1 DEF LaterInv
<1>2. ASSUME NEW p \in PCs, StepOf(p), p # q
      PROVE  KeepsLater(todo'[q].saw, queue'[q], todo'[q].to)
    BY <1>1, <1>2, OthersKeep
<1>3. CASE DrainDelete(q) \/ DrainReplace(q)
    <2>1. UNCHANGED queue
        BY <1>3 DEF DrainDelete, DrainReplace
    <2> QED
        BY <1>3, <2>1, DrainKeeps
<1>4. CASE (\E v \in Contents : Edit(q, v)) \/ SessionSpeaks(q) \/ SessionEnds(q)
    BY <1>1, <1>4 DEF Edit, SessionSpeaks, SessionEnds
<1>5. CASE UNCHANGED vars
    BY <1>1, <1>5 DEF vars
<1>6. CASE \/ DrainNothing(q) \/ DrainWrite(q) \/ DrainSave(q) \/ Record(q)
           \/ Round(q) \/ Network(q) \/ Crash(q)
    BY <1>0, <1>6 DEF Shapes, Record, Round, Network, DrainNothing, DrainWrite, DrainSave,
       Stage, Commit, CommitNothing, AfterCommit, RoundUpToDate, RoundForward, RoundMerge,
       Materialize, Apply, Fetch, Push, PushUnanswered, PushRejected, PushRefused,
       Offline, Crash, EndPass
<1> QED
    BY <1>2, <1>3, <1>4, <1>5, <1>6 DEF Next, StepOf, Once, Users, ApplyDeferred

-----------------------------------------------------------------------------
(* The theorems. *)

\* The invariant holds at the start: no commit, no queue, no pass.
LEMMA InitIInv == Init => IInv
<1> SUFFICES ASSUME Init PROVE IInv
    OBVIOUS
<1>1. commits = <<>> /\ Len(commits) = 0
    BY DEF Init
<1>2. RepoType
    BY <1>1 DEF Init, RepoType
<1>3. LocalType
    BY SyncAssumption DEF Init, LocalType, Contents, Steps, Sessions
<1>4. StepInv /\ LaterInv
    BY DEF Init, StepInv, LaterInv
<1>5. PastInv
    BY <1>1 DEF PastInv
<1>6. WorkTreeInv
    BY DEF Init, WorkTreeInv, WorkTree, Shown, Explained, Tree
<1> QED
    BY <1>2, <1>3, <1>4, <1>5, <1>6, TypeParts DEF IInv

\* Every step keeps the invariant.
LEMMA NextIInv == IInv /\ [Next]_vars => IInv'
  BY TypeStep, StepStep, PastStep, WorkTreeStep, LaterStep DEF IInv

\* The invariant holds throughout.
LEMMA AlwaysIInv == Spec => []IInv
  BY InitIInv, NextIInv, PTL DEF Spec

\* The state of every pass, queue and branch has its type (the attempts of a
\* push loop never exceed MaxPushAttempts).
THEOREM SyncTypeCorrect == Spec => []TypeOK
<1>1. IInv => TypeOK
    BY DEF IInv
<1> QED
    BY <1>1, AlwaysIInv, PTL

\* The history of every PC and of the hub only grows: no merge, race or lost
\* answer makes a commit unreachable.
THEOREM HistoryIsNeverLost == Spec => HistoryOnlyGrows
<1> DEFINE Grows == /\ \A p \in PCs : Past(head[p]) \subseteq Past(head[p])'
                    /\ Past(hub) \subseteq Past(hub)'
<1>1. IInv /\ [Next]_vars => [Grows]_vars
    <2> SUFFICES ASSUME IInv, [Next]_vars PROVE Grows \/ UNCHANGED vars
        OBVIOUS
    <2>1. TypeOK /\ PastInv /\ Shapes
        BY ShapesOK DEF IInv
    <2>2. hub \in 0 .. Len(commits) /\ tracking \in [PCs -> 0 .. Len(commits)]
        BY <2>1 DEF TypeOK
    <2>3. ASSUME NEW p \in PCs, Commit(p) \/ RoundMerge(p) PROVE Grows
        <3>1. PICK n \in Nat \ {0}, d \in {head[p], tracking[p]} :
                  /\ \A e \in 0 .. Len(commits) : Past(e)' = Past(e)
                  /\ Past(n)' = {n} \cup Past(head[p]) \cup Past(d)
                  /\ head' = [head EXCEPT ![p] = n]
            BY <2>1, <2>3, Committed
        <3>2. UNCHANGED hub
            BY <2>3 DEF Commit, RoundMerge
        <3>3. Past(hub)' = Past(hub)
            <4>1. PICK h \in 0 .. Len(commits) : h = hub
                BY <2>2
            <4>2. Past(h)' = Past(h)
                BY <3>1
            <4> QED
                BY <3>2, <4>1, <4>2 DEF Past
        <3>4. ASSUME NEW q \in PCs PROVE Past(head[q]) \subseteq Past(head[q])'
            <4>1. CASE q = p
                <5>1. Past(head[p])' = Past(n)'
                    BY <2>1, <3>1 DEF Shapes, Past
                <5> QED
                    BY <3>1, <4>1, <5>1
            <4>2. CASE q # p
                <5>1. PICK h \in 0 .. Len(commits) : h = head[q]
                    BY <2>1 DEF Shapes
                <5>2. Past(h)' = Past(h) /\ head'[q] = h
                    BY <2>1, <3>1, <4>2, <5>1 DEF Shapes
                <5> QED
                    BY <5>1, <5>2 DEF Past
            <4> QED
                BY <4>1, <4>2
        <3> QED
            BY <3>3, <3>4
    <2>4. ASSUME UNCHANGED commits,
                 \A q \in PCs : head'[q] = head[q] \/ Past(head[q]) \subseteq Past(head'[q]),
                 hub' = hub \/ Past(hub) \subseteq Past(hub')
          PROVE  Grows
        BY <2>4 DEF Past
    <2>5. ASSUME NEW c \in 0 .. Len(commits), NEW d \in 0 .. Len(commits),
                 c = 0 \/ isAncestor(c, d)
          PROVE  Past(c) \subseteq Past(d)
        <3>1. CASE c = 0
            BY <3>1 DEF Past
        <3>2. CASE c \in Past(d)
            BY <2>1, <3>2 DEF PastInv, Past, Shapes
        <3> QED
            BY <2>5, <3>1, <3>2 DEF isAncestor
    <2>6. ASSUME NEW p \in PCs, RoundForward(p) PROVE Grows
        <3>1. /\ UNCHANGED <<commits, hub>>
              /\ head' = [head EXCEPT ![p] = tracking[p]]
              /\ head[p] = 0 \/ isAncestor(head[p], tracking[p])
            BY <2>6 DEF RoundForward
        <3>2. Past(head[p]) \subseteq Past(tracking[p])
            BY <2>1, <2>2, <2>5, <3>1 DEF Shapes
        <3> QED
            BY <2>1, <2>4, <3>1, <3>2 DEF Shapes
    <2>7. ASSUME NEW p \in PCs, Push(p) \/ PushUnanswered(p) PROVE Grows
        <3>1. /\ UNCHANGED <<commits, head>>
              /\ hub' = head[p]
              /\ hub = 0 \/ isAncestor(hub, head[p])
            BY <2>7 DEF Push, PushUnanswered, CanPush
        <3>2. Past(hub) \subseteq Past(head[p])
            BY <2>1, <2>2, <2>5, <3>1 DEF Shapes
        <3> QED
            BY <2>4, <3>1, <3>2
    <2>8. CASE UNCHANGED <<commits, head, hub>>
        BY <2>4, <2>8
    <2> QED
        BY <2>3, <2>6, <2>7, <2>8 DEF Next, Once, Users, ApplyDeferred, Record, Round,
           Network, vars, DrainNothing, DrainDelete, DrainReplace, DrainWrite, DrainSave,
           Stage, CommitNothing, RoundUpToDate, Materialize, Apply, Fetch,
           PushRejected, PushRefused, Offline, Edit, SessionSpeaks, SessionEnds, Crash
<1> QED
    BY <1>1, AlwaysIInv, PTL DEF Spec, HistoryOnlyGrows

\* A pass commits only what a session of its PC wrote, outside the two windows.
THEOREM OnlyLocalEditsAreCommitted == Spec => CommitsOnlyLocalEdits
<1> DEFINE Local == \A p \in PCs : Commit(p) => edited[p] \/ p \in astray
<1>1. IInv /\ [Next]_vars => [Local]_vars
    <2> SUFFICES ASSUME IInv, NEW p \in PCs, Commit(p) PROVE edited[p] \/ p \in astray
        OBVIOUS
    <2>1. WorkTree(p)
        BY DEF IInv, WorkTreeInv
    <2>2. pc[p] = "commit" /\ unstageQueued(p) # Tree(head[p])
        BY DEF Commit
    <2>3. queue[p] = None /\ index[p] # Tree(head[p])
        BY <2>2 DEF unstageQueued
    <2> QED
        BY <2>1, <2>2, <2>3 DEF WorkTree, Shown, Explained, AsQueued
<1> QED
    BY <1>1, AlwaysIInv, PTL DEF Spec, CommitsOnlyLocalEdits

\* What a session changed after a change was queued survives the drain.
THEOREM TheLaterEditSurvives == Spec => LaterEditSurvives
<1> DEFINE Survives ==
        \A p \in PCs :
          /\ DrainWrite(p)
          /\ disk[p] = todo[p].saw
          /\ disk[p] # Absent
          /\ queue[p].ours \notin {Absent, disk[p]}
          => /\ disk'[p] # Absent
             /\ \A l \in Lines : (l \in disk[p]) # (l \in queue[p].ours)
                                 => (l \in disk'[p]) = (l \in disk[p])
<1>1. IInv /\ [Next]_vars => [Survives]_vars
    <2> SUFFICES ASSUME IInv, NEW p \in PCs, DrainWrite(p), disk[p] = todo[p].saw,
                        disk[p] # Absent, queue[p].ours \notin {Absent, disk[p]}
                 PROVE  /\ disk'[p] # Absent
                        /\ \A l \in Lines : (l \in disk[p]) # (l \in queue[p].ours)
                                 => (l \in disk'[p]) = (l \in disk[p])
        OBVIOUS
    <2>1. Shapes /\ LaterInv /\ pc[p] = "drainWrite"
        BY ShapesOK DEF IInv, DrainWrite
    <2>2. CASE todo[p].write
        <3>1. KeepsLater(todo[p].saw, queue[p], todo[p].to)
            BY <2>1, <2>2 DEF LaterInv
        <3>2. disk'[p] = todo[p].to
            BY <2>1, <2>2 DEF DrainWrite, WriteFile, Shapes
        <3> QED
            BY <3>1, <3>2 DEF KeepsLater
    <2>3. CASE ~todo[p].write
        BY <2>3 DEF DrainWrite
    <2> QED
        BY <2>2, <2>3
<1> QED
    BY <1>1, AlwaysIInv, PTL DEF Spec, LaterEditSurvives
=============================================================================
