------------------------------ MODULE Watcher ------------------------------
(***************************************************************************)
(* What one PC does to get a session's writes into its history: the write  *)
(* gate that runs after every write of a store's index, the `sync --once`  *)
(* of every session's start and end, and the resident watcher, which wakes *)
(* on the dirty marker.  All of them take the per-PC lock (PerPcLock) and  *)
(* skip when it is held; none waits.  A hook is killed at its timeout.     *)
(*                                                                         *)
(* A version of the store is the set of the changes it has.  What a merge  *)
(* does to a file is StoreSync's.                                          *)
(***************************************************************************)
EXTENDS Naturals

CONSTANTS
    Sessions,   \* working in the store
    Writes,     \* the fact-file writes they may make
    HubChanges, \* changes of other PCs that wait on the hub
    Watch,      \* the watcher
    Free, Dead, \* nobody holds the lock; its holder is dead
    MaxDeaths

VARIABLES
    tree,       \* the changes in the store's files
    git,        \* those in the git index
    history,    \* those at HEAD
    stranded,   \* merged changes the files never got: a pass died before it materialized them
    marker,     \* the dirty marker is there
    woken,      \* an event of the marker waits for the watcher
    retry,      \* the watcher will try again: it found the lock held
    holder,     \* of the per-PC lock
    session,    \* away, here, or at a step of the gate that its write runs
    pass,       \* step of every pass; off: there is no watcher
    deaths,
    promised    \* uncommitted changes the marker was put down for, without those that came
                \* too late for the stage of the pass that removed it

vars == <<tree, git, history, stranded, marker, woken, retry, holder, session, pass, deaths,
          promised>>
store  == <<tree, git, history, stranded>>
wakeup == <<marker, woken, promised>>

Hooks  == Sessions \X {"start", "end"}
Passes == Hooks \cup {Watch}
Gates  == {"gate", "floor", "mark", "acquire", "stage", "commit"}
Steps  == {"ready", "derive", "stage", "commit", "clear", "network", "materialize",
           "restage", "recommit"}

TypeOK ==
    /\ tree \subseteq Writes \cup HubChanges
    /\ git \subseteq tree /\ history \subseteq tree \cup HubChanges
    /\ stranded \subseteq HubChanges
    /\ marker \in BOOLEAN /\ woken \in BOOLEAN /\ retry \in BOOLEAN
    /\ holder \in Sessions \cup Passes \cup {Free, Dead}
    /\ session \in [Sessions -> {"away", "here"} \cup Gates]
    /\ pass \in [Passes -> {"idle", "off"} \cup Steps]
    /\ deaths \in 0..MaxDeaths
    /\ promised \subseteq tree

Init ==
    /\ tree = {} /\ git = {} /\ history = {} /\ stranded = {}
    /\ marker = FALSE /\ woken = FALSE /\ retry = FALSE
    /\ holder = Free /\ deaths = 0
    /\ session = [s \in Sessions |-> "away"]
    /\ pass = [p \in Passes |-> IF p = Watch THEN "off" ELSE "idle"]
    /\ promised = {}

Moves(s, to) == session' = [session EXCEPT ![s] = to]
Goes(p, to)  == pass' = [pass EXCEPT ![p] = to]

\* Any change of the marker is an event; one that waits says what the next would.
Event == woken' = (woken \/ pass[Watch] # "off")

MarkDirty == marker' = TRUE /\ promised' = tree \ history /\ Event

ClearDirty == /\ marker' = FALSE /\ promised' = promised \cap git
              /\ IF marker THEN Event ELSE UNCHANGED woken

Stage == git' = tree /\ UNCHANGED <<tree, history, stranded>>
Commit == /\ history' = git /\ promised' = promised \ git
          /\ UNCHANGED <<tree, git, stranded, marker, woken>>

----------------------------------------------------------------------------
(* The sessions.  A start spawns a pass and, when none runs, the watcher.   *)

Start(s) ==
    /\ session[s] = "away" /\ \A k \in {"start", "end"} : pass[<<s, k>>] = "idle"
    /\ Moves(s, "here")
    /\ pass' = [pass EXCEPT ![<<s, "start">>] = "ready",
                            ![Watch] = IF @ = "off" THEN "idle" ELSE @]
    /\ UNCHANGED <<store, wakeup, retry, holder, deaths>>

WriteFact(s, w) ==
    /\ session[s] = "here" /\ w \notin tree
    /\ tree' = tree \cup {w}
    /\ UNCHANGED <<git, history, stranded, wakeup, retry, holder, session, pass, deaths>>

\* The index is written: the hook runs, and the session waits for it.
WriteIndex(s) ==
    /\ session[s] = "here" /\ Moves(s, "gate")
    /\ UNCHANGED <<store, wakeup, retry, holder, pass, deaths>>

End(s) ==
    /\ session[s] = "here" /\ pass[<<s, "end">>] = "idle"
    /\ Moves(s, "away") /\ Goes(<<s, "end">>, "ready")
    /\ UNCHANGED <<store, wakeup, retry, holder, deaths>>

----------------------------------------------------------------------------
(* The gate: evaluate, then markAndCommit. *)

\* An index within its limits needs no lock; with one that is not, a contender skips.
EvaluateQuietly(s) ==
    /\ session[s] = "gate" /\ Moves(s, "mark")
    /\ UNCHANGED <<store, wakeup, retry, holder, pass, deaths>>

EvaluateLocked(s) ==
    /\ session[s] = "gate" /\ holder = Free
    /\ holder' = s /\ Moves(s, "floor")
    /\ UNCHANGED <<store, wakeup, retry, pass, deaths>>

FloorDone(s) ==
    /\ session[s] = "floor" /\ holder' = Free /\ Moves(s, "mark")
    /\ UNCHANGED <<store, wakeup, retry, pass, deaths>>

\* Mutant: the marker is left to whoever holds the lock.
MarkUnlessHeld(s) ==
    /\ session[s] = "mark" /\ Moves(s, "acquire")
    /\ IF holder = Free THEN MarkDirty ELSE promised' = tree \ history /\ UNCHANGED <<marker, woken>>
    /\ UNCHANGED <<store, retry, holder, pass, deaths>>

Mark(s) ==
    /\ session[s] = "mark" /\ MarkDirty /\ Moves(s, "acquire")
    /\ UNCHANGED <<store, retry, holder, pass, deaths>>

GateAcquire(s) ==
    /\ session[s] = "acquire"
    /\ IF holder = Free THEN holder' = s /\ Moves(s, "stage")
                        ELSE Moves(s, "here") /\ UNCHANGED holder
    /\ UNCHANGED <<store, wakeup, retry, pass, deaths>>

\* With nothing staged there is nothing to commit.
GateStage(s) ==
    /\ session[s] = "stage" /\ Stage
    /\ IF tree = history THEN Moves(s, "here") /\ holder' = Free
                         ELSE Moves(s, "commit") /\ UNCHANGED holder
    /\ UNCHANGED <<wakeup, retry, pass, deaths>>

GateCommit(s) ==
    /\ session[s] = "commit" /\ Moves(s, "here") /\ holder' = Free
    /\ Commit
    /\ UNCHANGED <<retry, pass, deaths>>

GateCommitFails(s) ==
    /\ session[s] \in {"stage", "commit"} /\ Moves(s, "here") /\ holder' = Free
    /\ UNCHANGED <<store, wakeup, retry, pass, deaths>>

----------------------------------------------------------------------------
(* The watcher between its passes. *)

\* A marker that was removed is a pass's doing, not new work.
Wake ==
    /\ pass[Watch] = "idle" /\ woken /\ woken' = FALSE
    /\ IF marker THEN Goes(Watch, "ready") ELSE UNCHANGED pass
    /\ UNCHANGED <<store, marker, promised, retry, holder, session, deaths>>

Retry ==
    /\ pass[Watch] = "idle" /\ retry
    /\ IF marker THEN Goes(Watch, "ready") /\ UNCHANGED retry
                 ELSE retry' = FALSE /\ UNCHANGED pass
    /\ UNCHANGED <<store, wakeup, holder, session, deaths>>

RemoteMoved ==
    /\ pass[Watch] = "idle" /\ Goes(Watch, "ready")
    /\ UNCHANGED <<store, wakeup, retry, holder, session, deaths>>

\* No transcript was written for a while, nothing to do, or a stop request.
Exit ==
    /\ pass[Watch] = "idle" /\ Goes(Watch, "off")
    /\ woken' = FALSE /\ retry' = FALSE
    /\ UNCHANGED <<store, marker, promised, holder, session, deaths>>

----------------------------------------------------------------------------
(* A pass. *)

\* Mutant: a hook's pass has nothing to do when there is no marker.
AcquireIfMarked(p) ==
    /\ pass[p] = "ready"
    /\ IF holder = Free /\ (marker \/ p = Watch)
       THEN holder' = p /\ Goes(p, "derive") /\ UNCHANGED retry
       ELSE Goes(p, "idle") /\ retry' = (retry \/ p = Watch) /\ UNCHANGED holder
    /\ UNCHANGED <<store, wakeup, session, deaths>>

\* Mutant: the watcher's pass takes no lock.
AcquireNothing(p) ==
    /\ pass[p] = "ready"
    /\ IF holder = Free \/ p = Watch
       THEN holder' = p /\ Goes(p, "derive") /\ UNCHANGED retry
       ELSE Goes(p, "idle") /\ UNCHANGED <<retry, holder>>
    /\ UNCHANGED <<store, wakeup, session, deaths>>

Acquire(p) ==
    /\ pass[p] = "ready"
    /\ IF holder = Free
       THEN holder' = p /\ Goes(p, "derive") /\ UNCHANGED retry
       ELSE Goes(p, "idle") /\ retry' = (retry \/ p = Watch) /\ UNCHANGED holder
    /\ UNCHANGED <<store, wakeup, session, deaths>>

\* An index that derive rewrote is dirty.
Derive(p) ==
    /\ pass[p] = "derive" /\ Goes(p, "stage")
    /\ MarkDirty \/ UNCHANGED wakeup
    /\ UNCHANGED <<store, retry, holder, session, deaths>>

PassStage(p) ==
    /\ pass[p] = "stage" /\ Stage /\ Goes(p, "commit")
    /\ UNCHANGED <<wakeup, retry, holder, session, deaths>>

PassCommit(p) ==
    /\ pass[p] = "commit" /\ Commit /\ Goes(p, "clear")
    /\ UNCHANGED <<retry, holder, session, deaths>>

Over(p) == /\ Goes(p, "idle") /\ holder' = Free
           /\ retry' = (retry /\ p # Watch)
           /\ UNCHANGED <<session, deaths>>

\* Mutant: the marker goes all the same.
PassCommitFailsCleared(p) ==
    pass[p] = "commit" /\ Over(p) /\ ClearDirty /\ UNCHANGED store

\* A commit that fails ends the pass: the marker stays.
PassCommitFails(p) ==
    pass[p] = "commit" /\ Over(p) /\ UNCHANGED <<store, wakeup>>

Clear(p) ==
    /\ pass[p] = "clear" /\ ClearDirty /\ Goes(p, "network")
    /\ UNCHANGED <<store, retry, holder, session, deaths>>

\* The hub's changes are merged into the branch; the files have yet to follow.
Merge(p) ==
    /\ pass[p] = "network" /\ ~(HubChanges \subseteq history \cup stranded)
    /\ Goes(p, "materialize")
    /\ history' = history \cup (HubChanges \ stranded)
    /\ UNCHANGED <<tree, git, stranded, wakeup, retry, holder, session, deaths>>

\* The derive that follows may leave the store dirty again.
Materialize(p) ==
    /\ pass[p] = "materialize" /\ Goes(p, "restage")
    /\ tree' = tree \cup (HubChanges \ stranded)
    /\ git' = git \cup (HubChanges \ stranded)
    /\ \/ marker' = TRUE /\ promised' = tree' \ history /\ Event
       \/ UNCHANGED wakeup
    /\ UNCHANGED <<history, stranded, retry, holder, session, deaths>>

Restage(p) ==
    /\ pass[p] = "restage" /\ Stage /\ Goes(p, "recommit")
    /\ UNCHANGED <<wakeup, retry, holder, session, deaths>>

Recommit(p) == pass[p] = "recommit" /\ Over(p) /\ (Commit \/ UNCHANGED <<store, wakeup>>)

\* No hub, no answer, or nothing to merge.
Offline(p) == pass[p] = "network" /\ Over(p) /\ UNCHANGED <<store, wakeup>>

----------------------------------------------------------------------------
(* A process dies at any step; a dead holder's lock is taken over. *)

Dies(x) == /\ deaths < MaxDeaths /\ deaths' = deaths + 1
           /\ holder' = IF holder = x THEN Dead ELSE holder
           /\ UNCHANGED <<tree, git, history>>

Strands(p) == stranded' = IF pass[p] = "materialize" THEN stranded \cup (HubChanges \ tree)
                                                     ELSE stranded

GateDies(s) == /\ session[s] \in Gates /\ Dies(s) /\ Moves(s, "here")
               /\ UNCHANGED <<stranded, wakeup, retry, pass>>
HookDies(h) == /\ pass[h] \in Steps /\ Dies(h) /\ Strands(h) /\ Goes(h, "idle")
               /\ UNCHANGED <<wakeup, retry, session>>
WatchDies   == /\ pass[Watch] # "off" /\ Dies(Watch) /\ Strands(Watch)
               /\ Goes(Watch, "off")
               /\ woken' = FALSE /\ retry' = FALSE
               /\ UNCHANGED <<marker, promised, session>>

TakenOver == /\ holder = Dead /\ holder' = Free
             /\ UNCHANGED <<store, wakeup, retry, session, pass, deaths>>

----------------------------------------------------------------------------
Gate(s) == \/ EvaluateQuietly(s) \/ EvaluateLocked(s) \/ FloorDone(s) \/ Mark(s)
           \/ GateAcquire(s) \/ GateStage(s) \/ GateCommit(s) \/ GateCommitFails(s)
Step(p) == \/ Acquire(p) \/ Derive(p) \/ PassStage(p) \/ PassCommit(p) \/ PassCommitFails(p)
           \/ Clear(p) \/ Merge(p) \/ Materialize(p) \/ Restage(p)
           \/ Recommit(p) \/ Offline(p)

Next == \/ \E s \in Sessions : \/ Start(s) \/ WriteIndex(s) \/ End(s) \/ Gate(s) \/ GateDies(s)
                               \/ \E w \in Writes : WriteFact(s, w)
        \/ \E p \in Passes : Step(p)
        \/ Wake \/ Retry \/ RemoteMoved \/ Exit
        \/ (\E h \in Hooks : HookDies(h)) \/ WatchDies \/ TakenOver

Spec == Init /\ [][Next]_vars

(* Sessions come and go, a process that is not killed takes its steps, and *)
(* a commit that is tried again and again succeeds.                        *)
Fair == /\ \A s \in Sessions : WF_vars(Start(s)) /\ SF_vars(End(s)) /\ WF_vars(Gate(s))
        /\ \A p \in Passes : WF_vars(Step(p))
        /\ WF_vars(TakenOver)
        /\ SF_vars(\E p \in Passes : PassCommit(p))
FairSpec == Spec /\ Fair

----------------------------------------------------------------------------
(* The history of the PC loses no change but one whose pass died between   *)
(* its merge and its files: nobody commits an index staged before another's*)
(* merge or commit (watchPass, runSyncOnce, markAndCommit).                *)
HistoryNeverGoesBack == [][history \ history' \subseteq stranded]_vars

(* A change that was announced and is not committed is still marked, unless*)
(* it came too late for the stage of the pass that removed the marker      *)
(* (MarkDirty before the lock, ClearDirty after the commit).               *)
OnlyLateWritesLoseTheirMark == marker \/ promised = {}

(* Whatever a session wrote is committed some day, also when its marker was*)
(* swallowed, its gate killed or the watcher gone (the passes at every     *)
(* session's start and end).                                               *)
EveryWriteIsCommitted == \A w \in Writes : w \in tree ~> w \in history
=============================================================================
