------------------------------ MODULE Jobs_proofs ------------------------------
(***************************************************************************)
(* Proofs about the jobs of MCDerive: the watcher and the write gate, the  *)
(* nightly dream, the contradiction sweep and the episodic ledger, each    *)
(* for every value of its own constants, whatever the other jobs do.       *)
(*                                                                         *)
(* A section a job: what is assumed of its constants, its inductive        *)
(* invariant, and one lemma for each of the invariant's parts.             *)
(***************************************************************************)
EXTENDS MCDerive, Judge_proofs, FiniteSetTheorems, SequenceTheorems,
        WellFoundedInduction, TLAPS

-----------------------------------------------------------------------------
(* A step of all the jobs is, for each of them, one of its own or nothing.  *)

allVars == <<jobsVars, deriveVars>>

LEMMA EachJobsStep ==
  ASSUME [AllNext]_allVars
  PROVE  /\ job' = job
         /\ [W!Next]_W!vars /\ [E!Next]_E!vars
         /\ (job = "sweep" /\ [S!Next]_S!vars) \/ UNCHANGED S!vars
         /\ (job = "dream" /\ [D!Next]_D!vars) \/ UNCHANGED D!vars
         /\ [Next]_vars /\ [V!Next]_V!vars
  <1> USE DEF AllNext, MCNext, allVars, jobsVars, Sweeping, Upkeep, Judging, Dreaming, Serving,
              Watching
  <1>1. job' = job  OBVIOUS
  <1>2. [W!Next]_W!vars  BY DEF watcherVars, W!vars
  <1>3. [E!Next]_E!vars  BY DEF episodesVars, E!vars
  <1>4. (job = "sweep" /\ [S!Next]_S!vars) \/ UNCHANGED S!vars  BY DEF sweepVars, S!vars
  <1>5. (job = "dream" /\ [D!Next]_D!vars) \/ UNCHANGED D!vars
    BY DEF dreamVars, D!vars, D!throttles, D!night
  <1>6. [Next]_vars  BY DEF judgeVars, vars, store, run
  <1>7. [V!Next]_V!vars  BY DEF deriveVars, V!vars
  <1> QED BY <1>1, <1>2, <1>3, <1>4, <1>5, <1>6, <1>7

-----------------------------------------------------------------------------
(* The watcher, the write gate and the passes of every session (Watcher).   *)

USE DEF W!store, W!wakeup, W!Moves, W!Goes, W!Event, W!MarkDirty, W!ClearDirty, W!Stage,
        W!Commit, W!Over, W!Dies, W!Strands

\* Whoever is past its acquisition holds the lock.
LockInv == /\ \A p \in W!Passes : pass[p] \in W!Steps \ {"ready"} => holder = p
           /\ \A s \in Shells : session[s] \in {"floor", "stage", "commit"} => holder = s

\* But while a merge is under way the files have what the history has.
TreeInv == (\A p \in W!Passes : pass[p] # "materialize") => history \ tree \subseteq stranded

\* So has an index that waits to be committed.
IndexInv ==
    (\/ \E p \in W!Passes : pass[p] \in {"commit", "recommit"}
     \/ \E s \in Shells : session[s] = "commit") => history \ git \subseteq stranded

\* A marker is removed when what it was put down for is committed, or late.
ClearInv == (\E p \in W!Passes : pass[p] = "clear") => git = history /\ promised \cap git = {}

WatchInv == /\ W!TypeOK /\ LockInv /\ TreeInv /\ IndexInv /\ ClearInv
            /\ W!OnlyLateWritesLoseTheirMark

LEMMA WatchInit == ASSUME WatchAssumption, W!Init PROVE WatchInv
  <1> USE DEF WatchAssumption, W!Init, W!Passes, W!Hooks
  <1>1. W!TypeOK
    <2>1. holder \in Shells \cup W!Passes \cup {Free, Dead}  OBVIOUS
    <2>2. /\ session \in [Shells -> {"away", "here"} \cup W!Gates]
          /\ pass \in [W!Passes -> {"idle", "off"} \cup W!Steps]
      OBVIOUS
    <2>3. deaths \in 0..MaxDeaths /\ promised \subseteq tree  OBVIOUS
    <2>4. marker \in BOOLEAN /\ woken \in BOOLEAN /\ retry \in BOOLEAN  OBVIOUS
    <2> QED BY <2>1, <2>2, <2>3, <2>4 DEF W!TypeOK
  <1>2. LockInv  BY DEF LockInv, W!Steps
  <1>3. TreeInv /\ IndexInv  BY DEF TreeInv, IndexInv
  <1>4. ClearInv  BY DEF ClearInv
  <1>5. W!OnlyLateWritesLoseTheirMark  BY DEF W!OnlyLateWritesLoseTheirMark
  <1> QED BY <1>1, <1>2, <1>3, <1>4, <1>5 DEF WatchInv

\* What a session, its gate, a pass and the rest of the watcher may do.
SessionStep(s) == \/ W!Start(s) \/ W!WriteIndex(s) \/ W!End(s) \/ W!GateDies(s)
                  \/ \E w \in Writes : W!WriteFact(s, w)
BetweenPasses  == W!Wake \/ W!Retry \/ W!RemoteMoved \/ W!Exit
Death          == (\E h \in W!Hooks : W!HookDies(h)) \/ W!WatchDies \/ W!TakenOver

LEMMA WatchStepCases ==
  ASSUME [W!Next]_W!vars,
         NEW Goal,
         ASSUME NEW s \in Shells, SessionStep(s) PROVE Goal,
         ASSUME NEW s \in Shells, W!Gate(s) PROVE Goal,
         ASSUME NEW p \in W!Passes, W!Step(p) PROVE Goal,
         BetweenPasses => Goal, Death => Goal, UNCHANGED W!vars => Goal
  PROVE  Goal
  BY DEF W!Next, SessionStep, BetweenPasses, Death

LEMMA WatchTypes ==
  ASSUME WatchAssumption, W!TypeOK, [W!Next]_W!vars PROVE W!TypeOK'
  <1>1. ASSUME NEW s \in Shells, SessionStep(s) PROVE W!TypeOK'
    BY <1>1 DEF W!TypeOK, SessionStep, W!Start, W!WriteIndex, W!End, W!GateDies, W!WriteFact,
       W!Gates, W!Steps, WatchAssumption
  <1>2. ASSUME NEW s \in Shells, W!Gate(s) PROVE W!TypeOK'
    BY <1>2 DEF W!TypeOK, W!Gate, W!EvaluateQuietly, W!EvaluateLocked, W!FloorDone, W!Mark,
       W!GateAcquire, W!GateStage, W!GateCommit, W!GateCommitFails, W!Gates
  <1>3. ASSUME NEW p \in W!Passes, W!Step(p) PROVE W!TypeOK'
    BY <1>3 DEF W!TypeOK, W!Step, W!Acquire, W!Derive, W!PassStage, W!PassCommit,
       W!PassCommitFails, W!Clear, W!Merge, W!Materialize, W!Restage, W!Recommit, W!Offline,
       W!Steps
  <1>4. ASSUME BetweenPasses \/ Death PROVE W!TypeOK'
    <2> USE <1>4 DEF BetweenPasses, W!Wake, W!Retry, W!RemoteMoved, W!Exit,
          Death, W!HookDies, W!WatchDies, W!TakenOver
    <2>1. /\ pass' \in [W!Passes -> {"idle", "off"} \cup W!Steps]
          /\ session' \in [Shells -> {"away", "here"} \cup W!Gates]
      BY DEF W!TypeOK, W!Steps
    <2>2. marker' \in BOOLEAN /\ woken' \in BOOLEAN /\ retry' \in BOOLEAN
      BY DEF W!TypeOK
    <2>3. /\ tree' \subseteq Writes \cup HubChanges
          /\ git' \subseteq tree' /\ history' \subseteq tree' \cup HubChanges
          /\ stranded' \subseteq HubChanges /\ promised' \subseteq tree'
      BY DEF W!TypeOK
    <2>4. /\ holder' \in Shells \cup W!Passes \cup {Free, Dead}
          /\ deaths' \in 0..MaxDeaths
      BY DEF W!TypeOK, WatchAssumption
    <2> HIDE <1>4
    <2> QED BY <2>1, <2>2, <2>3, <2>4 DEF W!TypeOK
  <1>5. CASE UNCHANGED W!vars
    BY <1>5 DEF W!TypeOK, W!vars
  <1> QED BY <1>1, <1>2, <1>3, <1>4, <1>5, WatchStepCases

LEMMA LockStep ==
  ASSUME WatchAssumption, W!TypeOK, LockInv, [W!Next]_W!vars PROVE LockInv'
  <1> USE DEF LockInv, W!TypeOK
  <1>1. ASSUME NEW s \in Shells, SessionStep(s) PROVE LockInv'
    BY <1>1 DEF SessionStep, W!Start, W!WriteIndex, W!End, W!GateDies, W!WriteFact,
       W!Gates, W!Steps, W!Passes, WatchAssumption
  <1>2. ASSUME NEW s \in Shells, W!Gate(s) PROVE LockInv'
    BY <1>2 DEF W!Gate, W!EvaluateQuietly, W!EvaluateLocked, W!FloorDone, W!Mark,
       W!GateAcquire, W!GateStage, W!GateCommit, W!GateCommitFails, WatchAssumption
  <1>3. ASSUME NEW p \in W!Passes, W!Step(p) PROVE LockInv'
    BY <1>3 DEF W!Step, W!Acquire, W!Derive, W!PassStage, W!PassCommit,
       W!PassCommitFails, W!Clear, W!Merge, W!Materialize, W!Restage, W!Recommit, W!Offline,
       W!Steps, WatchAssumption
  <1>4. CASE BetweenPasses
    BY <1>4 DEF BetweenPasses, W!Wake, W!Retry, W!RemoteMoved, W!Exit, W!Steps, W!Passes
  <1>5. CASE Death
    BY <1>5 DEF Death, W!HookDies, W!WatchDies, W!TakenOver, WatchAssumption, W!Passes, W!Steps
  <1>6. CASE UNCHANGED W!vars
    BY <1>6 DEF W!vars
  <1> QED BY <1>1, <1>2, <1>3, <1>4, <1>5, <1>6, WatchStepCases

LEMMA TreeStep ==
  ASSUME WatchAssumption, W!TypeOK, LockInv, TreeInv, IndexInv, [W!Next]_W!vars
  PROVE  TreeInv' /\ IndexInv'
  <1> USE DEF LockInv, TreeInv, IndexInv, W!TypeOK
  <1>1. ASSUME NEW s \in Shells, SessionStep(s) PROVE TreeInv' /\ IndexInv'
    BY <1>1 DEF SessionStep, W!Start, W!WriteIndex, W!End, W!GateDies, W!WriteFact,
       W!Gates, W!Steps, W!Passes, WatchAssumption
  <1>2. ASSUME NEW s \in Shells, W!Gate(s) PROVE TreeInv' /\ IndexInv'
    BY <1>2 DEF W!Gate, W!EvaluateQuietly, W!EvaluateLocked, W!FloorDone, W!Mark,
       W!GateAcquire, W!GateStage, W!GateCommit, W!GateCommitFails, WatchAssumption, W!Steps
  <1>3. ASSUME NEW p \in W!Passes, W!Step(p) PROVE TreeInv' /\ IndexInv'
    BY <1>3 DEF W!Step, W!Acquire, W!Derive, W!PassStage, W!PassCommit,
       W!PassCommitFails, W!Clear, W!Merge, W!Materialize, W!Restage, W!Recommit, W!Offline,
       W!Steps, WatchAssumption
  <1>4. CASE BetweenPasses
    BY <1>4 DEF BetweenPasses, W!Wake, W!Retry, W!RemoteMoved, W!Exit, W!Steps, W!Passes
  <1>5. CASE Death
    BY <1>5 DEF Death, W!HookDies, W!WatchDies, W!TakenOver, WatchAssumption, W!Passes, W!Steps
  <1>6. CASE UNCHANGED W!vars
    BY <1>6 DEF W!vars
  <1> QED BY <1>1, <1>2, <1>3, <1>4, <1>5, <1>6, WatchStepCases

LEMMA ClearStep ==
  ASSUME WatchAssumption, W!TypeOK, LockInv, ClearInv, [W!Next]_W!vars
  PROVE  ClearInv'
  <1> USE DEF LockInv, ClearInv, W!TypeOK,
        WatchAssumption, W!Steps, W!Gates, W!Passes
  <1>1. ASSUME NEW s \in Shells, SessionStep(s) PROVE ClearInv'
    BY <1>1 DEF SessionStep, W!Start, W!WriteIndex, W!End, W!GateDies, W!WriteFact
  <1>2. ASSUME NEW s \in Shells, W!Gate(s) PROVE ClearInv'
    BY <1>2 DEF W!Gate, W!EvaluateQuietly, W!EvaluateLocked, W!FloorDone, W!Mark,
       W!GateAcquire, W!GateStage, W!GateCommit, W!GateCommitFails
  <1>3. ASSUME NEW p \in W!Passes, W!Step(p) PROVE ClearInv'
    BY <1>3 DEF W!Step, W!Acquire, W!Derive, W!PassStage, W!PassCommit,
       W!PassCommitFails, W!Clear, W!Merge, W!Materialize, W!Restage, W!Recommit, W!Offline
  <1>4. CASE BetweenPasses
    BY <1>4 DEF BetweenPasses, W!Wake, W!Retry, W!RemoteMoved, W!Exit
  <1>5. CASE Death
    BY <1>5 DEF Death, W!HookDies, W!WatchDies, W!TakenOver
  <1>6. CASE UNCHANGED W!vars
    BY <1>6 DEF W!vars
  <1> QED BY <1>1, <1>2, <1>3, <1>4, <1>5, <1>6, WatchStepCases

LEMMA MarkStep ==
  ASSUME WatchAssumption, W!TypeOK, LockInv, ClearInv, W!OnlyLateWritesLoseTheirMark,
         [W!Next]_W!vars
  PROVE  W!OnlyLateWritesLoseTheirMark'
  <1> USE DEF LockInv, ClearInv, W!TypeOK, W!OnlyLateWritesLoseTheirMark,
        WatchAssumption, W!Steps, W!Gates, W!Passes
  <1>1. ASSUME NEW s \in Shells, SessionStep(s) PROVE W!OnlyLateWritesLoseTheirMark'
    BY <1>1 DEF SessionStep, W!Start, W!WriteIndex, W!End, W!GateDies, W!WriteFact
  <1>2. ASSUME NEW s \in Shells, W!Gate(s) PROVE W!OnlyLateWritesLoseTheirMark'
    BY <1>2 DEF W!Gate, W!EvaluateQuietly, W!EvaluateLocked, W!FloorDone, W!Mark,
       W!GateAcquire, W!GateStage, W!GateCommit, W!GateCommitFails
  <1>3. ASSUME NEW p \in W!Passes, W!Step(p) PROVE W!OnlyLateWritesLoseTheirMark'
    BY <1>3 DEF W!Step, W!Acquire, W!Derive, W!PassStage, W!PassCommit,
       W!PassCommitFails, W!Clear, W!Merge, W!Materialize, W!Restage, W!Recommit, W!Offline
  <1>4. CASE BetweenPasses
    BY <1>4 DEF BetweenPasses, W!Wake, W!Retry, W!RemoteMoved, W!Exit
  <1>5. CASE Death
    BY <1>5 DEF Death, W!HookDies, W!WatchDies, W!TakenOver
  <1>6. CASE UNCHANGED W!vars
    BY <1>6 DEF W!vars
  <1> QED BY <1>1, <1>2, <1>3, <1>4, <1>5, <1>6, WatchStepCases

LEMMA HistoryStep ==
  ASSUME WatchAssumption, W!TypeOK, LockInv, IndexInv, [W!Next]_W!vars
  PROVE  history \ history' \subseteq stranded
  <1> USE DEF LockInv, IndexInv, W!TypeOK,
        WatchAssumption, W!Steps, W!Gates, W!Passes
  <1>1. ASSUME NEW s \in Shells, SessionStep(s) PROVE history \ history' \subseteq stranded
    BY <1>1 DEF SessionStep, W!Start, W!WriteIndex, W!End, W!GateDies, W!WriteFact
  <1>2. ASSUME NEW s \in Shells, W!Gate(s) PROVE history \ history' \subseteq stranded
    BY <1>2 DEF W!Gate, W!EvaluateQuietly, W!EvaluateLocked, W!FloorDone, W!Mark,
       W!GateAcquire, W!GateStage, W!GateCommit, W!GateCommitFails
  <1>3. ASSUME NEW p \in W!Passes, W!Step(p) PROVE history \ history' \subseteq stranded
    BY <1>3 DEF W!Step, W!Acquire, W!Derive, W!PassStage, W!PassCommit,
       W!PassCommitFails, W!Clear, W!Merge, W!Materialize, W!Restage, W!Recommit, W!Offline
  <1>4. CASE BetweenPasses
    BY <1>4 DEF BetweenPasses, W!Wake, W!Retry, W!RemoteMoved, W!Exit
  <1>5. CASE Death
    BY <1>5 DEF Death, W!HookDies, W!WatchDies, W!TakenOver
  <1>6. CASE UNCHANGED W!vars
    BY <1>6 DEF W!vars
  <1> QED BY <1>1, <1>2, <1>3, <1>4, <1>5, <1>6, WatchStepCases

LEMMA WatchAlways == ASSUME WatchAssumption PROVE All => []WatchInv
  <1>1. AllInit => WatchInv
    BY WatchInit DEF AllInit, MCInit
  <1>2. WatchInv /\ [AllNext]_allVars => WatchInv'
    <2> SUFFICES ASSUME WatchInv, [AllNext]_allVars PROVE WatchInv'
      OBVIOUS
    <2>1. [W!Next]_W!vars  BY EachJobsStep
    <2> QED BY <2>1, WatchTypes, LockStep, TreeStep, ClearStep, MarkStep DEF WatchInv
  <1> QED BY <1>1, <1>2, PTL DEF All, allVars

(* A change that was announced and is not committed is still marked, unless *)
(* it came too late for the stage of the pass that removed the marker: for  *)
(* any number of sessions and deaths (MarkDirty, ClearDirty, runSyncOnce).  *)
THEOREM MarksKept ==
  ASSUME WatchAssumption PROVE All => []OnlyLateWritesLoseTheirMark
  <1>1. WatchInv => OnlyLateWritesLoseTheirMark
    BY DEF WatchInv, OnlyLateWritesLoseTheirMark
  <1> QED BY <1>1, WatchAlways, PTL

(* The history of the PC loses no change but one whose pass died between    *)
(* its merge and its files: for any number of sessions and deaths           *)
(* (watchPass, runSyncOnce, markAndCommit).                                 *)
THEOREM HistoryKept ==
  ASSUME WatchAssumption PROVE All => HistoryNeverGoesBack
  <1>1. WatchInv /\ [AllNext]_allVars => [history \ history' \subseteq stranded]_W!vars
    <2> SUFFICES ASSUME WatchInv, [AllNext]_allVars
                 PROVE  history \ history' \subseteq stranded
      OBVIOUS
    <2> QED BY EachJobsStep, HistoryStep DEF WatchInv
  <1> QED BY <1>1, WatchAlways, PTL
          DEF All, allVars, HistoryNeverGoesBack, W!HistoryNeverGoesBack

-----------------------------------------------------------------------------
(* The nightly dream (Dream).                                               *)

USE DEF D!Goto, D!throttles, D!night, D!End, D!Failed

\* What is counted as posted or as replayed is stored.
StoredInv == posted \subseteq stored /\ landed \subseteq stored

\* An insight is still to be posted, posted or queued; a night that has not
\* consolidated has none.
NightInv ==
    /\ queued \cap posted = {}
    /\ phase = "post" => unposted \subseteq mine \ (posted \cup queued)
    /\ phase \in {"orient", "gather", "replay", "consolidate"} =>
          mine = {} /\ posted = {} /\ queued = {}

\* A result is told when the night is over, and stands until the next begins.
OutcomeInv == (outcome = "ok" => phase = "idle") /\ D!OkMeansAllStored

\* The gate passes one fact at a time, and one the canonicals do not contradict.
PassedInv == /\ \A f, g \in passed : f = g
             /\ \A f \in passed : ~D!Contradicts(f)

DreamInv == /\ D!TypeOK /\ StoredInv /\ NightInv /\ OutcomeInv
            /\ PassedInv /\ D!CanonicalsAgree

\* The instance has a Cardinality of its own.
LEMMA DreamCardinality == ASSUME NEW F PROVE D!Cardinality(F) = Cardinality(F)
  BY DEF D!Cardinality, Cardinality

LEMMA SmallSetsAgree ==
  ASSUME DreamAssumption, NEW F \in SUBSET Facts, Cardinality(F) <= 1
  PROVE  D!Agree(F)
  <1>1. IsFiniteSet(F)
    BY FS_Subset DEF DreamAssumption
  <1>2. \A f, g \in F : f = g
    <2> SUFFICES ASSUME NEW f \in F, NEW g \in F, f # g PROVE FALSE
      OBVIOUS
    <2>1. Cardinality(F \ {f}) = Cardinality(F) - 1 /\ IsFiniteSet(F \ {f})
      BY <1>1, FS_RemoveElement
    <2>2. Cardinality(F) \in Nat /\ Cardinality(F \ {f}) \in Nat
      BY <1>1, <2>1, FS_CardinalityType
    <2>3. F \ {f} = {}
      BY <2>1, <2>2, FS_EmptySet
    <2> QED BY <2>3
  <1> QED BY <1>2 DEF D!Agree, DreamAssumption

LEMMA DreamInit == ASSUME DreamAssumption, D!Init PROVE DreamInv
  <1> USE DEF D!Init
  <1>1. D!TypeOK  BY DEF D!TypeOK
  <1>2. StoredInv /\ NightInv /\ PassedInv  BY DEF StoredInv, NightInv, PassedInv
  <1>3. OutcomeInv  BY DEF OutcomeInv, D!OkMeansAllStored
  <1>4. D!CanonicalsAgree
    <2>1. canon \in SUBSET Facts /\ Cardinality(canon) <= 1  BY DreamCardinality
    <2> HIDE DEF D!Init
    <2> QED BY <2>1, SmallSetsAgree DEF D!CanonicalsAgree
  <1> QED BY <1>1, <1>2, <1>3, <1>4 DEF DreamInv

\* What ends a night, what gathers and posts its insights, what promotes facts.
Ends       == \/ D!Unreachable \/ D!Skipped \/ D!GatherFails \/ D!NoSignals
              \/ D!ConsolidateFails \/ D!IndexFails \/ D!IndexBuilt \/ D!Crash
Gathers    == \/ D!Day \/ D!Week \/ D!Begin \/ D!Orient \/ D!Signals \/ D!ReplayEnds
              \/ D!Consolidate \/ D!PostsEnd
Posts(i)   == \/ D!ReplayLands(i) \/ D!ReplayFails(i) \/ D!Regenerated(i)
              \/ D!PostLands(i) \/ D!PostFails(i)
Nominates  == D!Nominate \/ D!PromotionsEnd
Decides(f) == D!Gate(f) \/ D!Canonize(f) \/ D!Demote(f)

LEMMA DreamStepCases ==
  ASSUME [D!Next]_D!vars,
         NEW Goal,
         Ends => Goal, Gathers => Goal, Nominates => Goal,
         ASSUME NEW i \in Insights, Posts(i) PROVE Goal,
         ASSUME NEW f \in Facts, Decides(f) PROVE Goal,
         UNCHANGED D!vars => Goal
  PROVE  Goal
  BY DEF D!Next, D!Cycle, Ends, Gathers, Nominates, Posts, Decides

LEMMA OutcomeIsOne == ASSUME D!TypeOK PROVE D!Outcome \in {"degraded", "ok"}
  BY DEF D!Outcome

LEMMA OkSpoolIsEmpty ==
  ASSUME DreamAssumption, D!TypeOK, StoredInv, NightInv, D!Outcome = "ok"
  PROVE  mine \subseteq stored /\ spool = {}
  <1>1. posted = mine /\ ~(Cardinality(spool) > Cardinality(queued))
    BY DreamCardinality DEF D!Outcome
  <1>2. queued = {}
    BY <1>1 DEF D!TypeOK, NightInv
  <1>3. IsFiniteSet(spool)
    BY FS_Subset DEF D!TypeOK, DreamAssumption
  <1>4. Cardinality(queued) = 0 /\ Cardinality(spool) \in Nat
    BY <1>2, <1>3, FS_EmptySet, FS_CardinalityType
  <1>5. spool = {}
    BY <1>1, <1>3, <1>4, FS_EmptySet
  <1> QED BY <1>1, <1>5 DEF StoredInv

\* The parts of the type that are not Boolean.
Rest ==
    /\ stored \subseteq Insights /\ spool \subseteq Insights /\ canon \subseteq Facts
    /\ phase \in {"idle", "orient", "gather", "replay", "consolidate", "post",
                  "nominate", "promote", "index"}
    /\ mine \subseteq Insights /\ unposted \subseteq Insights /\ landed \subseteq Insights
    /\ posted \subseteq mine /\ queued \subseteq mine
    /\ nominees \subseteq Facts /\ passed \subseteq Facts
    /\ outcome \in {"none", "ok", "degraded", "failed"}

LEMMA DreamTypes ==
  ASSUME DreamAssumption, D!TypeOK, NightInv, [D!Next]_D!vars
  PROVE  D!TypeOK'
  <1>1. due' \in BOOLEAN /\ weekly' \in BOOLEAN /\ trouble' \in BOOLEAN
    <2> DEFINE Bool == due' \in BOOLEAN /\ weekly' \in BOOLEAN /\ trouble' \in BOOLEAN
    <2> USE DEF D!TypeOK
    <2>1. CASE Ends
      BY <2>1 DEF Ends, D!Unreachable, D!Skipped, D!GatherFails, D!NoSignals,
         D!ConsolidateFails, D!IndexFails, D!IndexBuilt, D!Crash
    <2>2. CASE Gathers
      BY <2>2 DEF Gathers, D!Day, D!Week, D!Begin, D!Orient, D!Signals, D!ReplayEnds,
         D!Consolidate, D!PostsEnd
    <2>3. CASE Nominates
      BY <2>3 DEF Nominates, D!Nominate, D!PromotionsEnd
    <2>4. ASSUME NEW i \in Insights, Posts(i) PROVE Bool
      BY <2>4 DEF Posts, D!Replayed, D!ReplayLands, D!ReplayFails, D!Posting,
         D!Regenerated, D!PostLands, D!PostFails
    <2>5. ASSUME NEW f \in Facts, Decides(f) PROVE Bool
      BY <2>5 DEF Decides, D!Gate, D!Canonize, D!Demote
    <2>6. CASE UNCHANGED D!vars
      BY <2>6 DEF D!vars
    <2> QED BY <2>1, <2>2, <2>3, <2>4, <2>5, <2>6, DreamStepCases
  <1>2. Rest'
    <2> Rest  BY DEF D!TypeOK, Rest
    <2> USE DEF Rest, NightInv
    <2>1. CASE Ends
      BY <2>1, OutcomeIsOne DEF Ends, D!Unreachable, D!Skipped, D!GatherFails, D!NoSignals,
         D!ConsolidateFails, D!IndexFails, D!IndexBuilt, D!Crash
    <2>2. CASE Gathers
      <3>1. CASE D!Consolidate
        BY <3>1 DEF D!Consolidate
      <3>2. CASE D!Day \/ D!Week \/ D!Begin \/ D!PostsEnd
        BY <3>2 DEF D!Day, D!Week, D!Begin, D!PostsEnd
      <3>3. CASE D!Orient \/ D!Signals \/ D!ReplayEnds
        BY <3>3 DEF D!Orient, D!Signals, D!ReplayEnds, D!Kept
      <3> QED BY <2>2, <3>1, <3>2, <3>3 DEF Gathers
    <2>3. CASE Nominates
      BY <2>3 DEF Nominates, D!Nominate, D!PromotionsEnd
    <2>4. ASSUME NEW i \in Insights, Posts(i) PROVE Rest'
      <3>1. CASE D!ReplayLands(i) \/ D!ReplayFails(i)
        BY <3>1 DEF D!Replayed, D!ReplayLands, D!ReplayFails
      <3>2. CASE D!Regenerated(i)
        BY <3>2 DEF D!Posting, D!Regenerated
      <3>3. CASE D!PostLands(i)
        BY <3>3 DEF D!Posting, D!PostLands
      <3>4. CASE D!PostFails(i)
        BY <3>4 DEF D!Posting, D!PostFails
      <3> QED BY <2>4, <3>1, <3>2, <3>3, <3>4 DEF Posts
    <2>5. ASSUME NEW f \in Facts, Decides(f) PROVE Rest'
      BY <2>5 DEF Decides, D!Gate, D!Canonize, D!Demote
    <2>6. CASE UNCHANGED D!vars
      BY <2>6 DEF D!vars
    <2> QED BY <2>1, <2>2, <2>3, <2>4, <2>5, <2>6, DreamStepCases
  <1> QED BY <1>1, <1>2, Zenon DEF D!TypeOK, Rest

LEMMA NightStep ==
  ASSUME DreamAssumption, D!TypeOK, StoredInv, NightInv, [D!Next]_D!vars
  PROVE  StoredInv' /\ NightInv'
  <1> USE DEF D!TypeOK, StoredInv, NightInv
  <1>1. CASE Ends
    BY <1>1 DEF Ends, D!Unreachable, D!Skipped, D!GatherFails, D!NoSignals,
       D!ConsolidateFails, D!IndexFails, D!IndexBuilt, D!Crash
  <1>2. CASE Gathers
    BY <1>2 DEF Gathers, D!Day, D!Week, D!Begin, D!Orient, D!Signals, D!ReplayEnds,
       D!Kept, D!Consolidate, D!PostsEnd
  <1>3. CASE Nominates
    BY <1>3 DEF Nominates, D!Nominate, D!PromotionsEnd
  <1>4. ASSUME NEW i \in Insights, Posts(i) PROVE StoredInv' /\ NightInv'
    BY <1>4 DEF Posts, D!Replayed, D!ReplayLands, D!ReplayFails, D!Posting,
       D!Regenerated, D!PostLands, D!PostFails
  <1>5. ASSUME NEW f \in Facts, Decides(f) PROVE StoredInv' /\ NightInv'
    BY <1>5 DEF Decides, D!Gate, D!Canonize, D!Demote
  <1>6. CASE UNCHANGED D!vars
    BY <1>6 DEF D!vars
  <1> QED BY <1>1, <1>2, <1>3, <1>4, <1>5, <1>6, DreamStepCases

LEMMA OutcomeStep ==
  ASSUME DreamAssumption, D!TypeOK, StoredInv, NightInv, OutcomeInv, [D!Next]_D!vars
  PROVE  OutcomeInv'
  <1> USE DEF D!TypeOK, OutcomeInv, D!OkMeansAllStored
  <1>1. CASE Ends
    BY <1>1, OkSpoolIsEmpty DEF Ends, D!Unreachable, D!Skipped, D!GatherFails, D!NoSignals,
       D!ConsolidateFails, D!IndexFails, D!IndexBuilt, D!Crash
  <1>2. CASE Gathers
    BY <1>2 DEF Gathers, D!Day, D!Week, D!Begin, D!Orient, D!Signals, D!ReplayEnds,
       D!Kept, D!Consolidate, D!PostsEnd
  <1>3. CASE Nominates
    BY <1>3 DEF Nominates, D!Nominate, D!PromotionsEnd
  <1>4. ASSUME NEW i \in Insights, Posts(i) PROVE OutcomeInv'
    BY <1>4 DEF Posts, D!Replayed, D!ReplayLands, D!ReplayFails, D!Posting,
       D!Regenerated, D!PostLands, D!PostFails
  <1>5. ASSUME NEW f \in Facts, Decides(f) PROVE OutcomeInv'
    BY <1>5 DEF Decides, D!Gate, D!Canonize, D!Demote
  <1>6. CASE UNCHANGED D!vars
    BY <1>6 DEF D!vars
  <1> QED BY <1>1, <1>2, <1>3, <1>4, <1>5, <1>6, DreamStepCases

LEMMA CanonStep ==
  ASSUME DreamAssumption, D!TypeOK, PassedInv, D!CanonicalsAgree, [D!Next]_D!vars
  PROVE  PassedInv' /\ D!CanonicalsAgree'
  <1> USE DEF D!TypeOK, PassedInv, D!CanonicalsAgree, D!Agree, D!Contradicts
  <1>1. CASE Ends
    BY <1>1 DEF Ends, D!Unreachable, D!Skipped, D!GatherFails, D!NoSignals,
       D!ConsolidateFails, D!IndexFails, D!IndexBuilt, D!Crash, DreamAssumption
  <1>2. CASE Gathers
    BY <1>2 DEF Gathers, D!Day, D!Week, D!Begin, D!Orient, D!Signals, D!ReplayEnds,
       D!Kept, D!Consolidate, D!PostsEnd, DreamAssumption
  <1>3. CASE Nominates
    BY <1>3 DEF Nominates, D!Nominate, D!PromotionsEnd, DreamAssumption
  <1>4. ASSUME NEW i \in Insights, Posts(i) PROVE PassedInv' /\ D!CanonicalsAgree'
    BY <1>4 DEF Posts, D!Replayed, D!ReplayLands, D!ReplayFails, D!Posting,
       D!Regenerated, D!PostLands, D!PostFails, DreamAssumption
  <1>5. ASSUME NEW f \in Facts, Decides(f) PROVE PassedInv' /\ D!CanonicalsAgree'
    BY <1>5 DEF Decides, D!Gate, D!Canonize, D!Demote, DreamAssumption
  <1>6. CASE UNCHANGED D!vars
    BY <1>6 DEF D!vars
  <1> QED BY <1>1, <1>2, <1>3, <1>4, <1>5, <1>6, DreamStepCases

\* A dream that was not chosen is off, and has done nothing.
DreamOrOff == IF job = "dream" THEN DreamInv ELSE outcome = "none" /\ canon = {}

LEMMA DreamAlways == ASSUME DreamAssumption PROVE All => []DreamOrOff
  <1>1. AllInit => DreamOrOff
    BY DreamInit DEF AllInit, MCInit, DreamOrOff, DreamOff
  <1>2. DreamOrOff /\ [AllNext]_allVars => DreamOrOff'
    <2> SUFFICES ASSUME DreamOrOff, [AllNext]_allVars PROVE DreamOrOff'
      OBVIOUS
    <2>1. /\ job' = job
          /\ (job = "dream" /\ [D!Next]_D!vars) \/ UNCHANGED D!vars
      BY EachJobsStep
    <2>2. CASE job = "dream"
      <3>1. DreamInv /\ [D!Next]_D!vars
        BY <2>1, <2>2 DEF DreamOrOff
      <3>2. DreamInv'
        BY <3>1, DreamTypes, NightStep, OutcomeStep, CanonStep DEF DreamInv
      <3> QED BY <2>1, <2>2, <3>2 DEF DreamOrOff
    <2>3. CASE job # "dream"
      BY <2>1, <2>3 DEF DreamOrOff, D!vars
    <2> QED BY <2>2, <2>3
  <1> QED BY <1>1, <1>2, PTL DEF All, allVars

(* A night whose receipt says ok has lost nothing: every insight it came up *)
(* with is stored and nothing waits in the queue, for any insights and      *)
(* whatever failed, landed unseen or died (outcome, _spool_add).            *)
THEOREM OkNightsLoseNothing ==
  ASSUME DreamAssumption PROVE All => []OkMeansAllStored
  <1>1. DreamOrOff => OkMeansAllStored
    BY DEF DreamOrOff, DreamInv, OutcomeInv, OkMeansAllStored, D!OkMeansAllStored
  <1> QED BY <1>1, DreamAlways, PTL

(* Two facts that contradict each other are never both canonical by the     *)
(* dream's doing, for any facts and any symmetric relation between them     *)
(* (promotion_gate_verdict asks for the canonicals once for each nominee).  *)
THEOREM NightsKeepAgreement ==
  ASSUME DreamAssumption PROVE All => []CanonicalsAgree
  <1>1. DreamOrOff => CanonicalsAgree
    BY DEF DreamOrOff, DreamInv, CanonicalsAgree, D!CanonicalsAgree, D!Agree
  <1> QED BY <1>1, DreamAlways, PTL

-----------------------------------------------------------------------------
(* The episodic ledger (Episodes).                                          *)

Row  == [ses : Sessions, state : {"in_progress", "complete", "abandoned"},
         text : {"running", "final"}, age : 0..2, want : Titles \cup {None}]
Goal == [title : Titles, by : {"manual", "promoter"}, status : {"open", "blocked", "closed"}]
Run  == {r \in [eps : SUBSET DOMAIN rows, title : Titles \cup {None},
                 goal : {None} \cup 0..Len(goals), blocked : BOOLEAN] :
            r.goal # None => r.title # None}

TablesTyped == rows \in Seq(Row) /\ Len(rows) <= MaxRows /\ goals \in Seq(Goal)

ReferencesTyped ==
    /\ links \subseteq (DOMAIN rows) \X (DOMAIN goals)
    /\ vectors \subseteq DOMAIN rows /\ embeds \subseteq DOMAIN rows
    /\ found \in [Sessions -> {None} \cup 0..Len(rows)]
    /\ promoter \in Run

\* The write lock is one session's, and what it found is still open.
WriterInv ==
    /\ \A s, t \in Sessions : found[s] # None /\ found[t] # None => s = t
    /\ \A s \in Sessions : found[s] \notin {None, 0} => E!Open(found[s])

EpisodesInv == TablesTyped /\ ReferencesTyped /\ WriterInv /\ E!CompleteHasFinalSummary

LEMMA EpisodesInit == ASSUME EpisodesAssumption, E!Init PROVE EpisodesInv
  <1> USE DEF E!Init, EpisodesAssumption
  <1>1. TablesTyped  BY DEF TablesTyped
  <1>2. ReferencesTyped
    <2>1. promoter \in Run  BY DEF E!NoRun, Run
    <2> QED BY <2>1 DEF ReferencesTyped
  <1>3. WriterInv  BY DEF WriterInv
  <1>4. E!CompleteHasFinalSummary  BY DEF E!CompleteHasFinalSummary
  <1> QED BY <1>1, <1>2, <1>3, <1>4 DEF EpisodesInv

LEMMA EpisodesType == ASSUME EpisodesInv PROVE E!TypeOK
  <1> USE DEF EpisodesInv, TablesTyped, ReferencesTyped
  <1>1. /\ promoter.eps \subseteq DOMAIN rows /\ promoter.blocked \in BOOLEAN
        /\ promoter.title \in Titles \cup {None}
        /\ promoter.goal \in {None} \cup 0..Len(goals)
    BY DEF Run
  <1> QED BY <1>1 DEF E!TypeOK, Row, Goal

\* A nonempty set of naturals up to n has a greatest element.
LEMMA GreatestUpTo ==
  ASSUME NEW n \in Nat, NEW X \in SUBSET (1..n), X # {}
  PROVE  \E i \in X : \A j \in X : j <= i
  <1> DEFINE Y == {n - i : i \in X}
  <1>1. Y \subseteq Nat /\ Y # {}
    <2>1. \A i \in X : n - i \in Nat  OBVIOUS
    <2> QED BY <2>1, Zenon
  <1>2. PICK y \in Y : \A z \in Y : ~(<<z, y>> \in OpToRel(<, Nat))
    BY <1>1, NatLessThanWellFounded, WFMin
  <1>3. OpToRel(<, Nat) = {ss \in Nat \X Nat : ss[1] < ss[2]}
    BY DEF OpToRel
  <1>4. \A z \in Y : ~(<<z, y>> \in {ss \in Nat \X Nat : ss[1] < ss[2]})
    BY <1>2, <1>3, Zenon
  <1>5. ASSUME NEW z \in Y PROVE y <= z
    <2>1. z \in Nat /\ y \in Nat  BY <1>1
    <2>2. ~(z < y)
      <3>1. SUFFICES ASSUME z < y PROVE <<z, y>> \in {ss \in Nat \X Nat : ss[1] < ss[2]}
        BY <1>4
      <3> QED BY <2>1, <3>1
    <2> QED BY <2>1, <2>2
  <1>6. PICK i \in X : y = n - i
    OBVIOUS
  <1>7. ASSUME NEW j \in X PROVE j <= i
    <2>1. n - j \in Y  OBVIOUS
    <2>2. y <= n - j  BY <1>5, <2>1
    <2> QED BY <1>6, <2>2
  <1> QED BY <1>7

LEMMA LatestIsOne ==
  ASSUME NEW n \in Nat, NEW X \in SUBSET (1..n)
  PROVE  E!Latest(X) \in X \cup {0}
  <1>1. CASE X # {}
    <2>1. \E i \in X : \A j \in X : j <= i  BY <1>1, GreatestUpTo
    <2> QED BY <1>1, <2>1 DEF E!Latest
  <1> QED BY <1>1 DEF E!Latest

\* A table keeps its length when a row of it is written.
LEMMA Rewritten ==
  ASSUME NEW T, NEW s \in Seq(T), NEW i \in 1..Len(s), NEW v \in T
  PROVE  /\ [s EXCEPT ![i] = v] \in Seq(T) /\ Len([s EXCEPT ![i] = v]) = Len(s)
         /\ \A j \in 1..Len(s) : [s EXCEPT ![i] = v][j] = IF j = i THEN v ELSE s[j]
  OBVIOUS

LEMMA Extended ==
  ASSUME NEW T, NEW s \in Seq(T), NEW v \in T
  PROVE  /\ Append(s, v) \in Seq(T) /\ Len(Append(s, v)) = Len(s) + 1
         /\ \A j \in 1..Len(s) : Append(s, v)[j] = s[j]
         /\ Append(s, v)[Len(s) + 1] = v
  OBVIOUS

\* A finished row is as its hook or its past wrote it; while a session holds the
\* write lock, the open rows stay open.
RowsStep ==
    /\ rows' \in Seq(Row) /\ Len(rows) <= Len(rows') /\ Len(rows') <= MaxRows
    /\ \A i \in DOMAIN rows' : rows'[i].state = "complete" =>
          \/ rows'[i].text = "final"
          \/ i \in DOMAIN rows /\ rows[i].state = "complete" /\ rows'[i].text = rows[i].text
    /\ ~E!Unlocked => \A i \in DOMAIN rows : E!Open(i) => rows'[i].state = "in_progress"

LEMMA SameRows == ASSUME TablesTyped, UNCHANGED rows PROVE RowsStep
  BY DEF TablesTyped, RowsStep, E!Open, Row

LEMMA RowsWritten ==
  ASSUME NEW r \in Row
  PROVE  /\ [r EXCEPT !.text = "running", !.age = 0] \in Row
         /\ [r EXCEPT !.text = "running", !.age = 0].state = r.state
         /\ [r EXCEPT !.state = "abandoned"] \in Row
         /\ [r EXCEPT !.state = "abandoned"].state = "abandoned"
  <1>1. /\ r = [ses |-> r.ses, state |-> r.state, text |-> r.text, age |-> r.age,
                want |-> r.want]
        /\ r.ses \in Sessions /\ r.state \in {"in_progress", "complete", "abandoned"}
        /\ r.text \in {"running", "final"} /\ r.age \in 0..2 /\ r.want \in Titles \cup {None}
    BY DEF Row
  <1>2. [r EXCEPT !.text = "running", !.age = 0]
           = [ses |-> r.ses, state |-> r.state, text |-> "running", age |-> 0, want |-> r.want]
    <2> DEFINE q == [r EXCEPT !.text = "running"]
    <2>1. q = [ses |-> r.ses, state |-> r.state, text |-> "running", age |-> r.age, want |-> r.want]
      BY <1>1
    <2>2. [r EXCEPT !.text = "running", !.age = 0] = [q EXCEPT !.age = 0]
      OBVIOUS
    <2> HIDE DEF q
    <2>3. [q EXCEPT !.age = 0]
             = [ses |-> r.ses, state |-> r.state, text |-> "running", age |-> 0, want |-> r.want]
      BY <2>1
    <2> QED BY <2>2, <2>3
  <1>3. [ses |-> r.ses, state |-> r.state, text |-> "running", age |-> 0, want |-> r.want]
           \in Row
    BY <1>1 DEF Row
  <1>4. [r EXCEPT !.text = "running", !.age = 0].state = r.state
    BY <1>2
  <1>5. /\ [r EXCEPT !.state = "abandoned"] \in Row
        /\ [r EXCEPT !.state = "abandoned"].state = "abandoned"
    BY DEF Row
  <1> QED BY <1>2, <1>3, <1>4, <1>5

LEMMA CheckpointRows ==
  ASSUME EpisodesAssumption, EpisodesInv, NEW s \in Sessions, E!Checkpoint(s)
  PROVE  RowsStep
  <1> USE DEF EpisodesInv, TablesTyped
  <1>1. CASE found[s] # 0
    <2> DEFINE i == found[s]
               v == [rows[i] EXCEPT !.text = "running", !.age = 0]
    <2>1. i \in 1..Len(rows) /\ rows[i] \in Row /\ rows[i].state = "in_progress"
      BY <1>1 DEF E!Checkpoint, ReferencesTyped, WriterInv, E!Open, EpisodesAssumption
    <2>2. v \in Row /\ v.state = "in_progress"
      BY <2>1, RowsWritten
    <2>3. rows' = [rows EXCEPT ![i] = v]
      BY <1>1, <2>1 DEF E!Checkpoint
    <2> HIDE DEF i, v
    <2>4. /\ rows' \in Seq(Row) /\ Len(rows') = Len(rows)
          /\ \A j \in 1..Len(rows) : rows'[j] = IF j = i THEN v ELSE rows[j]
      BY <2>1, <2>2, <2>3, Rewritten
    <2> QED BY <2>1, <2>2, <2>4 DEF RowsStep, E!Open
  <1>2. CASE found[s] = 0
    <2> DEFINE v == [ses |-> s, state |-> "in_progress", text |-> "running",
                     age |-> 0, want |-> None]
    <2>1. v \in Row /\ v.state = "in_progress"
      BY DEF Row
    <2>2. rows' = Append(rows, v) /\ Len(rows) < MaxRows
      BY <1>2 DEF E!Checkpoint
    <2> HIDE DEF v
    <2>3. /\ rows' \in Seq(Row) /\ Len(rows') = Len(rows) + 1
          /\ \A j \in 1..Len(rows) : rows'[j] = rows[j]
          /\ rows'[Len(rows) + 1] = v
      BY <2>1, <2>2, Extended
    <2> QED BY <2>1, <2>2, <2>3 DEF RowsStep, E!Open, EpisodesAssumption
  <1> QED BY <1>1, <1>2

LEMMA TargetIsOne ==
  ASSUME TablesTyped, NEW s \in Sessions
  PROVE  E!Target(s) \in 1..(Len(rows) + 1)
  <1> DEFINE his == {i \in DOMAIN rows : rows[i].ses = s}
             open == {i \in his : E!Open(i)}
             done == {i \in his : rows[i].state = "complete"}
  <1>1. /\ Len(rows) \in Nat
        /\ open \in SUBSET (1..Len(rows)) /\ done \in SUBSET (1..Len(rows))
    BY DEF TablesTyped
  <1>2. \A X \in SUBSET (1..Len(rows)) : E!Latest(X) \in 0..Len(rows)
    <2> TAKE X \in SUBSET (1..Len(rows))
    <2>1. E!Latest(X) \in X \cup {0}
      BY <1>1, LatestIsOne
    <2>2. X \cup {0} \subseteq 0..Len(rows)
      BY <1>1
    <2> QED BY <2>1, <2>2, Zenon
  <1> DEFINE o == E!Latest(open)
             d == E!Latest(done)
  <1>3. E!Target(s) = IF o # 0 THEN o
                      ELSE IF d # 0 /\ rows[d].age = 0 THEN d ELSE Len(rows) + 1
    BY Zenon DEF E!Target
  <1>4. o \in 0..Len(rows) /\ d \in 0..Len(rows)
    BY <1>1, <1>2
  <1> HIDE DEF o, d
  <1> QED BY <1>1, <1>3, <1>4

LEMMA FinaliseRows ==
  ASSUME EpisodesAssumption, TablesTyped, NEW s \in Sessions,
         NEW intent \in Titles \cup {None}, E!Finalise(s, intent)
  PROVE  RowsStep /\ E!Target(s) \in DOMAIN rows'
  <1> DEFINE i == E!Target(s)
             v == E!Final(s, intent)
  <1>1. i \in 1..(Len(rows) + 1) /\ i <= MaxRows /\ Len(rows) \in Nat
    BY TargetIsOne DEF TablesTyped, E!Finalise, E!Rows
  <1>2. v \in Row /\ v.text = "final"
    BY DEF E!Final, Row
  <1>3. E!Unlocked /\ rows' = IF i \in DOMAIN rows THEN [rows EXCEPT ![i] = v]
                                                 ELSE Append(rows, v)
    BY DEF E!Finalise
  <1> HIDE DEF i, v
  <1>4. CASE i \in DOMAIN rows
    <2>1. /\ rows' \in Seq(Row) /\ Len(rows') = Len(rows)
          /\ \A j \in 1..Len(rows) : rows'[j] = IF j = i THEN v ELSE rows[j]
      BY <1>1, <1>2, <1>3, <1>4, Rewritten DEF TablesTyped
    <2>2. RowsStep /\ i \in DOMAIN rows'
      BY <1>1, <1>2, <1>3, <1>4, <2>1 DEF RowsStep, TablesTyped
    <2> QED BY <2>2 DEF i
  <1>5. CASE i \notin DOMAIN rows
    <2>1. /\ rows' \in Seq(Row) /\ Len(rows') = Len(rows) + 1
          /\ \A j \in 1..Len(rows) : rows'[j] = rows[j]
          /\ rows'[Len(rows) + 1] = v
      BY <1>1, <1>2, <1>3, <1>5, Extended DEF TablesTyped
    <2>2. i = Len(rows) + 1
      BY <1>1, <1>5 DEF TablesTyped
    <2>3. RowsStep /\ i \in DOMAIN rows'
      BY <1>1, <1>2, <1>3, <2>1, <2>2 DEF RowsStep, TablesTyped, EpisodesAssumption
    <2> QED BY <2>3 DEF i
  <1> QED BY <1>4, <1>5

LEMMA SweepRows ==
  ASSUME EpisodesAssumption, TablesTyped, E!Sweep PROVE RowsStep
  <1> DEFINE w(i) == IF E!Swept(i) THEN [rows[i] EXCEPT !.state = "abandoned"] ELSE rows[i]
  <1>1. rows' = [i \in 1..Len(rows) |-> w(i)] /\ E!Unlocked
    BY DEF E!Sweep, TablesTyped
  <1>2. \A i \in 1..Len(rows) :
          /\ w(i) \in Row
          /\ w(i).state = "complete" => rows[i].state = "complete" /\ w(i).text = rows[i].text
    <2> TAKE i \in 1..Len(rows)
    <2>1. rows[i] \in Row  BY DEF TablesTyped
    <2> QED BY <2>1, RowsWritten
  <1> HIDE DEF w
  <1>3. rows' \in Seq(Row) /\ Len(rows') = Len(rows)
    BY <1>1, <1>2 DEF TablesTyped
  <1> QED BY <1>1, <1>2, <1>3 DEF RowsStep, TablesTyped

LEMMA AgeRows ==
  ASSUME EpisodesAssumption, TablesTyped, NEW i \in DOMAIN rows, E!Age(i) PROVE RowsStep
  <1> DEFINE v == [rows[i] EXCEPT !.age = @ + 1]
  <1>1. i \in 1..Len(rows) /\ rows[i] \in Row
    BY DEF TablesTyped
  <1>2. v \in Row /\ v.state = rows[i].state /\ v.text = rows[i].text
    BY <1>1 DEF E!Age, Row
  <1>3. rows' = [rows EXCEPT ![i] = v]
    BY <1>1 DEF E!Age
  <1> HIDE DEF v
  <1>4. /\ rows' \in Seq(Row) /\ Len(rows') = Len(rows)
        /\ \A j \in 1..Len(rows) : rows'[j] = IF j = i THEN v ELSE rows[j]
    BY <1>1, <1>2, <1>3, Rewritten DEF TablesTyped
  <1> QED BY <1>1, <1>2, <1>4 DEF RowsStep, TablesTyped, E!Open

\* Goals are never deleted.
GoalsStep == goals' \in Seq(Goal) /\ Len(goals) <= Len(goals')

\* What counts towards a goal goes on counting towards some goal.
LinksStep == \A l \in links : \E k \in links' : k[1] = l[1]

EpisodesStep == RowsStep /\ GoalsStep /\ LinksStep /\ ReferencesTyped'

LEMMA SameGoals == ASSUME TablesTyped, UNCHANGED goals PROVE GoalsStep
  BY DEF TablesTyped, GoalsStep

LEMMA SameLinks == ASSUME UNCHANGED links PROVE LinksStep
  BY DEF LinksStep

\* What referred to a row or a goal still does.
LEMMA Growing ==
  ASSUME EpisodesInv, RowsStep, GoalsStep
  PROVE  /\ DOMAIN rows \subseteq DOMAIN rows' /\ DOMAIN goals \subseteq DOMAIN goals'
         /\ links \subseteq (DOMAIN rows') \X (DOMAIN goals')
         /\ vectors \subseteq DOMAIN rows' /\ embeds \subseteq DOMAIN rows'
         /\ found \in [Sessions -> {None} \cup 0..Len(rows')]
         /\ promoter \in Run'
  <1>1. DOMAIN rows \subseteq DOMAIN rows' /\ DOMAIN goals \subseteq DOMAIN goals'
    BY DEF EpisodesInv, TablesTyped, RowsStep, GoalsStep
  <1>2. 0..Len(rows) \subseteq 0..Len(rows') /\ 0..Len(goals) \subseteq 0..Len(goals')
    BY DEF EpisodesInv, TablesTyped, RowsStep, GoalsStep
  <1>3. /\ links \subseteq (DOMAIN rows') \X (DOMAIN goals')
        /\ vectors \subseteq DOMAIN rows' /\ embeds \subseteq DOMAIN rows'
    BY <1>1 DEF EpisodesInv, ReferencesTyped
  <1>4. found \in [Sessions -> {None} \cup 0..Len(rows')]
    BY <1>2 DEF EpisodesInv, ReferencesTyped
  <1>5. promoter \in Run'
    <2>1. promoter \in Run  BY DEF EpisodesInv, ReferencesTyped
    <2> QED BY <1>1, <1>2, <2>1 DEF Run
  <1> QED BY <1>1, <1>3, <1>4, <1>5

LEMMA GoalRewritten ==
  ASSUME NEW g \in Goal, NEW st \in {"open", "blocked", "closed"}
  PROVE  [g EXCEPT !.status = st] \in Goal
  BY DEF Goal

LEMMA AbandonedGoals ==
  ASSUME NEW gs \in Seq(Goal), NEW X
  PROVE  E!Abandon(gs, X) \in Seq(Goal) /\ Len(E!Abandon(gs, X)) = Len(gs)
  <1> DEFINE w(g) == IF g \in X THEN [gs[g] EXCEPT !.status = "closed"] ELSE gs[g]
  <1>1. E!Abandon(gs, X) = [g \in 1..Len(gs) |-> w(g)]
    BY DEF E!Abandon
  <1>2. \A g \in 1..Len(gs) : w(g) \in Goal
    <2> TAKE g \in 1..Len(gs)
    <2>1. gs[g] \in Goal  OBVIOUS
    <2> QED BY <2>1, GoalRewritten
  <1> HIDE DEF w
  <1> QED BY <1>1, <1>2

\* A checkpoint's transaction.
LEMMA CheckpointStep ==
  ASSUME EpisodesAssumption, EpisodesInv, NEW s \in Sessions,
         E!Find(s) \/ E!Checkpoint(s) \/ E!GiveUp(s)
  PROVE  EpisodesStep
  <1>1. UNCHANGED <<goals, links, vectors, embeds, promoter>>
    BY DEF E!Find, E!Checkpoint, E!GiveUp
  <1>2. RowsStep
    BY CheckpointRows, SameRows DEF E!Find, E!GiveUp, EpisodesInv
  <1>3. GoalsStep /\ LinksStep
    BY <1>1, SameGoals, SameLinks DEF EpisodesInv
  <1>4. found' \in [Sessions -> {None} \cup 0..Len(rows')]
    <2>1. CASE E!Find(s)
      <3> DEFINE X == {i \in DOMAIN rows : rows[i].ses = s /\ E!Open(i)}
      <3>1. X \in SUBSET (1..Len(rows)) /\ Len(rows) \in Nat
        BY DEF EpisodesInv, TablesTyped
      <3>2. found' = [found EXCEPT ![s] = E!Latest(X)] /\ rows' = rows
        BY <2>1 DEF E!Find
      <3> HIDE DEF X
      <3>3. E!Latest(X) \in 0..Len(rows)
        <4>1. E!Latest(X) \in X \cup {0}  BY <3>1, LatestIsOne
        <4>2. E!Latest(X) \in (1..Len(rows)) \cup {0}  BY <3>1, <4>1, Zenon
        <4>3. Len(rows) \in Nat  BY <3>1
        <4> QED BY <4>2, <4>3
      <3> QED BY <3>2, <3>3 DEF EpisodesInv, ReferencesTyped
    <2>2. CASE E!Checkpoint(s) \/ E!GiveUp(s)
      <3>1. found' = [found EXCEPT ![s] = None]
        BY <2>2 DEF E!Checkpoint, E!GiveUp
      <3>2. found \in [Sessions -> {None} \cup 0..Len(rows')]
        BY <1>2, <1>3, Growing
      <3> QED BY <3>1, <3>2
    <2> QED BY <2>1, <2>2
  <1> QED BY <1>1, <1>2, <1>3, <1>4, Growing DEF EpisodesStep, ReferencesTyped

\* A finalised episode, and the goal its intent matched.
LEMMA FinaliseStep ==
  ASSUME EpisodesAssumption, EpisodesInv, NEW s \in Sessions,
         E!Plain(s) \/ \E t \in Titles : E!Matched(s, t) \/ E!Unmatched(s, t)
  PROVE  EpisodesStep
  <1>1. PICK intent \in Titles \cup {None} : E!Finalise(s, intent)
    BY DEF E!Plain, E!Matched, E!Unmatched
  <1>2. RowsStep /\ E!Target(s) \in DOMAIN rows'
    BY <1>1, FinaliseRows DEF EpisodesInv
  <1>3. /\ UNCHANGED <<vectors, found, promoter>>
        /\ embeds' \subseteq embeds \cup {E!Target(s)}
    BY <1>1 DEF E!Finalise
  <1>4. CASE UNCHANGED <<goals, links>>
    <2>1. GoalsStep /\ LinksStep  BY <1>4, SameGoals, SameLinks DEF EpisodesInv
    <2> QED BY <1>2, <1>3, <1>4, <2>1, Growing DEF EpisodesStep, ReferencesTyped
  <1>5. ASSUME NEW t \in Titles, E!Matched(s, t) PROVE EpisodesStep
    <2>1. PICK g \in E!Live(t), st \in {"open", "blocked"} :
             /\ goals' = [goals EXCEPT ![g].status = st]
             /\ links' = links \cup {<<E!Target(s), g>>}
      BY <1>5 DEF E!Matched
    <2>2. g \in 1..Len(goals) /\ goals[g] \in Goal
      BY DEF E!Live, EpisodesInv, TablesTyped
    <2> DEFINE v == [goals[g] EXCEPT !.status = st]
    <2>3. v \in Goal /\ goals' = [goals EXCEPT ![g] = v]
      BY <2>1, <2>2, GoalRewritten
    <2> HIDE DEF v
    <2>4. goals' \in Seq(Goal) /\ Len(goals') = Len(goals)
      BY <2>2, <2>3, Rewritten DEF EpisodesInv, TablesTyped
    <2>5. GoalsStep /\ LinksStep
      BY <2>1, <2>4 DEF GoalsStep, LinksStep, EpisodesInv, TablesTyped
    <2>6. g \in DOMAIN goals'
      BY <2>2, <2>4
    <2> QED BY <1>2, <1>3, <2>1, <2>5, <2>6, Growing DEF EpisodesStep, ReferencesTyped
  <1>6. E!Plain(s) \/ (\E t \in Titles : E!Unmatched(s, t)) => UNCHANGED <<goals, links>>
    BY DEF E!Plain, E!Unmatched
  <1> QED BY <1>4, <1>5, <1>6

\* The vectors, the sweep of stale checkpoints and time.
LEMMA VectorsStep ==
  ASSUME EpisodesAssumption, EpisodesInv,
         \/ E!Backfill \/ E!Sweep
         \/ \E i \in DOMAIN rows : E!Embed(i) \/ E!Drop(i) \/ E!Age(i)
  PROVE  EpisodesStep
  <1>1. /\ UNCHANGED <<goals, links, found, promoter>>
        /\ vectors' \subseteq vectors \cup embeds /\ embeds' \subseteq embeds \cup DOMAIN rows
    BY DEF E!Backfill, E!Sweep, E!Embed, E!Drop, E!Age, E!Missing
  <1>2. RowsStep
    <2>1. CASE UNCHANGED rows  BY <2>1, SameRows DEF EpisodesInv
    <2> QED BY <2>1, SweepRows, AgeRows DEF E!Backfill, E!Embed, E!Drop, EpisodesInv
  <1>3. GoalsStep /\ LinksStep
    BY <1>1, SameGoals, SameLinks DEF EpisodesInv
  <1>4. embeds' \subseteq DOMAIN rows' /\ vectors' \subseteq DOMAIN rows'
    BY <1>1, <1>2, <1>3, Growing
  <1> QED BY <1>1, <1>2, <1>3, <1>4, Growing DEF EpisodesStep, ReferencesTyped

\* The recurrence promoter.
LEMMA PromoterReads ==
  ASSUME EpisodesAssumption, EpisodesInv,
         (\E t \in Titles : E!Mine(t)) \/ E!LookUp \/ E!PromoterDies
  PROVE  EpisodesStep
  <1>1. UNCHANGED <<rows, goals, links, vectors, embeds, found>>
    BY DEF E!Mine, E!LookUp, E!PromoterDies
  <1>2. RowsStep /\ GoalsStep /\ LinksStep
    BY <1>1, SameRows, SameGoals, SameLinks DEF EpisodesInv
  <1>3. promoter' \in Run
    <2>1. promoter \in Run  BY DEF EpisodesInv, ReferencesTyped
    <2>2. CASE E!PromoterDies
      BY <2>2 DEF E!PromoterDies, E!NoRun, Run
    <2>3. ASSUME NEW t \in Titles, E!Mine(t) PROVE promoter' \in Run
      BY <2>3 DEF E!Mine, E!NoRun, E!Stating, Run
    <2>4. CASE E!LookUp
      <3>0. promoter.title # None  BY <2>4 DEF E!LookUp
      <3>1. CASE promoter' = [promoter EXCEPT !.goal = 0]
        <4>1. 0 \in 0..Len(goals)  BY DEF EpisodesInv, TablesTyped
        <4> QED BY <2>1, <3>0, <3>1, <4>1 DEF Run
      <3>2. ASSUME NEW g \in E!Live(promoter.title),
                   promoter' = [promoter EXCEPT !.goal = g,
                                                !.blocked = goals[g].status = "blocked"]
            PROVE  promoter' \in Run
        <4> DEFINE b == goals[g].status = "blocked"
                   q == [promoter EXCEPT !.goal = g]
        <4>1. b \in BOOLEAN /\ g \in 0..Len(goals)
          BY DEF E!Live, EpisodesInv, TablesTyped
        <4> HIDE DEF b
        <4>2. q \in Run  BY <2>1, <3>0, <4>1 DEF Run
        <4>3. promoter' = [q EXCEPT !.blocked = b]  BY <3>2 DEF b
        <4> HIDE DEF q
        <4> QED BY <4>1, <4>2, <4>3 DEF Run
      <3> QED BY <2>4, <3>1, <3>2 DEF E!LookUp
    <2> QED BY <2>2, <2>3, <2>4
  <1>4. promoter' \in Run'
    BY <1>1, <1>3 DEF Run
  <1> QED BY <1>1, <1>2, <1>4, Growing DEF EpisodesStep, ReferencesTyped

LEMMA PromoteStep ==
  ASSUME EpisodesAssumption, EpisodesInv, E!Promote PROVE EpisodesStep
  <1> DEFINE g   == IF promoter.goal = 0 THEN Len(goals) + 1 ELSE promoter.goal
             new == [title |-> promoter.title, status |-> "open", by |-> "promoter"]
             gs  == IF promoter.goal = 0 THEN Append(goals, new)
                    ELSE IF promoter.blocked THEN [goals EXCEPT ![g].status = "open"]
                    ELSE goals
  <1>1. /\ promoter.goal # None /\ promoter' = E!NoRun
        /\ UNCHANGED <<rows, vectors, embeds, found>>
        /\ links' = links \cup {<<i, g>> : i \in promoter.eps}
        /\ \E X : goals' = E!Abandon(gs, X)
    BY DEF E!Promote
  <1>2. /\ promoter.eps \subseteq DOMAIN rows /\ promoter.title \in Titles \cup {None}
        /\ promoter.goal \in 0..Len(goals) /\ promoter.title # None
    BY <1>1 DEF EpisodesInv, ReferencesTyped, Run
  <1>3. gs \in Seq(Goal) /\ Len(goals) <= Len(gs) /\ g \in 1..Len(gs)
    <2>1. goals \in Seq(Goal) /\ Len(goals) \in Nat
      BY DEF EpisodesInv, TablesTyped
    <2>2. CASE promoter.goal = 0
      <3>1. new \in Goal
        BY <1>1, <1>2 DEF Goal
      <3> HIDE DEF new
      <3> QED BY <2>1, <2>2, <3>1, Extended
    <2>3. CASE promoter.goal # 0
      <3>1. g = promoter.goal /\ g \in 1..Len(goals) /\ goals[g] \in Goal
        BY <1>2, <2>1, <2>3
      <3> DEFINE v == [goals[g] EXCEPT !.status = "open"]
      <3>2. gs = [goals EXCEPT ![g] = v] \/ gs = goals
        BY <2>3, <3>1
      <3>3. v \in Goal  BY <3>1, GoalRewritten
      <3> HIDE DEF v, g, gs
      <3> QED BY <2>1, <3>1, <3>2, <3>3, Rewritten
    <2> QED BY <2>2, <2>3
  <1> HIDE DEF g, gs
  <1>4. RowsStep
    BY <1>1, SameRows DEF EpisodesInv
  <1>5. GoalsStep /\ Len(goals') = Len(gs)
    <2>1. PICK X : goals' = E!Abandon(gs, X)  BY <1>1
    <2>2. goals' \in Seq(Goal) /\ Len(goals') = Len(gs)  BY <1>3, <2>1, AbandonedGoals
    <2> QED BY <1>3, <2>2 DEF GoalsStep
  <1>6. LinksStep
    BY <1>1 DEF LinksStep
  <1>7. g \in DOMAIN goals' /\ promoter.eps \subseteq DOMAIN rows'
    BY <1>1, <1>2, <1>3, <1>5 DEF GoalsStep
  <1>8. links' \subseteq (DOMAIN rows') \X (DOMAIN goals')
    BY <1>1, <1>4, <1>5, <1>7, Growing
  <1>9. promoter' \in Run'
    BY <1>1 DEF E!NoRun, Run
  <1> QED BY <1>1, <1>4, <1>5, <1>6, <1>8, <1>9, Growing DEF EpisodesStep, ReferencesTyped

\* The upkeep of the goals, and the operator's endpoints.
LEMMA GoalsAloneStep ==
  ASSUME EpisodesAssumption, EpisodesInv,
         \/ \E g \in DOMAIN goals : E!AbandonIdle(g) \/ E!AbandonStale(g)
         \/ \E g \in DOMAIN goals, st \in {"open", "blocked", "closed"} : E!SetStatus(g, st)
         \/ \E t \in Titles : E!CreateGoal(t)
  PROVE  EpisodesStep
  <1>1. UNCHANGED <<rows, links, vectors, embeds, found, promoter>>
    BY DEF E!AbandonIdle, E!AbandonStale, E!SetStatus, E!CreateGoal
  <1>2. RowsStep /\ LinksStep
    BY <1>1, SameRows, SameLinks DEF EpisodesInv
  <1>3. goals \in Seq(Goal) /\ Len(goals) \in Nat
    BY DEF EpisodesInv, TablesTyped
  <1>4. ASSUME NEW g \in DOMAIN goals, E!AbandonIdle(g) \/ E!AbandonStale(g) PROVE GoalsStep
    <2>1. goals' = E!Abandon(goals, {g})  BY <1>4 DEF E!AbandonIdle, E!AbandonStale
    <2> QED BY <1>3, <2>1, AbandonedGoals DEF GoalsStep
  <1>5. ASSUME NEW g \in DOMAIN goals, NEW st \in {"open", "blocked", "closed"},
               E!SetStatus(g, st)
        PROVE  GoalsStep
    <2> DEFINE v == [goals[g] EXCEPT !.status = st]
    <2>1. g \in 1..Len(goals) /\ goals[g] \in Goal  BY <1>3
    <2>2. v \in Goal /\ goals' = [goals EXCEPT ![g] = v]
      BY <1>5, <2>1, GoalRewritten DEF E!SetStatus
    <2> HIDE DEF v
    <2> QED BY <1>3, <2>1, <2>2, Rewritten DEF GoalsStep
  <1>6. ASSUME NEW t \in Titles, E!CreateGoal(t) PROVE GoalsStep
    <2> DEFINE v == [title |-> t, status |-> "open", by |-> "manual"]
    <2>1. v \in Goal /\ goals' = Append(goals, v)  BY <1>6 DEF E!CreateGoal, Goal
    <2> HIDE DEF v
    <2> QED BY <1>3, <2>1, Extended DEF GoalsStep
  <1>7. GoalsStep
    BY <1>4, <1>5, <1>6
  <1> QED BY <1>1, <1>2, <1>7, Growing DEF EpisodesStep, ReferencesTyped

LEMMA LinkStep ==
  ASSUME EpisodesAssumption, EpisodesInv,
         \/ \E i \in DOMAIN rows, g \in DOMAIN goals : E!LinkEpisode(i, g)
         \/ \E a, b \in DOMAIN goals : E!Merge(a, b)
  PROVE  EpisodesStep
  <1>1. UNCHANGED <<rows, vectors, embeds, found, promoter>>
    BY DEF E!LinkEpisode, E!Merge
  <1>2. RowsStep
    BY <1>1, SameRows DEF EpisodesInv
  <1>3. links \subseteq (DOMAIN rows) \X (DOMAIN goals)
    BY DEF EpisodesInv, ReferencesTyped
  <1>4. ASSUME NEW i \in DOMAIN rows, NEW g \in DOMAIN goals, E!LinkEpisode(i, g)
        PROVE  EpisodesStep
    <2>1. UNCHANGED goals /\ links' = links \cup {<<i, g>>}  BY <1>4 DEF E!LinkEpisode
    <2>2. GoalsStep /\ LinksStep
      BY <2>1, SameGoals DEF LinksStep, EpisodesInv
    <2>3. links' \subseteq (DOMAIN rows') \X (DOMAIN goals')
      BY <1>1, <1>3, <2>1
    <2> QED BY <1>1, <1>2, <2>2, <2>3, Growing DEF EpisodesStep, ReferencesTyped
  <1>5. ASSUME NEW a \in DOMAIN goals, NEW b \in DOMAIN goals, E!Merge(a, b)
        PROVE  EpisodesStep
    <2>1. /\ links' = {<<l[1], IF l[2] = a THEN b ELSE l[2]>> : l \in links}
          /\ goals' = [goals EXCEPT ![a].status = "closed"]
      BY <1>5 DEF E!Merge, E!Retarget
    <2>2. LinksStep
      <3> SUFFICES ASSUME NEW l \in links PROVE \E k \in links' : k[1] = l[1]
        BY DEF LinksStep
      <3>1. <<l[1], IF l[2] = a THEN b ELSE l[2]>> \in links'  BY <2>1
      <3> QED BY <3>1
    <2> DEFINE v == [goals[a] EXCEPT !.status = "closed"]
    <2>3. goals \in Seq(Goal) /\ a \in 1..Len(goals) /\ goals[a] \in Goal
      BY DEF EpisodesInv, TablesTyped
    <2>4. v \in Goal /\ goals' = [goals EXCEPT ![a] = v]
      BY <2>1, <2>3, GoalRewritten
    <2> HIDE DEF v
    <2>5. goals' \in Seq(Goal) /\ Len(goals') = Len(goals)
      BY <2>3, <2>4, Rewritten
    <2>6. GoalsStep /\ DOMAIN goals' = DOMAIN goals
      BY <2>3, <2>5 DEF GoalsStep
    <2>7. links' \subseteq (DOMAIN rows') \X (DOMAIN goals')
      BY <1>1, <1>3, <2>1, <2>6
    <2> QED BY <1>1, <1>2, <2>2, <2>6, <2>7, Growing DEF EpisodesStep, ReferencesTyped
  <1> QED BY <1>4, <1>5

LEMMA EpisodesSteps ==
  ASSUME EpisodesAssumption, EpisodesInv, [E!Next]_E!vars PROVE EpisodesStep
  <1>1. CASE UNCHANGED E!vars
    <2>1. UNCHANGED <<rows, goals, links, vectors, embeds, found, promoter>>
      BY <1>1 DEF E!vars
    <2>2. RowsStep /\ GoalsStep /\ LinksStep
      BY <2>1, SameRows, SameGoals, SameLinks DEF EpisodesInv
    <2> QED BY <2>1, <2>2, Growing DEF EpisodesStep, ReferencesTyped
  <1>2. CASE E!Next
    BY <1>2, CheckpointStep, FinaliseStep, VectorsStep, PromoterReads, PromoteStep,
       GoalsAloneStep, LinkStep DEF E!Next
  <1> QED BY <1>1, <1>2

\* Only a checkpoint takes the write lock for more than one step.
LEMMA FoundStep ==
  ASSUME [E!Next]_E!vars
  PROVE  \/ found' = found
         \/ \E s \in Sessions :
               \/ E!Find(s)
               \/ found' = [found EXCEPT ![s] = None]
  <1>1. CASE E!Next
    <2>1. CASE \E s \in Sessions : E!Find(s) \/ E!Checkpoint(s) \/ E!GiveUp(s)
      BY <2>1 DEF E!Checkpoint, E!GiveUp
    <2>2. CASE ~(\E s \in Sessions : E!Find(s) \/ E!Checkpoint(s) \/ E!GiveUp(s))
      BY <1>1, <2>2 DEF E!Next, E!Plain, E!Matched, E!Unmatched, E!Finalise, E!Embed, E!Drop,
         E!Age, E!Backfill, E!Sweep, E!Mine, E!CreateGoal, E!LookUp, E!Promote, E!PromoterDies,
         E!AbandonIdle, E!AbandonStale, E!SetStatus, E!LinkEpisode, E!Merge
    <2> QED BY <2>1, <2>2
  <1>2. CASE UNCHANGED E!vars
    BY <1>2 DEF E!vars
  <1> QED BY <1>1, <1>2

LEMMA WriterStep ==
  ASSUME EpisodesAssumption, EpisodesInv, [E!Next]_E!vars PROVE WriterInv'
  <1>1. RowsStep
    BY EpisodesSteps DEF EpisodesStep
  <1>2. found \in [Sessions -> {None} \cup 0..Len(rows)] /\ rows \in Seq(Row)
    BY DEF EpisodesInv, ReferencesTyped, TablesTyped
  <1>3. ASSUME NEW s \in Sessions, found[s] \notin {None, 0}
        PROVE  E!Open(found[s])'  \/ found'[s] # found[s]
    <2>1. E!Open(found[s]) /\ found[s] \in DOMAIN rows
      BY <1>2, <1>3 DEF EpisodesInv, WriterInv
    <2>2. ~E!Unlocked
      BY <1>3 DEF E!Unlocked
    <2> QED BY <1>1, <2>1, <2>2 DEF RowsStep, E!Open
  <1>4. CASE found' = found
    BY <1>3, <1>4 DEF WriterInv, EpisodesInv, E!Open
  <1>5. ASSUME NEW s \in Sessions, found' = [found EXCEPT ![s] = None] PROVE WriterInv'
    BY <1>2, <1>3, <1>5 DEF WriterInv, EpisodesInv, E!Open
  <1>6. ASSUME NEW s \in Sessions, E!Find(s) PROVE WriterInv'
    <2> DEFINE X == {i \in DOMAIN rows : rows[i].ses = s /\ E!Open(i)}
    <2>1. X \in SUBSET (1..Len(rows)) /\ Len(rows) \in Nat /\ \A i \in X : E!Open(i)
      BY <1>2
    <2>2. found' = [found EXCEPT ![s] = E!Latest(X)] /\ rows' = rows /\ E!Unlocked
      BY <1>6 DEF E!Find
    <2> HIDE DEF X
    <2>3. E!Latest(X) \in X \cup {0}
      BY <2>1, LatestIsOne
    <2> QED BY <1>2, <2>1, <2>2, <2>3 DEF WriterInv, E!Open, E!Unlocked
  <1> QED BY <1>4, <1>5, <1>6, FoundStep

LEMMA SummaryStep ==
  ASSUME EpisodesAssumption, EpisodesInv, [E!Next]_E!vars PROVE E!CompleteHasFinalSummary'
  <1>1. RowsStep
    BY EpisodesSteps DEF EpisodesStep
  <1> QED BY <1>1 DEF RowsStep, EpisodesInv, E!CompleteHasFinalSummary

LEMMA EpisodesAlways == ASSUME EpisodesAssumption PROVE All => []EpisodesInv
  <1>1. AllInit => EpisodesInv
    BY EpisodesInit DEF AllInit, MCInit
  <1>2. EpisodesInv /\ [AllNext]_allVars => EpisodesInv'
    <2> SUFFICES ASSUME EpisodesInv, [AllNext]_allVars PROVE EpisodesInv'
      OBVIOUS
    <2>1. [E!Next]_E!vars  BY EachJobsStep
    <2>2. EpisodesStep /\ WriterInv' /\ E!CompleteHasFinalSummary'
      BY <2>1, EpisodesSteps, WriterStep, SummaryStep
    <2>3. TablesTyped'
      BY <2>2 DEF EpisodesStep, RowsStep, GoalsStep, TablesTyped
    <2> QED BY <2>2, <2>3 DEF EpisodesInv, EpisodesStep
  <1> QED BY <1>1, <1>2, PTL DEF All, allVars

(* A finished episode keeps its extracted summary, for any number of        *)
(* sessions whose prompts' checkpoints race their Stop hooks: the row is    *)
(* looked up under the write lock (upsert_in_progress_episode).             *)
THEOREM SummariesKept ==
  ASSUME EpisodesAssumption PROVE All => []CompleteHasFinalSummary
  <1>1. EpisodesInv => CompleteHasFinalSummary
    BY DEF EpisodesInv, CompleteHasFinalSummary
  <1> QED BY <1>1, EpisodesAlways, PTL

(* An episode that counts towards a goal counts towards some goal for ever, *)
(* for any number of episodes, goals and merges (retarget_goal_links).      *)
THEOREM LinksKept ==
  ASSUME EpisodesAssumption PROVE All => LinksSurviveMerges
  <1>1. EpisodesInv /\ [AllNext]_allVars =>
           [\A l \in links : \E k \in links' : k[1] = l[1]]_E!vars
    <2> SUFFICES ASSUME EpisodesInv, [AllNext]_allVars PROVE LinksStep
      BY DEF LinksStep
    <2> QED BY EachJobsStep, EpisodesSteps DEF EpisodesStep
  <1> QED BY <1>1, EpisodesAlways, PTL
          DEF All, allVars, LinksSurviveMerges, E!LinksSurviveMerges

-----------------------------------------------------------------------------
(* The contradiction sweep (Sweep).                                         *)

USE DEF S!store, S!run, S!Goto, S!Others

\* A run's places, and the canonicals it has still to take.
RunTyped ==
    /\ stage \in {"idle", "next", "pairs", "prune", "scroll", "rejudge"}
    /\ judge \in {"codex", "local"}
    /\ ahead \in Seq(Canonicals) /\ (stage = "pairs" => ahead # <<>>)
    /\ left \subseteq Candidates /\ flagged \subseteq Candidates

RotationTyped == rotation \in Seq(Canonicals) /\ S!IsInjective(rotation)

RecordsTyped ==
    /\ stamped \in [Candidates -> S!Someone] /\ pending \in [Candidates -> S!Someone]
    /\ age \in [Candidates -> 0..2] /\ hidden \subseteq Candidates
    /\ queue \subseteq S!Line /\ yes \subseteq Canonicals \X Candidates
    /\ scrolled \subseteq S!Read

\* A line that may be promoted is about an older record, and authoritative.
QueueInv == \A q \in queue : q.kind = "review" =>
               <<q.can, q.mem>> \in yes /\ <<q.can, q.mem>> \notin Newer

\* So is what the re-judge read, as to its age.
ScrollInv == \A r \in scrolled : <<r.can, r.mem>> \notin Newer

SweepInv == /\ RunTyped /\ RotationTyped /\ RecordsTyped /\ QueueInv /\ ScrollInv
            /\ S!HiddenOnlyOnAuthority /\ S!CorrectionsStayVisible

LEMMA SweepTypes == ASSUME SweepInv PROVE S!TypeOK
  <1> USE DEF SweepInv
  <1>1. S!ToSet(rotation) \subseteq Canonicals
    BY DEF RotationTyped, S!ToSet
  <1> QED BY <1>1 DEF S!TypeOK, RunTyped, RotationTyped, RecordsTyped

\* The instance has a Cardinality of its own.
LEMMA SweepCardinality == ASSUME NEW F PROVE S!Cardinality(F) = Cardinality(F)
  BY DEF S!Cardinality, Cardinality

LEMMA RotationStarts ==
  ASSUME SweepAssumption
  PROVE  S!SetToSeq(Canonicals) \in Seq(Canonicals) /\ S!IsInjective(S!SetToSeq(Canonicals))
  <1> DEFINE n == Cardinality(Canonicals)
  <1>1. n \in Nat /\ ExistsBijection(1..n, Canonicals)
    BY FS_CardinalityType DEF SweepAssumption
  <1>2. PICK f \in Bijection(1..n, Canonicals) : TRUE
    BY <1>1 DEF ExistsBijection
  <1>3. f \in [1..n -> Canonicals] /\ S!IsInjective(f)
    BY <1>2 DEF Bijection, Injection, IsInjective, S!IsInjective
  <1>4. S!SetToSeq(Canonicals) = CHOOSE g \in [1..n -> Canonicals] : S!IsInjective(g)
    BY SweepCardinality DEF S!SetToSeq
  <1>5. S!SetToSeq(Canonicals) \in [1..n -> Canonicals] /\ S!IsInjective(S!SetToSeq(Canonicals))
    BY <1>3, <1>4
  <1> QED BY <1>1, <1>5

\* Without one of its canonicals, a rotation is a rotation of the others.
LEMMA RotationWithout ==
  ASSUME RotationTyped, NEW c \in Canonicals, S!IsLive(c)
  PROVE  LET w == S!RemoveFirst(rotation, c) IN
         /\ w \in Seq(Canonicals) /\ S!IsInjective(w)
         /\ \A i \in 1..Len(w) : w[i] # c
  <1> DEFINE s == rotation
             I == {i \in 1..Len(s) : s[i] = c}
  <1>1. s \in Seq(Canonicals) /\ Len(s) \in Nat
    BY DEF RotationTyped
  <1>2. PICK k \in 1..Len(s) : s[k] = c
    BY <1>1 DEF S!IsLive, S!ToSet
  <1>3. I = {k}
    BY <1>1, <1>2 DEF RotationTyped, S!IsInjective
  <1>4. S!Min(I) = k
    <2>1. S!Min({k}) = k  BY <1>2 DEF S!Min
    <2> QED BY <1>3, <2>1
  <1>5. S!SelectInSeq(s, LAMBDA v : v = c) = k
    BY <1>3, <1>4 DEF S!SelectInSeq
  <1>6. S!RemoveFirst(s, c) = SubSeq(s, 1, k - 1) \o SubSeq(s, k + 1, Len(s))
    BY <1>2, <1>5 DEF S!RemoveFirst, S!RemoveAt
  <1> DEFINE w == SubSeq(s, 1, k - 1) \o SubSeq(s, k + 1, Len(s))
  <1>7. /\ w \in Seq(Canonicals) /\ Len(w) = Len(s) - 1
        /\ \A i \in 1..Len(w) : w[i] = IF i < k THEN s[i] ELSE s[i + 1]
    <2> DEFINE a == SubSeq(s, 1, k - 1)
               b == SubSeq(s, k + 1, Len(s))
    <2>1. a \in Seq(Canonicals) /\ Len(a) = k - 1 /\ \A i \in 1..(k - 1) : a[i] = s[i]
      BY <1>1, <1>2
    <2>2. /\ b \in Seq(Canonicals) /\ Len(b) = Len(s) - k
          /\ \A i \in 1..(Len(s) - k) : b[i] = s[i + k]
      BY <1>1, <1>2
    <2>0. w = a \o b  OBVIOUS
    <2> HIDE DEF a, b, w
    <2>3. /\ a \o b \in Seq(Canonicals) /\ Len(a \o b) = Len(a) + Len(b)
          /\ \A i \in 1..(Len(a) + Len(b)) :
                (a \o b)[i] = IF i <= Len(a) THEN a[i] ELSE b[i - Len(a)]
      BY <2>1, <2>2, ConcatProperties
    <2>4. \A i \in 1..(Len(s) - 1) : (a \o b)[i] = IF i < k THEN s[i] ELSE s[i + 1]
      <3> SUFFICES ASSUME NEW i \in 1..(Len(s) - 1)
                   PROVE  (a \o b)[i] = IF i < k THEN s[i] ELSE s[i + 1]
        OBVIOUS
      <3>1. CASE i < k
        BY <1>1, <1>2, <2>1, <2>2, <2>3, <3>1
      <3>2. CASE ~(i < k)
        <4>1. (a \o b)[i] = b[i - (k - 1)] /\ i - (k - 1) \in 1..(Len(s) - k)
          BY <1>1, <1>2, <2>1, <2>2, <2>3, <3>2
        <4>2. b[i - (k - 1)] = s[(i - (k - 1)) + k] /\ (i - (k - 1)) + k = i + 1
          BY <1>1, <1>2, <2>2, <4>1
        <4> QED BY <3>2, <4>1, <4>2
      <3> QED BY <3>1, <3>2
    <2>5. Len(a) + Len(b) = Len(s) - 1  BY <1>1, <1>2, <2>1, <2>2
    <2> QED BY <2>0, <2>3, <2>4, <2>5
  <1> HIDE DEF w
  <1>8. S!IsInjective(w)
    BY <1>1, <1>2, <1>7 DEF RotationTyped, S!IsInjective
  <1>9. \A i \in 1..Len(w) : w[i] # c
    BY <1>1, <1>2, <1>7 DEF RotationTyped, S!IsInjective
  <1> QED BY <1>6, <1>7, <1>8, <1>9 DEF w

LEMMA RotationMoved ==
  ASSUME RotationTyped, NEW c \in Canonicals
  PROVE  S!Moved(c) \in Seq(Canonicals) /\ S!IsInjective(S!Moved(c))
  <1>1. CASE ~S!IsLive(c)
    BY <1>1 DEF S!Moved, RotationTyped
  <1>2. CASE S!IsLive(c)
    <2> DEFINE w == S!RemoveFirst(rotation, c)
    <2>1. w \in Seq(Canonicals) /\ S!IsInjective(w) /\ \A i \in 1..Len(w) : w[i] # c
      BY <1>2, RotationWithout
    <2>2. S!Moved(c) = Append(w, c)
      BY <1>2 DEF S!Moved
    <2> HIDE DEF w
    <2>3. Append(w, c) \in Seq(Canonicals) /\ S!IsInjective(Append(w, c))
      BY <2>1 DEF S!IsInjective
    <2> QED BY <2>2, <2>3
  <1> QED BY <1>1, <1>2

LEMMA SweepInit == ASSUME SweepAssumption, S!Init PROVE SweepInv
  <1> USE DEF S!Init
  <1>1. RunTyped
    BY DEF RunTyped
  <1>2. RotationTyped
    BY RotationStarts DEF RotationTyped
  <1>3. RecordsTyped
    BY DEF RecordsTyped, S!Someone
  <1>4. QueueInv /\ ScrollInv
    BY DEF QueueInv, ScrollInv
  <1>5. S!HiddenOnlyOnAuthority /\ S!CorrectionsStayVisible
    BY DEF S!HiddenOnlyOnAuthority, S!CorrectionsStayVisible, SweepAssumption
  <1> QED BY <1>1, <1>2, <1>3, <1>4, <1>5 DEF SweepInv

\* What a run, its judge and the operator may do.
Takes       == \/ S!Begin \/ S!Query \/ S!QueryFails \/ S!MarkFails \/ S!AllTaken \/ S!Abort
               \/ S!Prune
Rotates     == S!NoVector \/ S!Swept
Rereads     == S!Scroll \/ S!RejudgeEnds
Judges(k)   == S!JudgeYes(k) \/ S!JudgeNo(k) \/ S!Skip(k)
Rejudges(r) == S!DeadTarget(r) \/ S!RejudgeNo(r) \/ S!RejudgeYes(r) \/ S!RejudgeSkip(r)
Supersedes(p) == \/ S!EvidenceSweep(p) \/ S!RetrievalPairs(p) \/ S!Resolve(p)
                 \/ S!ConvertMarker(p)
Handles(k)  == S!Dismiss(k) \/ S!Unstamp(k) \/ S!Unsupersede(k) \/ S!Edit(k)

LEMMA SweepStepCases ==
  ASSUME [S!Next]_S!vars,
         NEW Aim,
         Takes => Aim, Rotates => Aim, Rereads => Aim,
         ASSUME NEW k \in Candidates, Judges(k) PROVE Aim,
         ASSUME NEW r \in scrolled, Rejudges(r) PROVE Aim,
         ASSUME NEW p \in Stale, Supersedes(p) PROVE Aim,
         ASSUME NEW k \in Candidates, Handles(k) PROVE Aim,
         ASSUME NEW k \in Candidates, S!Promote(k) PROVE Aim,
         ASSUME NEW c \in Canonicals, S!Demote(c) PROVE Aim,
         S!Time => Aim, UNCHANGED S!vars => Aim
  PROVE  Aim
  BY DEF S!Next, S!Run, S!Operator, Takes, Rotates, Rereads, Judges, Rejudges, Supersedes,
     Handles

LEMMA RotationStep ==
  ASSUME SweepAssumption, RunTyped, RotationTyped, [S!Next]_S!vars
  PROVE  RotationTyped'
  <1>1. CASE Takes \/ Rereads \/ S!Time
    BY <1>1 DEF RotationTyped, S!IsInjective, Takes, Rereads, S!Begin, S!Query, S!QueryFails,
       S!MarkFails, S!AllTaken, S!Abort, S!Prune, S!Scroll, S!RejudgeEnds, S!Time
  <1>2. CASE Rotates
    <2>1. PICK c \in Canonicals : rotation' = S!Moved(c)
      BY <1>2 DEF RunTyped, Rotates, S!NoVector, S!Swept, S!Mark
    <2> QED BY <2>1, RotationMoved DEF RotationTyped, S!IsInjective
  <1>3. ASSUME NEW c \in Canonicals, S!Demote(c) PROVE RotationTyped'
    <2>1. rotation' = S!RemoveFirst(rotation, c) /\ S!IsLive(c)
      BY <1>3 DEF S!Demote
    <2> QED BY <2>1, RotationWithout DEF RotationTyped, S!IsInjective
  <1>4. ASSUME rotation' = rotation PROVE RotationTyped'
    BY <1>4 DEF RotationTyped, S!IsInjective
  <1>5. ASSUME NEW k \in Candidates, Judges(k) \/ Handles(k) \/ S!Promote(k)
        PROVE  rotation' = rotation
    BY <1>5 DEF Judges, Handles, S!JudgeYes, S!JudgeNo, S!Skip, S!PatchYes, S!Patch, S!Promote,
       S!Dismiss, S!Unstamp, S!Unsupersede, S!Edit
  <1>6. ASSUME NEW r \in scrolled, Rejudges(r) PROVE rotation' = rotation
    BY <1>6 DEF Rejudges, S!DeadTarget, S!RejudgeNo, S!RejudgeYes, S!RejudgeSkip, S!Patch
  <1>7. ASSUME NEW p \in Stale, Supersedes(p) PROVE rotation' = rotation
    BY <1>7 DEF Supersedes, S!EvidenceSweep, S!RetrievalPairs, S!Resolve, S!ConvertMarker,
       S!Supersede
  <1>8. CASE UNCHANGED S!vars
    BY <1>4, <1>8 DEF S!vars
  <1> QED BY <1>1, <1>2, <1>3, <1>4, <1>5, <1>6, <1>7, <1>8, SweepStepCases

LEMMA RunStep ==
  ASSUME SweepAssumption, RunTyped, RotationTyped, [S!Next]_S!vars
  PROVE  RunTyped'
  <1> USE DEF RunTyped
  <1>1. CASE Takes
    <2>1. CASE S!Begin
      <3> DEFINE m == IF Limit < Len(rotation) THEN Limit ELSE Len(rotation)
      <3>0. rotation \in Seq(Canonicals) /\ m \in 0..Len(rotation)
        BY DEF RotationTyped, SweepAssumption
      <3>2. ahead' = SubSeq(rotation, 1, m)
        BY <2>1 DEF S!Begin
      <3> HIDE DEF m
      <3>1. ahead' \in Seq(Canonicals)
        BY <3>0, <3>2
      <3> QED BY <2>1, <3>1 DEF S!Begin
    <2>2. CASE S!Query
      BY <2>2 DEF S!Query
    <2>3. CASE S!QueryFails \/ S!MarkFails
      BY <2>3 DEF S!QueryFails, S!MarkFails
    <2>4. CASE S!AllTaken \/ S!Prune
      BY <2>4 DEF S!AllTaken, S!Prune
    <2>5. CASE S!Abort
      <3>1. <<>> \in Seq(Canonicals)  OBVIOUS
      <3> QED BY <2>5, <3>1 DEF S!Abort
    <2> QED BY <1>1, <2>1, <2>2, <2>3, <2>4, <2>5 DEF Takes
  <1>2. CASE Rotates \/ Rereads
    BY <1>2 DEF Rotates, Rereads, S!NoVector, S!Swept, S!Scroll, S!RejudgeEnds
  <1>3. ASSUME NEW k \in Candidates, Judges(k) PROVE RunTyped'
    BY <1>3 DEF Judges, S!JudgeYes, S!JudgeNo, S!Skip, S!Judged
  <1>4. ASSUME NEW r \in scrolled, Rejudges(r) PROVE RunTyped'
    BY <1>4 DEF Rejudges, S!DeadTarget, S!RejudgeNo, S!RejudgeYes, S!RejudgeSkip, S!Handled
  <1>5. ASSUME NEW k \in Candidates, Handles(k) \/ S!Promote(k) PROVE RunTyped'
    BY <1>5 DEF Handles, S!Promote, S!Dismiss, S!Unstamp, S!Unsupersede, S!Edit
  <1>6. ASSUME NEW p \in Stale, Supersedes(p) PROVE RunTyped'
    BY <1>6 DEF Supersedes, S!EvidenceSweep, S!RetrievalPairs, S!Resolve, S!ConvertMarker,
       S!Supersede
  <1>7. ASSUME NEW c \in Canonicals, S!Demote(c) PROVE RunTyped'
    BY <1>7 DEF S!Demote
  <1>8. CASE S!Time \/ UNCHANGED S!vars
    BY <1>8 DEF S!Time, S!vars
  <1> QED BY <1>1, <1>2, <1>3, <1>4, <1>5, <1>6, <1>7, <1>8, SweepStepCases

LEMMA RecordsStep ==
  ASSUME SweepAssumption, RunTyped, RecordsTyped, QueueInv, [S!Next]_S!vars
  PROVE  RecordsTyped'
  <1> USE DEF RecordsTyped, S!Someone, S!Line
  <1>1. CASE Takes \/ Rotates
    BY <1>1 DEF Takes, Rotates, S!Begin, S!Query, S!QueryFails, S!MarkFails, S!AllTaken,
       S!Abort, S!Prune, S!NoVector, S!Swept, S!Mark
  <1>2. CASE Rereads
    <2>1. CASE S!Scroll
      <3>1. ASSUME judge = "codex" PROVE scrolled' \subseteq S!Read
        <4> SUFFICES ASSUME NEW k \in Candidates, S!Target(k) # Nobody
                     PROVE  [mem |-> k, can |-> S!Target(k), pend |-> stamped[k] = Nobody]
                               \in S!Read
          BY <2>1, <3>1 DEF S!Scroll
        <4>1. S!Target(k) \in Canonicals  BY DEF S!Target
        <4>2. (stamped[k] = Nobody) \in BOOLEAN  OBVIOUS
        <4> QED BY <4>1, <4>2 DEF S!Read
      <3>2. ASSUME judge # "codex" PROVE scrolled' \subseteq S!Read
        BY <2>1, <3>2 DEF S!Scroll
      <3> QED BY <2>1, <3>1, <3>2 DEF S!Scroll
    <2>2. CASE S!RejudgeEnds  BY <2>2 DEF S!RejudgeEnds
    <2> QED BY <1>2, <2>1, <2>2 DEF Rereads
  <1>3. ASSUME NEW k \in Candidates, Judges(k) PROVE RecordsTyped'
    <2>1. Head(ahead) \in Canonicals
      BY <1>3 DEF Judges, S!JudgeYes, S!JudgeNo, S!Skip, S!Judged, RunTyped
    <2> QED BY <1>3, <2>1 DEF Judges, S!JudgeYes, S!JudgeNo, S!Skip, S!Judged, S!SaidYes,
            S!Doubt, S!Enqueue, S!PatchYes, S!Patch
  <1>4. ASSUME NEW r \in scrolled, Rejudges(r) PROVE RecordsTyped'
    <2>1. r.mem \in Candidates /\ r.can \in Canonicals
      BY DEF S!Read
    <2>2. scrolled' \subseteq S!Read
      BY <1>4 DEF Rejudges, S!DeadTarget, S!RejudgeNo, S!RejudgeYes, S!RejudgeSkip, S!Handled
    <2> DEFINE m == r.mem
               c == r.can
    <2>3. \/ UNCHANGED <<queue, stamped, pending, age, hidden, yes>>
          \/ S!Patch(m, Nobody, Nobody) /\ UNCHANGED <<queue, yes>>
          \/ /\ yes' = yes \cup {<<c, m>>}
             /\ \/ S!Enqueue(m, c, "review") /\ UNCHANGED <<stamped, pending, age, hidden>>
                \/ S!Patch(m, c, Nobody) /\ UNCHANGED queue
      BY <1>4 DEF Rejudges, S!DeadTarget, S!RejudgeNo, S!RejudgeYes, S!RejudgeSkip
    <2>4. m \in Candidates /\ c \in Canonicals
      BY <2>1
    <2> HIDE DEF m, c
    <2> QED BY <2>2, <2>3, <2>4 DEF S!Patch, S!Enqueue
  <1>5. ASSUME NEW p \in Stale, Supersedes(p) PROVE RecordsTyped'
    <2>1. p[1] \in Candidates /\ p[2] \in Candidates
      BY DEF SweepAssumption
    <2> QED BY <1>5, <2>1 DEF Supersedes, S!EvidenceSweep, S!RetrievalPairs, S!Resolve,
            S!ConvertMarker, S!Supersede, S!Enqueue
  <1>6. ASSUME NEW k \in Candidates, Handles(k) PROVE RecordsTyped'
    BY <1>6 DEF Handles, S!Dismiss, S!Unstamp, S!Unsupersede, S!Edit, S!Patch
  <1>7. ASSUME NEW k \in Candidates, S!Promote(k) PROVE RecordsTyped'
    <2>1. PICK q \in queue : /\ q.mem = k /\ q.kind = "review" /\ S!Patch(k, q.can, Nobody)
                             /\ queue' \subseteq queue /\ UNCHANGED <<scrolled, yes>>
      BY <1>7 DEF S!Promote, S!Promotable
    <2>2. q.can \in Canonicals
      BY <2>1 DEF QueueInv
    <2> QED BY <2>1, <2>2 DEF S!Patch
  <1>8. CASE S!Time \/ UNCHANGED S!vars \/ \E c \in Canonicals : S!Demote(c)
    BY <1>8 DEF S!Time, S!vars, S!Demote
  <1> QED BY <1>1, <1>2, <1>3, <1>4, <1>5, <1>6, <1>7, <1>8, SweepStepCases

\* A line that is put on the queue to be promoted has its verdict, and is about an
\* older record; the verdicts of the authoritative judge are kept.
LEMMA LinesStep ==
  ASSUME SweepAssumption, RecordsTyped, RunTyped, QueueInv, ScrollInv, [S!Next]_S!vars
  PROVE  QueueInv' /\ yes \subseteq yes'
  <1>1. ASSUME queue' \subseteq queue, yes \subseteq yes' PROVE QueueInv'
    BY <1>1 DEF QueueInv
  <1>2. CASE Takes \/ Rotates \/ Rereads
    <2>1. queue' \subseteq queue /\ yes \subseteq yes'
      BY <1>2 DEF Takes, Rotates, Rereads, S!Begin, S!Query, S!QueryFails, S!MarkFails,
         S!AllTaken, S!Abort, S!Prune, S!NoVector, S!Swept, S!Mark, S!Scroll, S!RejudgeEnds
    <2> QED BY <1>1, <2>1
  <1>3. ASSUME NEW k \in Candidates, Judges(k) PROVE QueueInv' /\ yes \subseteq yes'
    BY <1>3 DEF QueueInv, Judges, S!JudgeYes, S!JudgeNo, S!Skip, S!SaidYes, S!Doubt, S!Enqueue
  <1>4. ASSUME NEW r \in scrolled, Rejudges(r) PROVE QueueInv' /\ yes \subseteq yes'
    BY <1>4 DEF QueueInv, ScrollInv, Rejudges, S!DeadTarget, S!RejudgeNo, S!RejudgeYes,
       S!RejudgeSkip, S!Enqueue
  <1>5. ASSUME NEW p \in Stale, Supersedes(p) PROVE QueueInv' /\ yes \subseteq yes'
    BY <1>5 DEF QueueInv, Supersedes, S!EvidenceSweep, S!RetrievalPairs, S!Resolve,
       S!ConvertMarker, S!Supersede, S!Enqueue
  <1>6. ASSUME NEW k \in Candidates, Handles(k) \/ S!Promote(k)
        PROVE  QueueInv' /\ yes \subseteq yes'
    BY <1>6 DEF QueueInv, Handles, S!Promote, S!Dismiss, S!Unstamp, S!Unsupersede, S!Edit
  <1>7. CASE S!Time \/ UNCHANGED S!vars \/ \E c \in Canonicals : S!Demote(c)
    BY <1>7 DEF QueueInv, S!Time, S!vars, S!Demote
  <1> QED BY <1>2, <1>3, <1>4, <1>5, <1>6, <1>7, SweepStepCases

LEMMA StampsStep ==
  ASSUME SweepAssumption, SweepInv, [S!Next]_S!vars
  PROVE  ScrollInv' /\ S!HiddenOnlyOnAuthority' /\ S!CorrectionsStayVisible'
  <1> DEFINE Sound(st, pe, y) ==
        \A k \in Candidates : /\ st[k] # Nobody => <<st[k], k>> \in y
                              /\ <<st[k], k>> \notin Newer /\ <<pe[k], k>> \notin Newer
  <1>0. /\ Sound(stamped, pending, yes)
        /\ stamped \in [Candidates -> S!Someone] /\ pending \in [Candidates -> S!Someone]
        /\ \A k \in Candidates : <<Nobody, k>> \notin Newer
    BY DEF SweepInv, RecordsTyped, S!HiddenOnlyOnAuthority, S!CorrectionsStayVisible,
       SweepAssumption
  <1> SUFFICES ScrollInv' /\ Sound(stamped', pending', yes')
    BY DEF S!HiddenOnlyOnAuthority, S!CorrectionsStayVisible
  <1>1. yes \subseteq yes'
    BY LinesStep DEF SweepInv
  <1>2. ASSUME scrolled' \subseteq scrolled PROVE ScrollInv'
    BY <1>2 DEF SweepInv, ScrollInv
  \* A patch of one record keeps both when it clears, keeps or is allowed to set.
  <1>3. ASSUME NEW m \in Candidates, NEW s, NEW p, S!Patch(m, s, p),
               s # Nobody => <<s, m>> \in yes', <<s, m>> \notin Newer, <<p, m>> \notin Newer
        PROVE  Sound(stamped', pending', yes')
    BY <1>0, <1>1, <1>3 DEF S!Patch
  <1>4. ASSUME UNCHANGED <<stamped, pending>> PROVE Sound(stamped', pending', yes')
    BY <1>0, <1>1, <1>4
  <1> HIDE DEF Sound
  <1>5. CASE Takes \/ Rotates
    BY <1>2, <1>4, <1>5 DEF Takes, Rotates, S!Begin, S!Query, S!QueryFails, S!MarkFails,
       S!AllTaken, S!Abort, S!Prune, S!NoVector, S!Swept, S!Mark
  <1>6. CASE Rereads
    <2>1. UNCHANGED <<stamped, pending>>
      BY <1>6 DEF Rereads, S!Scroll, S!RejudgeEnds
    <2>2. ASSUME NEW k \in Candidates PROVE <<S!Target(k), k>> \notin Newer
      BY <1>0 DEF Sound, S!Target
    <2>3. \A r \in scrolled' :
             r \in scrolled \/ \E k \in Candidates : r.mem = k /\ r.can = S!Target(k)
      BY <1>6 DEF Rereads, S!Scroll, S!RejudgeEnds
    <2>4. ScrollInv'
      BY <2>2, <2>3 DEF SweepInv, ScrollInv
    <2> QED BY <1>4, <2>1, <2>4
  <1>7. ASSUME NEW k \in Candidates, Judges(k)
        PROVE  ScrollInv' /\ Sound(stamped', pending', yes')
    <2> DEFINE c == Head(ahead)
    <2>1. ScrollInv'
      BY <1>2, <1>7 DEF Judges, S!JudgeYes, S!JudgeNo, S!Skip, S!Judged
    <2>2. \/ UNCHANGED <<stamped, pending>>
          \/ S!Patch(k, stamped[k], pending[k]) \/ S!Patch(k, Nobody, Nobody)
          \/ <<c, k>> \notin Newer /\ judge = "local" /\ S!Patch(k, stamped[k], c)
          \/ /\ <<c, k>> \notin Newer /\ judge = "codex" /\ yes' = yes \cup {<<c, k>>}
             /\ S!Patch(k, c, Nobody)
      BY <1>7 DEF SweepInv, RunTyped, Judges, S!JudgeYes, S!JudgeNo, S!Skip, S!SaidYes,
         S!PatchYes
    <2> HIDE DEF c
    <2>3. /\ stamped[k] # Nobody => <<stamped[k], k>> \in yes'
          /\ <<stamped[k], k>> \notin Newer /\ <<pending[k], k>> \notin Newer
          /\ <<Nobody, k>> \notin Newer
      BY <1>0, <1>1 DEF Sound
    <2>4. Sound(stamped', pending', yes')
      BY <1>3, <1>4, <2>2, <2>3
    <2> QED BY <2>1, <2>4
  <1>8. ASSUME NEW r \in scrolled, Rejudges(r)
        PROVE  ScrollInv' /\ Sound(stamped', pending', yes')
    <2> DEFINE m == r.mem
               c == r.can
    <2>1. ScrollInv'
      BY <1>2, <1>8 DEF Rejudges, S!DeadTarget, S!RejudgeNo, S!RejudgeYes, S!RejudgeSkip,
         S!Handled
    <2>2. m \in Candidates /\ <<c, m>> \notin Newer
      BY DEF SweepInv, RecordsTyped, S!Read, ScrollInv
    <2>3. \/ UNCHANGED <<stamped, pending>> \/ S!Patch(m, Nobody, Nobody)
          \/ <<c, m>> \in yes' /\ S!Patch(m, c, Nobody)
      BY <1>8 DEF Rejudges, S!DeadTarget, S!RejudgeNo, S!RejudgeYes, S!RejudgeSkip
    <2> HIDE DEF m, c
    <2>4. Sound(stamped', pending', yes')
      BY <1>0, <1>3, <1>4, <2>2, <2>3
    <2> QED BY <2>1, <2>4
  <1>9. ASSUME NEW k \in Candidates, Handles(k)
        PROVE  ScrollInv' /\ Sound(stamped', pending', yes')
    <2>1. ScrollInv'
      BY <1>2, <1>9 DEF Handles, S!Dismiss, S!Unstamp, S!Unsupersede, S!Edit
    <2>2. \/ UNCHANGED <<stamped, pending>> \/ S!Patch(k, Nobody, pending[k])
          \/ stamped' = stamped /\ pending' = [pending EXCEPT ![k] = Nobody]
      BY <1>9 DEF Handles, S!Dismiss, S!Unstamp, S!Unsupersede, S!Edit
    <2>3. <<pending[k], k>> \notin Newer
      BY <1>0 DEF Sound
    <2>4. ASSUME stamped' = stamped, pending' = [pending EXCEPT ![k] = Nobody]
          PROVE  Sound(stamped', pending', yes')
      BY <1>0, <1>1, <2>4 DEF Sound
    <2>5. Sound(stamped', pending', yes')
      BY <1>0, <1>3, <1>4, <2>2, <2>3, <2>4
    <2> QED BY <2>1, <2>5
  <1>10. ASSUME NEW k \in Candidates, S!Promote(k)
         PROVE  ScrollInv' /\ Sound(stamped', pending', yes')
    <2>1. PICK q \in queue : q.mem = k /\ q.kind = "review" /\ S!Patch(k, q.can, Nobody)
      BY <1>10 DEF S!Promote, S!Promotable
    <2> DEFINE c == q.can
    <2>2. <<c, k>> \in yes /\ <<c, k>> \notin Newer /\ S!Patch(k, c, Nobody)
      BY <2>1 DEF SweepInv, QueueInv
    <2>3. ScrollInv'
      BY <1>2, <1>10 DEF S!Promote
    <2> HIDE DEF c
    <2>4. Sound(stamped', pending', yes')
      BY <1>0, <1>1, <1>3, <2>2
    <2> QED BY <2>3, <2>4
  <1>11. ASSUME NEW p \in Stale, Supersedes(p)
         PROVE  ScrollInv' /\ Sound(stamped', pending', yes')
    BY <1>2, <1>4, <1>11 DEF Supersedes, S!EvidenceSweep, S!RetrievalPairs, S!Resolve,
       S!ConvertMarker, S!Supersede
  <1>12. CASE S!Time \/ UNCHANGED S!vars \/ \E c \in Canonicals : S!Demote(c)
    BY <1>2, <1>4, <1>12 DEF S!Time, S!vars, S!Demote
  <1> QED BY <1>5, <1>6, <1>7, <1>8, <1>9, <1>10, <1>11, <1>12, SweepStepCases

LEMMA SweepAlways == ASSUME SweepAssumption PROVE All => [](job = "sweep" => SweepInv)
  <1>1. AllInit => (job = "sweep" => SweepInv)
    BY SweepInit DEF AllInit, MCInit
  <1>2. (job = "sweep" => SweepInv) /\ [AllNext]_allVars => (job = "sweep" => SweepInv)'
    <2> SUFFICES ASSUME job = "sweep" => SweepInv, [AllNext]_allVars, job' = "sweep"
                 PROVE  SweepInv'
      OBVIOUS
    <2>1. SweepInv /\ [S!Next]_S!vars
      BY EachJobsStep
    <2> QED BY <2>1, RunStep, RotationStep, RecordsStep, LinesStep, StampsStep DEF SweepInv
  <1> QED BY <1>1, <1>2, PTL DEF All, allVars

(* A record is hidden only against a canonical that the authoritative judge *)
(* set against it, whatever the weak judge, the queue and the operator did: *)
(* for any canonicals and candidates, similar or marked in any way, and any *)
(* budget (stamp_candidate, resolve_action, run_promote).                   *)
THEOREM HidesOnAuthority ==
  ASSUME SweepAssumption PROVE All => []HiddenOnlyOnAuthority
  <1>1. (job = "sweep" => SweepInv) => HiddenOnlyOnAuthority
    BY DEF SweepInv, HiddenOnlyOnAuthority
  <1> QED BY <1>1, SweepAlways, PTL

(* A record newer than the canonical it contradicts is never hidden by the  *)
(* sweep, the re-judge or a promotion, nor marked to be: for any canonicals *)
(* and candidates, and any order of their ages (is_older, _queue_key).      *)
THEOREM CorrectionsAreSafe ==
  ASSUME SweepAssumption PROVE All => []CorrectionsStayVisible
  <1>1. (job = "sweep" => SweepInv) => CorrectionsStayVisible
    BY DEF SweepInv, CorrectionsStayVisible
  <1> QED BY <1>1, SweepAlways, PTL

-----------------------------------------------------------------------------
(* The derive and the gate of one store (Derive).                           *)

\* The proofs about one derive, for the derive of these modules.
DP == INSTANCE Derive_proofs WITH Slugs <- Notes, file <- notes, index <- lines,
         pc <- deriver, todo <- unread, copy <- taken, plan <- derived

LEMMA SameDerive ==
  /\ V!Init => DP!Init
  /\ [V!Next]_V!vars => [DP!Next]_DP!vars
  /\ DP!TypeOK => V!TypeOK
  <1>1. V!Init => DP!Init
    BY Zenon DEF V!Init, DP!Init, V!Empty, DP!Empty, V!First, DP!First
  <1>2. DP!TypeOK => V!TypeOK
    BY Zenon DEF V!TypeOK, DP!TypeOK, V!Lines, DP!Lines, V!Hook, DP!Hook, V!Fact,
       DP!Fact
  <1>3. UNCHANGED V!vars => UNCHANGED DP!vars
    BY Zenon DEF V!vars, DP!vars
  <1>4. ASSUME NEW u \in Notes
        PROVE  /\ V!WriteLine(u) => DP!WriteLine(u)
               /\ V!RemoveLine(u) => DP!RemoveLine(u)
               /\ V!WriteFact(u) => DP!WriteFact(u)
               /\ V!RemoveFact(u) => DP!RemoveFact(u)
    BY Zenon DEF V!WriteLine, DP!WriteLine, V!RemoveLine, DP!RemoveLine, V!WriteFact,
       DP!WriteFact, V!RemoveFact, DP!RemoveFact, V!EditsIndex, DP!EditsIndex,
       V!EditsFact, DP!EditsFact, V!Edits, DP!Edits, V!history, DP!history, V!said,
       DP!said, V!Hook, DP!Hook, V!Fact, DP!Fact
  <1>5. ASSUME NEW u \in Notes
        PROVE  /\ V!HarvestRead(u) => DP!HarvestRead(u)
               /\ V!HarvestNothing(u) => DP!HarvestNothing(u)
               /\ V!HarvestFails(u) => DP!HarvestFails(u)
    BY Zenon DEF V!HarvestRead, DP!HarvestRead, V!HarvestNothing, DP!HarvestNothing,
       V!HarvestFails, DP!HarvestFails, V!Harvesting, DP!Harvesting, V!Keyless,
       DP!Keyless, V!Present, DP!Present, V!history, DP!history, V!said, DP!said
  <1>6. /\ V!Committed => DP!Committed
        /\ V!Start => DP!Start
        /\ V!HarvestWrite => DP!HarvestWrite
    BY Zenon DEF V!Committed, DP!Committed, V!Start, DP!Start, V!HarvestWrite,
       DP!HarvestWrite, V!Present, DP!Present, V!Of, DP!Of, V!history, DP!history,
       V!said, DP!said
  <1>7. V!Hygiene => DP!Hygiene
    BY Zenon DEF V!Hygiene, DP!Hygiene, V!Resolve, DP!Resolve, V!Orphan, DP!Orphan,
       V!Key, DP!Key, V!Cut, DP!Cut, V!First, DP!First, V!Some, DP!Some, V!Size,
       DP!Size, V!Of, DP!Of, V!Long, DP!Long, V!Cardinality, DP!Cardinality, V!history,
       DP!history, V!said, DP!said
  <1>8. V!Render => DP!Render
    BY Zenon DEF V!Render, DP!Render, V!Removals, DP!Removals, V!BlastCapOf,
       DP!BlastCapOf, V!Capped, DP!Capped, V!Floored, DP!Floored, V!Cut, DP!Cut, V!Some,
       DP!Some, V!Size, DP!Size, V!Of, DP!Of, V!Long, DP!Long, V!Cardinality,
       DP!Cardinality, V!history, DP!history, V!said, DP!said
  <1>9. /\ V!Compare => DP!Compare
        /\ V!Write => DP!Write
        /\ V!Abandon => DP!Abandon
    BY Zenon DEF V!Compare, DP!Compare, V!Write, DP!Write, V!Abandon, DP!Abandon,
       V!Over, DP!Over, V!Empty, DP!Empty, V!Present, DP!Present, V!history, DP!history,
       V!said, DP!said
  <1>10. /\ V!GateReads => DP!GateReads
         /\ V!GateSkips => DP!GateSkips
         /\ V!GateFloors => DP!GateFloors
         /\ V!GateCompares => DP!GateCompares
    BY Zenon DEF V!GateReads, DP!GateReads, V!GateSkips, DP!GateSkips, V!GateFloors,
       DP!GateFloors, V!GateCompares, DP!GateCompares, V!Floored, DP!Floored, V!Cut,
       DP!Cut, V!Some, DP!Some, V!Size, DP!Size, V!Of, DP!Of, V!Long, DP!Long,
       V!Cardinality, DP!Cardinality, V!history, DP!history, V!said, DP!said
  <1>11. ASSUME V!Next PROVE DP!Next
    <2>1. CASE \E u \in Notes : \/ V!WriteLine(u) \/ V!RemoveLine(u)
                              \/ V!WriteFact(u) \/ V!RemoveFact(u)
      BY <1>4, <2>1, Zenon DEF DP!Next
    <2>2. CASE \E u \in Notes : V!HarvestRead(u) \/ V!HarvestNothing(u) \/ V!HarvestFails(u)
      BY <1>5, <2>2, Zenon DEF DP!Next
    <2>3. CASE V!Committed \/ V!Start \/ V!HarvestWrite \/ V!Hygiene \/ V!Render
      BY <1>6, <1>7, <1>8, <2>3 DEF DP!Next
    <2>4. CASE V!Compare \/ V!Write \/ V!Abandon
      BY <1>9, <2>4 DEF DP!Next
    <2>5. CASE V!GateReads \/ V!GateSkips \/ V!GateFloors \/ V!GateCompares
      BY <1>10, <2>5 DEF DP!Next
    <2> QED BY <1>11, <2>1, <2>2, <2>3, <2>4, <2>5, Zenon DEF V!Next
  <1> QED BY <1>1, <1>2, <1>3, <1>11, Zenon

LEMMA DeriveAlways == ASSUME DP!Bounds PROVE All => []DP!IInv
  <1>1. AllInit => DP!IInv
    BY SameDerive, DP!InitInv DEF AllInit
  <1>2. DP!IInv /\ [AllNext]_allVars => DP!IInv'
    <2> SUFFICES ASSUME DP!IInv, [AllNext]_allVars PROVE DP!IInv'
      OBVIOUS
    <2>1. [DP!Next]_DP!vars
      BY EachJobsStep, SameDerive
    <2> QED BY <2>1, DP!NextInv
  <1> QED BY <1>1, <1>2, PTL DEF All, allVars

(* A derive takes no hook out of the index that is nowhere else, and        *)
(* neither derive nor gate undoes what a session wrote meanwhile, but in    *)
(* the windows the property names: beside the other jobs, as for one store  *)
(* alone (harvest, hygiene, cap and floor, the comparison).                 *)
THEOREM JobsDeriveNothingAway == ASSUME DP!Bounds PROVE All => NothingIsDerivedAway
  <1>1. DP!IInv => V!FactsKept
    BY Zenon DEF DP!IInv, DP!FactsKept, V!FactsKept
  <1>2. DP!IInv /\ [AllNext]_allVars =>
          [V!Rewrites /\ deriver = "write" =>
             \A u \in (V!Of(before) \cap V!Present) \ (Prose \cup spared) :
                lines'[u] # before[u] => notes[u].key # Nil]_V!vars
    <2> SUFFICES ASSUME DP!IInv, [AllNext]_allVars, V!Rewrites, deriver = "write",
                        NEW u \in (V!Of(before) \cap V!Present) \ (Prose \cup spared)
                 PROVE  notes[u].key # Nil
      BY Zenon
    <2>1. DP!Rewrites /\ u \in (DP!Of(before) \cap DP!Present) \ (Prose \cup spared)
      BY DEF V!Rewrites, DP!Rewrites, V!Of, DP!Of, V!Present, DP!Present
    <2>2. [DP!Next]_DP!vars
      BY EachJobsStep, SameDerive
    <2> QED BY <2>1, <2>2, DP!HooksStep
  <1>3. DP!IInv /\ [AllNext]_allVars => [V!Rewrites => hurried \/ lines = before]_V!vars
    <2> SUFFICES ASSUME DP!IInv, [AllNext]_allVars, V!Rewrites
                 PROVE  hurried \/ lines = before
      BY Zenon
    <2>1. DP!Rewrites
      BY DEF V!Rewrites, DP!Rewrites
    <2>2. [DP!Next]_DP!vars
      BY EachJobsStep, SameDerive
    <2> QED BY <2>1, <2>2, DP!RewritesIsWrite
  <1> QED BY <1>1, <1>2, <1>3, DeriveAlways, PTL
          DEF All, allVars, NothingIsDerivedAway, V!NothingIsDerivedAway,
              V!HooksOutliveTheirLine, V!SessionsWin

-----------------------------------------------------------------------------
(* The judge's plan and apply (Judge), and the types of all the jobs.       *)

LEMMA JudgeAlways == All => []Base
  <1>1. AllInit => Base
    BY InitBase DEF AllInit, MCInit, JudgeOff
  <1>2. Base /\ [AllNext]_allVars => Base'
    <2> SUFFICES ASSUME Base, [AllNext]_allVars PROVE Base'
      OBVIOUS
    <2>1. [Next]_vars
      BY EachJobsStep
    <2> QED BY <2>1, NextBase
  <1> QED BY <1>1, <1>2, PTL DEF All, allVars

(* Every variable of every job keeps its type, for all values of the        *)
(* constants that the sections above admit.                                 *)
THEOREM JobsTypeCorrect ==
  ASSUME SweepAssumption, EpisodesAssumption, DreamAssumption, WatchAssumption, DP!Bounds
  PROVE  All => []AllTypeOK
  <1>1. WatchInv => W!TypeOK
    BY DEF WatchInv
  <1>2. DreamOrOff => (job = "dream" => D!TypeOK)
    BY DEF DreamOrOff, DreamInv
  <1>3. EpisodesInv => E!TypeOK
    BY EpisodesType
  <1>4. (job = "sweep" => SweepInv) => (job = "sweep" => S!TypeOK)
    BY SweepTypes
  <1>5. Base => TypeOK
    BY DEF Base
  <1>6. DP!IInv => V!TypeOK
    BY SameDerive DEF DP!IInv
  <1> QED BY <1>1, <1>2, <1>3, <1>4, <1>5, <1>6, WatchAlways, DreamAlways, EpisodesAlways,
          SweepAlways, JudgeAlways, DeriveAlways, PTL DEF AllTypeOK, JobsTypeOK
=============================================================================
