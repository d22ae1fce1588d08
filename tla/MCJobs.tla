-------------------------------- MODULE MCJobs --------------------------------
(***************************************************************************)
(* The jobs that maintain the store, the ledger and the corpus write       *)
(* disjoint parts of the state, so interleaving two of them would only     *)
(* multiply what each one can do: a behaviour is a behaviour of one of     *)
(* them, with everything that module lets happen around it, and the others *)
(* stay where they began.                                                  *)
(***************************************************************************)
EXTENDS Judge, Sequences, TLC

CONSTANTS Jobs,      \* the jobs of this instance
    Canonicals, Candidates, Similar, Newer, Stale, Vectorless, Limit, Nobody,
    Sessions, Wordy, Titles, MinSessions, MaxRows, MaxGoals, None,
    Insights, Facts, Clashing, Cap,
    Memories, Texts, Imperative, Conflicting, Handlers, Stored, SomeText, Rank, Routes,
    MaxCalls, MaxRestarts,
    Shells, Writes, HubChanges, Watch, Free, Dead, MaxDeaths

VARIABLES job,
    rotation, stamped, pending, age, hidden, queue, stage, judge, ahead, left, flagged,
    scrolled, yes,
    rows, goals, links, vectors, embeds, found, promoter,
    due, weekly, stored, spool, canon, phase, mine, unposted, posted, queued, landed,
    nominees, passed, trouble, outcome,
    live, mem, born, lock, at, req, copy, walk, seen, chain, audit, calls, restarts,
    tree, git, history, stranded, marker, woken, retry, holder, session, pass, deaths, promised

S == INSTANCE Sweep WITH stamp <- stamped, pc <- stage, todo <- ahead
E == INSTANCE Episodes
D == INSTANCE Dream WITH left <- unposted, Conflicting <- Clashing
R == INSTANCE Records WITH Ids <- Memories, pc <- at, todo <- walk
W == INSTANCE Watcher WITH Sessions <- Shells

sweepVars    == <<rotation, stamped, pending, age, hidden, queue, stage, judge, ahead,
                  left, flagged, scrolled, yes>>
episodesVars == <<rows, goals, links, vectors, embeds, found, promoter>>
judgeVars    == <<file, want, hook, doctrine, stamp, trailer, corpus, seal, plan,
                  pc, todo, moved, hooks, gone>>
dreamVars    == <<due, weekly, stored, spool, canon, phase, mine, unposted, posted, queued,
                  landed, nominees, passed, trouble, outcome>>
serverVars   == <<live, mem, born, lock, at, req, copy, walk, seen, chain, audit, calls,
                  restarts>>
watcherVars  == <<tree, git, history, stranded, marker, woken, retry, holder, session, pass, deaths,
                  promised>>
jobsVars == <<job, sweepVars, episodesVars, judgeVars, dreamVars, serverVars, watcherVars>>

\* A sweep or a dream that was not chosen is off: at no place of its steps.
SweepOff == /\ stage = "off" /\ judge = "codex" /\ rotation = <<>> /\ ahead = <<>>
            /\ stamped = [k \in Candidates |-> Nobody] /\ pending = stamped
            /\ age = [k \in Candidates |-> 0]
            /\ hidden = {} /\ queue = {} /\ left = {} /\ flagged = {}
            /\ scrolled = {} /\ yes = {}
DreamOff == /\ phase = "off" /\ outcome = "none" /\ canon = {}
            /\ due = FALSE /\ weekly = FALSE /\ trouble = FALSE
            /\ stored = {} /\ spool = {} /\ mine = {} /\ unposted = {} /\ posted = {}
            /\ queued = {} /\ landed = {} /\ nominees = {} /\ passed = {}
JudgeOff  == Init /\ corpus = [i \in Ids |-> Nil]
ServerOff == R!Init /\ mem = [i \in Memories |-> R!NoPayload]

MCInit == /\ job \in Jobs
          /\ E!Init
          /\ IF job = "sweep" THEN S!Init ELSE SweepOff
          /\ IF job = "judge" THEN Init ELSE JudgeOff
          /\ IF job = "dream" THEN D!Init ELSE DreamOff
          /\ IF job = "server" THEN R!Init ELSE ServerOff
          /\ W!Init

Sweeping(A)   == /\ job = "sweep" /\ A
                 /\ UNCHANGED <<job, episodesVars, judgeVars, dreamVars, serverVars, watcherVars>>
Upkeep(A)     == /\ job = "episodes" /\ A
                 /\ UNCHANGED <<job, sweepVars, judgeVars, dreamVars, serverVars, watcherVars>>
Judging(A)    == /\ job = "judge" /\ A
                 /\ UNCHANGED <<job, sweepVars, episodesVars, dreamVars, serverVars, watcherVars>>
Dreaming(A)   == /\ job = "dream" /\ A
                 /\ UNCHANGED <<job, sweepVars, episodesVars, judgeVars, serverVars, watcherVars>>
Serving(A)    == /\ job = "server" /\ A
                 /\ UNCHANGED <<job, sweepVars, episodesVars, judgeVars, dreamVars, watcherVars>>
Watching(A)   == /\ job = "watcher" /\ A
                 /\ UNCHANGED <<job, sweepVars, episodesVars, judgeVars, dreamVars, serverVars>>

MCNext == \/ Sweeping(S!Next) \/ Upkeep(E!Next) \/ Judging(Next)
          \/ Dreaming(D!Next) \/ Serving(R!Next) \/ Watching(W!Next)

Safety == MCInit /\ [][MCNext]_jobsVars

\* The fairness of each module.  Only one job ever moves, so one condition on a
\* disjunction of several jobs' actions says what one on each of them would.
Strong(n) ==
    \/ n = 1 /\ (Sweeping(S!NoVector) \/ Dreaming(D!Week))
    \/ n = 2 /\ (Sweeping(S!Query) \/ Dreaming(D!Orient))
    \/ n = 3 /\ (Sweeping(S!Swept) \/ Dreaming(D!Signals))
    \/ n = 4 /\ (Sweeping(S!Begin /\ judge' = "codex") \/ Upkeep(E!Sweep))
    \/ Upkeep(n \in DOMAIN rows /\ E!Embed(n))

Live ==
    /\ Safety
    /\ WF_jobsVars(Sweeping(S!Run) \/ Upkeep(E!Backfill) \/ Dreaming(D!Cycle)
                   \/ Watching(W!TakenOver))
    /\ \A s \in Sessions : WF_jobsVars(Upkeep(E!Checkpoint(s) \/ E!GiveUp(s)))
    /\ \A h \in Handlers : WF_jobsVars(Serving(R!Handle(h)))
    /\ \A p \in W!Passes : WF_jobsVars(Watching(W!Step(p)))
    /\ \A s \in Shells :
          WF_jobsVars(Dreaming(D!Begin \/ D!Day) \/ Watching(W!Start(s) \/ W!Gate(s)))
    /\ \A n \in 1..4 \cup E!Rows : SF_jobsVars(Strong(n))
    /\ \A k \in Candidates, i \in Insights, s \in Shells :
          /\ SF_jobsVars(\/ Sweeping(S!Skip(k) \/ S!JudgeYes(k) \/ S!JudgeNo(k))
                         \/ Dreaming(D!ReplayLands(i)) \/ Watching(W!End(s)))
          /\ SF_jobsVars(\/ Sweeping(\E r \in scrolled : r.mem = k /\ S!DeadTarget(r))
                         \/ Watching(\E p \in W!Passes : W!PassCommit(p)))

----------------------------------------------------------------------------
(* Instances.  A pair is <<canonical, candidate>>.                          *)
SafePairs == {<<"c1", "k1">>, <<"c2", "k1">>}
SafeNewer == {<<"c2", "k1">>}
SafeStale == {<<"k1", "k2">>}
LivePair  == {<<"c1", "k1">>}
Clash     == {<<"f1", "f2">>, <<"f2", "f1">>}
RankTwo   == [i \in Memories |-> IF i = "i1" THEN 1 ELSE 2]

----------------------------------------------------------------------------
(* Every variable of the jobs keeps its type.                               *)
JobsTypeOK == /\ E!TypeOK /\ TypeOK
              /\ job = "sweep" => S!TypeOK
              /\ job = "dream" => D!TypeOK
              /\ W!TypeOK

(* Whatever the weak judge, the review queue and the operator do, a record  *)
(* is hidden only against a canonical the authoritative judge set against it*)
(* (stamp_candidate, resolve_action, run_promote).                          *)
HiddenOnlyOnAuthority == job = "sweep" => S!HiddenOnlyOnAuthority

(* A record newer than the canonical it contradicts may be its correction   *)
(* and is never hidden by a job or a promotion (is_older, the queue's kinds).*)
CorrectionsStayVisible == job = "sweep" => S!CorrectionsStayVisible

(* The budget rotates: every canonical has its turn again and again, though *)
(* some can never be swept (order_canonicals, mark_canonical_checked).      *)
EveryCanonicalHasItsTurn == job = "sweep" => S!EveryCanonicalHasItsTurn

(* A stamp does not outlive the canonical it names (run_rejudge_stamped).   *)
DeadStampsAreCleared == job = "sweep" => S!DeadStampsAreCleared

(* A finished episode keeps its extracted summary, though a prompt's        *)
(* checkpoint races the Stop hook (upsert_in_progress_episode).             *)
CompleteHasFinalSummary == E!CompleteHasFinalSummary

(* An episode that counts towards a goal counts towards some goal for ever, *)
(* whatever is merged into what (retarget_goal_links).                      *)
LinksSurviveMerges == E!LinksSurviveMerges

(* A checkpoint whose session went quiet is closed, or its session comes    *)
(* back (sweep_stale_in_progress).                                          *)
EveryCheckpointCloses == E!EveryCheckpointCloses

(* A finished episode is found by meaning some day, though the embedder was *)
(* down when it was written (backfill).                                     *)
EventuallyEmbedded == E!EventuallyEmbedded

(* A night whose receipt says ok has lost nothing: every insight it came up *)
(* with is stored, and nothing waits in the queue (outcome, _spool_add).    *)
OkMeansAllStored == D!OkMeansAllStored

(* Facts that contradict each other are never both canonical by the dream's *)
(* doing, also when one night nominates both (promotion_gate_verdict).      *)
CanonicalsAgree == D!CanonicalsAgree

(* Every request ends: two records' locks are taken in one order            *)
(* (_supersede_locks).                                                      *)
EveryCallEnds == R!EveryCallEnds

(* A queued insight is stored some day (_replay_spool).                     *)
EverySpooledInsightLands == D!EverySpooledInsightLands

(* The history of the PC loses no change but one whose pass died between   *)
(* its merge and its files: nobody commits an index staged before another's*)
(* merge or commit (watchPass, runSyncOnce, markAndCommit).                *)
HistoryNeverGoesBack == W!HistoryNeverGoesBack

(* A change that was announced and is not committed is still marked, unless*)
(* it came too late for the stage of the pass that removed the marker      *)
(* (MarkDirty before the lock, ClearDirty after the commit).               *)
OnlyLateWritesLoseTheirMark == W!OnlyLateWritesLoseTheirMark

(* Whatever a session wrote is committed some day, also when its marker was*)
(* swallowed, its gate killed or the watcher gone (the passes at every     *)
(* session's start and end).                                               *)
EveryWriteIsCommitted == W!EveryWriteIsCommitted
=============================================================================
