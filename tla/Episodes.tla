------------------------------ MODULE Episodes ------------------------------
(***************************************************************************)
(* The episodic ledger (mem0-server/episodic.py over SQLite): the episode  *)
(* a session's prompts checkpoint and its Stop hook finalises, the goals   *)
(* episodes are linked to, the vectors of the finished summaries, and the  *)
(* jobs and operators that write the same tables: the daily upkeep, the    *)
(* nightly recurrence promoter, the weekly stale-goal sweep.               *)
(*                                                                         *)
(* A transaction is atomic from its first write on, which takes SQLite's   *)
(* write lock; what it read before that may be out of date.  The vector    *)
(* is written after the commit.  Summaries too short to index are left out.*)
(***************************************************************************)
EXTENDS Naturals, FiniteSets, Sequences

CONSTANTS
    Sessions,
    Wordy,       \* those whose summaries are long enough to index
    Titles,      \* the intents episodes state, up to the fuzzy match
    MinSessions, \* distinct sessions an intent needs to become a goal
    MaxRows,     \* bound on the episodes
    MaxGoals,    \* bound on the goals
    None

VARIABLES
    rows,     \* the episodes: session, state, text, age and unmatched intent
    goals,    \* the goals: title, status and creator; a completed, an abandoned and a
              \* duplicate goal are closed alike for every reader
    links,    \* <<episode, goal>>
    vectors,  \* episodes that have a vector
    embeds,   \* episodes whose embedding is under way
    found,    \* the open row a checkpoint's transaction found, or None
    promoter  \* what the promoter has read

vars == <<rows, goals, links, vectors, embeds, found, promoter>>

Rows  == 1..MaxRows
NoRun == [eps |-> {}, title |-> None, goal |-> None, blocked |-> FALSE]

\* The age since the last write: 0 within ten seconds; 2 over a week for an open
\* episode, out of the promoter's window for a complete one.
TypeOK ==
    /\ rows \in Seq([ses : Sessions, state : {"in_progress", "complete", "abandoned"},
                     text : {"running", "final"}, age : 0..2, want : Titles \cup {None}])
    /\ Len(rows) <= MaxRows
    /\ goals \in Seq([title : Titles, by : {"manual", "promoter"},
                      status : {"open", "blocked", "closed"}])
    /\ links \subseteq ((DOMAIN rows) \X (DOMAIN goals))
    /\ vectors \subseteq DOMAIN rows /\ embeds \subseteq DOMAIN rows
    /\ found \in [Sessions -> {None} \cup 0..Len(rows)]
    /\ promoter.eps \subseteq DOMAIN rows /\ promoter.blocked \in BOOLEAN
    /\ promoter.title \in Titles \cup {None}
    /\ promoter.goal \in {None} \cup 0..Len(goals)

Init ==
    /\ rows = <<>> /\ goals = <<>> /\ links = {}
    /\ vectors = {} /\ embeds = {}
    /\ found = [s \in Sessions |-> None]
    /\ promoter = NoRun

\* Mutant: the checkpoint looks its row up before the session upsert.
NeverLocked == TRUE

\* No transaction holds the write lock.
Unlocked == \A s \in Sessions : found[s] = None

Open(i)   == rows[i].state = "in_progress"
Latest(S) == IF S = {} THEN 0 ELSE CHOOSE i \in S : \A j \in S : j <= i

----------------------------------------------------------------------------
(* POST /v1/episodes/checkpoint, on every prompt. *)

\* create_session takes the lock, then the open row is looked up.
Find(s) == /\ Unlocked /\ found[s] = None
           /\ found' = [found EXCEPT ![s] =
                 Latest({i \in DOMAIN rows : rows[i].ses = s /\ Open(i)})]
           /\ UNCHANGED <<rows, goals, links, vectors, embeds, promoter>>

Checkpoint(s) ==
    /\ found[s] # None
    /\ \/ /\ found[s] # 0
          /\ rows' = [rows EXCEPT ![found[s]].text = "running", ![found[s]].age = 0]
       \/ /\ found[s] = 0 /\ Len(rows) < MaxRows
          /\ rows' = Append(rows, [ses |-> s, state |-> "in_progress", text |-> "running",
                                   age |-> 0, want |-> None])
    /\ found' = [found EXCEPT ![s] = None]
    /\ UNCHANGED <<goals, links, vectors, embeds, promoter>>

\* Out of the bound: the transaction is given up.
GiveUp(s) == /\ found[s] = 0 /\ Len(rows) = MaxRows
             /\ found' = [found EXCEPT ![s] = None]
             /\ UNCHANGED <<rows, goals, links, vectors, embeds, promoter>>

----------------------------------------------------------------------------
(* POST /v1/episodes, by the Stop hook, which may fire twice. *)

\* The open row is completed; without one a row completed within ten seconds
\* is written again; else a complete row is inserted.
Target(s) ==
    LET mine == {i \in DOMAIN rows : rows[i].ses = s}
        open == Latest({i \in mine : Open(i)})
        done == Latest({i \in mine : rows[i].state = "complete"})
    IN IF open # 0 THEN open
       ELSE IF done # 0 /\ rows[done].age = 0 THEN done ELSE Len(rows) + 1

Final(s, want) == [ses |-> s, state |-> "complete", text |-> "final", age |-> 0,
                   want |-> want]

Live(t) == {g \in DOMAIN goals : goals[g].title = t /\ goals[g].status # "closed"}

Finalise(s, want) ==
    /\ Unlocked /\ Target(s) \in Rows
    /\ rows' = IF Target(s) \in DOMAIN rows THEN [rows EXCEPT ![Target(s)] = Final(s, want)]
                                            ELSE Append(rows, Final(s, want))
    /\ embeds' = IF s \in Wordy THEN embeds \cup {Target(s)} ELSE embeds
    /\ UNCHANGED <<vectors, found, promoter>>

\* An intent that matches a live goal is linked to it and opens or blocks it;
\* one that does not stays on the episode.
Matched(s, t) == /\ Finalise(s, None)
                 /\ \E g \in Live(t), st \in {"open", "blocked"} :
                       /\ goals' = [goals EXCEPT ![g].status = st]
                       /\ links' = links \cup {<<Target(s), g>>}
Unmatched(s, t) == Finalise(s, t) /\ Live(t) = {} /\ UNCHANGED <<goals, links>>
Plain(s) == Finalise(s, None) /\ UNCHANGED <<goals, links>>

----------------------------------------------------------------------------
(* The vectors: written after the commit, at once, by a deferred retry or by *)
(* the upkeep's backfill, or not at all.                                     *)

Embed(i) == /\ i \in embeds
            /\ vectors' = vectors \cup {i} /\ embeds' = embeds \ {i}
            /\ UNCHANGED <<rows, goals, links, found, promoter>>

\* The embedder stays down, the retry gate is full, or the night's cap is reached.
Drop(i) == /\ i \in embeds /\ embeds' = embeds \ {i}
           /\ UNCHANGED <<rows, goals, links, vectors, found, promoter>>

Indexable(i) == rows[i].state = "complete" /\ rows[i].ses \in Wordy

\* Mutant: only recent rows are looked at.
MissingRecent == {i \in DOMAIN rows : Indexable(i) /\ rows[i].age < 2 /\ i \notin vectors}

\* The difference by id of the complete rows and the collection.
Missing == {i \in DOMAIN rows : Indexable(i) /\ i \notin vectors}

Backfill == /\ ~(Missing \subseteq embeds) /\ embeds' = embeds \cup Missing
            /\ UNCHANGED <<rows, goals, links, vectors, found, promoter>>

\* Mutant: only the leftovers of sessions that ended once are closed.
SweptEnded(i) == /\ Open(i) /\ rows[i].age = 2
                 /\ \E j \in DOMAIN rows : /\ rows[j].ses = rows[i].ses
                                           /\ rows[j].state = "complete"
Swept(i) == Open(i) /\ rows[i].age = 2

\* One transaction selects and closes what has been quiet for a week.
Sweep == /\ Unlocked /\ \E i \in DOMAIN rows : Swept(i)
         /\ rows' = [i \in DOMAIN rows |->
                        IF Swept(i) THEN [rows[i] EXCEPT !.state = "abandoned"] ELSE rows[i]]
         /\ UNCHANGED <<goals, links, vectors, embeds, found, promoter>>

----------------------------------------------------------------------------
(* goal-recurrence-promote.py: the unmatched intents of the last two weeks. *)

Stating(t)   == {i \in DOMAIN rows : rows[i].want = t /\ rows[i].age < 2}
Recurring(S) == /\ Cardinality({rows[i].ses : i \in S}) >= MinSessions
                /\ \E i \in S : rows[i].age # 0

Mine(t) == /\ promoter = NoRun /\ Recurring(Stating(t))
           /\ promoter' = [NoRun EXCEPT !.eps = Stating(t), !.title = t]
           /\ UNCHANGED <<rows, goals, links, vectors, embeds, found>>

\* The first group's goal is looked up before the run has written anything.
LookUp ==
    /\ promoter.title # None /\ promoter.goal = None
    /\ \/ /\ Live(promoter.title) = {}
          /\ promoter' = [promoter EXCEPT !.goal = 0]
       \/ \E g \in Live(promoter.title) :
             promoter' = [promoter EXCEPT !.goal = g,
                                          !.blocked = goals[g].status = "blocked"]
    /\ UNCHANGED <<rows, goals, links, vectors, embeds, found>>

\* The age of a link is taken to be that of its episode.
Idle(g) == \A l \in links : l[2] = g => rows[l[1]].state # "in_progress" /\ rows[l[1]].age = 2

Abandon(gs, S) == [g \in DOMAIN gs |-> IF g \in S THEN [gs[g] EXCEPT !.status = "closed"]
                                                  ELSE gs[g]]

\* A new goal, or the one found, with its episodes.  The promoter's own goals
\* without a link for two weeks are abandoned in the same transaction.
Promote ==
    /\ Unlocked /\ promoter.goal # None
    /\ promoter.goal = 0 => Len(goals) < MaxGoals
    /\ LET g   == IF promoter.goal = 0 THEN Len(goals) + 1 ELSE promoter.goal
           new == [title |-> promoter.title, status |-> "open", by |-> "promoter"]
           gs  == IF promoter.goal = 0 THEN Append(goals, new)
                  ELSE IF promoter.blocked THEN [goals EXCEPT ![g].status = "open"]
                  ELSE goals
       IN /\ \E S \in SUBSET {h \in (DOMAIN goals) \ {g} : /\ goals[h].by = "promoter"
                                                         /\ goals[h].status # "closed"
                                                         /\ Idle(h)} :
                goals' = Abandon(gs, S)
          /\ links' = links \cup {<<i, g>> : i \in promoter.eps}
    /\ promoter' = NoRun
    /\ UNCHANGED <<rows, vectors, embeds, found>>

\* A night on which nothing recurs, or the run dies before its commit.
AbandonIdle(g) == /\ Unlocked /\ promoter = NoRun
                  /\ goals[g].by = "promoter" /\ goals[g].status # "closed" /\ Idle(g)
                  /\ goals' = Abandon(goals, {g})
                  /\ UNCHANGED <<rows, links, vectors, embeds, found, promoter>>
PromoterDies == /\ promoter # NoRun /\ promoter' = NoRun
                /\ UNCHANGED <<rows, goals, links, vectors, embeds, found>>

----------------------------------------------------------------------------
(* goals-stale-sweep.py, and the endpoints of the operator. *)

\* What was linked between its read and its write is abandoned all the same.
AbandonStale(g) == /\ Unlocked /\ goals[g].status = "open" /\ goals[g].by # "manual"
                   /\ goals' = Abandon(goals, {g})
                   /\ UNCHANGED <<rows, links, vectors, embeds, found, promoter>>

SetStatus(g, st) == /\ Unlocked /\ goals' = [goals EXCEPT ![g].status = st]
                    /\ UNCHANGED <<rows, links, vectors, embeds, found, promoter>>

CreateGoal(t) == /\ Unlocked /\ Len(goals) < MaxGoals
                 /\ goals' = Append(goals, [title |-> t, status |-> "open", by |-> "manual"])
                 /\ UNCHANGED <<rows, links, vectors, embeds, found, promoter>>

LinkEpisode(i, g) == /\ Unlocked /\ links' = links \cup {<<i, g>>}
                     /\ UNCHANGED <<rows, goals, vectors, embeds, found, promoter>>

\* Mutant: the source's links are deleted before they are moved.
RetargetDeletesFirst(a, b) == {l \in links : l[2] # a}

\* Moved to the target, or dropped where the target has the link already.
Retarget(a, b) == {<<l[1], IF l[2] = a THEN b ELSE l[2]>> : l \in links}

Merge(a, b) == /\ Unlocked /\ a # b
               /\ links' = Retarget(a, b)
               /\ goals' = [goals EXCEPT ![a].status = "closed"]
               /\ UNCHANGED <<rows, vectors, embeds, found, promoter>>

\* Time: ten seconds, a week without a prompt, two weeks.
Age(i) == /\ rows[i].state # "abandoned" /\ rows[i].age < 2
          /\ rows' = [rows EXCEPT ![i].age = @ + 1]
          /\ UNCHANGED <<goals, links, vectors, embeds, found, promoter>>

Next ==
    \/ \E s \in Sessions : Find(s) \/ Checkpoint(s) \/ GiveUp(s) \/ Plain(s)
    \/ \E s \in Sessions, t \in Titles : Matched(s, t) \/ Unmatched(s, t)
    \/ \E i \in DOMAIN rows : Embed(i) \/ Drop(i) \/ Age(i)
    \/ Backfill \/ Sweep
    \/ \E t \in Titles : Mine(t) \/ CreateGoal(t)
    \/ LookUp \/ Promote \/ PromoterDies
    \/ \E g \in DOMAIN goals : AbandonIdle(g) \/ AbandonStale(g)
    \/ \E g \in DOMAIN goals, st \in {"open", "blocked", "closed"} :
          SetStatus(g, st)
    \/ \E i \in DOMAIN rows, g \in DOMAIN goals : LinkEpisode(i, g)
    \/ \E a, b \in DOMAIN goals : Merge(a, b)

\* Transactions end, the upkeep runs every day, and an embedding that is tried
\* every day succeeds some day.
Fair ==
    /\ WF_vars(Backfill) /\ SF_vars(Sweep)
    /\ \A s \in Sessions : WF_vars(Checkpoint(s) \/ GiveUp(s))
    /\ \A i \in Rows : SF_vars(i \in DOMAIN rows /\ Embed(i))

Spec == Init /\ [][Next]_vars /\ Fair

----------------------------------------------------------------------------
(* A finished episode keeps its extracted summary: a prompt's checkpoint    *)
(* that raced the Stop hook never writes the running log over it            *)
(* (upsert_in_progress_episode, finalize_episode).                          *)
CompleteHasFinalSummary ==
    \A i \in DOMAIN rows : rows[i].state = "complete" => rows[i].text # "running"

(* An episode that counts towards a goal counts towards some goal for ever, *)
(* whatever is merged into what (retarget_goal_links).                      *)
LinksSurviveMerges ==
    [][\A l \in links : \E k \in links' : k[1] = l[1]]_vars

(* A checkpoint whose session went quiet is closed, or its session comes    *)
(* back (sweep_stale_in_progress).                                          *)
EveryCheckpointCloses ==
    \A i \in Rows : []<>(i \in DOMAIN rows => ~(Open(i) /\ rows[i].age = 2))

(* A finished episode is found by meaning some day, though the embedder was *)
(* down when it was written (backfill).                                     *)
EventuallyEmbedded ==
    \A i \in Rows : (i \in DOMAIN rows /\ Indexable(i)) ~> i \in vectors
=============================================================================
