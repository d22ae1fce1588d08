------------------------------- MODULE Dream -------------------------------
(***************************************************************************)
(* The nightly dream (scripts/wsl/dream-consolidate.py): on the weekly     *)
(* night it gathers signals, replays the spool and posts new insights; on  *)
(* every night that gets that far it promotes facts to canonical through   *)
(* the gate (scripts/wsl/autopromote_lib.py) and rebuilds the index.       *)
(*                                                                         *)
(* One process at a time (the flock on dream.lock), which may die before   *)
(* any step.  A call to the memory server may fail, and a failed post may  *)
(* have landed.  The spool file can be read; writing it may fail.  The     *)
(* gate is in mode enforce, and judges truly when it judges.               *)
(***************************************************************************)
EXTENDS Naturals, FiniteSets

CONSTANTS
    Insights,     \* insights the judge may come up with
    Facts,        \* evidence records it may nominate
    Conflicting,  \* symmetric: pairs of facts that contradict each other
    Cap           \* nominees of one night

VARIABLES
    due, weekly,   \* the "dream" and "dream-insights" throttles have elapsed
    stored,        \* insights the memory server holds
    spool,         \* insights queued in the spool file
    canon,         \* canonical facts
    phase,         \* where the cycle is
    mine,          \* insights this night's judge consolidated
    left,          \* insights of this phase not posted yet
    posted,        \* those of mine that are counted as posted
    queued,        \* those counted as spooled
    landed,        \* those the replay posted
    nominees,      \* facts still to be gated
    passed,        \* the nominee whose gate is not closed, or none
    trouble,       \* replay_failed, promote_failed or canonical_fetch_failed
    outcome        \* of the last cycle

throttles == <<due, weekly>>
night     == <<mine, left, posted, queued, landed, nominees, passed, trouble>>
vars      == <<throttles, stored, spool, canon, phase, night, outcome>>

TypeOK ==
    /\ due \in BOOLEAN /\ weekly \in BOOLEAN /\ trouble \in BOOLEAN
    /\ stored \subseteq Insights /\ spool \subseteq Insights /\ canon \subseteq Facts
    /\ phase \in {"idle", "orient", "gather", "replay", "consolidate", "post",
                  "nominate", "promote", "index"}
    /\ mine \subseteq Insights /\ left \subseteq Insights /\ landed \subseteq Insights
    /\ posted \subseteq mine /\ queued \subseteq mine
    /\ nominees \subseteq Facts /\ passed \subseteq Facts
    /\ outcome \in {"none", "ok", "degraded", "failed"}

Agree(F) == \A f, g \in F : <<f, g>> \notin Conflicting

Init == /\ due = TRUE /\ weekly = TRUE /\ stored = {} /\ spool = {}
        /\ canon \in {F \in SUBSET Facts : Cardinality(F) <= 1}
        /\ phase = "idle" /\ outcome = "none" /\ trouble = FALSE
        /\ mine = {} /\ left = {} /\ posted = {} /\ queued = {} /\ landed = {}
        /\ nominees = {} /\ passed = {}

Goto(p) == phase' = p

----------------------------------------------------------------------------
(* Time, the start and the ends of a cycle. *)

Day  == /\ phase = "idle" /\ due' = TRUE
        /\ UNCHANGED <<weekly, stored, spool, canon, phase, night, outcome>>
Week == /\ phase = "idle" /\ weekly' = TRUE
        /\ UNCHANGED <<due, stored, spool, canon, phase, night, outcome>>

\* Throttle, budget and lock permitting.
Begin == /\ phase = "idle" /\ due /\ Goto("orient")
         /\ mine' = {} /\ left' = {} /\ posted' = {} /\ queued' = {} /\ landed' = {}
         /\ nominees' = {} /\ passed' = {} /\ trouble' = FALSE /\ outcome' = "none"
         /\ UNCHANGED <<throttles, stored, spool, canon>>

\* Mutant: a queue that stands is nobody's fault.
OutcomeOfTonight == IF posted # mine \/ trouble THEN "degraded" ELSE "ok"

\* Posted less than consolidated, a replay or a promotion that failed, or a
\* spool deeper than what tonight put there.
Outcome == IF \/ posted # mine \/ trouble
              \/ Cardinality(spool) > Cardinality(queued)
           THEN "degraded" ELSE "ok"

End(result) == Goto("idle") /\ outcome' = result
Failed      == End("failed") /\ UNCHANGED <<throttles, stored, spool, canon, night>>

Crash == /\ phase # "idle" /\ End("none")
         /\ UNCHANGED <<throttles, stored, spool, canon, night>>

----------------------------------------------------------------------------
(* Phases 1 and 2. *)

Unreachable == phase = "orient" /\ Failed

Orient == /\ phase = "orient" /\ Goto(IF weekly THEN "gather" ELSE "nominate")
          /\ UNCHANGED <<throttles, stored, spool, canon, night, outcome>>

\* Nothing to gather from, or the dedup job at work: a skip that is not marked.
Skipped == /\ phase = "gather" /\ End(Outcome)
           /\ UNCHANGED <<throttles, stored, spool, canon, night>>

GatherFails == phase = "gather" /\ Failed

NoSignals == /\ phase = "gather" /\ End(Outcome)
             /\ due' = FALSE /\ weekly' = FALSE
             /\ UNCHANGED <<stored, spool, canon, night>>

Signals == /\ phase = "gather" /\ Goto("replay") /\ left' = spool
           /\ UNCHANGED <<throttles, stored, spool, canon, mine, posted, queued, landed,
                          nominees, passed, trouble, outcome>>

----------------------------------------------------------------------------
(* Phase 3. *)

Replayed(i) == /\ phase = "replay" /\ i \in left /\ left' = left \ {i}
               /\ UNCHANGED <<throttles, spool, canon, phase, mine, posted, queued,
                              nominees, passed, outcome>>

ReplayLands(i) == /\ Replayed(i) /\ stored' = stored \cup {i} /\ landed' = landed \cup {i}
                  /\ UNCHANGED trouble
ReplayFails(i) == /\ Replayed(i) /\ stored' \in {stored, stored \cup {i}}
                  /\ trouble' = TRUE /\ UNCHANGED landed

\* Mutant: the replayed queue is emptied.
Emptied == {}

\* A failure keeps its line.
Kept == spool \ landed

ReplayEnds == /\ phase = "replay" /\ left = {} /\ Goto("consolidate")
              /\ spool' = Kept
              /\ UNCHANGED <<throttles, stored, canon, night, outcome>>

\* The judge failed or answered no JSON.
ConsolidateFails == phase = "consolidate" /\ Failed

Consolidate == /\ phase = "consolidate" /\ Goto("post")
               /\ mine' \in SUBSET Insights /\ left' = mine'
               /\ UNCHANGED <<throttles, stored, spool, canon, posted, queued, landed,
                              nominees, passed, trouble, outcome>>

Posting(i) == /\ phase = "post" /\ i \in left /\ left' = left \ {i}
              /\ UNCHANGED <<throttles, canon, phase, mine, landed, nominees, passed,
                             trouble, outcome>>

\* The spool's copy of this insight has just landed.
Regenerated(i) == /\ Posting(i) /\ i \in landed
                  /\ posted' = posted \cup {i} /\ UNCHANGED <<stored, spool, queued>>

PostLands(i) == /\ Posting(i) /\ i \notin landed
                /\ stored' = stored \cup {i} /\ posted' = posted \cup {i}
                /\ UNCHANGED <<spool, queued>>

\* _spool_add: queued already, queued now, or the write fails.
PostFails(i) == /\ Posting(i) /\ i \notin landed
                /\ stored' \in {stored, stored \cup {i}}
                /\ \/ UNCHANGED <<spool, queued>>
                   \/ /\ i \notin spool
                      /\ spool' = spool \cup {i} /\ queued' = queued \cup {i}
                /\ UNCHANGED posted

PostsEnd == /\ phase = "post" /\ left = {} /\ Goto("nominate") /\ weekly' = FALSE
            /\ UNCHANGED <<due, stored, spool, canon, night, outcome>>

----------------------------------------------------------------------------
(* Phase 3.5: nominees are records that were not canonical at orient. *)

\* The judge may fail and nominate nothing; the list of canonicals, from which
\* duplicates of them are dropped, may not be had.
Nominate == /\ phase = "nominate" /\ Goto("promote")
            /\ nominees' \in {F \in SUBSET (Facts \ canon) : Cardinality(F) <= Cap}
            /\ trouble' \in {trouble, TRUE}
            /\ UNCHANGED <<throttles, stored, spool, canon, mine, left, posted, queued,
                           landed, passed, outcome>>

Contradicts(f) == \E c \in canon : <<f, c>> \in Conflicting

\* Mutant: the nominees are gated together, and canonized after.
GateTogether(f) ==
    /\ phase = "promote" /\ f \in nominees
    /\ nominees' = nominees \ {f}
    /\ passed' \in IF Contradicts(f) THEN {passed} ELSE {passed, passed \cup {f}}
    /\ UNCHANGED <<throttles, stored, spool, canon, phase, mine, left, posted, queued,
                   landed, trouble, outcome>>

\* The gate looks the canonicals up for each nominee.  When it can not, or its
\* judge answers nothing, or the fact has neither a trusted source nor company,
\* it blocks.
Gate(f) ==
    /\ phase = "promote" /\ passed = {} /\ f \in nominees
    /\ nominees' = nominees \ {f}
    /\ passed' \in IF Contradicts(f) THEN {{}} ELSE {{}, {f}}
    /\ UNCHANGED <<throttles, stored, spool, canon, phase, mine, left, posted, queued,
                   landed, trouble, outcome>>

Canonize(f) == /\ phase = "promote" /\ f \in passed
               /\ passed' = passed \ {f}
               /\ \/ canon' = canon \cup {f} /\ UNCHANGED trouble
                  \/ canon' \in {canon, canon \cup {f}} /\ trouble' = TRUE
               /\ UNCHANGED <<throttles, stored, spool, phase, mine, left, posted, queued,
                              landed, nominees, outcome>>

PromotionsEnd == /\ phase = "promote" /\ nominees = {} /\ passed = {} /\ Goto("index")
                 /\ UNCHANGED <<throttles, stored, spool, canon, night, outcome>>

----------------------------------------------------------------------------
(* Phase 4. *)

IndexFails == phase = "index" /\ Failed

IndexBuilt == /\ phase = "index" /\ End(Outcome) /\ due' = FALSE
              /\ UNCHANGED <<weekly, stored, spool, canon, night>>

\* The operator demotes.
Demote(f) == /\ phase = "idle" /\ f \in canon /\ canon' = canon \ {f}
             /\ UNCHANGED <<throttles, stored, spool, phase, night, outcome>>

Cycle == \/ Orient \/ Unreachable \/ Skipped \/ GatherFails \/ NoSignals \/ Signals
         \/ ReplayEnds \/ Consolidate \/ ConsolidateFails \/ PostsEnd
         \/ Nominate \/ PromotionsEnd \/ IndexBuilt \/ IndexFails
         \/ \E i \in Insights : \/ ReplayLands(i) \/ ReplayFails(i)
                                \/ Regenerated(i) \/ PostLands(i) \/ PostFails(i)
         \/ \E f \in Facts : Gate(f) \/ Canonize(f)

Next == Day \/ Week \/ Begin \/ Cycle \/ Crash \/ \E f \in Facts : Demote(f)

\* The timer fires every night, and the dream goes on until it ends.  The memory
\* server does not fail every week, not every week is without signals, and no
\* insight is refused every week.
Fair == /\ WF_vars(Day) /\ WF_vars(Begin) /\ WF_vars(Cycle)
        /\ SF_vars(Week) /\ SF_vars(Orient) /\ SF_vars(Signals)
        /\ \A i \in Insights : SF_vars(ReplayLands(i))

Spec == Init /\ [][Next]_vars /\ Fair

----------------------------------------------------------------------------
(* A night whose receipt says ok has lost nothing: every insight it came up *)
(* with is stored, and nothing waits in the queue (outcome, _spool_add).    *)
OkMeansAllStored == outcome = "ok" => mine \subseteq stored /\ spool = {}

(* In mode enforce two facts that contradict each other are never both      *)
(* canonical by the dream's doing, also when one night nominates both       *)
(* (promotion_gate_verdict asks for the canonicals once for each nominee).  *)
CanonicalsAgree == Agree(canon)

(* A queued insight is stored some day, and until then it stays queued      *)
(* (_replay_spool).                                                         *)
EverySpooledInsightLands == \A i \in Insights : i \in spool ~> i \in stored
=============================================================================
