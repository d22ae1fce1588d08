------------------------------- MODULE Sweep -------------------------------
(***************************************************************************)
(* The weekly contradiction sweep (scripts/wsl/contradiction-sweep.py)     *)
(* over the canonicals, the chained re-judge of what is already stamped,   *)
(* the evidence sweep, the review queue and the operator's verbs on it.    *)
(*                                                                         *)
(* A run is one process that reads the store, asks the judge and patches   *)
(* through the memory server, one pair at a time; the operator acts        *)
(* between any two of its steps.  The judge may answer yes, no or nothing. *)
(* "codex" is the authoritative judge, "local" the weak one.               *)
(***************************************************************************)
EXTENDS Naturals, FiniteSets, Sequences, SequencesExt

CONSTANTS
    Canonicals,  \* ids that start in the canonical tier
    Candidates,  \* ids of the records they are compared with
    Similar,     \* <<canonical, candidate>> pairs a vector query returns
    Newer,       \* the pairs whose candidate was created after the canonical
    Stale,       \* <<older, newer>> candidates: near-duplicates, retrieved together or marked
    Vectorless,  \* canonicals stored without a dense vector
    Limit,       \* canonicals taken in one run
    Nobody

VARIABLES
    rotation,  \* the live canonicals, the longest unchecked first
    stamp,     \* contradicts_canonical of each candidate
    pending,   \* contradicts_canonical_pending
    age,       \* its contradiction_checked_at: 0 within 7 days, 1 within 30, 2 older or none
    hidden,    \* candidates with superseded_by
    queue,     \* the lines of the review queue
    pc, judge, \* where the run is, and which judge it asks
    todo,      \* canonicals left in this run
    left,      \* candidates of the head of todo still to be judged
    flagged,   \* those that carried a stamp when they were read
    scrolled,  \* what the re-judge read and has not handled yet
    yes        \* pairs the authoritative judge has called a contradiction

vars == <<rotation, stamp, pending, age, hidden, queue, pc, judge, todo, left,
          flagged, scrolled, yes>>
store == <<rotation, stamp, pending, age, hidden>>
run   == <<pc, judge, todo, left, flagged, scrolled>>

Someone == Canonicals \cup {Nobody}
Line    == [mem : Candidates, can : Canonicals \cup Candidates,
            kind : {"review", "stale", "supersede"}]
Read    == [mem : Candidates, can : Canonicals, pend : BOOLEAN]

TypeOK ==
    /\ ToSet(rotation) \subseteq Canonicals /\ IsInjective(rotation)
    /\ stamp \in [Candidates -> Someone] /\ pending \in [Candidates -> Someone]
    /\ age \in [Candidates -> 0..2] /\ hidden \subseteq Candidates
    /\ queue \subseteq Line /\ yes \subseteq Canonicals \X Candidates
    /\ pc \in {"idle", "next", "pairs", "prune", "scroll", "rejudge"}
    /\ judge \in {"codex", "local"} /\ todo \in Seq(Canonicals)
    /\ left \subseteq Candidates /\ flagged \subseteq Candidates
    /\ scrolled \subseteq Read

Init ==
    /\ rotation = SetToSeq(Canonicals)
    /\ stamp = [k \in Candidates |-> Nobody]
    /\ pending = [k \in Candidates |-> Nobody]
    /\ age = [k \in Candidates |-> 2]
    /\ hidden = {} /\ queue = {} /\ yes = {}
    /\ pc = "idle" /\ judge = "codex" /\ todo = <<>>
    /\ left = {} /\ flagged = {} /\ scrolled = {}

IsLive(c) == c \in ToSet(rotation)
Goto(p)   == pc' = p

----------------------------------------------------------------------------
(* The memory server's metadata patch: null clears a key. *)

Patch(k, s, p) == /\ stamp' = [stamp EXCEPT ![k] = s]
                  /\ pending' = [pending EXCEPT ![k] = p]
                  /\ age' = [age EXCEPT ![k] = 0]
                  /\ UNCHANGED <<rotation, hidden>>

\* Mutant: the weak judge's yes is enforced like the other's.
PatchYesAnyJudge(k, c) == Patch(k, c, Nobody)

\* Only the authoritative judge's yes hides the record.
PatchYes(k, c) == IF judge = "local" THEN Patch(k, stamp[k], c)
                                     ELSE Patch(k, c, Nobody)

\* An append is idempotent in _queue_key: only a doubt's key has the canonical.
SameKey(q, r) == /\ q.mem = r.mem /\ q.kind = r.kind
                 /\ q.kind = "stale" => q.can = r.can
Enqueue(m, c, kind) == LET r == [mem |-> m, can |-> c, kind |-> kind] IN
    queue' = IF \E q \in queue : SameKey(q, r) THEN queue ELSE queue \cup {r}

\* The line that doubts a canonical names it under a key of its own, so that
\* promote, which reads canonical_id, cannot act on it.
\* Mutant: it is an ordinary review line.
DoubtAsReview(k, c) == Enqueue(k, c, "review")
Doubt(k, c) == Enqueue(k, c, "stale")

----------------------------------------------------------------------------
(* The sweep over the canonicals. *)

\* Rotation order, cut to the budget.
Begin == /\ pc = "idle" /\ Goto("next")
         /\ judge' \in {"codex", "local"}
         /\ todo' = SubSeq(rotation, 1, IF Limit < Len(rotation) THEN Limit ELSE Len(rotation))
         /\ UNCHANGED <<store, queue, left, flagged, scrolled, yes>>

\* Mutant: it keeps its old place as well.
MovedTwice(c) == IF IsLive(c) THEN Append(rotation, c) ELSE rotation

Moved(c) == IF IsLive(c) THEN Append(RemoveFirst(rotation, c), c) ELSE rotation

\* mark_canonical_checked moves the head to the end of the rotation.
Mark(c) == rotation' = Moved(c) /\ UNCHANGED <<stamp, pending, age, hidden>>

\* Mutant: a canonical that cannot be swept keeps its place.
NoVectorUnmarked == /\ pc = "next" /\ todo # <<>> /\ Head(todo) \in Vectorless
                    /\ todo' = Tail(todo)
                    /\ UNCHANGED <<store, queue, pc, judge, left, flagged, scrolled, yes>>

NoVector == /\ pc = "next" /\ todo # <<>> /\ Head(todo) \in Vectorless
            /\ todo' = Tail(todo) /\ Mark(Head(todo))
            /\ UNCHANGED <<queue, pc, judge, left, flagged, scrolled, yes>>

\* candidate_skip_reason: a stamp is honoured for 30 days, a no for 7.
Eligible(k) == /\ k \notin hidden
               /\ IF stamp[k] = Nobody THEN age[k] > 0 ELSE age[k] = 2

Query == /\ pc = "next" /\ todo # <<>> /\ Head(todo) \notin Vectorless
         /\ left' = {k \in Candidates : <<Head(todo), k>> \in Similar /\ Eligible(k)}
         /\ flagged' = {k \in left' : stamp[k] # Nobody \/ pending[k] # Nobody}
         /\ Goto("pairs")
         /\ UNCHANGED <<store, queue, judge, todo, scrolled, yes>>

\* A canonical whose query or marker failed is not marked.
QueryFails == /\ pc = "next" /\ todo # <<>>
              /\ todo' = Tail(todo)
              /\ UNCHANGED <<store, queue, pc, judge, left, flagged, scrolled, yes>>

Judged(k) == /\ pc = "pairs" /\ k \in left
             /\ left' = left \ {k}
             /\ UNCHANGED <<pc, judge, todo, flagged, scrolled>>

SaidYes(c, k) == yes' = IF judge = "codex" THEN yes \cup {<<c, k>>} ELSE yes

\* A yes about an older candidate stamps it; about a newer one it may be the
\* canonical that is out of date, and only the operator decides.
JudgeYes(k) == LET c == Head(todo) IN
    /\ Judged(k) /\ SaidYes(c, k)
    /\ IF <<c, k>> \in Newer
       THEN Doubt(k, c) /\ Patch(k, stamp[k], pending[k])
       ELSE PatchYes(k, c) /\ UNCHANGED queue

\* A no clears whatever stamp the candidate carried when it was read.
JudgeNo(k) == /\ Judged(k)
              /\ IF k \in flagged THEN Patch(k, Nobody, Nobody)
                                  ELSE Patch(k, stamp[k], pending[k])
              /\ UNCHANGED <<queue, yes>>

\* No verdict, or the patch fails: the pair is skipped.
Skip(k) == Judged(k) /\ UNCHANGED <<store, queue, yes>>

Swept == /\ pc = "pairs" /\ left = {}
         /\ Mark(Head(todo)) /\ todo' = Tail(todo) /\ flagged' = {}
         /\ Goto("next")
         /\ UNCHANGED <<queue, judge, left, scrolled, yes>>

MarkFails == /\ pc = "pairs" /\ left = {}
             /\ todo' = Tail(todo) /\ flagged' = {} /\ Goto("next")
             /\ UNCHANGED <<store, queue, judge, left, scrolled, yes>>

AllTaken == /\ pc = "next" /\ todo = <<>> /\ Goto("prune")
            /\ UNCHANGED <<store, queue, judge, todo, left, flagged, scrolled, yes>>

\* The judge is busy elsewhere, or failed five times in a row.  The second
\* pass is chained all the same.
Abort == /\ pc \in {"next", "pairs"} /\ Goto("scroll")
         /\ todo' = <<>> /\ left' = {} /\ flagged' = {}
         /\ UNCHANGED <<store, queue, judge, scrolled, yes>>

\* Lines whose question is settled: the doubted canonical is no longer one, or
\* the loser is superseded already.
Settled(q) == \/ q.kind = "stale" /\ ~IsLive(q.can)
              \/ q.kind = "supersede" /\ q.mem \in hidden

Prune == /\ pc = "prune" /\ Goto("scroll")
         /\ queue' = {q \in queue : ~Settled(q)}
         /\ UNCHANGED <<store, judge, todo, left, flagged, scrolled, yes>>

----------------------------------------------------------------------------
(* --rejudge-stamped: every stamp against the canonical it names. *)

Target(k) == IF stamp[k] # Nobody THEN stamp[k] ELSE pending[k]

\* With the local judge the pass refuses to run.
Scroll ==
    /\ pc = "scroll"
    /\ IF judge = "codex"
       THEN /\ Goto("rejudge")
            /\ scrolled' = {[mem |-> k, can |-> Target(k), pend |-> stamp[k] = Nobody] :
                            k \in {x \in Candidates : Target(x) # Nobody}}
       ELSE Goto("idle") /\ UNCHANGED scrolled
    /\ UNCHANGED <<store, queue, judge, todo, left, flagged, yes>>

Handled(r) == /\ pc = "rejudge" /\ r \in scrolled
              /\ scrolled' = scrolled \ {r}
              /\ UNCHANGED <<pc, judge, todo, left, flagged>>

\* Mutant: a target that is gone is taken for one that could not be read.
DeadTargetSkipped(r) == /\ Handled(r) /\ ~IsLive(r.can)
                        /\ UNCHANGED <<store, queue, yes>>
DeadTarget(r) == /\ Handled(r) /\ ~IsLive(r.can)
                 /\ Patch(r.mem, Nobody, Nobody) /\ UNCHANGED <<queue, yes>>

RejudgeNo(r) == /\ Handled(r) /\ IsLive(r.can)
                /\ Patch(r.mem, Nobody, Nobody) /\ UNCHANGED <<queue, yes>>

\* An advisory stamp is never enforced by the judge alone.
RejudgeYes(r) == /\ Handled(r) /\ IsLive(r.can)
                 /\ yes' = yes \cup {<<r.can, r.mem>>}
                 /\ IF r.pend
                    THEN Enqueue(r.mem, r.can, "review") /\ UNCHANGED store
                    ELSE Patch(r.mem, r.can, Nobody) /\ UNCHANGED queue

RejudgeSkip(r) == Handled(r) /\ UNCHANGED <<store, queue, yes>>

RejudgeEnds == /\ pc = "rejudge" /\ Goto("idle") /\ scrolled' = {}
               /\ UNCHANGED <<store, queue, judge, todo, left, flagged, yes>>

----------------------------------------------------------------------------
(* The other modes, and the people who work on the store meanwhile. *)

Others == UNCHANGED <<run, yes>>

Both(p) == {p[1], p[2]} \cap hidden = {}

\* --evidence-sweep queues the older of two near-duplicates unless it is
\* flagged against a canonical; --retrieval-pairs --apply the older of two
\* records retrieved together.  Neither hides anything.
EvidenceSweep(p)  == /\ p[1] \notin hidden
                     /\ stamp[p[1]] = Nobody /\ pending[p[1]] = Nobody
                     /\ Enqueue(p[1], p[2], "supersede")
                     /\ Others /\ UNCHANGED store
RetrievalPairs(p) == /\ Both(p) /\ Enqueue(p[1], p[2], "supersede")
                     /\ Others /\ UNCHANGED store

\* --promote takes its canonical from a review line, never from a supersede
\* line, whose canonical_id is the winner, nor from a doubt, which has none.
Promotable(q) == q.kind = "review"

Promote(k) == \E q \in queue :
    /\ q.mem = k /\ Promotable(q)
    /\ Patch(k, q.can, Nobody)
    /\ queue' = {x \in queue : x.mem # k \/ x.kind = "stale"}
    /\ Others

Dismiss(k) == /\ \E q \in queue : q.mem = k
              /\ queue' = {x \in queue : x.mem # k}
              /\ Others /\ UNCHANGED store

Unstamp(k) == /\ stamp[k] # Nobody
              /\ Patch(k, Nobody, pending[k])
              /\ Others /\ UNCHANGED queue

\* The server's door: a superseded loser or winner is refused.
Supersede(p) == /\ Both(p) /\ hidden' = hidden \cup {p[1]}
                /\ Others /\ UNCHANGED <<rotation, stamp, pending, age>>

\* --resolve-supersede takes the loser's lines off the queue, --supersede-markers
\* leaves them to the next Prune.
Resolve(p) == /\ Supersede(p)
              /\ queue' = {x \in queue : x.mem # p[1] \/ x.kind = "stale"}
ConvertMarker(p) == Supersede(p) /\ UNCHANGED queue

Unsupersede(k) == /\ k \in hidden /\ hidden' = hidden \ {k}
                  /\ Others /\ UNCHANGED <<queue, rotation, stamp, pending, age>>

Demote(c) == /\ IsLive(c)
             /\ rotation' = RemoveFirst(rotation, c)
             /\ Others /\ UNCHANGED <<queue, stamp, pending, age, hidden>>

\* An update of the record drops the advisory stamp and the check marker.
Edit(k) == /\ pending' = [pending EXCEPT ![k] = Nobody]
           /\ age' = [age EXCEPT ![k] = 2]
           /\ Others /\ UNCHANGED <<queue, rotation, stamp, hidden>>

Time == \E k \in Candidates : /\ age[k] < 2
                              /\ age' = [age EXCEPT ![k] = @ + 1]
                              /\ Others /\ UNCHANGED <<queue, rotation, stamp, pending, hidden>>

Run == \/ Begin \/ NoVector \/ Query \/ QueryFails \/ Swept \/ MarkFails
       \/ AllTaken \/ Abort \/ Prune \/ Scroll \/ RejudgeEnds
       \/ \E k \in Candidates : JudgeYes(k) \/ JudgeNo(k) \/ Skip(k)
       \/ \E r \in scrolled : \/ DeadTarget(r) \/ RejudgeNo(r)
                              \/ RejudgeYes(r) \/ RejudgeSkip(r)

Operator ==
    \/ Time
    \/ \E p \in Stale : \/ EvidenceSweep(p) \/ RetrievalPairs(p)
                        \/ Resolve(p) \/ ConvertMarker(p)
    \/ \E k \in Candidates : \/ Promote(k) \/ Dismiss(k) \/ Unstamp(k)
                             \/ Unsupersede(k) \/ Edit(k)
    \/ \E c \in Canonicals : Demote(c)

Next == Run \/ Operator

\* The timer is persistent; a call that is retried every week does not fail
\* every week, nor does the judge stay busy for ever.
Fair ==
    /\ WF_vars(Run) /\ SF_vars(NoVector)
    /\ SF_vars(Query) /\ SF_vars(Swept)
    /\ SF_vars(Begin /\ judge' = "codex")
    /\ \A k \in Candidates : SF_vars(Skip(k) \/ JudgeYes(k) \/ JudgeNo(k))
    /\ \A k \in Candidates, c \in Canonicals :
          SF_vars(\E r \in scrolled : r.mem = k /\ r.can = c /\ DeadTarget(r))

Spec == Init /\ [][Next]_vars /\ Fair

----------------------------------------------------------------------------
(* A record is hidden only against a canonical that the authoritative judge *)
(* set against it, whatever the weak judge, the queue and the operator did  *)
(* in between (stamp_candidate, resolve_action, run_promote).               *)
HiddenOnlyOnAuthority ==
    \A k \in Candidates : stamp[k] # Nobody => <<stamp[k], k>> \in yes

(* A record newer than the canonical it contradicts may be its correction:  *)
(* no sweep, re-judge or promotion hides it (is_older, the queue's kinds).  *)
CorrectionsStayVisible ==
    \A k \in Candidates : <<stamp[k], k>> \notin Newer /\ <<pending[k], k>> \notin Newer

(* The budget rotates: every canonical has its turn again and again, though *)
(* some can never be swept (order_canonicals, mark_canonical_checked).      *)
EveryCanonicalHasItsTurn ==
    \A c \in Canonicals : []<>(~IsLive(c) \/ Last(rotation) = c)

(* A stamp does not outlive the canonical it names (run_rejudge_stamped).   *)
DeadStampsAreCleared ==
    \A c \in Canonicals : \A k \in Candidates :
        (stamp[k] = c /\ ~IsLive(c)) ~> stamp[k] # c
=============================================================================
