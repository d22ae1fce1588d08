---------------------------- MODULE MemoryStore ----------------------------
(***************************************************************************)
(* What the memory server promises its callers about the stored records:   *)
(* every write route takes effect in one step, touches only the part of    *)
(* the payload it owns, and obeys the supersession rules at that step.     *)
(* Records.tla is the server that implements it with per-record locks,     *)
(* reads before writes and judgements made in the background.              *)
(***************************************************************************)
CONSTANTS Ids, Texts, Nobody

VARIABLES live,    \* the points in the collection
          mem      \* the payload each id has, or had when it was deleted

store == <<live, mem>>

Protected == {"canonical", "insight"}
Tiers == {"evidence", "stable"} \cup Protected

\* One payload: the text; the tier; the winner that supersedes it; the winners
\* of its partial notes; the canonical record it contradicts; the text its
\* check marker stands for; and whether it is retired.
Payload == [text : Texts, tier : Tiers, sup : Ids \cup {Nobody},
            notes : SUBSET Ids, contra : Ids \cup {Nobody},
            checked : Texts \cup {Nobody}, retired : BOOLEAN]

Fresh(x, t) == [text |-> x, tier |-> t, sup |-> Nobody, notes |-> {},
                contra |-> Nobody, checked |-> Nobody, retired |-> FALSE]

Init == /\ live \in SUBSET Ids
        /\ mem \in [Ids -> {Fresh(x, t) : x \in Texts, t \in Tiers}]

Put(i, p) == mem' = [mem EXCEPT ![i] = p]

Create(i, x, t) == /\ i \notin live /\ live' = live \cup {i}
                   /\ Put(i, Fresh(x, t))

\* New text; every other key survives, except the marker that says the text
\* was judged.
Rewrite(i, x) == /\ i \in live /\ UNCHANGED live
                 /\ Put(i, [mem[i] EXCEPT !.text = x, !.checked = Nobody])

\* A rewrite that overlapped a delete of the record brings it back.
Revive(i, x) == /\ i \notin live /\ live' = live \cup {i}
                /\ Put(i, [mem[i] EXCEPT !.text = x, !.checked = Nobody])

\* A superseded record does not enter a protected tier.
Retier(i, t) == /\ i \in live /\ UNCHANGED live
                /\ t \in Protected => mem[i].sup = Nobody
                /\ Put(i, [mem[i] EXCEPT !.tier = t])

Flag(i, c, x) == /\ i \in live /\ UNCHANGED live
                 /\ Put(i, [mem[i] EXCEPT !.contra = c, !.checked = x])

Retire(i) == /\ i \in live /\ UNCHANGED live
             /\ Put(i, [mem[i] EXCEPT !.retired = TRUE])

\* Only an unprotected record is superseded, by another record that is not
\* itself superseded, and only when nothing else supersedes it already.
Supersede(i, w) ==
    /\ i \in live /\ i # w /\ UNCHANGED live
    /\ mem[i].tier \notin Protected
    /\ mem[i].sup = Nobody /\ mem[w].sup = Nobody
    /\ Put(i, [mem[i] EXCEPT !.sup = w])

Annotate(i, w) ==
    /\ i \in live /\ i # w /\ UNCHANGED live
    /\ mem[i].tier \notin Protected
    /\ mem[i].sup = Nobody /\ mem[w].sup = Nobody
    /\ Put(i, [mem[i] EXCEPT !.notes = @ \cup {w}])

Clear(i) == /\ i \in live /\ UNCHANGED live
            /\ mem[i].tier \notin Protected
            /\ \/ Put(i, [mem[i] EXCEPT !.sup = Nobody])
               \/ Put(i, [mem[i] EXCEPT !.notes = {}])
               \/ Put(i, [mem[i] EXCEPT !.sup = Nobody, !.notes = {}])

Delete(i) == i \in live /\ live' = live \ {i} /\ UNCHANGED mem

Next == \E i \in Ids :
           \/ \E x \in Texts : Rewrite(i, x) \/ Revive(i, x)
           \/ \E x \in Texts, t \in Tiers : Create(i, x, t)
           \/ \E t \in Tiers : Retier(i, t)
           \/ \E c \in Ids, x \in Texts : Flag(i, c, x)
           \/ \E w \in Ids : Supersede(i, w) \/ Annotate(i, w)
           \/ Retire(i) \/ Clear(i) \/ Delete(i)

Spec == Init /\ [][Next]_store
=============================================================================
