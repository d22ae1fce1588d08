------------------------------- MODULE Derive -------------------------------
(***************************************************************************)
(* How the index of one store is derived from its fact files               *)
(* (internal/derive) and floored by the write gate (internal/gate), while  *)
(* sessions write both.  Derive and gate exclude each other by the per-PC  *)
(* lock; sessions take no lock.                                            *)
(*                                                                         *)
(* A line is long or cut to the cap: two units of size or one.  The order  *)
(* of the lines decides only which of them are cut or omitted, and is any. *)
(* The index has one line for a slug, and no fact of the store was migrated*)
(* (Judge).                                                                *)
(***************************************************************************)
EXTENDS Integers, FiniteSets

CONSTANTS
    Slugs,     \* fact files
    Doctrine,  \* those that are standing orders
    Prose,     \* those without a front matter: nothing is ever written to them
    SyncLimit, \* the size at which the floor engages
    Trigger,   \* the size below which it stops
    MaxLines,  \* the injection cap
    MaxEdits,  \* bound on what sessions do
    Nil

VARIABLES
    file,     \* what a session wrote last into the fact, and the fact's hook key
    index,    \* the hook on the fact's line
    tracked,  \* files at HEAD
    deleted,  \* files some commit deleted
    pc,       \* of the derive or the gate that holds the lock
    before,   \* the index it read
    names,    \* the files it found
    todo,     \* those whose hook it has yet to harvest
    copy,     \* the fact file in its hands: [slug, file]
    plan,     \* the index it will write
    glimpse,  \* the index a gate has read that has no lock yet
    meant,    \* the text sessions meant the fact to have, Nil when they removed it
    late,     \* facts a session changed while a harvest had them in its hands
    spared,   \* facts a session changed, or whose harvest failed, in this run
    hurried,  \* the index was changed after it was compared
    edits

vars == <<file, index, tracked, deleted, pc, before, names, todo, copy, plan, glimpse,
          meant, late, spared, hurried, edits>>
history == <<tracked, deleted>>
said    == <<meant, late, edits>>

\* Text 0 of a hook stands for the description, or for the first line of prose.
Hook  == [text : 0..MaxEdits, cut : BOOLEAN]
Lines == [Slugs -> Hook \cup {Nil}]
Fact  == [text : 0..MaxEdits, key : Hook \cup {Nil}]
First == [text |-> 0, cut |-> FALSE]
Empty == [u \in Slugs |-> Nil]

TypeOK ==
    /\ file \in [Slugs -> Fact \cup {Nil}] /\ index \in Lines
    /\ tracked \subseteq Slugs /\ deleted \subseteq Slugs
    /\ pc \in {"idle", "harvest", "again", "compare", "write", "compareFloor", "writeFloor"}
    /\ before \in Lines /\ plan \in Lines
    /\ names \subseteq Slugs /\ todo \subseteq Slugs
    /\ copy = Nil \/ copy \in [slug : Slugs, file : Fact]
    /\ glimpse = Nil \/ glimpse \in Lines
    /\ meant \in [Slugs -> 0..MaxEdits \cup {Nil}]
    /\ late \subseteq Slugs /\ spared \subseteq Slugs
    /\ hurried \in BOOLEAN /\ edits \in 0..MaxEdits

Init ==
    /\ file = [u \in Slugs |-> [text |-> 0, key |-> Nil]]
    /\ \E I \in SUBSET Slugs : index = [u \in Slugs |-> IF u \in I THEN First ELSE Nil]
    /\ tracked = Slugs /\ deleted = {}
    /\ pc = "idle" /\ before = Empty /\ plan = Empty /\ names = {} /\ todo = {}
    /\ copy = Nil /\ glimpse = Nil
    /\ meant = [u \in Slugs |-> 0] /\ late = {} /\ spared = {}
    /\ hurried = FALSE /\ edits = 0

Present == {u \in Slugs : file[u] # Nil}
Of(ix)  == {u \in Slugs : ix[u] # Nil}
Long(ix) == {u \in Of(ix) : ~ix[u].cut}
Size(ix) == Cardinality(Of(ix)) + Cardinality(Long(ix))
Cut(h)   == [h EXCEPT !.cut = TRUE]
Some(n, S) == {T \in SUBSET S : Cardinality(T) = IF n < 0 THEN 0
                                                 ELSE IF n > Cardinality(S) THEN Cardinality(S) ELSE n}

----------------------------------------------------------------------------
(* Sessions.                                                               *)

Edits == edits < MaxEdits /\ edits' = edits + 1

EditsIndex == /\ Edits
              /\ hurried' = (hurried \/ pc \in {"write", "writeFloor"})
              /\ UNCHANGED <<file, history, pc, before, names, todo, copy, plan, glimpse,
                             meant, late, spared>>

WriteLine(u)  == /\ EditsIndex
                 /\ index' = [index EXCEPT ![u] = [text |-> edits + 1, cut |-> FALSE]]
RemoveLine(u) == EditsIndex /\ index[u] # Nil /\ index' = [index EXCEPT ![u] = Nil]

EditsFact(u) ==
    /\ Edits
    /\ late' = IF copy # Nil /\ copy.slug = u THEN late \cup {u} ELSE late \ {u}
    /\ spared' = IF pc = "idle" THEN spared ELSE spared \cup {u}
    /\ UNCHANGED <<index, history, pc, before, names, todo, copy, plan, glimpse, hurried>>

\* A session that writes the whole file anew drops the key.
WriteFact(u) ==
    /\ EditsFact(u)
    /\ \E k \in {Nil} \cup (IF file[u] = Nil THEN {} ELSE {file[u].key}) :
          file' = [file EXCEPT ![u] = [text |-> edits + 1, key |-> k]]
    /\ meant' = [meant EXCEPT ![u] = edits + 1]

RemoveFact(u) ==
    /\ EditsFact(u) /\ file[u] # Nil
    /\ file' = [file EXCEPT ![u] = Nil] /\ meant' = [meant EXCEPT ![u] = Nil]

\* A sync pass or a gate stages the fact files and commits them.
Committed ==
    /\ pc = "idle" /\ tracked # Present
    /\ tracked' = Present /\ deleted' = deleted \cup (tracked \ Present)
    /\ UNCHANGED <<file, index, pc, before, names, todo, copy, plan, glimpse, said, spared,
                   hurried>>

----------------------------------------------------------------------------
(* Derive. *)

Over == /\ pc' = "idle" /\ before' = Empty /\ plan' = Empty /\ names' = {} /\ todo' = {}
        /\ copy' = Nil /\ spared' = {} /\ hurried' = FALSE

\* Mutant: only the lines over the cap are harvested.
StartLong ==
    /\ pc = "idle" /\ ~(Of(index) # {} /\ Present = {})
    /\ before' = index /\ names' = Present /\ todo' = Long(index) \cap Present
    /\ pc' = "harvest"
    /\ UNCHANGED <<file, index, history, copy, plan, glimpse, said, spared, hurried>>

\* An index with entries over a store without files is not touched.
Start ==
    /\ pc = "idle" /\ ~(Of(index) # {} /\ Present = {})
    /\ before' = index /\ names' = Present /\ todo' = Of(index) \cap Present
    /\ pc' = "harvest"
    /\ UNCHANGED <<file, index, history, copy, plan, glimpse, said, spared, hurried>>

Keyless    == {u \in Present \ Prose : file[u].key = Nil}
Harvesting == pc \in {"harvest", "again"} /\ copy = Nil

HarvestRead(u) ==
    /\ Harvesting /\ u \in todo \cap Keyless
    /\ copy' = [slug |-> u, file |-> file[u]]
    /\ UNCHANGED <<file, index, history, pc, before, names, todo, plan, glimpse, said, spared,
                   hurried>>

\* The file is gone, has a key or no front matter to put one in.
HarvestNothing(u) ==
    /\ Harvesting /\ u \in todo \ Keyless
    /\ todo' = todo \ {u}
    /\ UNCHANGED <<file, index, history, pc, before, names, copy, plan, glimpse, said, spared,
                   hurried>>

\* What was read is written back, with the key and whatever happened since.
HarvestWrite ==
    /\ copy # Nil
    /\ LET u == copy.slug
           hook == IF pc = "harvest" THEN before[u] ELSE plan[u] IN
       /\ file' = [file EXCEPT ![u] = [copy.file EXCEPT !.key = hook]]
       /\ todo' = todo \ {u}
    /\ copy' = Nil
    /\ UNCHANGED <<index, history, pc, before, names, plan, glimpse, said, spared, hurried>>

\* A file that cannot be read or written is skipped.
HarvestFails(u) ==
    /\ pc \in {"harvest", "again"} /\ u \in todo /\ (copy # Nil => copy.slug = u)
    /\ todo' = todo \ {u} /\ copy' = Nil /\ spared' = spared \cup {u}
    /\ UNCHANGED <<file, index, history, pc, before, names, plan, glimpse, said, hurried>>

\* The hook of the file outranks that of the line.
Key(u)     == IF file[u] = Nil THEN Nil ELSE file[u].key
Resolve(u) == IF Key(u) # Nil THEN Key(u) ELSE before[u]
Orphan(u)  == Cut(IF Key(u) # Nil THEN Key(u) ELSE First)

\* Dangling lines go; files without a line get a cut one while there is room.
Hygiene ==
    /\ pc = "harvest" /\ todo = {} /\ copy = Nil
    /\ LET kept == [u \in Slugs |-> IF u \in names /\ before[u] # Nil THEN Resolve(u) ELSE Nil]
       IN \E R \in Some(SyncLimit - 1 - Size(kept), names \ Of(before)) :
             /\ plan' = [u \in Slugs |-> IF u \in R THEN Orphan(u) ELSE kept[u]]
             /\ todo' = R
    /\ pc' = "again"
    /\ UNCHANGED <<file, index, history, before, names, copy, glimpse, said, spared, hurried>>

BlastCapOf(n) == IF n \div 5 < 1 THEN 1 ELSE n \div 5
Removals    == (Of(before) \ names) \ (deleted \ tracked)

\* The floor: from the sync limit on, lines are cut until the size is below the trigger.
Floored(ix) == {[u \in Slugs |-> IF u \in F THEN Cut(ix[u]) ELSE ix[u]] :
                F \in IF Size(ix) < SyncLimit THEN {{}}
                      ELSE Some(Size(ix) - Trigger + 1, Long(ix) \ Doctrine)}
\* The injection cap.
Capped(ix)  == {[u \in Slugs |-> IF u \in O THEN Nil ELSE ix[u]] :
                O \in Some(Cardinality(Of(ix)) - MaxLines, Of(ix) \ Doctrine)}

Render ==
    /\ pc = "again" /\ todo = {} /\ copy = Nil
    /\ Cardinality(Removals) <= BlastCapOf(Cardinality(Of(before)))
    /\ \E ix \in Capped(plan) : \E new \in Floored(ix) :
          /\ new # before
          /\ plan' = new /\ pc' = "compare"
    /\ UNCHANGED <<file, index, history, before, names, todo, copy, glimpse, said, spared,
                   hurried>>

\* Nothing to write, too much to remove, a step that fails, or the process dies.
Abandon ==
    /\ pc # "idle" /\ Over
    /\ UNCHANGED <<file, index, history, glimpse, said>>

\* Mutant: the index is not hashed again.
CompareFiles ==
    /\ pc = "compare" /\ Present = names
    /\ pc' = "write"
    /\ UNCHANGED <<file, index, history, before, names, todo, copy, plan, glimpse, said, spared,
                   hurried>>

Compare ==
    /\ pc = "compare" /\ index = before /\ Present = names
    /\ pc' = "write"
    /\ UNCHANGED <<file, index, history, before, names, todo, copy, plan, glimpse, said, spared,
                   hurried>>

Write ==
    /\ pc \in {"write", "writeFloor"} /\ index' = plan /\ Over
    /\ UNCHANGED <<file, history, glimpse, said>>

----------------------------------------------------------------------------
(* The gate reads the index, takes the lock, floors what it read.          *)

GateReads ==
    /\ glimpse = Nil /\ Size(index) >= SyncLimit /\ glimpse' = index
    /\ UNCHANGED <<file, index, history, pc, before, names, todo, copy, plan, said, spared,
                   hurried>>

GateSkips ==
    /\ glimpse # Nil /\ glimpse' = Nil
    /\ UNCHANGED <<file, index, history, pc, before, names, todo, copy, plan, said, spared,
                   hurried>>

GateFloors ==
    /\ pc = "idle" /\ glimpse # Nil /\ glimpse' = Nil
    /\ before' = glimpse /\ plan' \in Floored(glimpse) \ {glimpse} /\ pc' = "compareFloor"
    /\ UNCHANGED <<file, index, history, names, todo, copy, said, spared, hurried>>

GateCompares ==
    /\ pc = "compareFloor" /\ index = before /\ pc' = "writeFloor"
    /\ UNCHANGED <<file, index, history, before, names, todo, copy, plan, glimpse, said, spared,
                   hurried>>

Next ==
    \/ \E u \in Slugs : WriteLine(u) \/ RemoveLine(u) \/ WriteFact(u) \/ RemoveFact(u)
    \/ Committed \/ Start
    \/ \E u \in Slugs : HarvestRead(u) \/ HarvestNothing(u) \/ HarvestFails(u)
    \/ HarvestWrite \/ Hygiene \/ Render \/ Compare \/ Write \/ Abandon
    \/ GateReads \/ GateSkips \/ GateFloors \/ GateCompares

Spec == Init /\ [][Next]_vars

----------------------------------------------------------------------------
(* A fact has the text a session gave it, and is gone when a session       *)
(* removed it, but for what came between a harvest's read and its write    *)
(* (frontmatter.Harvest).                                                  *)
FactsKept == \A u \in Slugs \ late : meant[u] = IF file[u] = Nil THEN Nil ELSE file[u].text

\* The write of derive or gate.
Rewrites == pc \in {"write", "writeFloor"} /\ pc' = "idle" /\ index' # index

(* A hook leaves the index or is replaced there only when the fact's file  *)
(* has one, the file's harvest failed or a session rewrote the file        *)
(* (harvest before hygiene, floor and cap).                                *)
HooksOutliveTheirLine ==
    [][Rewrites /\ pc = "write" =>
          \A u \in (Of(before) \cap Present) \ (Prose \cup spared) :
             index'[u] # before[u] => file[u].key # Nil]_vars

(* A session's change of the index is undone only when it fell between the *)
(* comparison and the write.                                               *)
SessionsWin == [][Rewrites => hurried \/ index = before]_vars

(* No edit and no hook is lost to a derive or a gate, but in the windows   *)
(* named above.                                                            *)
NothingIsDerivedAway == []FactsKept /\ HooksOutliveTheirLine /\ SessionsWin
=============================================================================
