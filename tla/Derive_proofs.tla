---------------------------- MODULE Derive_proofs ----------------------------
(***************************************************************************)
(* Proofs about Derive, for every set of facts and all limits.  What makes *)
(* the property hold is that nobody but a session takes a key out of a     *)
(* file: when the harvest is through, every line it read has a hook in its *)
(* file, and no session can spoil that unseen.                             *)
(***************************************************************************)
EXTENDS Derive, TLAPS

\* Nil is no fact, no hook and no copy.
NilIsNone == /\ Nil \notin Fact /\ Nil \notin Hook
             /\ Nil \notin [slug : Slugs, file : Fact]

Bounds == MaxEdits \in Nat /\ NilIsNone

-----------------------------------------------------------------------------
(* The inductive invariant. *)

Deriving == pc \in {"harvest", "again", "compare", "write"}

\* What a harvest holds is the file, but for a session's change of it.
CopyInv == copy # Nil => /\ pc \in {"harvest", "again"} /\ copy.slug \in todo
                         /\ copy.slug \notin late => file[copy.slug] = copy.file

\* Files come and go by sessions alone, and lines to harvest are lines.
NamesInv ==
    /\ Deriving => /\ names \ spared \subseteq Present
                   /\ Present \ spared \subseteq names
    /\ pc = "harvest" => todo \subseteq Of(before) \cap names
    /\ pc = "again" => todo \subseteq Of(plan) \cap names /\ todo \cap Of(before) = {}

\* A line whose harvest is over has its hook in the file.
HookInv ==
    Deriving => \A u \in (Of(before) \cap names) \ (Prose \cup spared) :
                   \/ pc = "harvest" /\ u \in todo
                   \/ file[u] # Nil /\ file[u].key # Nil

\* What was compared is so until a session edits the index.
CompareInv == pc \in {"write", "writeFloor"} => hurried \/ index = before

\* Between two runs nothing is spared.
IdleInv == pc = "idle" => spared = {}

IInv == TypeOK /\ CopyInv /\ NamesInv /\ HookInv /\ CompareInv /\ IdleInv /\ FactsKept

-----------------------------------------------------------------------------
LEMMA FactKey == ASSUME NEW f \in Fact PROVE f.key \in Hook \cup {Nil} /\ f.text \in 0..MaxEdits
  BY DEF Fact

LEMMA FirstIsHook == Bounds => First \in Hook
  BY DEF Bounds, First, Hook

LEMMA CutIsHook == ASSUME NEW h \in Hook PROVE Cut(h) \in Hook
  BY DEF Cut, Hook

LEMMA InitInv == ASSUME Bounds, Init PROVE IInv
  <1>1. TypeOK
    <2>1. index \in Lines BY FirstIsHook DEF Init, Lines
    <2>2. file \in [Slugs -> Fact \cup {Nil}] BY DEF Init, Fact, Bounds
    <2>3. Empty \in Lines BY DEF Empty, Lines
    <2>4. 0 \in 0..MaxEdits BY DEF Bounds
    <2>5. hurried \in BOOLEAN /\ edits \in 0..MaxEdits /\ meant \in [Slugs -> 0..MaxEdits \cup {Nil}]
      BY <2>4 DEF Init
    <2> QED BY <2>1, <2>2, <2>3, <2>5 DEF Init, TypeOK
  <1>2. CopyInv /\ NamesInv /\ HookInv /\ CompareInv /\ IdleInv
    BY DEF Init, CopyInv, NamesInv, HookInv, CompareInv, IdleInv, Deriving
  <1>3. FactsKept
    <2>1. \A u \in Slugs : file[u] \in Fact /\ file[u].text = 0
      BY DEF Init, Fact, Bounds
    <2> QED BY <2>1 DEF Init, FactsKept, Bounds, NilIsNone
  <1> QED BY <1>1, <1>2, <1>3 DEF IInv

-----------------------------------------------------------------------------
(* Sessions. *)

LEMMA EditsIndexInv ==
  ASSUME Bounds, IInv, NEW u \in Slugs, WriteLine(u) \/ RemoveLine(u)
  PROVE  IInv'
  <1>1. /\ UNCHANGED <<file, history, pc, before, names, todo, copy, plan, glimpse, meant, late,
                       spared>>
        /\ hurried' = (hurried \/ pc \in {"write", "writeFloor"})
        /\ edits < MaxEdits /\ edits' = edits + 1
    BY DEF WriteLine, RemoveLine, EditsIndex, Edits
  <1>2. edits' \in 0..MaxEdits BY <1>1 DEF IInv, TypeOK, Bounds
  <1>3. index' \in Lines
    <2>1. [text |-> edits + 1, cut |-> FALSE] \in Hook BY <1>1, <1>2 DEF Hook
    <2> QED BY <2>1 DEF IInv, TypeOK, Lines, WriteLine, RemoveLine
  <1>4. hurried' \in BOOLEAN BY <1>1 DEF IInv, TypeOK
  <1>5. TypeOK' BY <1>1, <1>2, <1>3, <1>4 DEF IInv, TypeOK, history
  <1>6. CopyInv' /\ NamesInv' /\ HookInv' /\ IdleInv' /\ FactsKept'
    BY <1>1 DEF IInv, CopyInv, NamesInv, HookInv, IdleInv, FactsKept, Deriving, Present, Of
  <1>7. CompareInv' BY <1>1 DEF CompareInv
  <1> QED BY <1>5, <1>6, <1>7 DEF IInv

LEMMA EditsFactInv ==
  ASSUME Bounds, IInv, NEW u \in Slugs, WriteFact(u) \/ RemoveFact(u)
  PROVE  IInv'
  <1>1. /\ UNCHANGED <<index, history, pc, before, names, todo, copy, plan, glimpse, hurried>>
        /\ late' = IF copy # Nil /\ copy.slug = u THEN late \cup {u} ELSE late \ {u}
        /\ spared' = IF pc = "idle" THEN spared ELSE spared \cup {u}
        /\ edits < MaxEdits /\ edits' = edits + 1
    BY DEF WriteFact, RemoveFact, EditsFact, Edits
  <1>2. edits' \in 0..MaxEdits BY <1>1 DEF IInv, TypeOK, Bounds
  <1>3. PICK f \in Fact \cup {Nil} :
           /\ file' = [file EXCEPT ![u] = f]
           /\ meant' = [meant EXCEPT ![u] = IF f = Nil THEN Nil ELSE f.text]
    <2>1. CASE WriteFact(u)
      <3>1. PICK k \in {Nil} \cup (IF file[u] = Nil THEN {} ELSE {file[u].key}) :
               file' = [file EXCEPT ![u] = [text |-> edits + 1, key |-> k]]
        BY <2>1 DEF WriteFact
      <3>2. k \in Hook \cup {Nil} BY FactKey DEF IInv, TypeOK
      <3> DEFINE f == [text |-> edits + 1, key |-> k]
      <3>3. f \in Fact /\ f.text = edits + 1 BY <1>1, <1>2, <3>2 DEF Fact
      <3>4. meant' = [meant EXCEPT ![u] = edits + 1] BY <2>1 DEF WriteFact
      <3>5. f # Nil BY <3>3 DEF Bounds, NilIsNone
      <3>6. file' = [file EXCEPT ![u] = f] BY <3>1
      <3> HIDE DEF f
      <3>7. meant' = [meant EXCEPT ![u] = IF f = Nil THEN Nil ELSE f.text] BY <3>3, <3>4, <3>5
      <3> QED BY <3>3, <3>6, <3>7
    <2>2. CASE RemoveFact(u) BY <2>2 DEF RemoveFact
    <2> QED BY <2>1, <2>2
  <1>4. TypeOK'
    <2>1. (IF f = Nil THEN Nil ELSE f.text) \in 0..MaxEdits \cup {Nil} BY FactKey
    <2>2. late' \subseteq Slugs /\ spared' \subseteq Slugs BY <1>1 DEF IInv, TypeOK
    <2> QED BY <1>1, <1>2, <1>3, <2>1, <2>2 DEF IInv, TypeOK, history
  <1>5. \A v \in Slugs \ {u} : file'[v] = file[v] /\ meant'[v] = meant[v]
    BY <1>3 DEF IInv, TypeOK
  <1>6. CopyInv'
    BY <1>1, <1>5 DEF IInv, TypeOK, CopyInv
  <1>7. Deriving => u \in spared' /\ spared' = spared \cup {u}
    BY <1>1 DEF Deriving
  <1>8. NamesInv'
    <2>1. \A v \in Slugs \ {u} : v \in Present' <=> v \in Present BY <1>5 DEF Present
    <2>2. Present' \subseteq Slugs /\ names \subseteq Slugs BY DEF Present, IInv, TypeOK
    <2> QED BY <1>1, <1>7, <2>1, <2>2 DEF IInv, NamesInv, Deriving, Of
  <1>9. HookInv'
    BY <1>1, <1>5, <1>7 DEF IInv, HookInv, Deriving, Of
  <1>10. CompareInv' /\ IdleInv' BY <1>1 DEF IInv, CompareInv, IdleInv
  <1>11. FactsKept'
    <2>1. meant'[u] = IF file'[u] = Nil THEN Nil ELSE file'[u].text
      BY <1>3 DEF IInv, TypeOK
    <2> QED BY <1>1, <1>5, <2>1 DEF IInv, FactsKept
  <1> QED BY <1>4, <1>6, <1>8, <1>9, <1>10, <1>11 DEF IInv

-----------------------------------------------------------------------------
(* Derive. *)

\* A run that ends.
LEMMA OverInv ==
  ASSUME Bounds, IInv, Over, index' \in Lines,
         UNCHANGED <<file, history, glimpse, said>>
  PROVE  IInv'
  <1>1. TypeOK'
    <2>1. Empty \in Lines BY DEF Empty, Lines
    <2> QED BY <2>1 DEF IInv, TypeOK, Over, history, said
  <1>2. CopyInv' /\ NamesInv' /\ HookInv' /\ CompareInv' /\ IdleInv'
    BY DEF Over, CopyInv, NamesInv, HookInv, CompareInv, IdleInv, Deriving
  <1>3. FactsKept' BY DEF IInv, FactsKept, said
  <1> QED BY <1>1, <1>2, <1>3 DEF IInv

LEMMA StartInv == ASSUME Bounds, IInv, Start PROVE IInv'
  <1>1. TypeOK' BY DEF IInv, TypeOK, Start, Present, Of, history, said
  <1>2. copy = Nil BY DEF IInv, CopyInv, Start
  <1>3. CopyInv' /\ CompareInv' /\ IdleInv' BY <1>2 DEF Start, CopyInv, CompareInv, IdleInv
  <1>4. pc' = "harvest" /\ before' = index /\ names' = Present /\ todo' = Of(index) \cap Present
        /\ Present' = Present
    BY DEF Start, Present
  <1>6. NamesInv' BY <1>4 DEF NamesInv, Of
  <1>7. HookInv'
    <2>1. Of(before)' \cap names' = todo' BY <1>4 DEF Of
    <2> QED BY <1>4, <2>1 DEF HookInv
  <1>5. FactsKept' BY DEF IInv, FactsKept, Start, said
  <1> QED BY <1>1, <1>3, <1>5, <1>6, <1>7 DEF IInv

LEMMA HarvestReadInv ==
  ASSUME Bounds, IInv, NEW u \in Slugs, HarvestRead(u) PROVE IInv'
  <1>1. u \in todo /\ file[u] \in Fact /\ pc \in {"harvest", "again"}
    BY DEF IInv, TypeOK, HarvestRead, Harvesting, Keyless, Present
  <1>2. TypeOK' BY <1>1 DEF IInv, TypeOK, HarvestRead, history, said
  <1>3. CopyInv' BY <1>1 DEF HarvestRead, CopyInv, said
  <1>4. NamesInv' /\ HookInv' /\ CompareInv' /\ IdleInv'
    BY DEF IInv, HarvestRead, NamesInv, HookInv, CompareInv, IdleInv, Deriving, Present, Of
  <1>5. FactsKept' BY DEF IInv, FactsKept, HarvestRead, said
  <1> QED BY <1>2, <1>3, <1>4, <1>5 DEF IInv

LEMMA HarvestNothingInv ==
  ASSUME Bounds, IInv, NEW u \in Slugs, HarvestNothing(u) PROVE IInv'
  <1>1. u \in todo \ Keyless /\ copy = Nil /\ pc \in {"harvest", "again"}
    BY DEF HarvestNothing, Harvesting
  <1>2. TypeOK' BY DEF IInv, TypeOK, HarvestNothing, history, said
  <1>3. CopyInv' /\ CompareInv' /\ IdleInv'
    BY <1>1 DEF IInv, HarvestNothing, CopyInv, CompareInv, IdleInv
  <1>4. NamesInv'
    BY DEF IInv, HarvestNothing, NamesInv, Deriving, Present, Of
  <1>5. HookInv'
    <2>1. u \in names /\ u \notin Prose \cup spared => file[u] # Nil /\ file[u].key # Nil
      BY <1>1 DEF IInv, NamesInv, Deriving, Keyless, Present
    <2> QED BY <1>1, <2>1 DEF IInv, HarvestNothing, HookInv, Deriving, Of
  <1>6. FactsKept' BY DEF IInv, FactsKept, HarvestNothing, said
  <1> QED BY <1>2, <1>3, <1>4, <1>5, <1>6 DEF IInv

LEMMA HarvestWriteInv == ASSUME Bounds, IInv, HarvestWrite PROVE IInv'
  <1> DEFINE u == copy.slug
             hook == IF pc = "harvest" THEN before[u] ELSE plan[u]
             new == [copy.file EXCEPT !.key = hook]
  <1>1. /\ copy # Nil /\ u \in Slugs /\ copy.file \in Fact
        /\ pc \in {"harvest", "again"} /\ u \in todo
    BY DEF HarvestWrite, IInv, TypeOK, CopyInv
  <1>2. /\ file' = [file EXCEPT ![u] = new] /\ todo' = todo \ {u} /\ copy' = Nil
        /\ UNCHANGED <<index, history, pc, before, names, plan, glimpse, said, spared, hurried>>
    BY DEF HarvestWrite
  <1>3. hook \in Hook /\ hook # Nil
    <2>1. IF pc = "harvest" THEN u \in Of(before) ELSE u \in Of(plan)
      BY <1>1 DEF IInv, NamesInv
    <2>2. hook # Nil BY <2>1 DEF Of
    <2>3. hook \in Hook \cup {Nil} BY <1>1 DEF IInv, TypeOK, Lines
    <2> QED BY <2>2, <2>3
  <1>4. new \in Fact /\ new.key = hook /\ new.text = copy.file.text /\ new # Nil
    <2>1. new \in Fact /\ new.key = hook /\ new.text = copy.file.text
      BY <1>1, <1>3 DEF Fact
    <2> QED BY <2>1 DEF Bounds, NilIsNone
  <1>5. file'[u] = new /\ \A v \in Slugs \ {u} : file'[v] = file[v]
    BY <1>1, <1>2 DEF IInv, TypeOK
  <1> HIDE DEF new, hook
  <1>6. TypeOK' BY <1>1, <1>2, <1>4 DEF IInv, TypeOK, history, said
  <1>7. CopyInv' /\ CompareInv' /\ IdleInv'
    BY <1>1, <1>2 DEF IInv, CopyInv, CompareInv, IdleInv
  <1>8. NamesInv'
    <2>1. Present' = Present \cup {u} BY <1>1, <1>4, <1>5 DEF Present
    <2>2. u \in names BY <1>1 DEF IInv, NamesInv
    <2> QED BY <1>1, <1>2, <2>1, <2>2 DEF IInv, NamesInv, Deriving, Of
  <1>9. HookInv'
    BY <1>1, <1>2, <1>3, <1>4, <1>5 DEF IInv, TypeOK, HookInv, Deriving, Of
  <1>10. FactsKept'
    <2>1. u \notin late => meant[u] = new.text
      BY <1>1, <1>4 DEF IInv, CopyInv, FactsKept, Bounds, NilIsNone
    <2> QED BY <1>1, <1>2, <1>4, <1>5, <2>1 DEF IInv, FactsKept, said
  <1> QED BY <1>6, <1>7, <1>8, <1>9, <1>10 DEF IInv

LEMMA HarvestFailsInv ==
  ASSUME Bounds, IInv, NEW u \in Slugs, HarvestFails(u) PROVE IInv'
  <1>1. TypeOK' BY DEF IInv, TypeOK, HarvestFails, history, said
  <1>2. CopyInv' /\ CompareInv' /\ IdleInv'
    BY DEF IInv, HarvestFails, CopyInv, CompareInv, IdleInv
  <1>3. NamesInv'
    BY DEF IInv, HarvestFails, NamesInv, Deriving, Present, Of
  <1>4. HookInv'
    BY DEF IInv, HarvestFails, HookInv, Deriving, Of
  <1>5. FactsKept' BY DEF IInv, FactsKept, HarvestFails, said
  <1> QED BY <1>1, <1>2, <1>3, <1>4, <1>5 DEF IInv

LEMMA HygieneInv == ASSUME Bounds, IInv, Hygiene PROVE IInv'
  <1> DEFINE kept == [u \in Slugs |-> IF u \in names /\ before[u] # Nil THEN Resolve(u) ELSE Nil]
  <1>1. PICK R \in Some(SyncLimit - 1 - Size(kept), names \ Of(before)) :
           /\ plan' = [u \in Slugs |-> IF u \in R THEN Orphan(u) ELSE kept[u]]
           /\ todo' = R
    BY DEF Hygiene
  <1>2. R \subseteq names /\ R \cap Of(before) = {} BY <1>1 DEF Some
  <1>3. \A u \in Slugs : Key(u) \in Hook \cup {Nil}
    BY FactKey DEF Key, IInv, TypeOK
  <1>4. \A u \in Slugs : Orphan(u) \in Hook
    BY <1>3, FirstIsHook, CutIsHook DEF Orphan
  <1>5. kept \in Lines
    BY <1>3 DEF Resolve, IInv, TypeOK, Lines
  <1> HIDE DEF kept
  <1>6. plan' \in Lines BY <1>1, <1>4, <1>5 DEF Lines
  <1>7. TypeOK' BY <1>1, <1>2, <1>6 DEF IInv, TypeOK, Hygiene, history, said
  <1>8. CopyInv' /\ CompareInv' /\ IdleInv' BY DEF Hygiene, CopyInv, CompareInv, IdleInv
  <1>9. NamesInv'
    <2>1. R \subseteq Of(plan')
      BY <1>1, <1>2, <1>4 DEF Of, IInv, TypeOK, Bounds, NilIsNone
    <2> QED BY <1>1, <1>2, <2>1 DEF IInv, Hygiene, NamesInv, Deriving, Present, Of
  <1>10. HookInv' BY DEF IInv, Hygiene, HookInv, Deriving, Of
  <1>11. FactsKept' BY DEF IInv, FactsKept, Hygiene, said
  <1> QED BY <1>7, <1>8, <1>9, <1>10, <1>11 DEF IInv

LEMMA RenderIsLines ==
  ASSUME NEW old \in Lines
  PROVE  Floored(old) \subseteq Lines /\ Capped(old) \subseteq Lines
  <1>1. Capped(old) \subseteq Lines BY DEF Capped, Lines
  <1>2. ASSUME NEW ix \in Floored(old) PROVE ix \in Lines
    <2>1. PICK F \in IF Size(old) < SyncLimit THEN {{}}
                     ELSE Some(Size(old) - Trigger + 1, Long(old) \ Doctrine) :
             ix = [u \in Slugs |-> IF u \in F THEN Cut(old[u]) ELSE old[u]]
      BY <1>2 DEF Floored
    <2>2. F \subseteq Of(old) BY <2>1 DEF Some, Long
    <2>3. \A u \in F : u \in Slugs /\ Cut(old[u]) \in Hook
      BY <2>2, CutIsHook DEF Of, Lines
    <2> QED BY <2>1, <2>3 DEF Lines
  <1> QED BY <1>1, <1>2

LEMMA RenderInv == ASSUME Bounds, IInv, Render PROVE IInv'
  <1>1. PICK ix \in Capped(plan) : plan' \in Floored(ix) BY DEF Render
  <1>2. plan' \in Lines BY <1>1, RenderIsLines DEF IInv, TypeOK
  <1>3. TypeOK' BY <1>2 DEF IInv, TypeOK, Render, history, said
  <1>4. CopyInv' /\ CompareInv' /\ IdleInv' BY DEF Render, CopyInv, CompareInv, IdleInv
  <1>5. NamesInv' /\ HookInv'
    BY DEF IInv, Render, NamesInv, HookInv, Deriving, Present, Of
  <1>6. FactsKept' BY DEF IInv, FactsKept, Render, said
  <1> QED BY <1>3, <1>4, <1>5, <1>6 DEF IInv

LEMMA CompareStepInv == ASSUME Bounds, IInv, Compare \/ GateCompares PROVE IInv'
  <1>1. /\ (pc = "compare" /\ pc' = "write") \/ (pc = "compareFloor" /\ pc' = "writeFloor")
        /\ index = before
        /\ UNCHANGED <<file, index, history, before, names, todo, copy, plan, glimpse, said, spared,
                       hurried>>
    BY DEF Compare, GateCompares
  <1>2. TypeOK' BY <1>1 DEF IInv, TypeOK, history, said
  <1>3. CopyInv' /\ CompareInv' /\ IdleInv'
    BY <1>1 DEF IInv, CopyInv, CompareInv, IdleInv
  <1>4. NamesInv' /\ HookInv'
    BY <1>1 DEF IInv, NamesInv, HookInv, Deriving, Present, Of
  <1>5. FactsKept' BY <1>1 DEF IInv, FactsKept, said
  <1> QED BY <1>2, <1>3, <1>4, <1>5 DEF IInv

-----------------------------------------------------------------------------
(* Commits and the gate. *)

LEMMA OutsideInv == ASSUME Bounds, IInv, Committed \/ GateReads \/ GateSkips PROVE IInv'
  <1>1. /\ UNCHANGED <<file, index, pc, before, names, todo, copy, plan, said, spared, hurried>>
        /\ tracked' \subseteq Slugs /\ deleted' \subseteq Slugs
        /\ glimpse' = Nil \/ glimpse' \in Lines
    BY DEF IInv, TypeOK, Committed, GateReads, GateSkips, Present, history
  <1>2. TypeOK' BY <1>1 DEF IInv, TypeOK, said
  <1>3. CopyInv' /\ CompareInv' /\ IdleInv'
    BY <1>1 DEF IInv, CopyInv, CompareInv, IdleInv, said
  <1>4. NamesInv' /\ HookInv'
    BY <1>1 DEF IInv, NamesInv, HookInv, Deriving, Present, Of
  <1>5. FactsKept' BY <1>1 DEF IInv, FactsKept, said
  <1> QED BY <1>2, <1>3, <1>4, <1>5 DEF IInv

LEMMA GateFloorsInv == ASSUME Bounds, IInv, GateFloors PROVE IInv'
  <1>1. glimpse \in Lines BY DEF IInv, TypeOK, GateFloors
  <1>2. plan' \in Lines BY <1>1, RenderIsLines DEF GateFloors
  <1>3. TypeOK' BY <1>1, <1>2 DEF IInv, TypeOK, GateFloors, history, said
  <1>4. copy = Nil BY DEF IInv, CopyInv, GateFloors
  <1>5. CopyInv' /\ NamesInv' /\ HookInv' /\ CompareInv' /\ IdleInv'
    BY <1>4 DEF GateFloors, CopyInv, NamesInv, HookInv, CompareInv, IdleInv, Deriving
  <1>6. FactsKept' BY DEF IInv, FactsKept, GateFloors, said
  <1> QED BY <1>3, <1>5, <1>6 DEF IInv

-----------------------------------------------------------------------------
LEMMA NextInv == ASSUME Bounds, IInv, [Next]_vars PROVE IInv'
  <1>1. CASE UNCHANGED vars
    BY <1>1 DEF vars, history, IInv, TypeOK, CopyInv, NamesInv, HookInv, CompareInv, IdleInv,
                FactsKept, Deriving, Present, Of
  <1>2. CASE \E u \in Slugs : WriteLine(u) \/ RemoveLine(u) BY <1>2, EditsIndexInv
  <1>3. CASE \E u \in Slugs : WriteFact(u) \/ RemoveFact(u) BY <1>3, EditsFactInv
  <1>4. CASE Committed \/ GateReads \/ GateSkips BY <1>4, OutsideInv
  <1>5. CASE Start BY <1>5, StartInv
  <1>6. CASE \E u \in Slugs : HarvestRead(u) BY <1>6, HarvestReadInv
  <1>7. CASE \E u \in Slugs : HarvestNothing(u) BY <1>7, HarvestNothingInv
  <1>8. CASE \E u \in Slugs : HarvestFails(u) BY <1>8, HarvestFailsInv
  <1>9. CASE HarvestWrite BY <1>9, HarvestWriteInv
  <1>10. CASE Hygiene BY <1>10, HygieneInv
  <1>11. CASE Render BY <1>11, RenderInv
  <1>12. CASE Compare \/ GateCompares BY <1>12, CompareStepInv
  <1>13. CASE Write
    <2>1. index' \in Lines BY <1>13 DEF Write, IInv, TypeOK
    <2> QED BY <1>13, <2>1, OverInv DEF Write
  <1>14. CASE Abandon
    <2>1. index' \in Lines BY <1>14 DEF Abandon, IInv, TypeOK
    <2> QED BY <1>14, <2>1, OverInv DEF Abandon
  <1>15. CASE GateFloors BY <1>15, GateFloorsInv
  <1> QED BY <1>1, <1>2, <1>3, <1>4, <1>5, <1>6, <1>7, <1>8, <1>9, <1>10, <1>11, <1>12, <1>13,
             <1>14, <1>15 DEF Next

LEMMA RewritesIsWrite ==
  ASSUME IInv, [Next]_vars, Rewrites PROVE hurried \/ index = before
  BY DEF Rewrites, IInv, CompareInv

LEMMA HooksStep ==
  ASSUME IInv, [Next]_vars, Rewrites, pc = "write",
         NEW u \in (Of(before) \cap Present) \ (Prose \cup spared)
  PROVE  file[u].key # Nil
  <1>1. u \in names BY DEF IInv, NamesInv, Deriving
  <1> QED BY <1>1 DEF IInv, HookInv, Deriving

(* Every variable of the derive keeps its type.                             *)
THEOREM DeriveTypeCorrect == ASSUME Bounds PROVE Spec => []TypeOK
  <1>1. Init => IInv BY InitInv
  <1>2. IInv /\ [Next]_vars => IInv' BY NextInv
  <1>3. IInv => TypeOK BY DEF IInv
  <1> QED BY <1>1, <1>2, <1>3, PTL DEF Spec

(* A derive takes no hook out of the index that its file does not have, its *)
(* harvest changes no text, and neither derive nor gate undoes an edit of   *)
(* the index, but in the windows the property names.                        *)
THEOREM DeriveLosesNothing == ASSUME Bounds PROVE Spec => NothingIsDerivedAway
  <1>1. Init => IInv BY InitInv
  <1>2. IInv /\ [Next]_vars => IInv' BY NextInv
  <1>3. IInv => FactsKept BY DEF IInv
  <1>4. IInv /\ [Next]_vars =>
          [Rewrites /\ pc = "write" =>
             \A u \in (Of(before) \cap Present) \ (Prose \cup spared) :
                index'[u] # before[u] => file[u].key # Nil]_vars
    BY HooksStep
  <1>5. IInv /\ [Next]_vars => [Rewrites => hurried \/ index = before]_vars
    BY RewritesIsWrite
  <1> QED BY <1>1, <1>2, <1>3, <1>4, <1>5, PTL
          DEF Spec, NothingIsDerivedAway, HooksOutliveTheirLine, SessionsWin
=============================================================================
