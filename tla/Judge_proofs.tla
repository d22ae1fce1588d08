---------------------------- MODULE Judge_proofs ----------------------------
(***************************************************************************)
(* Proofs about Judge, for every set of facts and ids and all bounds.      *)
(*                                                                         *)
(* What makes the properties hold is that what waits for its removal is    *)
(* in the corpus, verified, under an id that nothing but its own slug or   *)
(* the undo of this very run writes to, and that the files do not change   *)
(* while the apply holds the lock.                                         *)
(***************************************************************************)
EXTENDS Judge, TLAPS

USE DEF store, run, Goto, Idle, Unlocked

-----------------------------------------------------------------------------
(* The inductive invariant. *)

\* Outside an apply nothing is in hand.
Tidy == Unlocked => todo = {} /\ moved = {} /\ hooks = {}

\* A fact that is to move is still there until the index is verified.
MovedHere == pc \in {"decide", "written", "undo"} => \A m \in moved : file[m.slug] # 0

\* Until an undo begins, so is its record.
Present == pc \in {"decide", "written", "remove"} => \A m \in moved : corpus[m.id] # Nil

\* What an undo deletes this run has added for that slug.
Mine == \A m \in moved : ~m.kept /\ corpus[m.id] # Nil => corpus[m.id].source = m.slug

\* No standing order is in hand.
NoDoctrine == hooks \cap doctrine = {} /\ \A m \in moved : m.slug \notin doctrine

\* The checkout holds what people wrote last, or no file.
Files == \A s \in Slugs : file[s] # 0 => file[s] = want[s]

Base == TypeOK /\ Tidy /\ MovedHere /\ Present /\ Mine /\ NoDoctrine /\ Files

\* A record the judge has added says something about its own slug.
Own == \A i \in Ids : corpus[i] # Nil /\ corpus[i].source # "other" =>
                         corpus[i].text[1] = corpus[i].source

\* What is to move is in the corpus as people wrote it last.
Verbatim == pc \in {"decide", "written", "remove"} =>
    \A m \in moved : want[m.slug] # 0 /\ corpus[m.id].text = Text(m.slug, want[m.slug])

\* The second half of the invariant, for facts whose first texts differ.
Kept == Own /\ Verbatim /\ FactsKept

-----------------------------------------------------------------------------
LEMMA TextType == ASSUME NEW s \in Slugs, NEW v \in 1..MaxVersion
                  PROVE  Text(s, v) \in Wordings
  BY JudgeAssumption DEF Text, Wordings

LEMMA RecordIsNotNil == ASSUME NEW r \in Record PROVE r # Nil
  <1>1. r = [text |-> r.text, source |-> r.source] /\ r.text \in Wordings /\ r.source \in Owners
    BY DEF Record
  <1> QED BY <1>1, JudgeAssumption DEF Wordings, Owners

LEMMA CorpusType ==
  ASSUME TypeOK, NEW i \in Ids, corpus[i] # Nil
  PROVE  /\ corpus[i] \in Record /\ corpus[i].text \in Wordings
         /\ corpus[i].source \in Owners
  BY DEF TypeOK, Record

LEMMA MoveType ==
  ASSUME TypeOK, NEW s \in Slugs, NEW i \in Ids, NEW b \in BOOLEAN,
         UNCHANGED moved \/ Move(s, i, b)
  PROVE  moved' \subseteq [slug : Slugs, id : Ids, kept : BOOLEAN]
  <1>1. [slug |-> s, id |-> i, kept |-> b] \in [slug : Slugs, id : Ids, kept : BOOLEAN]
    OBVIOUS
  <1> QED BY <1>1 DEF TypeOK, Move

LEMMA InitBase == Init => Base
  <1> SUFFICES ASSUME Init PROVE Base OBVIOUS
  <1>1. file \in [Slugs -> 0..MaxVersion] /\ want \in [Slugs -> 0..MaxVersion]
    BY JudgeAssumption DEF Init
  <1>2. corpus \in [Ids -> Record \cup {Nil}]
    <2>1. \A s \in Slugs : [text |-> Text(s, 1), source |-> "other"] \in Record
      BY TextType, JudgeAssumption DEF Record, Owners
    <2> QED BY <2>1 DEF Init
  <1>3. TypeOK
    BY <1>1, <1>2 DEF Init, TypeOK
  <1>4. Tidy /\ MovedHere /\ Present /\ Mine /\ NoDoctrine /\ Files
    BY DEF Init, Tidy, MovedHere, Present, Mine, NoDoctrine, Files
  <1> QED BY <1>3, <1>4 DEF Base

LEMMA EditBase ==
  ASSUME Base, NEW s \in Slugs, Edit(s) \/ Discard(s)
  PROVE  Base'
  <1>1. TypeOK' /\ Files'
    BY JudgeAssumption DEF Base, TypeOK, Files, Edit, Discard, Gone
  <1>2. Tidy' /\ moved' = {} /\ hooks' = {}
    BY DEF Base, Tidy, Edit, Discard
  <1> QED BY <1>1, <1>2 DEF Base, MovedHere, Present, Mine, NoDoctrine

LEMMA NightBase ==
  ASSUME Base, WritePlan \/ NoPlan \/ NotApplied \/ StartApply
  PROVE  Base'
  <1>1. moved = {} /\ hooks = {}
    BY DEF Base, Tidy, WritePlan, NoPlan, NotApplied, StartApply
  <1>2. UNCHANGED <<store, trailer, corpus, seal, moved, hooks, gone>>
    BY DEF WritePlan, NoPlan, NotApplied, StartApply
  <1>3. TypeOK'
    <2>1. CASE WritePlan \/ NoPlan \/ NotApplied
      BY <2>1 DEF Base, TypeOK, WritePlan, NoPlan, NotApplied
    <2>2. CASE StartApply
      <3>1. plan \in [Slugs -> Verbs]
        BY <2>2 DEF Base, TypeOK, StartApply
      <3>2. todo' \subseteq Decision
        <4>1. PICK floor \in SUBSET (OfferMigrate \ Decided) :
                todo' = {[slug |-> s, verb |-> plan[s], floor |-> FALSE] : s \in Decided}
                        \cup {[slug |-> s, verb |-> "migrate", floor |-> TRUE] : s \in floor}
          BY <2>2 DEF StartApply
        <4>2. Decided \subseteq Slugs /\ floor \subseteq Slugs
          BY DEF Decided, OfferMigrate
        <4>3. \A s \in Slugs : [slug |-> s, verb |-> plan[s], floor |-> FALSE] \in Decision
          BY <3>1 DEF Decision
        <4>4. \A s \in Slugs : [slug |-> s, verb |-> "migrate", floor |-> TRUE] \in Decision
          BY DEF Decision, Verbs
        <4> QED BY <4>1, <4>2, <4>3, <4>4
      <3> QED BY <2>2, <3>2 DEF Base, TypeOK, StartApply
    <2> QED BY <2>1, <2>2
  <1>4. Tidy' BY DEF Base, Tidy, WritePlan, NoPlan, NotApplied, StartApply
  <1> QED BY <1>1, <1>2, <1>3, <1>4 DEF Base, MovedHere, Present, Mine, NoDoctrine, Files

LEMMA DecideType ==
  ASSUME TypeOK, NEW d \in todo,
         Skip(d) \/ Shorten(d) \/ Update(d) \/ AddKnown(d) \/ AddNew(d)
  PROVE  TypeOK'
  <1> DEFINE s == d.slug
  <1>1. s \in Slugs /\ d.verb \in Verbs
    BY DEF TypeOK, Decision
  <1>2. todo' \subseteq Decision /\ UNCHANGED <<store, trailer, seal, plan, pc, gone>>
    BY DEF TypeOK, Skip, Shorten, Update, AddKnown, AddNew, Migrates, Handled
  <1>3. CASE Skip(d) \/ Shorten(d)
    BY <1>1, <1>2, <1>3 DEF TypeOK, Skip, Shorten
  <1>4. Allowed(s) => TextOf(s) \in Wordings
    BY <1>1, TextType DEF Allowed, TextOf, TypeOK
  <1>5. CASE Update(d)
    <2> DEFINE i == stamp[s]
    <2>1. i \in Ids /\ corpus[i] # Nil /\ Allowed(s)
      BY <1>1, <1>5 DEF Update, Migrates, StampedRecord, TypeOK
    <2>2. corpus[i] \in Record
      BY <2>1, CorpusType
    <2>3. [corpus EXCEPT ![i].text = TextOf(s)] \in [Ids -> Record \cup {Nil}]
      BY <1>4, <2>1, <2>2 DEF TypeOK, Record
    <2>4. moved' \subseteq [slug : Slugs, id : Ids, kept : BOOLEAN]
      BY <1>1, <1>5, <2>1, MoveType DEF Update
    <2> QED BY <1>2, <1>5, <2>3, <2>4 DEF Update, Migrates, TypeOK
  <1>6. CASE AddKnown(d)
    <2>1. moved' \subseteq [slug : Slugs, id : Ids, kept : BOOLEAN]
      BY <1>1, <1>6, MoveType DEF AddKnown, Holders
    <2> QED BY <1>2, <1>6, <2>1 DEF AddKnown, Migrates, TypeOK
  <1>7. CASE AddNew(d)
    <2>1. moved' \subseteq [slug : Slugs, id : Ids, kept : BOOLEAN]
      <3>1. \A i \in Ids : UNCHANGED moved \/ Move(s, i, FALSE) =>
                           moved' \subseteq [slug : Slugs, id : Ids, kept : BOOLEAN]
        BY <1>1, MoveType
      <3>2. UNCHANGED moved \/ \E i \in Ids : UNCHANGED moved \/ Move(s, i, FALSE)
        BY <1>7 DEF AddNew, Fresh
      <3> QED BY <3>1, <3>2 DEF TypeOK
    <2>2. [text |-> TextOf(s), source |-> s] \in Record
      BY <1>1, <1>4, <1>7 DEF AddNew, Migrates, Record, Owners
    <2>3. corpus' \in [Ids -> Record \cup {Nil}]
      BY <1>7, <2>2 DEF AddNew, Fresh, TypeOK
    <2> QED BY <1>2, <1>7, <2>1, <2>3 DEF AddNew, Migrates, TypeOK
  <1> QED BY <1>3, <1>5, <1>6, <1>7

LEMMA DecideBase ==
  ASSUME Base, NEW d \in todo,
         Skip(d) \/ Shorten(d) \/ Update(d) \/ AddKnown(d) \/ AddNew(d)
  PROVE  Base'
  <1> DEFINE s == d.slug
  <1>1. s \in Slugs /\ pc = "decide" /\ TypeOK /\ TypeOK'
    BY DecideType DEF Base, TypeOK, Decision, Skip, Shorten, Update, AddKnown, AddNew,
                      Migrates, Handled
  <1>2. UNCHANGED <<store, trailer, seal, plan, pc, gone>>
    BY DEF Skip, Shorten, Update, AddKnown, AddNew, Migrates, Handled
  <1>3. Tidy' /\ Files'
    BY <1>1, <1>2 DEF Base, Tidy, Files
  <1>4. CASE Skip(d)
    BY <1>1, <1>2, <1>3, <1>4 DEF Base, Skip, MovedHere, Present, Mine, NoDoctrine
  <1>5. CASE Shorten(d)
    BY <1>1, <1>2, <1>3, <1>5 DEF Base, Shorten, Allowed, MovedHere, Present, Mine, NoDoctrine
  <1>6. CASE Update(d) \/ AddKnown(d) \/ AddNew(d)
    <2>1. /\ file[s] # 0 /\ s \notin doctrine /\ hooks' = hooks
      BY <1>6 DEF Update, AddKnown, AddNew, Migrates, Allowed
    <2>2. \A m \in moved' : m \in moved \/ m.slug = s
      BY <1>6 DEF Update, AddKnown, AddNew, Move
    <2>3. MovedHere' /\ NoDoctrine'
      BY <1>1, <1>2, <2>1, <2>2 DEF Base, MovedHere, NoDoctrine
    <2>4. Present' /\ Mine'
      <3>1. CASE Update(d)
        <4> DEFINE i == stamp[s]
        <4>1. i \in Ids /\ corpus[i] # Nil /\ corpus[i] \in Record
          BY <1>1, <3>1, CorpusType DEF Update, StampedRecord, TypeOK
        <4>2. \A j \in Ids : corpus[j] # Nil => /\ corpus'[j] # Nil
                                             /\ corpus'[j].source = corpus[j].source
          <5>1. [corpus[i] EXCEPT !.text = TextOf(s)] \in Record
            BY <1>1, <2>1, <4>1, TextType DEF Record, TextOf, TypeOK
          <5>2. corpus' = corpus \/ corpus' = [corpus EXCEPT ![i].text = TextOf(s)]
            BY <3>1 DEF Update
          <5> QED BY <1>1, <4>1, <5>1, <5>2, RecordIsNotNil DEF TypeOK, Record
        <4>3. \A m \in moved' : m \in moved \/ m = [slug |-> s, id |-> i, kept |-> TRUE]
          BY <3>1 DEF Update, Move
        <4>4. \A m \in moved : m.id \in Ids
          BY <1>1 DEF TypeOK
        <4>5. \A j \in Ids : corpus[j] = Nil => corpus'[j] = Nil
          BY <1>1, <3>1, <4>1 DEF Update, TypeOK
        <4> QED BY <1>1, <1>2, <4>1, <4>2, <4>3, <4>4, <4>5 DEF Base, Present, Mine
      <3>2. CASE AddKnown(d)
        BY <1>1, <1>2, <3>2 DEF Base, AddKnown, Holders, Move, Present, Mine
      <3>3. CASE AddNew(d)
        <4>0. CASE UNCHANGED <<corpus, moved>>
          BY <1>2, <4>0 DEF Base, Present, Mine
        <4>1. CASE ~UNCHANGED <<corpus, moved>>
          <5>1. PICK i \in Fresh :
                  /\ corpus' = [corpus EXCEPT ![i] = [text |-> TextOf(s), source |-> s]]
                  /\ UNCHANGED moved \/ Move(s, i, FALSE)
            BY <3>3, <4>1 DEF AddNew
          <5>2. i \in Ids /\ corpus[i] = Nil
            BY <5>1 DEF Fresh
          <5>3. [text |-> TextOf(s), source |-> s] \in Record
            BY <1>1, <2>1, TextType DEF TextOf, Record, Owners, TypeOK
          <5>4. corpus'[i] # Nil /\ corpus'[i].source = s
            BY <1>1, <5>1, <5>2, <5>3, RecordIsNotNil DEF TypeOK
          <5>5. \A m \in moved : m.id \in Ids /\ corpus[m.id] # Nil /\ m.id # i
            BY <1>1, <5>2 DEF Base, TypeOK, Present
          <5>6. \A m \in moved' : m \in moved \/ m = [slug |-> s, id |-> i, kept |-> FALSE]
            BY <5>1 DEF Move
          <5>7. \A j \in Ids : j # i => corpus'[j] = corpus[j]
            BY <1>1, <5>1 DEF TypeOK
          <5> QED BY <1>1, <1>2, <5>4, <5>5, <5>6, <5>7 DEF Base, Present, Mine
        <4> QED BY <4>0, <4>1
      <3> QED BY <1>6, <3>1, <3>2, <3>3
    <2> QED BY <1>1, <1>3, <2>3, <2>4 DEF Base
  <1> QED BY <1>4, <1>5, <1>6

LEMMA PhaseBase ==
  ASSUME Base, \/ NoOp \/ Refuse \/ WriteIndex \/ InvariantFails \/ InvariantsHold
               \/ AllRemoved \/ Undone \/ WriteHooks \/ Finish \/ Crash
  PROVE  Base'
  <1>1. /\ UNCHANGED <<file, want, doctrine, stamp, corpus, plan>>
        /\ moved' = moved \/ moved' = {}
        /\ hooks' = hooks \/ hooks' = {}
    BY DEF NoOp, Refuse, WriteIndex, InvariantFails, InvariantsHold, AllRemoved, Undone,
           WriteHooks, Finish, Crash
  <1>2. TypeOK'
    <2>1. CASE WriteHooks
      BY <2>1 DEF Base, TypeOK, WriteHooks
    <2>2. CASE Finish
      <3>1. Committed \in [Slugs -> Ids \cup {Nil}]
        <4>1. ASSUME NEW s \in Slugs, \E g \in gone : g.slug = s
              PROVE  (CHOOSE g \in gone : g.slug = s).id \in Ids
          BY <4>1 DEF Base, TypeOK
        <4> QED BY <4>1 DEF Base, TypeOK, Committed
      <3> QED BY <2>2, <3>1 DEF Base, TypeOK, Finish
    <2>3. CASE \/ NoOp \/ Refuse \/ WriteIndex \/ InvariantFails \/ InvariantsHold
               \/ AllRemoved \/ Undone \/ Crash
      BY <2>3 DEF Base, TypeOK, NoOp, Refuse, WriteIndex, InvariantFails, InvariantsHold,
                  AllRemoved, Undone, Crash
    <2> QED BY <2>1, <2>2, <2>3
  <1>3. Tidy'
    BY DEF Base, Tidy, NoOp, Refuse, WriteIndex, InvariantFails, InvariantsHold, AllRemoved,
           Undone, WriteHooks, Finish, Crash
  <1>4. MovedHere' /\ Present'
    BY DEF Base, Tidy, MovedHere, Present, NoOp, Refuse, WriteIndex, InvariantFails,
           InvariantsHold, AllRemoved, Undone, WriteHooks, Finish, Crash
  <1>5. Mine' /\ NoDoctrine' /\ Files'
    BY <1>1 DEF Base, Mine, NoDoctrine, Files
  <1> QED BY <1>2, <1>3, <1>4, <1>5 DEF Base

LEMMA UndoBase ==
  ASSUME Base, NEW m \in moved, UndoOne(m) \/ UndoFails(m)
  PROVE  Base'
  <1>1. pc = "undo" /\ pc' = pc /\ moved' \subseteq moved /\ m.id \in Ids
        /\ UNCHANGED <<store, trailer, seal, plan, todo, hooks, gone>>
    BY DEF Base, TypeOK, UndoOne, UndoFails
  <1>2. corpus' = corpus \/ corpus' = [corpus EXCEPT ![m.id] = Nil]
    BY DEF UndoOne, UndoFails
  <1>3. TypeOK'
    BY <1>1, <1>2 DEF Base, TypeOK
  <1>4. Mine'
    BY <1>1, <1>2 DEF Base, TypeOK, Mine
  <1> QED BY <1>1, <1>3, <1>4 DEF Base, Tidy, MovedHere, Present, NoDoctrine, Files

LEMMA RemoveBase ==
  ASSUME Base, NEW m \in moved, Remove(m) \/ RemoveFails(m)
  PROVE  Base'
  <1>1. /\ pc = "remove" /\ pc' = pc /\ moved' \subseteq moved
        /\ m.slug \in Slugs /\ m.id \in Ids /\ doctrine' \subseteq doctrine
        /\ UNCHANGED <<want, trailer, corpus, seal, plan, todo, hooks>>
    BY DEF Base, TypeOK, Remove, RemoveFails, Gone
  <1>2. ASSUME Remove(m) PROVE TypeOK' /\ Files'
    <2>1. [slug |-> m.slug, id |-> m.id] \in [slug : Slugs, id : Ids]
      BY <1>1
    <2>2. file' \in [Slugs -> 0..MaxVersion] /\ stamp' \in [Slugs -> Ids \cup {Nil}]
      BY <1>1, <1>2, JudgeAssumption DEF Base, TypeOK, Remove, Gone
    <2>3. hook' \in [Slugs -> {"long", "short"}] /\ gone' \subseteq [slug : Slugs, id : Ids]
      BY <1>1, <1>2, <2>1 DEF Base, TypeOK, Remove, Gone
    <2>4. TypeOK'
      BY <1>1, <2>2, <2>3 DEF Base, TypeOK
    <2>5. Files'
      BY <1>1, <1>2 DEF Base, TypeOK, Files, Remove, Gone
    <2> QED BY <2>4, <2>5
  <1>3. ASSUME RemoveFails(m) PROVE TypeOK' /\ Files'
    BY <1>1, <1>3 DEF Base, TypeOK, Files, RemoveFails
  <1>4. TypeOK' /\ Files' BY <1>2, <1>3
  <1> QED BY <1>1, <1>4 DEF Base, Tidy, MovedHere, Present, Mine, NoDoctrine

LEMMA NextBase == ASSUME Base, [Next]_vars PROVE Base'
  <1>1. CASE UNCHANGED vars
    BY <1>1 DEF Base, vars, TypeOK, Tidy, MovedHere, Present, Mine, NoDoctrine, Files, Holders
  <1>2. CASE \E s \in Edited : Edit(s) \/ Discard(s)
    <2>1. PICK s \in Edited : Edit(s) \/ Discard(s) BY <1>2
    <2> QED BY <2>1, EditBase, JudgeAssumption
  <1>3. CASE \E d \in todo : \/ Skip(d) \/ Shorten(d) \/ Update(d)
                            \/ AddKnown(d) \/ AddNew(d)
    <2>1. PICK d \in todo : Skip(d) \/ Shorten(d) \/ Update(d) \/ AddKnown(d) \/ AddNew(d)
      BY <1>3
    <2> QED BY <2>1, DecideBase
  <1>4. CASE \E m \in moved : UndoOne(m) \/ UndoFails(m) \/ Remove(m) \/ RemoveFails(m)
    <2>1. PICK m \in moved : UndoOne(m) \/ UndoFails(m) \/ Remove(m) \/ RemoveFails(m)
      BY <1>4
    <2> QED BY <2>1, UndoBase, RemoveBase
  <1>5. CASE WritePlan \/ NoPlan \/ NotApplied \/ StartApply
    BY <1>5, NightBase
  <1>6. CASE \/ NoOp \/ Refuse \/ WriteIndex \/ InvariantFails \/ InvariantsHold
             \/ AllRemoved \/ Undone \/ WriteHooks \/ Finish \/ Crash
    BY <1>6, PhaseBase
  <1> QED BY <1>1, <1>2, <1>3, <1>4, <1>5, <1>6 DEF Next, Apply

LEMMA AlwaysBase == Spec => []Base
  <1>1. Base /\ [Next]_vars => Base' BY NextBase
  <1> QED BY InitBase, <1>1, PTL DEF Spec

(* Every variable of the judge keeps its type.                              *)
THEOREM TypeCorrect == Spec => []TypeOK
  <1>1. Base => TypeOK BY DEF Base
  <1> QED BY <1>1, AlwaysBase, PTL

-----------------------------------------------------------------------------
LEMMA OthersStep ==
  ASSUME Base, [Next]_vars, NEW i \in Ids,
         corpus[i] # Nil, corpus[i].source = "other"
  PROVE  corpus'[i] = corpus[i]
  <1>0. TypeOK BY DEF Base
  <1>1. CASE \E d \in todo : Update(d)
    <2>1. PICK d \in todo : Update(d) BY <1>1
    <2>2. d.slug \in Slugs BY <1>0 DEF TypeOK, Decision
    <2>3. stamp[d.slug] # i
      BY <2>1, <2>2, JudgeAssumption DEF Update, StampedRecord
    <2> QED BY <1>0, <2>1, <2>3 DEF Update, TypeOK
  <1>2. CASE \E d \in todo : AddNew(d)
    <2>1. PICK d \in todo : AddNew(d) BY <1>2
    <2> QED BY <1>0, <2>1 DEF AddNew, Fresh, TypeOK
  <1>3. CASE \E m \in moved : UndoOne(m)
    <2>1. PICK m \in moved : UndoOne(m) BY <1>3
    <2>2. m.slug \in Slugs BY <1>0 DEF TypeOK
    <2>3. ~m.kept => m.id # i
      BY <2>2, JudgeAssumption DEF Base, Mine
    <2> QED BY <1>0, <2>1, <2>3 DEF UndoOne, Undoable, TypeOK
  <1>4. CASE \/ UNCHANGED vars
             \/ \E s \in Edited : Edit(s) \/ Discard(s)
             \/ WritePlan \/ NoPlan \/ NotApplied \/ Crash
             \/ StartApply \/ NoOp \/ Refuse \/ WriteIndex \/ InvariantFails \/ Undone
             \/ InvariantsHold \/ AllRemoved \/ WriteHooks \/ Finish
             \/ \E d \in todo : Skip(d) \/ Shorten(d) \/ AddKnown(d)
             \/ \E m \in moved : UndoFails(m) \/ Remove(m) \/ RemoveFails(m)
    <2>1. corpus' = corpus
      BY <1>4 DEF vars, Edit, Discard, WritePlan, NoPlan, NotApplied, Crash, StartApply, NoOp,
                  Refuse, WriteIndex, InvariantFails, Undone, InvariantsHold, AllRemoved,
                  WriteHooks, Finish, Skip, Shorten, AddKnown, UndoFails, Remove, RemoveFails
    <2> QED BY <2>1
  <1> QED BY <1>1, <1>2, <1>3, <1>4 DEF Next, Apply

(* The judge neither overwrites nor deletes a record of another writer:     *)
(* the source check stands before the update, and what the undo deletes     *)
(* this run has added.                                                      *)
THEOREM OthersRecordsAreUntouched == Spec => OthersRecordsUntouched
  <1>1. Base /\ [Next]_vars =>
          [\A i \in Ids : corpus[i] # Nil /\ corpus[i].source = "other" =>
                            corpus'[i] = corpus[i]]_vars
    BY OthersStep
  <1> QED BY <1>1, AlwaysBase, PTL DEF Spec, OthersRecordsUntouched

-----------------------------------------------------------------------------
LEMMA DoctrineStep ==
  ASSUME Base, [Next]_vars, NEW s \in doctrine, ~Unlocked
  PROVE  file'[s] = file[s] /\ hook'[s] = hook[s]
  <1>0. TypeOK /\ s \in Slugs BY DEF Base, TypeOK
  <1>1. CASE WriteHooks
    <2>1. PICK done \in SUBSET hooks : hook' = [t \in Slugs |-> IF t \in done THEN "short"
                                                                             ELSE hook[t]]
      BY <1>1 DEF WriteHooks
    <2>2. s \notin done
      BY DEF Base, NoDoctrine
    <2> QED BY <1>0, <1>1, <2>1, <2>2 DEF WriteHooks
  <1>2. CASE \E m \in moved : Remove(m)
    <2>1. PICK m \in moved : Remove(m) BY <1>2
    <2>2. m.slug # s BY DEF Base, NoDoctrine
    <2> QED BY <1>0, <2>1, <2>2 DEF Remove, Gone, TypeOK
  <1>3. CASE \/ UNCHANGED vars
             \/ WritePlan \/ NoPlan \/ NotApplied \/ Crash
             \/ StartApply \/ NoOp \/ Refuse \/ WriteIndex \/ InvariantFails \/ Undone
             \/ InvariantsHold \/ AllRemoved \/ Finish
             \/ \E d \in todo : Skip(d) \/ Shorten(d) \/ Update(d) \/ AddKnown(d) \/ AddNew(d)
             \/ \E m \in moved : UndoOne(m) \/ UndoFails(m) \/ RemoveFails(m)
    <2>1. UNCHANGED <<file, hook>>
      BY <1>3 DEF vars, WritePlan, NoPlan, NotApplied, Crash, StartApply, NoOp,
                  Refuse, WriteIndex, InvariantFails, Undone, InvariantsHold, AllRemoved,
                  Finish, Skip, Shorten, Update, AddKnown, AddNew, Migrates, Handled,
                  UndoOne, UndoFails, RemoveFails
    <2> QED BY <2>1
  <1>4. CASE \E t \in Edited : Edit(t) \/ Discard(t)
    BY <1>4 DEF Edit, Discard
  <1> QED BY <1>1, <1>2, <1>3, <1>4 DEF Next, Apply

(* While the apply holds the lock a standing order is neither shortened nor *)
(* moved, whatever the plan says: every decision looks at the fact again.   *)
THEOREM DoctrineIsUntouched == Spec => DoctrineUntouched
  <1>1. Base /\ [Next]_vars =>
          [\A s \in doctrine : ~Unlocked => file'[s] = file[s] /\ hook'[s] = hook[s]]_vars
    BY DoctrineStep
  <1> QED BY <1>1, AlwaysBase, PTL DEF Spec, DoctrineUntouched

-----------------------------------------------------------------------------
(* What people wrote is kept.  The proof, like the property, is for facts   *)
(* whose first texts differ.                                                *)

LEMMA KeptFrame ==
  ASSUME Kept, UNCHANGED <<file, want, corpus>>, moved' \subseteq moved,
         pc' \in {"decide", "written", "remove"} =>
            pc \in {"decide", "written", "remove"} \/ moved' = {}
  PROVE  Kept'
  <1>1. Own' /\ FactsKept'
    BY DEF Kept, Own, FactsKept, Holders
  <1>2. Verbatim'
    BY DEF Kept, Verbatim
  <1> QED BY <1>1, <1>2 DEF Kept

LEMMA EditKept ==
  ASSUME Base, Kept, NEW s \in Slugs, Edit(s) \/ Discard(s)
  PROVE  Kept'
  <1>1. /\ moved' = {} /\ corpus' = corpus /\ TypeOK
        /\ want'[s] # 0 => file'[s] = want'[s]
        /\ \A r \in Slugs : r # s => file'[r] = file[r] /\ want'[r] = want[r]
    BY DEF Base, Tidy, TypeOK, Edit, Discard, Gone
  <1>2. FactsKept'
    BY <1>1 DEF Kept, FactsKept, Holders
  <1>3. Own' /\ Verbatim'
    BY <1>1 DEF Kept, Own, Verbatim
  <1> QED BY <1>2, <1>3 DEF Kept

LEMMA WhatItMoves ==
  ASSUME Twins = {}, Base, NEW d \in todo, Update(d) \/ AddKnown(d) \/ AddNew(d)
  PROVE  /\ d.slug \in Slugs /\ file[d.slug] = want[d.slug] /\ want[d.slug] # 0
         /\ want[d.slug] \in 1..MaxVersion
         /\ TextOf(d.slug) = <<d.slug, want[d.slug]>>
         /\ pc = "decide" /\ UNCHANGED <<file, want, pc>>
  <1>1. d.slug \in Slugs /\ file[d.slug] # 0 /\ pc = "decide" /\ UNCHANGED <<file, want, pc>>
    BY DEF Base, TypeOK, Decision, Update, AddKnown, AddNew, Migrates, Handled, Allowed
  <1>2. file[d.slug] = want[d.slug] /\ want[d.slug] \in 0..MaxVersion
    BY <1>1 DEF Base, Files, TypeOK
  <1> QED BY <1>1, <1>2, JudgeAssumption DEF TextOf, Text

LEMMA UpdateKept ==
  ASSUME Twins = {}, Base, Kept, NEW d \in todo, Update(d)
  PROVE  Kept'
  <1> DEFINE s == d.slug
             i == stamp[s]
  <1>1. /\ s \in Slugs /\ file[s] = want[s] /\ want[s] # 0
        /\ TextOf(s) = <<s, want[s]>> /\ pc = "decide" /\ UNCHANGED <<file, want, pc>>
    BY WhatItMoves
  <1>2. /\ i \in Ids /\ corpus[i] # Nil /\ corpus[i].source = s /\ TypeOK
        /\ corpus[i] \in Record
    BY <1>1, CorpusType DEF Update, StampedRecord, Base, TypeOK
  <1>3. corpus[i].text[1] = s
    BY <1>1, <1>2, JudgeAssumption DEF Kept, Own
  <1>4. CASE UNCHANGED <<corpus, moved>>
    BY <1>1, <1>4, KeptFrame
  <1>5. CASE /\ corpus' = [corpus EXCEPT ![i].text = TextOf(s)]
             /\ UNCHANGED moved \/ Move(s, i, TRUE)
    <2>1. corpus'[i].text = <<s, want[s]>> /\ corpus'[i].source = s
      BY <1>1, <1>2, <1>5 DEF TypeOK, Record
    <2>2. \A j \in Ids : j # i => corpus'[j] = corpus[j]
      BY <1>2, <1>5 DEF TypeOK
    <2>3. Own'
      BY <2>1, <2>2 DEF Kept, Own
    <2>4. FactsKept'
      <3> SUFFICES ASSUME NEW r \in Slugs, want[r] # 0, r # s, file[r] # want[r],
                          NEW j \in Ids, corpus[j] # Nil, corpus[j].text = Text(r, want[r])
                   PROVE  corpus'[j] = corpus[j]
        BY <1>1 DEF Kept, FactsKept, Holders
      <3>1. corpus[j].text[1] = r
        BY DEF Text
      <3> QED BY <1>3, <2>2, <3>1
    <2>5. Verbatim'
      <3>1. \A m \in moved : want[m.slug] # 0 /\ corpus'[m.id].text = <<m.slug, want[m.slug]>>
        <4> SUFFICES ASSUME NEW m \in moved
                     PROVE  /\ want[m.slug] # 0
                            /\ corpus'[m.id].text = <<m.slug, want[m.slug]>>
          OBVIOUS
        <4>1. /\ want[m.slug] # 0 /\ m.id \in Ids
              /\ corpus[m.id].text = <<m.slug, want[m.slug]>>
          BY <1>1, <1>2 DEF Kept, Verbatim, Text, TypeOK
        <4>2. CASE m.id = i
          <5>1. m.slug = s BY <1>3, <4>1, <4>2
          <5> QED BY <2>1, <4>1, <4>2, <5>1
        <4>3. CASE m.id # i
          BY <2>2, <4>1, <4>3
        <4> QED BY <4>2, <4>3
      <3>2. \A m \in moved' : m \in moved \/ m = [slug |-> s, id |-> i, kept |-> TRUE]
        BY <1>5 DEF Move
      <3> QED BY <1>1, <2>1, <3>1, <3>2 DEF Verbatim, Text
    <2> QED BY <2>3, <2>4, <2>5 DEF Kept
  <1> QED BY <1>4, <1>5 DEF Update

LEMMA AddKnownKept ==
  ASSUME Twins = {}, Base, Kept, NEW d \in todo, AddKnown(d)
  PROVE  Kept'
  <1> DEFINE s == d.slug
  <1>1. /\ s \in Slugs /\ want[s] # 0
        /\ TextOf(s) = <<s, want[s]>> /\ pc = "decide" /\ UNCHANGED <<file, want, pc>>
    BY WhatItMoves
  <1>2. PICK i \in Holders(TextOf(s)) : UNCHANGED moved \/ Move(s, i, TRUE)
    BY DEF AddKnown
  <1>3. corpus' = corpus /\ corpus[i].text = <<s, want[s]>>
    BY <1>1, <1>2 DEF AddKnown, Holders
  <1>4. \A m \in moved' : m \in moved \/ m = [slug |-> s, id |-> i, kept |-> TRUE]
    BY <1>2 DEF Move
  <1>5. Verbatim'
    BY <1>1, <1>3, <1>4 DEF Kept, Verbatim, Text
  <1>6. Own' /\ FactsKept'
    BY <1>1, <1>3 DEF Kept, Own, FactsKept, Holders
  <1> QED BY <1>5, <1>6 DEF Kept

LEMMA AddNewKept ==
  ASSUME Twins = {}, Base, Kept, NEW d \in todo, AddNew(d)
  PROVE  Kept'
  <1> DEFINE s == d.slug
  <1>1. /\ s \in Slugs /\ want[s] # 0 /\ want[s] \in 1..MaxVersion
        /\ TextOf(s) = <<s, want[s]>> /\ pc = "decide" /\ UNCHANGED <<file, want, pc>>
    BY WhatItMoves
  <1>2. CASE UNCHANGED <<corpus, moved>>
    BY <1>1, <1>2, KeptFrame
  <1>3. CASE ~UNCHANGED <<corpus, moved>>
    <2>1. PICK i \in Fresh :
            /\ corpus' = [corpus EXCEPT ![i] = [text |-> TextOf(s), source |-> s]]
            /\ UNCHANGED moved \/ Move(s, i, FALSE)
      BY <1>3 DEF AddNew
    <2>2. i \in Ids /\ corpus[i] = Nil /\ TypeOK
      BY <2>1 DEF Fresh, Base
    <2>3. corpus'[i] = [text |-> <<s, want[s]>>, source |-> s]
      BY <1>1, <2>1, <2>2 DEF TypeOK
    <2>4. \A j \in Ids : j # i => corpus'[j] = corpus[j]
      BY <2>1, <2>2 DEF TypeOK
    <2>5. Own'
      BY <2>3, <2>4 DEF Kept, Own
    <2>6. FactsKept'
      BY <1>1, <2>2, <2>4 DEF Kept, FactsKept, Holders
    <2>7. \A m \in moved : m.id \in Ids /\ m.id # i
      BY <1>1, <2>2 DEF Base, Present, TypeOK
    <2>8. \A m \in moved' : m \in moved \/ m = [slug |-> s, id |-> i, kept |-> FALSE]
      BY <2>1 DEF Move
    <2>9. Verbatim'
      BY <1>1, <2>3, <2>4, <2>7, <2>8 DEF Kept, Verbatim, Text
    <2> QED BY <2>5, <2>6, <2>9 DEF Kept
  <1> QED BY <1>2, <1>3

LEMMA UndoKept ==
  ASSUME Twins = {}, Base, Kept, NEW m \in moved, UndoOne(m)
  PROVE  Kept'
  <1>1. /\ pc = "undo" /\ UNCHANGED <<file, want, pc>> /\ moved' \subseteq moved
        /\ m.slug \in Slugs /\ m.id \in Ids /\ TypeOK
    BY DEF Base, TypeOK, UndoOne
  <1>2. CASE corpus' = corpus
    BY <1>1, <1>2, KeptFrame
  <1>3. CASE corpus' = [corpus EXCEPT ![m.id] = Nil] /\ ~m.kept /\ corpus[m.id] # Nil
    <2>1. corpus[m.id].source = m.slug /\ file[m.slug] = want[m.slug]
      BY <1>1, <1>3 DEF Base, Mine, MovedHere, Files
    <2>2. corpus[m.id].text[1] = m.slug
      BY <1>1, <1>3, <2>1, JudgeAssumption DEF Kept, Own
    <2>3. corpus'[m.id] = Nil /\ \A j \in Ids : j # m.id => corpus'[j] = corpus[j]
      BY <1>1, <1>3 DEF TypeOK
    <2>4. Own'
      BY <2>3 DEF Kept, Own
    <2>5. FactsKept'
      <3> SUFFICES ASSUME NEW r \in Slugs, want[r] # 0, file[r] # want[r],
                          NEW j \in Ids, corpus[j] # Nil, corpus[j].text = Text(r, want[r])
                   PROVE  corpus'[j] = corpus[j]
        BY <1>1 DEF Kept, FactsKept, Holders
      <3>1. corpus[j].text[1] = r
        BY DEF Text
      <3> QED BY <2>1, <2>2, <2>3, <3>1
    <2>6. Verbatim'
      BY <1>1 DEF Verbatim
    <2> QED BY <2>4, <2>5, <2>6 DEF Kept
  <1>4. corpus' = corpus \/ (corpus' = [corpus EXCEPT ![m.id] = Nil] /\ ~m.kept)
    BY DEF UndoOne, Undoable
  <1>5. corpus[m.id] = Nil => [corpus EXCEPT ![m.id] = Nil] = corpus
    BY <1>1 DEF TypeOK
  <1> QED BY <1>2, <1>3, <1>4, <1>5

LEMMA RemoveKept ==
  ASSUME Base, Kept, NEW m \in moved, Remove(m)
  PROVE  Kept'
  <1>1. /\ pc = "remove" /\ UNCHANGED <<want, corpus, pc>> /\ moved' \subseteq moved
        /\ m.slug \in Slugs /\ m.id \in Ids
        /\ \A r \in Slugs : r # m.slug => file'[r] = file[r]
    BY DEF Base, TypeOK, Remove, Gone
  <1>2. m.id \in Holders(Text(m.slug, want[m.slug]))
    BY <1>1 DEF Base, Present, Kept, Verbatim, Holders
  <1>3. FactsKept'
    BY <1>1, <1>2 DEF Kept, FactsKept, Holders
  <1>4. Own' /\ Verbatim'
    BY <1>1 DEF Kept, Own, Verbatim
  <1> QED BY <1>3, <1>4 DEF Kept

LEMMA NextKept == ASSUME Twins = {}, Base, Kept, [Next]_vars PROVE Kept'
  <1>1. CASE \E s \in Edited : Edit(s) \/ Discard(s)
    <2>1. PICK s \in Edited : Edit(s) \/ Discard(s) BY <1>1
    <2> QED BY <2>1, EditKept, JudgeAssumption
  <1>2. CASE \E d \in todo : Update(d) \/ AddKnown(d) \/ AddNew(d)
    <2>1. PICK d \in todo : Update(d) \/ AddKnown(d) \/ AddNew(d) BY <1>2
    <2> QED BY <2>1, UpdateKept, AddKnownKept, AddNewKept
  <1>3. CASE \E m \in moved : UndoOne(m) \/ Remove(m)
    <2>1. PICK m \in moved : UndoOne(m) \/ Remove(m) BY <1>3
    <2> QED BY <2>1, UndoKept, RemoveKept
  <1>4. CASE \/ UNCHANGED vars
             \/ \E d \in todo : Skip(d) \/ Shorten(d)
             \/ \E m \in moved : UndoFails(m) \/ RemoveFails(m)
    <2>1. UNCHANGED <<file, want, corpus, pc>> /\ moved' \subseteq moved
      BY <1>4 DEF vars, Skip, Shorten, Handled, UndoFails, RemoveFails
    <2> QED BY <2>1, KeptFrame
  <1>5. CASE \/ WritePlan \/ NoPlan \/ NotApplied \/ StartApply \/ NoOp \/ Refuse
             \/ WriteIndex \/ InvariantFails \/ InvariantsHold
    <2>1. /\ UNCHANGED <<file, want, corpus>> /\ moved' \subseteq moved
          /\ \/ pc' \notin {"decide", "written", "remove"} \/ moved' = {}
             \/ pc \in {"decide", "written", "remove"}
      BY <1>5 DEF Base, Tidy, WritePlan, NoPlan, NotApplied, StartApply, NoOp, Refuse,
                  WriteIndex, InvariantFails, InvariantsHold
    <2> QED BY <2>1, KeptFrame
  <1>6. CASE AllRemoved \/ Undone \/ WriteHooks \/ Finish \/ Crash
    <2>1. /\ UNCHANGED <<file, want, corpus>> /\ moved' \subseteq moved
          /\ pc' \notin {"decide", "written", "remove"}
      BY <1>6 DEF AllRemoved, Undone, WriteHooks, Finish, Crash
    <2> QED BY <2>1, KeptFrame
  <1> QED BY <1>1, <1>2, <1>3, <1>4, <1>5, <1>6 DEF Next, Apply

LEMMA InitKept == ASSUME Twins = {}, Init PROVE Kept
  <1>1. \A s \in Slugs : file[s] = want[s] BY DEF Init
  <1>2. \A i \in Ids : corpus[i] = Nil \/ corpus[i].source = "other"
    BY DEF Init
  <1> QED BY <1>1, <1>2 DEF Init, Kept, Own, Verbatim, FactsKept

(* What people wrote last of a fact is in its file, or word for word in the *)
(* corpus, whatever fails and whenever the apply dies: no file goes before  *)
(* its text is verified, and an undo stops where removals begin.            *)
THEOREM FactsAreKept == ASSUME Twins = {} PROVE Spec => []FactsKept
  <1>1. Init => Base /\ Kept
    BY InitBase, InitKept
  <1>2. (Base /\ Kept) /\ [Next]_vars => (Base /\ Kept)'
    BY NextBase, NextKept
  <1>3. Base /\ Kept => FactsKept
    BY DEF Kept
  <1> QED BY <1>1, <1>2, <1>3, PTL DEF Spec
=============================================================================
