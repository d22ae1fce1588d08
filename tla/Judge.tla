------------------------------- MODULE Judge -------------------------------
(***************************************************************************)
(* The nightly judge of one auto-memory store on the hub: the dream writes *)
(* a plan (scripts/wsl/dream-consolidate.py), ams-store-judge-apply.sh     *)
(* applies the plan file it finds, and internal/judge moves facts into the *)
(* corpus and shortens index lines.                                        *)
(*                                                                         *)
(* What people write on their PCs reaches the hub's checkout by sync       *)
(* passes, which an apply excludes by holding the per-PC lock.  A pass     *)
(* rebuilds the index from the files, so the index is not a state of its   *)
(* own.  The dream's plans never override the text of a migration, which   *)
(* is the file's.  The verb "keep" stands also for no decision.  The apply *)
(* may die before any of its steps.                                        *)
(***************************************************************************)
EXTENDS Integers, FiniteSets

CONSTANTS
    Slugs,          \* fact files of the store
    Edited,         \* those people still work on
    Twins,          \* those whose first text is one and the same
    Ids,            \* corpus ids: 1..n, given out in order
    MaxVersion,     \* bound on the edits of a fact
    MaxMigrations,  \* the judge's migrations in one run
    BlastCap,       \* all removals of one run
    Nil

ASSUME JudgeAssumption ==
    /\ MaxVersion \in Nat \ {0}
    /\ "other" \notin Slugs
    /\ Nil \notin Ids /\ Nil \notin Slugs /\ Edited \subseteq Slugs
    /\ \A t \in (Slugs \cup {Nil}) \X (1..MaxVersion), o \in Slugs \cup {"other"} :
          Nil # [text |-> t, source |-> o]

VARIABLES
    file,      \* the version in the checkout, 0 when there is none
    want,      \* the version people wrote last, 0 when they removed the fact
    hook,      \* "long" (over the line cap) or "short"
    doctrine,  \* facts that are standing orders
    stamp,     \* the front matter's `migrated:` id
    trailer,   \* the id the newest deletion commit of the slug names
    corpus,    \* the record each id holds
    seal,      \* slugs whose line the judge has rewritten
    plan,      \* the plan file: a verb for each slug, or Nil when there is none
    pc,        \* where tonight's chain is
    todo,      \* decisions the apply has not handled: [slug, verb, floor]
    moved,     \* pendingDeletes: [slug, id, kept]; kept is set for Deduplicated or Updated
    hooks,     \* pendingHooks, then the slugs to seal
    gone       \* files the apply has removed: [slug, id]

store == <<file, want, hook, doctrine, stamp>>
run   == <<todo, moved, hooks, gone>>
vars  == <<store, trailer, corpus, seal, plan, pc, run>>

Verbs     == {"keep", "shorten", "migrate"}
Text(s, v) == IF v = 1 /\ s \in Twins THEN <<Nil, 1>> ELSE <<s, v>>
Wordings  == (Slugs \cup {Nil}) \X (1..MaxVersion)
Owners    == Slugs \cup {"other"}
Record    == [text : Wordings, source : Owners]
Decision  == [slug : Slugs, verb : Verbs, floor : BOOLEAN]

TypeOK ==
    /\ file \in [Slugs -> 0..MaxVersion] /\ want \in [Slugs -> 0..MaxVersion]
    /\ hook \in [Slugs -> {"long", "short"}] /\ doctrine \subseteq Slugs
    /\ stamp \in [Slugs -> Ids \cup {Nil}] /\ trailer \in [Slugs -> Ids \cup {Nil}]
    /\ corpus \in [Ids -> Record \cup {Nil}]
    /\ seal \subseteq Slugs
    /\ plan \in [Slugs -> Verbs] \cup {Nil}
    /\ pc \in {"dream", "sync", "decide", "undo", "written", "remove", "hooks", "commit"}
    /\ todo \subseteq Decision /\ hooks \subseteq Slugs
    /\ moved \subseteq [slug : Slugs, id : Ids, kept : BOOLEAN]
    /\ gone \subseteq [slug : Slugs, id : Ids]

\* One fact may be in the corpus already, by another writer.
Init ==
    /\ file = [s \in Slugs |-> 1] /\ want = file
    /\ hook = [s \in Slugs |-> "long"] /\ doctrine = {}
    /\ stamp = [s \in Slugs |-> Nil] /\ trailer = stamp
    /\ corpus \in {[i \in Ids |-> Nil]} \cup
                  {[i \in Ids |-> IF i = 1 THEN [text |-> Text(s, 1), source |-> "other"]
                                           ELSE Nil] : s \in Slugs}
    /\ seal = {} /\ plan = Nil /\ pc = "dream"
    /\ todo = {} /\ moved = {} /\ hooks = {} /\ gone = {}

Goto(p) == pc' = p
Idle    == todo' = {} /\ moved' = {} /\ hooks' = {} /\ gone' = {}

----------------------------------------------------------------------------
(* What a sync pass brings into the checkout between the steps. *)

\* The file goes, and what its front matter said with it.
Gone(s) == /\ file' = [file EXCEPT ![s] = 0] /\ hook' = [hook EXCEPT ![s] = "long"]
           /\ stamp' = [stamp EXCEPT ![s] = Nil] /\ doctrine' = doctrine \ {s}

Unlocked == pc \in {"dream", "sync"}

\* A session writes the fact; derive stamps a fact that was migrated before.
Edit(s) == /\ Unlocked
           /\ \E v \in {want[s], want[s] + 1} \cap (1..MaxVersion) :
                 /\ v = want[s] => file[s] = 0
                 /\ file' = [file EXCEPT ![s] = v] /\ want' = [want EXCEPT ![s] = v]
           /\ \E h \in {"long", "short"} : hook' = [hook EXCEPT ![s] = h]
           /\ doctrine' \in {doctrine \ {s}, doctrine \cup {s}}
           /\ stamp' = [stamp EXCEPT ![s] = IF file[s] = 0 \/ @ = Nil THEN trailer[s] ELSE @]
           /\ UNCHANGED <<trailer, corpus, seal, plan, pc, run>>

Discard(s) == /\ Unlocked /\ file[s] # 0
              /\ want' = [want EXCEPT ![s] = 0] /\ Gone(s)
              /\ UNCHANGED <<trailer, corpus, seal, plan, pc, run>>

----------------------------------------------------------------------------
(* The dream's phase 3.7. *)

OfferShorten == {s \in Slugs : file[s] # 0 /\ s \notin doctrine /\ hook[s] = "long"
                               /\ s \notin seal}
OfferMigrate == {s \in Slugs : file[s] # 0 /\ s \notin doctrine}

\* A decision is kept when its slug was in either offer, whatever its verb.
WritePlan == /\ pc = "dream" /\ Goto("sync")
             /\ plan' \in [Slugs -> Verbs]
             /\ \A s \in Slugs : plan'[s] # "keep" => s \in OfferShorten \cup OfferMigrate
             /\ UNCHANGED <<store, trailer, corpus, seal, run>>

\* The dream was skipped, the checkout did not sync, or the plan was invalid:
\* the file of the last night that wrote one stays.
NoPlan == /\ pc = "dream" /\ Goto("sync")
          /\ UNCHANGED <<store, trailer, corpus, seal, plan, run>>

----------------------------------------------------------------------------
(* ams-store-judge-apply.sh and Apply. *)

\* No plan, the sync before the apply failed, or the lock is held.
NotApplied == /\ pc = "sync" /\ Goto("dream")
              /\ UNCHANGED <<store, trailer, corpus, seal, plan, run>>

Decided == {s \in Slugs : plan[s] # "keep"}

\* The line floor adds the oldest pullable facts that the judge left alone.
StartApply ==
    /\ pc = "sync" /\ plan # Nil /\ Goto("decide")
    /\ \E floor \in SUBSET (OfferMigrate \ Decided) :
          todo' = {[slug |-> s, verb |-> plan[s], floor |-> FALSE] : s \in Decided}
                  \cup {[slug |-> s, verb |-> "migrate", floor |-> TRUE] : s \in floor}
    /\ UNCHANGED <<store, trailer, corpus, seal, plan, moved, hooks, gone>>

Handled(d) == /\ pc = "decide" /\ d \in todo /\ todo' = todo \ {d}
              /\ UNCHANGED <<store, trailer, seal, plan, pc, gone>>

\* Mutant: what was no standing order when it was offered is taken to be none.
AllowedAsOffered(s) == file[s] # 0

\* Doctrine is looked at again: the plan is older than the files.
Allowed(s) == file[s] # 0 /\ s \notin doctrine

Skip(d) == Handled(d) /\ UNCHANGED <<corpus, moved, hooks>>

\* Strictly shorter, or not at all.
Shorten(d) == /\ Handled(d) /\ d.verb = "shorten" /\ Allowed(d.slug)
              /\ hook[d.slug] = "long"
              /\ hooks' = hooks \cup {d.slug}
              /\ UNCHANGED <<corpus, moved>>

Capped(d) == \/ Cardinality(moved) >= BlastCap
             \/ Cardinality(moved) >= MaxMigrations /\ ~d.floor

TextOf(s) == Text(s, file[s])

Migrates(d) == Handled(d) /\ d.verb = "migrate" /\ Allowed(d.slug) /\ ~Capped(d)
               /\ UNCHANGED hooks

Move(s, i, kept) == moved' = moved \cup {[slug |-> s, id |-> i, kept |-> kept]}

\* Mutant: the stamp is trusted.
StampedRecordWhoever(s) == stamp[s] # Nil /\ corpus[stamp[s]] # Nil

\* The record the stamp names, when it is this slug's own.
StampedRecord(s) == stamp[s] # Nil /\ corpus[stamp[s]] # Nil /\ corpus[stamp[s]].source = s

\* Mutant: what Update answers is not read back.
UpdateUnread(d) == LET s == d.slug  i == stamp[s] IN
    /\ Migrates(d) /\ StampedRecord(s)
    /\ corpus' \in {corpus, [corpus EXCEPT ![i].text = TextOf(s)]}
    /\ Move(s, i, TRUE)

\* Update: it may fail, land and not verify, or verify.
Update(d) == LET s == d.slug  i == stamp[s] IN
    /\ Migrates(d) /\ StampedRecord(s)
    /\ \/ UNCHANGED <<corpus, moved>>
       \/ /\ corpus' = [corpus EXCEPT ![i].text = TextOf(s)]
          /\ UNCHANGED moved \/ Move(s, i, TRUE)

Holders(t) == {i \in Ids : corpus[i] # Nil /\ corpus[i].text = t}
Fresh      == {i \in Ids : corpus[i] = Nil /\ \A j \in Ids : corpus[j] = Nil => i <= j}

\* Add of a text the corpus holds answers the record's id, deduplicated: it is
\* verified, or the line is kept.
AddKnown(d) == LET s == d.slug IN
    /\ Migrates(d) /\ ~StampedRecord(s)
    /\ \E i \in Holders(TextOf(s)) : UNCHANGED moved \/ Move(s, i, TRUE)
    /\ UNCHANGED corpus

\* Add of a new text fails, or is verified, or lands and no id is answered, or
\* lands, does not verify and is removed again if that can be done.
AddNew(d) == LET s == d.slug IN
    /\ Migrates(d) /\ ~StampedRecord(s) /\ Holders(TextOf(s)) = {}
    /\ \/ UNCHANGED <<corpus, moved>>
       \/ \E i \in Fresh :
             /\ corpus' = [corpus EXCEPT ![i] = [text |-> TextOf(s), source |-> s]]
             /\ UNCHANGED moved \/ Move(s, i, FALSE)

\* Nothing to write.
NoOp == /\ pc = "decide" /\ todo = {} /\ moved = {} /\ hooks = {} /\ Goto("dream")
        /\ UNCHANGED <<store, trailer, corpus, seal, plan, run>>

\* The index would not shrink, the store changed meanwhile, or the index cannot
\* be written.
Refuse == /\ pc = "decide" /\ todo = {} /\ moved \cup hooks # {} /\ Goto("undo")
          /\ UNCHANGED <<store, trailer, corpus, seal, plan, run>>

WriteIndex == /\ pc = "decide" /\ todo = {} /\ moved \cup hooks # {} /\ Goto("written")
              /\ UNCHANGED <<store, trailer, corpus, seal, plan, run>>

InvariantFails == /\ pc = "written" /\ Goto("undo")
                  /\ UNCHANGED <<store, trailer, corpus, seal, plan, run>>

\* A record that was there before this run is left.
Undoable(m) == ~m.kept

UndoOne(m) == /\ pc = "undo" /\ m \in moved
              /\ moved' = moved \ {m}
              /\ corpus' = IF Undoable(m) THEN [corpus EXCEPT ![m.id] = Nil] ELSE corpus
              /\ UNCHANGED <<store, trailer, seal, plan, pc, todo, hooks, gone>>

UndoFails(m) == /\ pc = "undo" /\ m \in moved
                /\ moved' = moved \ {m}
                /\ UNCHANGED <<store, trailer, corpus, seal, plan, pc, todo, hooks, gone>>

Undone == /\ pc = "undo" /\ moved = {} /\ Goto("dream") /\ Idle
          /\ UNCHANGED <<store, trailer, corpus, seal, plan>>

InvariantsHold == /\ pc = "written" /\ Goto("remove")
                  /\ UNCHANGED <<store, trailer, corpus, seal, plan, run>>

Remove(m) == /\ pc = "remove" /\ m \in moved
             /\ moved' = moved \ {m}
             /\ Gone(m.slug)
             /\ gone' = gone \cup {[slug |-> m.slug, id |-> m.id]}
             /\ UNCHANGED <<want, trailer, corpus, seal, plan, pc, todo, hooks>>

RemoveFails(m) == /\ pc = "remove" /\ m \in moved
                  /\ moved' = moved \ {m}
                  /\ UNCHANGED <<store, trailer, corpus, seal, plan, pc, todo, hooks, gone>>

AllRemoved == /\ pc = "remove" /\ moved = {} /\ Goto("hooks")
              /\ UNCHANGED <<store, trailer, corpus, seal, plan, run>>

\* WriteHook of every rewritten line, those that fail left out.
WriteHooks ==
    /\ pc = "hooks" /\ Goto("commit")
    /\ \E done \in SUBSET hooks :
          hook' = [s \in Slugs |-> IF s \in done THEN "short" ELSE hook[s]]
    /\ UNCHANGED <<file, want, doctrine, stamp, trailer, corpus, seal, plan, run>>

\* CommitDeletions: a trailer for each file that went.
Committed == [s \in Slugs |-> IF \E g \in gone : g.slug = s
                              THEN (CHOOSE g \in gone : g.slug = s).id ELSE trailer[s]]

\* The seals are saved and the deletions committed; either may fail.
Finish ==
    /\ pc = "commit" /\ Goto("dream") /\ Idle
    /\ seal' \in {seal, seal \cup hooks}
    /\ trailer' \in {trailer, Committed}
    /\ UNCHANGED <<store, corpus, plan>>

\* The process dies; what is on disk and in the corpus stays.
Crash == /\ ~Unlocked /\ Goto("dream") /\ Idle
         /\ UNCHANGED <<store, trailer, corpus, seal, plan>>

Apply == \/ StartApply \/ NoOp \/ Refuse \/ WriteIndex \/ InvariantFails \/ Undone
         \/ InvariantsHold \/ AllRemoved \/ WriteHooks \/ Finish
         \/ \E d \in todo : \/ Skip(d) \/ Shorten(d) \/ Update(d)
                            \/ AddKnown(d) \/ AddNew(d)
         \/ \E m \in moved : UndoOne(m) \/ UndoFails(m) \/ Remove(m) \/ RemoveFails(m)

Next == \/ WritePlan \/ NoPlan \/ NotApplied \/ Apply \/ Crash
        \/ \E s \in Edited : Edit(s) \/ Discard(s)

Spec == Init /\ [][Next]_vars

----------------------------------------------------------------------------
(* Whatever fails and whenever the apply dies, what people wrote last of a  *)
(* fact is in its file, or word for word in the corpus (Apply's order).     *)
FactsKept ==
    \A s \in Slugs : want[s] # 0 => \/ file[s] = want[s]
                                    \/ Holders(Text(s, want[s])) # {}

(* The judge neither overwrites nor deletes a record of another writer,     *)
(* though a deduplicated add hands it the id and derive stamps that id into *)
(* a fact that comes back (AddResult.Deduplicated, the source check).       *)
OthersRecordsUntouched ==
    [][\A i \in Ids : corpus[i] # Nil /\ corpus[i].source = "other" => corpus'[i] = corpus[i]]_vars

(* A fact that became a standing order after the plan was written is        *)
(* neither shortened nor moved out of every prompt (the re-check in Apply). *)
DoctrineUntouched ==
    [][\A s \in doctrine : ~Unlocked => file'[s] = file[s] /\ hook'[s] = hook[s]]_vars

(* seal.go:17, "One judge rewrite per line, EVER": a sealed line is not     *)
(* rewritten by a later apply.                                              *)
OneRewritePerLine ==
    [][\A s \in seal : ~Unlocked /\ file'[s] # 0 => hook'[s] = hook[s]]_vars
=============================================================================
