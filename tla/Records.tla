------------------------------ MODULE Records ------------------------------
(***************************************************************************)
(* The write routes of the memory server (mem0-server/app.py) and the      *)
(* rules they share: the tier gate (security_invariants.py), supersession  *)
(* (supersession.py), payload carry-over (payload_carryover.py), the       *)
(* admission gate (admission_gate.py) and the contradiction judge that     *)
(* runs after the answer (nli_write_gate.py).                              *)
(*                                                                         *)
(* A handler is a thread of the server's pool.  The gate of a route reads  *)
(* the record before the per-record lock is taken; what follows runs under *)
(* it, except a delete, which takes none.  A handler takes one step per    *)
(* access to the collection that another thread can come between.  The     *)
(* tier "temporal" is treated everywhere as "evidence" is, and stands      *)
(* under that name.                                                        *)
(***************************************************************************)
EXTENDS Naturals, FiniteSets

CONSTANTS
    Ids,         \* memory ids
    Texts,       \* what a record can say
    Imperative,  \* the texts is_imperative_canonical refuses
    Conflicting, \* <<canonical text, new text>> the judge calls a contradiction
    Handlers,    \* threads
    Nobody,
    Stored,      \* the records the collection starts with
    SomeText,    \* the text of an unused local or an unminted id
    Rank,        \* the order of the lock keys
    Routes,      \* the routes this instance exercises
    MaxCalls,    \* bound on the requests that arrive
    MaxRestarts  \* bound on the restarts of the server

ASSUME RecordsAssumption ==
    /\ Nobody \notin Ids \cup Texts \cup Handlers
    /\ IsFiniteSet(Handlers)
    /\ Ids # {} /\ Stored \subseteq Ids /\ SomeText \in Texts
    /\ Imperative \subseteq Texts
    /\ Conflicting \subseteq Texts \X Texts
    /\ Rank \in [Ids -> Nat]
    /\ \A i, j \in Ids : Rank[i] = Rank[j] => i = j
    /\ MaxCalls \in Nat /\ MaxRestarts \in Nat

VARIABLES
    live, mem,   \* the collection
    born,        \* ids mem0 has minted
    lock,        \* holder of each record's write lock
    pc, req,     \* where each handler is, and the request it serves
    copy,        \* the payload a handler read under its locks
    todo, seen, chain,  \* the cascade walk of a delete
    audit,       \* write-ahead lines in the tier ledger
    calls, restarts

Store == INSTANCE MemoryStore
Protected == Store!Protected
Tiers     == Store!Tiers
Payload   == Store!Payload
Fresh(x, t) == Store!Fresh(x, t)

walk  == <<todo, seen, chain>>
disk  == <<live, mem, born>>
bound == <<calls, restarts>>
vars  == <<live, mem, born, lock, pc, req, copy, todo, seen, chain, audit,
           calls, restarts>>

Calls == [op : {"add", "put", "tier", "meta", "supersede", "annotate",
               "clear", "delete", "cascade", "stamp"},
         by : {"api", "operator", "consolidator", "sweep", "decay", "retirer"},
         id : Ids, to : Ids \cup Tiers \cup {"retired", Nobody},
         text : Texts]

Pcs == {"idle", "probe", "wait", "locked", "read", "judge", "intent", "walk",
        "member", "kill", "root"}

TypeOK ==
    /\ live \subseteq born /\ born \subseteq Ids
    /\ mem \in [Ids -> Payload]
    /\ lock \in [Ids -> Handlers \cup {Nobody}]
    /\ pc \in [Handlers -> Pcs]
    /\ req \in [Handlers -> Calls]
    /\ copy \in [Handlers -> Payload]
    /\ todo \in [Handlers -> SUBSET Ids]
    /\ seen \in [Handlers -> SUBSET Ids]
    /\ chain \in [Handlers -> SUBSET Ids]
    /\ audit \subseteq Ids \X (Tiers \cup {"supersede", "annotate", "delete", "cascade"})
    /\ calls \in 0..MaxCalls /\ restarts \in 0..MaxRestarts

\* The locals of an idle handler.
NoPayload == Fresh(SomeText, "evidence")
NoCall    == [op |-> "add", by |-> "api", id |-> CHOOSE i \in Ids : TRUE,
              to |-> Nobody, text |-> SomeText]

\* Records as add() leaves them, some promoted since.
Init ==
    /\ live = Stored /\ born = Stored
    /\ mem \in [Ids -> {Fresh(x, t) : x \in Texts, t \in Tiers}]
    /\ \A i \in Ids \ Stored : mem[i] = NoPayload
    /\ lock = [i \in Ids |-> Nobody]
    /\ pc = [h \in Handlers |-> "idle"]
    /\ req = [h \in Handlers |-> NoCall]
    /\ copy = [h \in Handlers |-> NoPayload]
    /\ todo = [h \in Handlers |-> {}]
    /\ seen = [h \in Handlers |-> {}]
    /\ chain = [h \in Handlers |-> {}]
    /\ audit = {<<i, mem[i].tier>> : i \in Stored}
    /\ calls = 0 /\ restarts = 0

Step(h, from, to) == pc[h] = from /\ pc' = [pc EXCEPT ![h] = to]

\* The request is answered: its locals go.
Forget(h) == /\ req' = [req EXCEPT ![h] = NoCall]
             /\ copy' = [copy EXCEPT ![h] = NoPayload]
             /\ todo' = [todo EXCEPT ![h] = {}]
             /\ seen' = [seen EXCEPT ![h] = {}]
             /\ chain' = [chain EXCEPT ![h] = {}]

----------------------------------------------------------------------------
(* The gates: what a route checks before it takes a lock. *)

TierOf(i) == IF i \in live THEN mem[i].tier ELSE "gone"

\* tier_change_hmac_action = "demote".
LeavesProtection(t, target) ==
    \/ t = "canonical" /\ target # "canonical"
    \/ t = "insight" /\ target \notin {"canonical", "insight"}

\* The label each gate wants for a write to a record of tier t.
Writer(t) == CASE t = "canonical" -> "operator"
               [] t = "insight" -> "consolidator"
               [] OTHER -> "api"

Arrive(h, to, c) == /\ calls < MaxCalls /\ calls' = calls + 1
                    /\ c.op \in Routes
                    /\ Step(h, "idle", to)
                    /\ req' = [req EXCEPT ![h] = c]
                    /\ UNCHANGED <<disk, lock, copy, walk, audit, restarts>>

\* An add is born with tier evidence, or insight for the proven consolidator;
\* the keys that gate retrieval are stripped from what the caller sent.  The
\* unminted ids bound the adds in flight.
Add(h) == \E x \in Texts, t \in {"evidence", "insight"} :
    /\ Cardinality({k \in Handlers : pc[k] = "probe"}) < Cardinality(Ids \ born)
    /\ Arrive(h, "probe", [NoCall EXCEPT !.by = Writer(t), !.to = t, !.text = x])

\* assert_writable, and the canary against standing orders.
Put(h) == \E i \in Ids, x \in Texts :
    /\ TierOf(i) = "canonical" => x \notin Imperative
    /\ Arrive(h, "wait", [NoCall EXCEPT !.op = "put", !.by = Writer(TierOf(i)),
                                       !.id = i, !.text = x])

\* Into canonical and out of a protected tier the operator signs; into
\* insight the consolidator proves its label.
Promote(h) == \E i \in Ids :
    /\ i \in live => mem[i].text \notin Imperative
    /\ Arrive(h, "wait", [NoCall EXCEPT !.op = "tier", !.by = "operator",
                                       !.id = i, !.to = "canonical"])

Consolidate(h) == \E i \in live :
    /\ TierOf(i) # "canonical"
    /\ Arrive(h, "wait", [NoCall EXCEPT !.op = "tier", !.by = "consolidator",
                                       !.id = i, !.to = "insight"])

Retier(h) == \E i \in live, t \in Tiers \ Protected :
    Arrive(h, "wait", [NoCall EXCEPT !.op = "tier", !.id = i, !.to = t,
        !.by = IF LeavesProtection(TierOf(i), t) THEN "operator" ELSE "api"])

\* assert_writable, then authorize_metadata_patch: each proven label has its
\* keys, and none puts a hide key on a record read as canonical.
Sweep(h) == \E i \in live, c \in Ids :
    /\ TierOf(i) # "canonical"
    /\ Arrive(h, "wait", [NoCall EXCEPT !.op = "meta", !.by = "sweep", !.id = i,
                                       !.to = c, !.text = mem[i].text])

Retire(h) == \E i \in live, by \in {"retirer", "decay"} :
    /\ by = "decay" => TierOf(i) \notin Protected
    /\ Arrive(h, "wait", [NoCall EXCEPT !.op = "meta", !.by = by, !.id = i,
                                       !.to = "retired"])

Supersede(h) == \E i, w \in Ids, op \in {"supersede", "annotate"} :
    i # w /\ Arrive(h, "wait", [NoCall EXCEPT !.op = op, !.id = i, !.to = w])

Clear(h) == \E i \in Ids :
    Arrive(h, "wait", [NoCall EXCEPT !.op = "clear", !.id = i])

Delete(h) == \E i \in Ids, op \in {"delete", "cascade"} :
    Arrive(h, "intent", [NoCall EXCEPT !.op = op, !.by = Writer(TierOf(i)),
                                     !.id = i])

----------------------------------------------------------------------------
(* The locks. *)

\* Mutant: only the record that is hidden is locked.
NeedsLoserOnly(h) == {req[h].id}
Needs(h) == IF req[h].op \in {"supersede", "annotate"}
            THEN {req[h].id, req[h].to} ELSE {req[h].id}
Holds(h) == {i \in Ids : lock[i] = h}

\* Mutant: the two locks are taken in the order the caller named them, or any.
AcquireAnyOrder(h) ==
    /\ pc[h] = "wait"
    /\ \E i \in Needs(h) \ Holds(h) :
          /\ lock[i] = Nobody
          /\ lock' = [lock EXCEPT ![i] = h]
          /\ pc' = [pc EXCEPT ![h] = IF Needs(h) \ Holds(h) = {i}
                                     THEN "locked" ELSE "wait"]
    /\ UNCHANGED <<disk, req, copy, walk, audit, bound>>

\* Locks are taken in key order.
Acquire(h) ==
    /\ pc[h] = "wait"
    /\ \E i \in Needs(h) \ Holds(h) :
          /\ \A j \in Needs(h) \ Holds(h) : Rank[i] <= Rank[j]
          /\ lock[i] = Nobody
          /\ lock' = [lock EXCEPT ![i] = h]
          /\ pc' = [pc EXCEPT ![h] = IF Needs(h) \ Holds(h) = {i}
                                     THEN "locked" ELSE "wait"]
    /\ UNCHANGED <<disk, req, copy, walk, audit, bound>>

Release(h) == lock' = [i \in Ids |-> IF lock[i] = h THEN Nobody ELSE lock[i]]

\* The request ends under its locks, with no change to the collection.
Refuse(h, from) == /\ Step(h, from, "idle") /\ Release(h) /\ Forget(h)
                   /\ UNCHANGED <<disk, audit, bound>>

\* A write of payload p to record i: on a point that is gone it does nothing.
Write(i, p) == mem' = IF i \in live THEN [mem EXCEPT ![i] = p] ELSE mem

\* The last write of a request.
Finish(h, from) == /\ Step(h, from, "idle") /\ Release(h) /\ Forget(h)
                   /\ UNCHANGED <<born, bound>>

----------------------------------------------------------------------------
(* POST /v1/memories.  The lookup of an identical text can only turn an add *)
(* into a no-op, and lets it through when it fails: any add may insert.     *)

Insert(h) ==
    /\ Step(h, "probe", "judge")
    /\ \E i \in Ids \ born :
          /\ born' = born \cup {i} /\ live' = live \cup {i}
          /\ mem' = [mem EXCEPT ![i] = Fresh(req[h].text, req[h].to)]
          /\ req' = [req EXCEPT ![h].id = i]
          /\ audit' = audit \cup {<<i, req[h].to>>}
    /\ UNCHANGED <<lock, copy, walk, bound>>

Duplicate(h) == /\ \E i \in live : /\ mem[i].text = req[h].text
                                   /\ mem[i].tier = req[h].to
                                   /\ mem[i].sup = Nobody /\ mem[i].contra = Nobody
                                   /\ ~mem[i].retired
                /\ Step(h, "probe", "idle") /\ Forget(h)
                /\ UNCHANGED <<disk, lock, audit, bound>>

----------------------------------------------------------------------------
(* PUT /v1/memories/{id}: the payload read under the lock is carried over   *)
(* into the rewrite.  A delete takes no lock: the rewrite then fails, or,   *)
(* when the delete came after mem0's own read, brings the record back.      *)

\* Mutant: the rewrite before AMS-01, which restored nothing but the tier.
CarryoverTierOnly(p, x) == Fresh(x, p.tier)
Carryover(p, x) == [p EXCEPT !.text = x, !.checked = Nobody]

PutRead(h) == /\ req[h].op = "put"
              /\ Step(h, "locked", "read")
              /\ req[h].id \in live
              /\ copy' = [copy EXCEPT ![h] = mem[req[h].id]]
              /\ UNCHANGED <<disk, lock, req, walk, audit, bound>>

PutMissing(h) == /\ req[h].op = "put" /\ req[h].id \notin live
                 /\ Refuse(h, "locked") \/ Refuse(h, "read")

PutWrite(h) == /\ req[h].op = "put"
               /\ live' = live \cup {req[h].id}
               /\ mem' = [mem EXCEPT ![req[h].id] = Carryover(copy[h], req[h].text)]
               /\ Step(h, "read", "judge") /\ Release(h)
               /\ UNCHANGED <<born, req, copy, walk, audit, bound>>

----------------------------------------------------------------------------
(* PATCH /v1/memories/{id}/tier *)

\* Mutant: a superseded record is promoted.
TierRefusedHidden(h) ==
    LET c == req[h] IN
    /\ c.to # "canonical" /\ c.by # "operator"
    /\ c.id \notin live \/ LeavesProtection(TierOf(c.id), c.to)

\* Mutant: the tier is not read again under the lock.
TierRefusedOnce(h) ==
    LET c == req[h] IN
    c.to \in Protected /\ c.id \in live /\ mem[c.id].sup # Nobody

TierRefused(h) ==
    LET c == req[h] IN
    \/ c.to \in Protected /\ c.id \in live /\ mem[c.id].sup # Nobody
    \/ /\ c.to # "canonical" /\ c.by # "operator"
       /\ c.id \notin live \/ LeavesProtection(TierOf(c.id), c.to)

TierRefuse(h) == req[h].op = "tier" /\ TierRefused(h) /\ Refuse(h, "locked")

\* Mutant: no intent line.
TierIntentSilent(h) == /\ req[h].op = "tier" /\ ~TierRefused(h)
                       /\ Step(h, "locked", "read")
                       /\ UNCHANGED <<disk, lock, req, copy, walk, audit, bound>>

TierIntent(h) == /\ req[h].op = "tier" /\ ~TierRefused(h)
                 /\ Step(h, "locked", "read")
                 /\ audit' = audit \cup {<<req[h].id, req[h].to>>}
                 /\ UNCHANGED <<disk, lock, req, copy, walk, bound>>

TierSet(h) == /\ req[h].op = "tier"
              /\ Write(req[h].id, [mem[req[h].id] EXCEPT !.tier = req[h].to])
              /\ Finish(h, "read")
              /\ UNCHANGED <<live, audit>>

TierSetFails(h) == /\ req[h].op = "tier"
                   /\ Finish(h, "read")
                   /\ UNCHANGED <<live, mem, audit>>

----------------------------------------------------------------------------
(* PATCH /v1/memories/{id}/metadata, and the stamp of the judge. *)

StampOf(c, p) == IF c.to = "retired" THEN [p EXCEPT !.retired = TRUE]
                 ELSE [p EXCEPT !.contra = c.to, !.checked = c.text]

Stamp(h) == /\ req[h].op \in {"meta", "stamp"}
            /\ Write(req[h].id, StampOf(req[h], mem[req[h].id]))
            /\ Finish(h, "locked")
            /\ UNCHANGED <<live, audit>>

\* The canonical-class search of the judge: which records can be compared.
Neighbours == {i \in live : /\ mem[i].tier \in {"stable", "canonical"}
                            /\ ~mem[i].retired /\ mem[i].sup = Nobody}

JudgeAdmits(h) == /\ Step(h, "judge", "idle") /\ Forget(h)
                  /\ UNCHANGED <<disk, lock, audit, bound>>

JudgeFlags(h) ==
    /\ Step(h, "judge", "wait")
    /\ \E c \in Neighbours :
          /\ <<mem[c].text, req[h].text>> \in Conflicting
          /\ req' = [req EXCEPT ![h] = [@ EXCEPT !.op = "stamp", !.to = c]]
    /\ UNCHANGED <<disk, lock, copy, walk, audit, bound>>

----------------------------------------------------------------------------
(* POST and DELETE /v1/memories/{id}/supersede *)

\* The refusal matrix of supersession.precheck, for one user and one brand.
Superseding(c) ==
    /\ {c.id, c.to} \subseteq live
    /\ mem[c.id].tier \notin Protected
    /\ ~mem[c.id].retired /\ ~mem[c.to].retired
    /\ mem[c.to].sup = Nobody
    /\ mem[c.id].sup \in IF c.op = "supersede" THEN {Nobody, c.to} ELSE {Nobody}

Noop(c) == IF c.op = "supersede" THEN mem[c.id].sup = c.to
                                 ELSE c.to \in mem[c.id].notes

SupersedeRefuse(h) == /\ req[h].op \in {"supersede", "annotate"}
                      /\ ~Superseding(req[h]) \/ Noop(req[h])
                      /\ Refuse(h, "locked")

SupersedeRead(h) == /\ req[h].op \in {"supersede", "annotate"}
                    /\ Superseding(req[h]) /\ ~Noop(req[h])
                    /\ Step(h, "locked", "read")
                    /\ copy' = [copy EXCEPT ![h] = mem[req[h].id]]
                    /\ audit' = audit \cup {<<req[h].id, req[h].op>>}
                    /\ UNCHANGED <<disk, lock, req, walk, bound>>

SupersedeWrite(h) ==
    LET c == req[h] IN
    /\ c.op \in {"supersede", "annotate"}
    /\ Write(c.id, IF c.op = "supersede" THEN [mem[c.id] EXCEPT !.sup = c.to]
                   ELSE [mem[c.id] EXCEPT !.notes = copy[h].notes \cup {c.to}])
    /\ Finish(h, "read")
    /\ UNCHANGED <<live, audit>>

ClearRefuse(h) == /\ req[h].op = "clear"
                  /\ TierOf(req[h].id) \in Protected \cup {"gone"}
                  /\ Refuse(h, "locked")

Unsupersede(h) ==
    LET p == mem[req[h].id] IN
    /\ req[h].op = "clear"
    /\ TierOf(req[h].id) \notin Protected \cup {"gone"}
    /\ \/ Write(req[h].id, [p EXCEPT !.sup = Nobody])
       \/ Write(req[h].id, [p EXCEPT !.notes = {}])
       \/ Write(req[h].id, [p EXCEPT !.sup = Nobody, !.notes = {}])
    /\ Finish(h, "locked")
    /\ UNCHANGED <<live, audit>>

----------------------------------------------------------------------------
(* DELETE /v1/memories/{id}: no lock; with cascade, the records superseded  *)
(* by the root, transitively, go first.                                     *)

DeleteIntent(h) ==
    LET c == req[h] IN
    /\ Step(h, "intent", IF c.op = "cascade" THEN "walk" ELSE "root")
    /\ audit' = audit \cup {<<c.id, "delete">>, <<c.id, c.op>>}
    /\ todo' = [todo EXCEPT ![h] = {c.id}]
    /\ UNCHANGED <<disk, lock, req, copy, seen, chain, bound>>

Visit(h) ==
    /\ \E i \in todo[h] :
         LET found == {j \in live : mem[j].sup = i} \ (seen[h] \cup {i}) IN
         /\ seen' = [seen EXCEPT ![h] = @ \cup {i}]
         /\ chain' = [chain EXCEPT ![h] = @ \cup found]
         /\ todo' = [todo EXCEPT ![h] = (@ \ {i}) \cup found]
    /\ Step(h, "walk", IF todo'[h] = {} THEN "member" ELSE "walk")
    /\ UNCHANGED <<disk, lock, req, copy, audit, bound>>

\* cascade_protected: a protected or missing member is skipped.
ReadMember(h) ==
    /\ \E i \in chain[h] :
         /\ chain' = [chain EXCEPT ![h] = @ \ {i}]
         /\ todo' = [todo EXCEPT ![h] = {i}]
         /\ Step(h, "member",
                 IF TierOf(i) \in Protected \cup {"gone"} THEN "member" ELSE "kill")
    /\ UNCHANGED <<disk, lock, req, copy, seen, audit, bound>>

DeleteMember(h) ==
    /\ Step(h, "kill", "member")
    /\ live' = live \ todo[h]
    /\ UNCHANGED <<mem, born, lock, req, copy, walk, audit, bound>>

ChainDone(h) ==
    /\ chain[h] = {}
    /\ Step(h, "member", "root")
    /\ UNCHANGED <<disk, lock, req, copy, walk, audit, bound>>

DeleteRoot(h) ==
    /\ Step(h, "root", "idle") /\ Forget(h)
    /\ live' = live \ {req[h].id}
    /\ UNCHANGED <<mem, born, lock, audit, bound>>

----------------------------------------------------------------------------
\* The locks and the judgements in flight live in the process.
Restart ==
    /\ restarts < MaxRestarts /\ restarts' = restarts + 1
    /\ pc' = [h \in Handlers |-> "idle"]
    /\ lock' = [i \in Ids |-> Nobody]
    /\ req' = [h \in Handlers |-> NoCall]
    /\ copy' = [h \in Handlers |-> NoPayload]
    /\ todo' = [h \in Handlers |-> {}]
    /\ seen' = [h \in Handlers |-> {}]
    /\ chain' = [h \in Handlers |-> {}]
    /\ UNCHANGED <<disk, audit, calls>>

Handle(h) ==
    \/ Acquire(h) \/ Insert(h) \/ Duplicate(h)
    \/ PutRead(h) \/ PutMissing(h) \/ PutWrite(h)
    \/ TierRefuse(h) \/ TierIntent(h) \/ TierSet(h) \/ TierSetFails(h)
    \/ Stamp(h) \/ JudgeAdmits(h) \/ JudgeFlags(h)
    \/ SupersedeRefuse(h) \/ SupersedeRead(h) \/ SupersedeWrite(h)
    \/ ClearRefuse(h) \/ Unsupersede(h)
    \/ DeleteIntent(h) \/ Visit(h) \/ ReadMember(h) \/ DeleteMember(h)
    \/ ChainDone(h) \/ DeleteRoot(h)

Request(h) ==
    \/ Add(h) \/ Put(h) \/ Promote(h) \/ Consolidate(h) \/ Retier(h)
    \/ Sweep(h) \/ Retire(h) \/ Supersede(h) \/ Clear(h) \/ Delete(h)

Next == (\E h \in Handlers : Request(h) \/ Handle(h)) \/ Restart

Spec == Init /\ [][Next]_vars /\ \A h \in Handlers : WF_vars(Handle(h))

----------------------------------------------------------------------------
(* A record in a protected tier is never hidden behind a winner: the        *)
(* promotion and the supersede door check each other's write under the lock *)
(* (update_tier, promotion_refusal, supersession.precheck).                 *)
ProtectedNeverSuperseded ==
    \A i \in Ids : mem[i].tier \in Protected => mem[i].sup = Nobody

(* No set of records is superseded only by its own members, so every hidden *)
(* record leads to one that is not superseded (_supersede_locks, precheck). *)
NoSupersessionCycle ==
    \A S \in (SUBSET Ids) \ {{}} : \E i \in S : mem[i].sup \notin S

(* Write-ahead audit: no record has a tier, is superseded or is gone without *)
(* a line in the ledger that was appended before (update_tier, run_supersede, *)
(* delete; a member of a cascade is covered by the line of its root).        *)
NothingUnaudited ==
    \A i \in born :
       /\ <<i, mem[i].tier>> \in audit
       /\ mem[i].sup # Nobody => <<i, "supersede">> \in audit
       /\ i \notin live => \/ <<i, "delete">> \in audit
                           \/ \E r \in Ids : <<r, "cascade">> \in audit

(* No step takes a record out of a protected tier unless the operator signed *)
(* that demotion, whatever was promoted between the gate and the lock        *)
(* (update_tier's second read, _TierRaced).                                  *)
UnsignedNeverDemotes ==
    [][\A i \in Ids : LeavesProtection(mem[i].tier, mem'[i].tier) =>
          \/ i \notin born
          \/ \E h \in Handlers : /\ req[h].op = "tier" /\ req[h].id = i
                                 /\ req[h].by = "operator"]_vars

\* h cannot go on before g has released a lock.
WaitsFor(h, g) == pc[h] = "wait" /\ \E i \in Needs(h) \ Holds(h) : lock[i] = g

(* No handlers wait for each other in a circle, of any length: "deadlock-    *)
(* free against single-lock holders", and against other pairs               *)
(* (_supersede_locks, in sorted key order).                                 *)
NobodyWaitsInACircle ==
    \A H \in (SUBSET Handlers) \ {{}} : \E h \in H : \A g \in H : ~WaitsFor(h, g)

(* Each route takes effect on the collection in one step, on the payload as *)
(* it is at that step (the per-record lock of _mid_write_lock).             *)
ImplementsStore == Store!Spec

(* Every request ends: two records' locks are taken in one order.           *)
EveryCallEnds == \A h \in Handlers : pc[h] # "idle" ~> pc[h] = "idle"
=============================================================================
