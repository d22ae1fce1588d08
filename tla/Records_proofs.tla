--------------------------- MODULE Records_proofs ---------------------------
(***************************************************************************)
(* Proofs about Records, for every set of ids, texts and threads, every    *)
(* collection at the start, and all bounds.                                *)
(*                                                                         *)
(* What makes the properties hold is that a record whose lock a handler    *)
(* holds is changed by nobody else, except that it may be deleted: what    *)
(* the handler read under the lock is still so when it writes.  HandlerInv *)
(* says for each step of a handler what it has read; a step of another     *)
(* handler keeps it because it has no more than an Effect outside its own  *)
(* locks.                                                                  *)
(***************************************************************************)
EXTENDS Records, FiniteSetTheorems, WellFoundedInduction, TLAPS

USE DEF disk, walk, bound, Step

-----------------------------------------------------------------------------
(* The inductive invariant. *)

Superseders == {"supersede", "annotate"}
Stampers    == {"meta", "stamp"}

\* What the request in hand can name.
RequestInv(h) ==
    /\ pc[h] = "probe" => req[h].op = "add" /\ req[h].to \in Tiers
    /\ req[h].op = "tier" => req[h].to \in Tiers
    /\ req[h].op \in Superseders => req[h].to \in Ids /\ req[h].to # req[h].id
    /\ req[h].op \in Stampers => req[h].to \in Ids \cup {"retired"}

\* After the last lock is taken the handler holds all it needs.
LockInv(h) == pc[h] \in {"locked", "read"} => \A i \in Needs(h) : lock[i] = h

\* The record of a put was read under its lock.
PutInv(h) == pc[h] = "read" /\ req[h].op = "put" =>
    req[h].id \in born /\ copy[h] = mem[req[h].id]

\* What the tier route checked still holds, and its intent is on file.
TierInv(h) == pc[h] = "read" /\ req[h].op = "tier" =>
    /\ <<req[h].id, req[h].to>> \in audit
    /\ req[h].to \in Protected /\ req[h].id \in live => mem[req[h].id].sup = Nobody
    /\ req[h].to # "canonical" /\ req[h].by # "operator" =>
          req[h].id \in born /\ ~LeavesProtection(mem[req[h].id].tier, req[h].to)

\* So does what the supersede door checked, of both records.
SupersedeInv(h) == pc[h] = "read" /\ req[h].op \in Superseders =>
    /\ {req[h].id, req[h].to} \subseteq born
    /\ mem[req[h].id].tier \notin Protected
    /\ mem[req[h].id].sup = Nobody /\ mem[req[h].to].sup = Nobody
    /\ copy[h] = mem[req[h].id]
    /\ <<req[h].id, req[h].op>> \in audit

\* A delete walks and removes with its line on file, one record at a time.
DeleteInv(h) ==
    /\ pc[h] = "intent" => req[h].op \in {"delete", "cascade"}
    /\ pc[h] \in {"walk", "member", "kill"} =>
          <<req[h].id, "delete">> \in audit /\ <<req[h].id, "cascade">> \in audit
    /\ pc[h] = "root" => <<req[h].id, "delete">> \in audit
    /\ pc[h] = "kill" => \E i \in Ids : todo[h] = {i}

HandlerInv(h) == /\ RequestInv(h) /\ LockInv(h) /\ PutInv(h) /\ TierInv(h)
                 /\ SupersedeInv(h) /\ DeleteInv(h)

IInv == /\ TypeOK
        /\ \A h \in Handlers : HandlerInv(h)
        /\ ProtectedNeverSuperseded
        /\ NoSupersessionCycle
        /\ NothingUnaudited

-----------------------------------------------------------------------------
(* The domains. *)

Shapes ==
    /\ live \subseteq born /\ born \subseteq Ids
    /\ DOMAIN mem = Ids /\ mem = [i \in Ids |-> mem[i]]
    /\ DOMAIN lock = Ids /\ lock = [i \in Ids |-> lock[i]]
    /\ DOMAIN pc = Handlers /\ DOMAIN req = Handlers /\ DOMAIN copy = Handlers
    /\ DOMAIN todo = Handlers /\ DOMAIN seen = Handlers /\ DOMAIN chain = Handlers
    /\ pc = [h \in Handlers |-> pc[h]]
    /\ req = [h \in Handlers |-> req[h]]
    /\ copy = [h \in Handlers |-> copy[h]]
    /\ todo = [h \in Handlers |-> todo[h]]
    /\ seen = [h \in Handlers |-> seen[h]]
    /\ chain = [h \in Handlers |-> chain[h]]
    /\ \A i \in Ids : mem[i] \in Payload
    /\ \A h \in Handlers : /\ req[h] \in Calls /\ copy[h] \in Payload
                           /\ req[h].id \in Ids
                           /\ todo[h] \subseteq Ids /\ chain[h] \subseteq Ids

LEMMA ShapesOK == TypeOK => Shapes
  BY DEF TypeOK, Shapes, Calls

\* A record of the payload's form, and what the constants give.
LEMMA FreshType ==
    ASSUME NEW x \in Texts, NEW t \in Tiers
    PROVE  Fresh(x, t) \in Payload
  BY DEF Fresh, Payload, Tiers, Store!Fresh, Store!Payload, Store!Tiers

LEMMA NoCallType == NoCall \in Calls /\ NoPayload \in Payload
<1>1. (CHOOSE i \in Ids : TRUE) \in Ids
    BY RecordsAssumption
<1>2. NoCall \in Calls
    BY <1>1, RecordsAssumption DEF NoCall, Calls
<1>3. "evidence" \in Tiers /\ SomeText \in Texts
    BY RecordsAssumption DEF Tiers, Store!Tiers
<1> QED
    BY <1>2, <1>3, FreshType DEF NoPayload

\* The ways a handler changes one part of a payload.
LEMMA PayloadTypes ==
    ASSUME NEW p \in Payload
    PROVE  /\ \A x \in Texts : Carryover(p, x) \in Payload
           /\ \A t \in Tiers : [p EXCEPT !.tier = t] \in Payload
           /\ \A c \in Calls : c.to \in Ids \cup {"retired"} => StampOf(c, p) \in Payload
           /\ \A w \in Ids \cup {Nobody} : [p EXCEPT !.sup = w] \in Payload
           /\ \A S \in SUBSET Ids : [p EXCEPT !.notes = S] \in Payload
           /\ [p EXCEPT !.sup = Nobody, !.notes = {}] \in Payload
<1> USE DEF Payload, Store!Payload
<1>1. \A x \in Texts : Carryover(p, x) \in Payload
    BY DEF Carryover
<1>2. \A t \in Tiers : [p EXCEPT !.tier = t] \in Payload
    BY DEF Tiers
<1>3. ASSUME NEW c \in Calls, c.to \in Ids \cup {"retired"}
      PROVE  StampOf(c, p) \in Payload
    <2>1. c.text \in Texts
        BY DEF Calls
    <2>2. CASE c.to = "retired"
        BY <2>2 DEF StampOf
    <2>3. CASE c.to # "retired"
        BY <1>3, <2>1, <2>3 DEF StampOf
    <2> QED
        BY <2>2, <2>3
<1>4. \A w \in Ids \cup {Nobody} : [p EXCEPT !.sup = w] \in Payload
    OBVIOUS
<1>5. \A S \in SUBSET Ids : [p EXCEPT !.notes = S] \in Payload
    OBVIOUS
<1>6. [p EXCEPT !.sup = Nobody, !.notes = {}] \in Payload
    OBVIOUS
<1> QED
    BY <1>1, <1>2, <1>3, <1>4, <1>5, <1>6

\* What the same changes leave alone.
LEMMA PayloadParts ==
    ASSUME NEW p \in Payload
    PROVE  /\ \A x \in Texts : /\ Carryover(p, x).tier = p.tier
                               /\ Carryover(p, x).sup = p.sup
           /\ \A t \in Tiers : /\ [p EXCEPT !.tier = t].tier = t
                               /\ [p EXCEPT !.tier = t].sup = p.sup
           /\ \A c \in Calls : /\ StampOf(c, p).tier = p.tier
                               /\ StampOf(c, p).sup = p.sup
           /\ \A w \in Ids \cup {Nobody} : /\ [p EXCEPT !.sup = w].tier = p.tier
                                           /\ [p EXCEPT !.sup = w].sup = w
           /\ \A S \in SUBSET Ids : /\ [p EXCEPT !.notes = S].tier = p.tier
                                    /\ [p EXCEPT !.notes = S].sup = p.sup
           /\ [p EXCEPT !.sup = Nobody, !.notes = {}].tier = p.tier
           /\ [p EXCEPT !.sup = Nobody, !.notes = {}].sup = Nobody
<1> USE DEF Payload, Store!Payload
<1>1. \A x \in Texts : Carryover(p, x).tier = p.tier /\ Carryover(p, x).sup = p.sup
    BY DEF Carryover
<1>2. \A c \in Calls : StampOf(c, p).tier = p.tier /\ StampOf(c, p).sup = p.sup
    <2> TAKE c \in Calls
    <2>1. CASE c.to = "retired"
        BY <2>1 DEF StampOf
    <2>2. CASE c.to # "retired"
        BY <2>2 DEF StampOf
    <2> QED
        BY <2>1, <2>2
<1> QED
    BY <1>1, <1>2

-----------------------------------------------------------------------------
(* The steps that leave the collection alone. *)

Quiet(h) ==
    \/ Request(h) \/ Acquire(h) \/ Duplicate(h) \/ PutRead(h) \/ PutMissing(h)
    \/ TierRefuse(h) \/ TierIntent(h) \/ TierSetFails(h)
    \/ JudgeAdmits(h) \/ JudgeFlags(h)
    \/ SupersedeRefuse(h) \/ SupersedeRead(h) \/ ClearRefuse(h)
    \/ DeleteIntent(h) \/ Visit(h) \/ ReadMember(h) \/ ChainDone(h)

\* The steps that write one record under its lock.
Rewrites(h) == PutWrite(h) \/ TierSet(h) \/ Stamp(h) \/ SupersedeWrite(h) \/ Unsupersede(h)

\* The steps that remove one.
Removes(h) == DeleteMember(h) \/ DeleteRoot(h)

LEMMA HandleSplit ==
    ASSUME NEW h \in Handlers, Request(h) \/ Handle(h)
    PROVE  Quiet(h) \/ Rewrites(h) \/ Removes(h) \/ Insert(h)
  BY DEF Handle, Quiet, Rewrites, Removes

\* A request that arrives names what its route can name.
Arrival(h, to, c) == /\ Arrive(h, to, c) /\ c \in Calls
                     /\ to = "probe" => c.op = "add" /\ c.to \in Tiers
                     /\ c.op = "tier" => c.to \in Tiers
                     /\ c.op \in Superseders => c.to \in Ids /\ c.to # c.id
                     /\ c.op \in Stampers => c.to \in Ids \cup {"retired"}
                     /\ to = "intent" => c.op \in {"delete", "cascade"}

LEMMA RequestStep ==
    ASSUME NEW h \in Handlers, Request(h), live \subseteq Ids, \A i \in Ids : mem[i].text \in Texts
    PROVE  \E to \in {"probe", "wait", "intent"}, c \in Calls : Arrival(h, to, c)
<1> USE DEF Calls, Tiers, Store!Tiers, Superseders, Stampers, Protected, Store!Protected
<1> DEFINE n == NoCall
<1>0. n \in Calls /\ n.op = "add"
    BY NoCallType DEF NoCall
<1> HIDE DEF n
<1>1. \A t : Writer(t) \in {"api", "operator", "consolidator"}
    BY DEF Writer
<1>2. CASE Add(h)
    <2>1. PICK x \in Texts, t \in {"evidence", "insight"} :
              Arrive(h, "probe", [n EXCEPT !.by = Writer(t), !.to = t, !.text = x])
        BY <1>2 DEF Add, n
    <2> DEFINE c == [n EXCEPT !.by = Writer(t), !.to = t, !.text = x]
    <2>2. c \in Calls /\ c.op = "add" /\ c.to = t
        BY <1>0, <1>1
    <2> QED
        BY <2>1, <2>2 DEF Arrival
<1>3. CASE Put(h)
    <2>1. PICK i \in Ids, x \in Texts :
              Arrive(h, "wait", [n EXCEPT !.op = "put", !.by = Writer(TierOf(i)),
                                          !.id = i, !.text = x])
        BY <1>3 DEF Put, n
    <2> DEFINE c == [n EXCEPT !.op = "put", !.by = Writer(TierOf(i)), !.id = i, !.text = x]
    <2>2. c \in Calls /\ c.op = "put"
        BY <1>0, <1>1
    <2> QED
        BY <2>1, <2>2 DEF Arrival
<1>4. CASE Promote(h)
    <2>1. PICK i \in Ids :
              Arrive(h, "wait", [n EXCEPT !.op = "tier", !.by = "operator",
                                          !.id = i, !.to = "canonical"])
        BY <1>4 DEF Promote, n
    <2> DEFINE c == [n EXCEPT !.op = "tier", !.by = "operator", !.id = i, !.to = "canonical"]
    <2>2. c \in Calls /\ c.op = "tier" /\ c.to = "canonical"
        BY <1>0
    <2> QED
        BY <2>1, <2>2 DEF Arrival
<1>5. CASE Consolidate(h)
    <2>1. PICK i \in live :
              Arrive(h, "wait", [n EXCEPT !.op = "tier", !.by = "consolidator",
                                          !.id = i, !.to = "insight"])
        BY <1>5 DEF Consolidate, n
    <2> DEFINE c == [n EXCEPT !.op = "tier", !.by = "consolidator", !.id = i, !.to = "insight"]
    <2>2. c \in Calls /\ c.op = "tier" /\ c.to = "insight"
        BY <1>0
    <2> QED
        BY <2>1, <2>2 DEF Arrival
<1>6. CASE Retier(h)
    <2>1. PICK i \in live, t \in Tiers \ Protected :
              Arrive(h, "wait", [n EXCEPT !.op = "tier", !.id = i, !.to = t,
                  !.by = IF LeavesProtection(TierOf(i), t) THEN "operator" ELSE "api"])
        BY <1>6 DEF Retier, n
    <2> DEFINE c == [n EXCEPT !.op = "tier", !.id = i, !.to = t,
                     !.by = IF LeavesProtection(TierOf(i), t) THEN "operator" ELSE "api"]
    <2>2. c \in Calls /\ c.op = "tier" /\ c.to = t
        BY <1>0
    <2> QED
        BY <2>1, <2>2 DEF Arrival
<1>7. CASE Sweep(h)
    <2>1. PICK i \in live, w \in Ids :
              Arrive(h, "wait", [n EXCEPT !.op = "meta", !.by = "sweep", !.id = i,
                                          !.to = w, !.text = mem[i].text])
        BY <1>7 DEF Sweep, n
    <2> DEFINE c == [n EXCEPT !.op = "meta", !.by = "sweep", !.id = i, !.to = w,
                              !.text = mem[i].text]
    <2>2. c \in Calls /\ c.op = "meta" /\ c.to = w
        BY <1>0
    <2> QED
        BY <2>1, <2>2 DEF Arrival
<1>8. CASE Retire(h)
    <2>1. PICK i \in live, by \in {"retirer", "decay"} :
              Arrive(h, "wait", [n EXCEPT !.op = "meta", !.by = by, !.id = i,
                                          !.to = "retired"])
        BY <1>8 DEF Retire, n
    <2> DEFINE c == [n EXCEPT !.op = "meta", !.by = by, !.id = i, !.to = "retired"]
    <2>2. c \in Calls /\ c.op = "meta" /\ c.to = "retired"
        BY <1>0
    <2> QED
        BY <2>1, <2>2 DEF Arrival
<1>9. CASE Supersede(h)
    <2>1. PICK i, w \in Ids, op \in {"supersede", "annotate"} :
              i # w /\ Arrive(h, "wait", [n EXCEPT !.op = op, !.id = i, !.to = w])
        BY <1>9 DEF Supersede, n
    <2> DEFINE c == [n EXCEPT !.op = op, !.id = i, !.to = w]
    <2>2. c \in Calls /\ c.op = op /\ c.to = w /\ c.id = i
        BY <1>0
    <2> QED
        BY <2>1, <2>2 DEF Arrival
<1>10. CASE Clear(h)
    <2>1. PICK i \in Ids : Arrive(h, "wait", [n EXCEPT !.op = "clear", !.id = i])
        BY <1>10 DEF Clear, n
    <2> DEFINE c == [n EXCEPT !.op = "clear", !.id = i]
    <2>2. c \in Calls /\ c.op = "clear"
        BY <1>0
    <2> QED
        BY <2>1, <2>2 DEF Arrival
<1>11. CASE Delete(h)
    <2>1. PICK i \in Ids, op \in {"delete", "cascade"} :
              Arrive(h, "intent", [n EXCEPT !.op = op, !.by = Writer(TierOf(i)), !.id = i])
        BY <1>11 DEF Delete, n
    <2> DEFINE c == [n EXCEPT !.op = op, !.by = Writer(TierOf(i)), !.id = i]
    <2>2. c \in Calls /\ c.op = op
        BY <1>0, <1>1
    <2> QED
        BY <2>1, <2>2 DEF Arrival
<1> QED
    BY <1>2, <1>3, <1>4, <1>5, <1>6, <1>7, <1>8, <1>9, <1>10, <1>11 DEF Request

-----------------------------------------------------------------------------
(* The steps that write one record, in terms of the payload they write. *)

\* Handler h, under the lock of its record, gives it the payload p.
Touch(h, p) ==
    /\ p \in Payload
    /\ req[h].id \in born /\ lock[req[h].id] = h
    /\ mem' = [mem EXCEPT ![req[h].id] = p]
    /\ live \subseteq live' /\ live' \subseteq live \cup {req[h].id}
    /\ UNCHANGED <<born, audit>>

Still == UNCHANGED <<live, mem, born, audit>>

\* The tier and the winner stay, or the winner is cleared.
KeepsRank(h, p) == /\ p.tier = mem[req[h].id].tier
                   /\ p.sup \in {mem[req[h].id].sup, Nobody}

\* The tier is the one that was asked for, checked and announced.
ChangesTier(h, p) ==
    /\ req[h].op = "tier"
    /\ p.sup = mem[req[h].id].sup
    /\ p.tier \in Protected => p.sup = Nobody
    /\ <<req[h].id, p.tier>> \in audit
    /\ LeavesProtection(mem[req[h].id].tier, p.tier) => req[h].by = "operator"

\* The record goes behind a winner that is behind nobody.
GoesBehind(h, p) ==
    /\ p.tier = mem[req[h].id].tier /\ p.tier \notin Protected
    /\ mem[req[h].id].sup = Nobody
    /\ p.sup \in Ids /\ p.sup # req[h].id /\ mem[p.sup].sup = Nobody
    /\ <<req[h].id, "supersede">> \in audit

Allowed(h, p) == KeepsRank(h, p) \/ ChangesTier(h, p) \/ GoesBehind(h, p)

LEMMA PutWriteStep ==
    ASSUME Shapes, NEW h \in Handlers, HandlerInv(h), PutWrite(h)
    PROVE  LET p == Carryover(mem[req[h].id], req[h].text)
           IN  Touch(h, p) /\ KeepsRank(h, p)
<1>1. /\ req[h].op = "put" /\ pc[h] = "read" /\ copy[h] = mem[req[h].id]
      /\ req[h].id \in born /\ req[h].id \in Ids /\ lock[req[h].id] = h
    BY DEF PutWrite, HandlerInv, PutInv, LockInv, Needs, Shapes
<1>2. req[h].text \in Texts /\ mem[req[h].id] \in Payload
    BY <1>1 DEF Shapes, Calls
<1>3. Carryover(mem[req[h].id], req[h].text) \in Payload
    BY <1>2, PayloadTypes
<1>4. KeepsRank(h, Carryover(mem[req[h].id], req[h].text))
    BY <1>2, PayloadParts DEF KeepsRank
<1>5. /\ mem' = [mem EXCEPT ![req[h].id] = Carryover(mem[req[h].id], req[h].text)]
      /\ live' = live \cup {req[h].id} /\ UNCHANGED <<born, audit>>
    BY <1>1 DEF PutWrite
<1> QED
    BY <1>1, <1>3, <1>4, <1>5 DEF Touch

LEMMA TierSetStep ==
    ASSUME Shapes, NEW h \in Handlers, HandlerInv(h), TierSet(h)
    PROVE  LET p == [mem[req[h].id] EXCEPT !.tier = req[h].to]
           IN  \/ Still
               \/ /\ Touch(h, p) /\ ChangesTier(h, p) /\ UNCHANGED live
                  /\ req[h].to \in Tiers /\ req[h].id \in live
                  /\ p.sup = mem[req[h].id].sup /\ p.tier = req[h].to
<1>1. /\ req[h].op = "tier" /\ pc[h] = "read" /\ req[h].id \in Ids
      /\ UNCHANGED <<born, audit, live>>
    BY DEF TierSet, Finish, Shapes
<1>2. req[h].to \in Tiers
    BY <1>1 DEF HandlerInv, RequestInv
<1>3. CASE req[h].id \notin live
    BY <1>1, <1>3 DEF TierSet, Write, Still
<1>4. CASE req[h].id \in live
    <2> DEFINE p == [mem[req[h].id] EXCEPT !.tier = req[h].to]
    <2>1. mem[req[h].id] \in Payload
        BY <1>1 DEF Shapes
    <2>2. p \in Payload /\ p.tier = req[h].to /\ p.sup = mem[req[h].id].sup
        BY <1>2, <2>1, PayloadTypes, PayloadParts
    <2>3. lock[req[h].id] = h /\ req[h].id \in born
        BY <1>1, <1>4 DEF HandlerInv, LockInv, Needs, Shapes
    <2>4. mem' = [mem EXCEPT ![req[h].id] = p]
        BY <1>4 DEF TierSet, Write
    <2>5. Touch(h, p)
        BY <1>1, <2>2, <2>3, <2>4 DEF Touch
    <2>6. <<req[h].id, req[h].to>> \in audit
        BY <1>1 DEF HandlerInv, TierInv
    <2>7. req[h].to \in Protected => mem[req[h].id].sup = Nobody
        BY <1>1, <1>4 DEF HandlerInv, TierInv
    <2>8. LeavesProtection(mem[req[h].id].tier, req[h].to) => req[h].by = "operator"
        BY <1>1 DEF HandlerInv, TierInv, LeavesProtection
    <2>9. ChangesTier(h, p)
        BY <1>1, <2>2, <2>6, <2>7, <2>8 DEF ChangesTier
    <2> QED
        BY <1>1, <1>2, <1>4, <2>2, <2>5, <2>9
<1> QED
    BY <1>3, <1>4

LEMMA StampStep ==
    ASSUME Shapes, NEW h \in Handlers, HandlerInv(h), Stamp(h)
    PROVE  LET p == StampOf(req[h], mem[req[h].id])
           IN  \/ Still
               \/ /\ Touch(h, p) /\ KeepsRank(h, p) /\ UNCHANGED live
                  /\ req[h].id \in live /\ req[h].to \in Ids \cup {"retired"}
<1>1. /\ req[h].op \in Stampers /\ pc[h] = "locked" /\ req[h].id \in Ids
      /\ UNCHANGED <<born, audit, live>> /\ req[h] \in Calls
    BY DEF Stamp, Finish, Shapes, Stampers
<1>2. req[h].to \in Ids \cup {"retired"}
    BY <1>1 DEF HandlerInv, RequestInv
<1>3. CASE req[h].id \notin live
    BY <1>1, <1>3 DEF Stamp, Write, Still
<1>4. CASE req[h].id \in live
    <2> DEFINE p == StampOf(req[h], mem[req[h].id])
    <2>1. mem[req[h].id] \in Payload
        BY <1>1 DEF Shapes
    <2>2. p \in Payload
        BY <1>1, <1>2, <2>1, PayloadTypes
    <2>3. KeepsRank(h, p)
        BY <1>1, <2>1, PayloadParts DEF KeepsRank
    <2>4. lock[req[h].id] = h /\ req[h].id \in born
        BY <1>1, <1>4 DEF HandlerInv, LockInv, Needs, Shapes
    <2>5. mem' = [mem EXCEPT ![req[h].id] = p]
        BY <1>4 DEF Stamp, Write
    <2> QED
        BY <1>1, <1>2, <1>4, <2>2, <2>3, <2>4, <2>5 DEF Touch
<1> QED
    BY <1>3, <1>4

LEMMA SupersedeWriteStep ==
    ASSUME Shapes, NEW h \in Handlers, HandlerInv(h), SupersedeWrite(h)
    PROVE  \/ Still
           \/ /\ req[h].op = "supersede" /\ UNCHANGED live /\ req[h].id \in live
              /\ Touch(h, [mem[req[h].id] EXCEPT !.sup = req[h].to])
              /\ GoesBehind(h, [mem[req[h].id] EXCEPT !.sup = req[h].to])
              /\ req[h].to \in Ids /\ req[h].to # req[h].id /\ mem[req[h].to].sup = Nobody
              /\ mem[req[h].id].sup = Nobody /\ mem[req[h].id].tier \notin Protected
           \/ /\ req[h].op = "annotate" /\ UNCHANGED live /\ req[h].id \in live
              /\ Touch(h, [mem[req[h].id] EXCEPT !.notes = @ \cup {req[h].to}])
              /\ KeepsRank(h, [mem[req[h].id] EXCEPT !.notes = @ \cup {req[h].to}])
              /\ req[h].to \in Ids /\ req[h].to # req[h].id /\ mem[req[h].to].sup = Nobody
              /\ mem[req[h].id].sup = Nobody /\ mem[req[h].id].tier \notin Protected
<1>1. /\ req[h].op \in Superseders /\ pc[h] = "read" /\ req[h].id \in Ids
      /\ UNCHANGED <<born, audit, live>> /\ req[h] \in Calls
    BY DEF SupersedeWrite, Finish, Shapes, Superseders
<1>2. req[h].to \in Ids /\ req[h].to # req[h].id
    BY <1>1 DEF HandlerInv, RequestInv
<1>3. /\ mem[req[h].id].tier \notin Protected
      /\ mem[req[h].id].sup = Nobody /\ mem[req[h].to].sup = Nobody
      /\ copy[h] = mem[req[h].id]
      /\ <<req[h].id, req[h].op>> \in audit
    BY <1>1 DEF HandlerInv, SupersedeInv
<1>4. CASE req[h].id \notin live
    BY <1>1, <1>4 DEF SupersedeWrite, Write, Still
<1>5. mem[req[h].id] \in Payload
    BY <1>1 DEF Shapes
<1>6. lock[req[h].id] = h
    BY <1>1 DEF HandlerInv, LockInv, Needs
<1>7. CASE req[h].id \in live /\ req[h].op = "supersede"
    <2> DEFINE p == [mem[req[h].id] EXCEPT !.sup = req[h].to]
    <2>1. p \in Payload /\ p.tier = mem[req[h].id].tier /\ p.sup = req[h].to
        BY <1>2, <1>5, PayloadTypes, PayloadParts
    <2>2. mem' = [mem EXCEPT ![req[h].id] = p]
        BY <1>7 DEF SupersedeWrite, Write
    <2>3. Touch(h, p)
        BY <1>1, <1>6, <1>7, <2>1, <2>2 DEF Touch, Shapes
    <2>4. GoesBehind(h, p)
        BY <1>2, <1>3, <1>7, <2>1 DEF GoesBehind
    <2> QED
        BY <1>1, <1>2, <1>3, <1>7, <2>3, <2>4
<1>8. CASE req[h].id \in live /\ req[h].op = "annotate"
    <2> DEFINE S == mem[req[h].id].notes \cup {req[h].to}
               p == [mem[req[h].id] EXCEPT !.notes = S]
    <2>1. S \in SUBSET Ids
        BY <1>2, <1>5 DEF Payload, Store!Payload
    <2>2. p \in Payload /\ p.tier = mem[req[h].id].tier /\ p.sup = mem[req[h].id].sup
        BY <2>1, <1>5, PayloadTypes, PayloadParts
    <2>3. copy[h].notes \cup {req[h].to} = S
        BY <1>3
    <2>4. mem' = [mem EXCEPT ![req[h].id] = p]
        BY <1>8, <2>3 DEF SupersedeWrite, Write
    <2>5. Touch(h, p)
        BY <1>1, <1>6, <1>8, <2>2, <2>4 DEF Touch, Shapes
    <2>6. KeepsRank(h, p)
        BY <2>2 DEF KeepsRank
    <2>7. p = [mem[req[h].id] EXCEPT !.notes = @ \cup {req[h].to}]
        OBVIOUS
    <2> QED
        BY <1>1, <1>2, <1>3, <1>8, <2>5, <2>6, <2>7
<1> QED
    BY <1>1, <1>4, <1>7, <1>8 DEF Superseders

LEMMA UnsupersedeStep ==
    ASSUME Shapes, NEW h \in Handlers, HandlerInv(h), Unsupersede(h)
    PROVE  /\ req[h].id \in live /\ UNCHANGED live
           /\ mem[req[h].id].tier \notin Protected
           /\ \E p \in {[mem[req[h].id] EXCEPT !.sup = Nobody],
                        [mem[req[h].id] EXCEPT !.notes = {}],
                        [mem[req[h].id] EXCEPT !.sup = Nobody, !.notes = {}]} :
                 Touch(h, p) /\ KeepsRank(h, p)
<1>1. /\ req[h].op = "clear" /\ pc[h] = "locked" /\ req[h].id \in Ids
      /\ UNCHANGED <<born, audit, live>>
    BY DEF Unsupersede, Finish, Shapes
<1>2. req[h].id \in live /\ mem[req[h].id].tier \notin Protected
    BY DEF Unsupersede, TierOf
<1>3. mem[req[h].id] \in Payload
    BY <1>1 DEF Shapes
<1>4. lock[req[h].id] = h /\ req[h].id \in born
    BY <1>1, <1>2 DEF HandlerInv, LockInv, Needs, Shapes
<1>5. PICK p \in {[mem[req[h].id] EXCEPT !.sup = Nobody],
                  [mem[req[h].id] EXCEPT !.notes = {}],
                  [mem[req[h].id] EXCEPT !.sup = Nobody, !.notes = {}]} :
          mem' = [mem EXCEPT ![req[h].id] = p]
    BY <1>2 DEF Unsupersede, Write
<1> DEFINE r == mem[req[h].id]
<1>a. Nobody \in Ids \cup {Nobody} /\ {} \in SUBSET Ids
    OBVIOUS
<1>b. /\ [r EXCEPT !.sup = Nobody] \in Payload
      /\ [r EXCEPT !.notes = {}] \in Payload
      /\ [r EXCEPT !.sup = Nobody, !.notes = {}] \in Payload
    BY <1>3, <1>a, PayloadTypes
<1>c. /\ [r EXCEPT !.sup = Nobody].tier = r.tier /\ [r EXCEPT !.sup = Nobody].sup = Nobody
      /\ [r EXCEPT !.notes = {}].tier = r.tier /\ [r EXCEPT !.notes = {}].sup = r.sup
      /\ [r EXCEPT !.sup = Nobody, !.notes = {}].tier = r.tier
      /\ [r EXCEPT !.sup = Nobody, !.notes = {}].sup = Nobody
    BY <1>3, <1>a, PayloadParts
<1>6. p \in Payload
    BY <1>5, <1>b
<1>7. KeepsRank(h, p)
    BY <1>5, <1>c DEF KeepsRank
<1>8. Touch(h, p)
    BY <1>1, <1>4, <1>5, <1>6 DEF Touch
<1> QED
    BY <1>1, <1>2, <1>5, <1>7, <1>8

\* Every one of them writes what its handler may write, or nothing.
LEMMA RewriteStep ==
    ASSUME Shapes, NEW h \in Handlers, HandlerInv(h), Rewrites(h)
    PROVE  Still \/ \E p \in Payload : Touch(h, p) /\ Allowed(h, p)
<1>1. CASE PutWrite(h)
    BY <1>1, PutWriteStep DEF Allowed, Touch
<1>2. CASE TierSet(h)
    BY <1>2, TierSetStep DEF Allowed, Touch
<1>3. CASE Stamp(h)
    BY <1>3, StampStep DEF Allowed, Touch
<1>4. CASE SupersedeWrite(h)
    BY <1>4, SupersedeWriteStep DEF Allowed, Touch
<1>5. CASE Unsupersede(h)
    BY <1>5, UnsupersedeStep DEF Allowed, Touch
<1> QED
    BY <1>1, <1>2, <1>3, <1>4, <1>5 DEF Rewrites

\* The others: a record is added under a new id, one is removed, or none changes.
LEMMA InsertStep ==
    ASSUME Shapes, NEW h \in Handlers, HandlerInv(h), Insert(h)
    PROVE  \E i \in Ids \ born :
              /\ req[h].text \in Texts /\ req[h].to \in Tiers
              /\ born' = born \cup {i} /\ live' = live \cup {i}
              /\ mem' = [mem EXCEPT ![i] = Fresh(req[h].text, req[h].to)]
              /\ audit' = audit \cup {<<i, req[h].to>>}
              /\ req' = [req EXCEPT ![h].id = i]
<1>1. req[h].text \in Texts /\ req[h].to \in Tiers
    BY DEF Shapes, Calls, Insert, HandlerInv, RequestInv
<1> QED
    BY <1>1 DEF Insert

LEMMA RemoveStep ==
    ASSUME Shapes, NEW h \in Handlers, HandlerInv(h), Removes(h)
    PROVE  \E i \in Ids : /\ live' = live \ {i} /\ UNCHANGED <<mem, born, audit>>
                          /\ \/ <<i, "delete">> \in audit
                             \/ <<req[h].id, "cascade">> \in audit
<1>1. CASE DeleteMember(h)
    <2>1. pc[h] = "kill"
        BY <1>1 DEF DeleteMember
    <2>2. PICK i \in Ids : todo[h] = {i}
        BY <2>1 DEF HandlerInv, DeleteInv
    <2> QED
        BY <1>1, <2>1, <2>2 DEF DeleteMember, HandlerInv, DeleteInv
<1>2. CASE DeleteRoot(h)
    BY <1>2 DEF DeleteRoot, HandlerInv, DeleteInv, Shapes
<1> QED
    BY <1>1, <1>2 DEF Removes

LEMMA QuietStep ==
    ASSUME NEW h \in Handlers, Quiet(h), Shapes
    PROVE  UNCHANGED <<live, mem, born>> /\ audit \subseteq audit'
<1>1. CASE Request(h)
    <2>1. live \subseteq Ids /\ \A i \in Ids : mem[i].text \in Texts
        BY DEF Shapes, Payload, Store!Payload
    <2> QED
        BY <1>1, <2>1, RequestStep DEF Arrival, Arrive
<1>2. CASE Acquire(h) \/ Duplicate(h) \/ PutRead(h) \/ PutMissing(h)
    <2>1. Acquire(h) => UNCHANGED <<live, mem, born, audit>>
        BY DEF Acquire
    <2>2. Duplicate(h) => UNCHANGED <<live, mem, born, audit>>
        BY DEF Duplicate
    <2>3. PutRead(h) => UNCHANGED <<live, mem, born, audit>>
        BY DEF PutRead
    <2>4. PutMissing(h) => UNCHANGED <<live, mem, born, audit>>
        BY DEF PutMissing, Refuse
    <2> QED
        BY <1>2, <2>1, <2>2, <2>3, <2>4
<1>3. CASE TierRefuse(h) \/ TierIntent(h) \/ TierSetFails(h) \/ JudgeAdmits(h) \/ JudgeFlags(h)
    <2>1. TierRefuse(h) => UNCHANGED <<live, mem, born, audit>>
        BY DEF TierRefuse, Refuse
    <2>2. TierIntent(h) => UNCHANGED <<live, mem, born>> /\ audit \subseteq audit'
        BY DEF TierIntent
    <2>3. TierSetFails(h) => UNCHANGED <<live, mem, born, audit>>
        BY DEF TierSetFails, Finish
    <2>4. JudgeAdmits(h) => UNCHANGED <<live, mem, born, audit>>
        BY DEF JudgeAdmits
    <2>5. JudgeFlags(h) => UNCHANGED <<live, mem, born, audit>>
        BY DEF JudgeFlags
    <2> QED
        BY <1>3, <2>1, <2>2, <2>3, <2>4, <2>5
<1>4. CASE SupersedeRefuse(h) \/ SupersedeRead(h) \/ ClearRefuse(h)
    BY <1>4 DEF SupersedeRefuse, SupersedeRead, ClearRefuse, Refuse
<1>5. CASE DeleteIntent(h) \/ Visit(h) \/ ReadMember(h) \/ ChainDone(h)
    BY <1>5 DEF DeleteIntent, Visit, ReadMember, ChainDone
<1> QED
    BY <1>1, <1>2, <1>3, <1>4, <1>5 DEF Quiet

-----------------------------------------------------------------------------
(* Type correctness. *)

StoreTypes == /\ live \subseteq born /\ born \subseteq Ids
              /\ mem \in [Ids -> Payload]

LocalTypes == /\ req \in [Handlers -> Calls]
              /\ copy \in [Handlers -> Payload]
              /\ todo \in [Handlers -> SUBSET Ids]
              /\ seen \in [Handlers -> SUBSET Ids]
              /\ chain \in [Handlers -> SUBSET Ids]

ControlTypes == /\ lock \in [Ids -> Handlers \cup {Nobody}]
                /\ pc \in [Handlers -> Pcs]
                /\ calls \in 0..MaxCalls /\ restarts \in 0..MaxRestarts

AuditType == audit \subseteq
    Ids \X (Tiers \cup {"supersede", "annotate", "delete", "cascade"})

LEMMA TypeParts == TypeOK <=> StoreTypes /\ LocalTypes /\ ControlTypes /\ AuditType
  BY DEF TypeOK, StoreTypes, LocalTypes, ControlTypes, AuditType

LEMMA ForgetType ==
    ASSUME LocalTypes, NEW h \in Handlers, Forget(h)
    PROVE  LocalTypes'
<1>1. NoCall \in Calls /\ NoPayload \in Payload /\ {} \in SUBSET Ids
    BY NoCallType
<1> QED
    BY <1>1 DEF LocalTypes, Forget

LEMMA ReleaseType ==
    ASSUME ControlTypes, NEW h \in Handlers, Release(h)
    PROVE  lock' \in [Ids -> Handlers \cup {Nobody}]
  BY DEF ControlTypes, Release

LEMMA StoreStep ==
    ASSUME TypeOK, NEW h \in Handlers, HandlerInv(h), Request(h) \/ Handle(h)
    PROVE  StoreTypes'
<1>0. StoreTypes /\ Shapes
    BY TypeParts, ShapesOK
<1>1. CASE Quiet(h)
    BY <1>0, <1>1, QuietStep DEF StoreTypes
<1>2. CASE Rewrites(h)
    <2>1. CASE Still
        BY <1>0, <2>1 DEF StoreTypes, Still
    <2>2. ASSUME NEW p \in Payload, Touch(h, p)
          PROVE  StoreTypes'
        BY <1>0, <2>2 DEF StoreTypes, Touch
    <2> QED
        BY <1>0, <1>2, <2>1, <2>2, RewriteStep
<1>3. CASE Removes(h)
    BY <1>0, <1>3, RemoveStep DEF StoreTypes
<1>4. CASE Insert(h)
    <2>1. PICK i \in Ids \ born :
              /\ req[h].text \in Texts /\ req[h].to \in Tiers
              /\ born' = born \cup {i} /\ live' = live \cup {i}
              /\ mem' = [mem EXCEPT ![i] = Fresh(req[h].text, req[h].to)]
        BY <1>0, <1>4, InsertStep
    <2>2. Fresh(req[h].text, req[h].to) \in Payload
        BY <2>1, FreshType
    <2> QED
        BY <1>0, <2>1, <2>2 DEF StoreTypes
<1> QED
    BY <1>1, <1>2, <1>3, <1>4, HandleSplit

LEMMA CallEdits ==
    ASSUME NEW c \in Calls, NEW i \in Ids
    PROVE  [c EXCEPT !.id = i] \in Calls /\ [c EXCEPT !.op = "stamp", !.to = i] \in Calls
  BY DEF Calls

LEMMA LocalStep ==
    ASSUME TypeOK, NEW h \in Handlers, HandlerInv(h), Request(h) \/ Handle(h)
    PROVE  LocalTypes'
<1>0. LocalTypes /\ Shapes
    BY TypeParts, ShapesOK
<1>1. CASE Request(h)
    <2>1. live \subseteq Ids /\ \A i \in Ids : mem[i].text \in Texts
        BY <1>0 DEF Shapes, Payload, Store!Payload
    <2>2. PICK to \in {"probe", "wait", "intent"}, c \in Calls : Arrival(h, to, c)
        BY <1>1, <2>1, RequestStep
    <2> QED
        BY <1>0, <2>2 DEF LocalTypes, Arrival, Arrive
<1>2. CASE Forget(h)
    BY <1>0, <1>2, ForgetType
<1>3. CASE UNCHANGED <<req, copy, walk>>
    BY <1>0, <1>3 DEF LocalTypes
<1>4. CASE Insert(h)
    <2>1. PICK i \in Ids : req' = [req EXCEPT ![h].id = i]
        BY <1>4 DEF Insert
    <2>2. [req[h] EXCEPT !.id = i] \in Calls
        BY <1>0, <2>1, CallEdits DEF Shapes
    <2> QED
        BY <1>0, <1>4, <2>1, <2>2 DEF LocalTypes, Insert
<1>5. CASE PutRead(h) \/ SupersedeRead(h)
    <2>1. mem[req[h].id] \in Payload
        BY <1>0 DEF Shapes
    <2>2. copy' = [copy EXCEPT ![h] = mem[req[h].id]] /\ UNCHANGED <<req, walk>>
        BY <1>5 DEF PutRead, SupersedeRead
    <2> QED
        BY <1>0, <2>1, <2>2 DEF LocalTypes
<1>6. CASE JudgeFlags(h)
    <2>1. PICK w \in live : req' = [req EXCEPT ![h] = [@ EXCEPT !.op = "stamp", !.to = w]]
        BY <1>6 DEF JudgeFlags, Neighbours
    <2>2. [req[h] EXCEPT !.op = "stamp", !.to = w] \in Calls
        BY <1>0, <2>1, CallEdits DEF Shapes
    <2> QED
        BY <1>0, <1>6, <2>1, <2>2 DEF LocalTypes, JudgeFlags
<1>7. CASE DeleteIntent(h)
    <2>1. {req[h].id} \in SUBSET Ids
        BY <1>0 DEF Shapes
    <2> QED
        BY <1>0, <1>7, <2>1 DEF LocalTypes, DeleteIntent
<1>8. CASE Visit(h)
    <2>1. PICK i \in todo[h] :
             LET found == {j \in live : mem[j].sup = i} \ (seen[h] \cup {i}) IN
             /\ seen' = [seen EXCEPT ![h] = @ \cup {i}]
             /\ chain' = [chain EXCEPT ![h] = @ \cup found]
             /\ todo' = [todo EXCEPT ![h] = (@ \ {i}) \cup found]
        BY <1>8 DEF Visit
    <2> DEFINE found == {j \in live : mem[j].sup = i} \ (seen[h] \cup {i})
    <2>2. found \subseteq Ids /\ i \in Ids
        BY <1>0, <2>1 DEF Shapes
    <2> HIDE DEF found
    <2>3. /\ seen' = [seen EXCEPT ![h] = @ \cup {i}]
          /\ chain' = [chain EXCEPT ![h] = @ \cup found]
          /\ todo' = [todo EXCEPT ![h] = (@ \ {i}) \cup found]
        BY <2>1 DEF found
    <2>4. UNCHANGED <<req, copy>>
        BY <1>8 DEF Visit
    <2> QED
        BY <1>0, <2>2, <2>3, <2>4 DEF LocalTypes
<1>9. CASE ReadMember(h)
    <2>1. PICK i \in chain[h] : /\ chain' = [chain EXCEPT ![h] = @ \ {i}]
                                /\ todo' = [todo EXCEPT ![h] = {i}]
        BY <1>9 DEF ReadMember
    <2>2. i \in Ids
        BY <1>0, <2>1 DEF Shapes
    <2>3. UNCHANGED <<req, copy, seen>>
        BY <1>9 DEF ReadMember
    <2> QED
        BY <1>0, <2>1, <2>2, <2>3 DEF LocalTypes
<1>10. CASE Acquire(h) \/ PutWrite(h) \/ TierIntent(h) \/ DeleteMember(h) \/ ChainDone(h)
    <2>1. UNCHANGED <<req, copy, walk>>
        BY <1>10 DEF Acquire, PutWrite, TierIntent, DeleteMember, ChainDone
    <2> QED
        BY <1>3, <2>1
<1>11. CASE \/ Duplicate(h) \/ PutMissing(h) \/ TierRefuse(h) \/ JudgeAdmits(h)
            \/ SupersedeRefuse(h) \/ ClearRefuse(h) \/ DeleteRoot(h)
    <2>1. Forget(h)
        BY <1>11 DEF Duplicate, PutMissing, TierRefuse, JudgeAdmits, SupersedeRefuse,
                     ClearRefuse, DeleteRoot, Refuse
    <2> QED
        BY <1>2, <2>1
<1>12. CASE TierSet(h) \/ TierSetFails(h) \/ Stamp(h) \/ SupersedeWrite(h) \/ Unsupersede(h)
    <2>1. Forget(h)
        BY <1>12 DEF TierSet, TierSetFails, Stamp, SupersedeWrite, Unsupersede, Finish
    <2> QED
        BY <1>2, <2>1
<1> QED
    BY <1>1, <1>4, <1>5, <1>6, <1>7, <1>8, <1>9, <1>10, <1>11, <1>12 DEF Handle

LEMMA ControlStep ==
    ASSUME TypeOK, NEW h \in Handlers, Request(h) \/ Handle(h)
    PROVE  ControlTypes'
<1>0. ControlTypes /\ live \subseteq Ids /\ \A i \in Ids : mem[i].text \in Texts
    BY TypeParts DEF TypeOK, Payload, Store!Payload
<1> DEFINE Moves == \E to \in Pcs : pc' = [pc EXCEPT ![h] = to]
           Counts == calls' \in 0..MaxCalls /\ restarts' \in 0..MaxRestarts
           Locks == lock' \in [Ids -> Handlers \cup {Nobody}]
<1>1. Moves /\ Counts /\ Locks => ControlTypes'
    BY <1>0 DEF ControlTypes
<1> USE DEF Pcs
<1>2. CASE Request(h)
    <2>1. PICK to \in {"probe", "wait", "intent"}, c \in Calls : Arrival(h, to, c)
        BY <1>0, <1>2, RequestStep
    <2>2. Moves
        BY <2>1 DEF Arrival, Arrive
    <2>3. Locks
        BY <1>0, <2>1 DEF Arrival, Arrive, ControlTypes
    <2>4. Counts
        BY <1>0, <2>1, RecordsAssumption DEF Arrival, Arrive, ControlTypes
    <2> QED
        BY <1>1, <2>2, <2>3, <2>4
<1>3. CASE Acquire(h)
    <2>1. PICK i \in Needs(h) : lock' = [lock EXCEPT ![i] = h]
        BY <1>0, <1>3 DEF Acquire
    <2>2. Moves /\ Counts
        BY <1>0, <1>3 DEF Acquire, ControlTypes
    <2>3. Locks
        BY <1>0, <2>1 DEF ControlTypes
    <2> QED
        BY <1>1, <2>2, <2>3
<1>4. CASE UNCHANGED <<lock, bound>> /\ Moves
    BY <1>0, <1>1, <1>4 DEF ControlTypes
<1>5. CASE Release(h) /\ UNCHANGED bound /\ Moves
    BY <1>0, <1>1, <1>5, ReleaseType DEF ControlTypes
<1>6. CASE Insert(h) \/ Duplicate(h) \/ PutRead(h) \/ TierIntent(h)
    BY <1>4, <1>6 DEF Insert, Duplicate, PutRead, TierIntent
<1>7. CASE JudgeAdmits(h) \/ JudgeFlags(h) \/ SupersedeRead(h)
    BY <1>4, <1>7 DEF JudgeAdmits, JudgeFlags, SupersedeRead
<1>8. CASE DeleteIntent(h) \/ Visit(h)
    BY <1>4, <1>8 DEF DeleteIntent, Visit
<1>9. CASE ReadMember(h) \/ DeleteMember(h) \/ ChainDone(h) \/ DeleteRoot(h)
    BY <1>4, <1>9 DEF ReadMember, DeleteMember, ChainDone, DeleteRoot
<1>10. CASE PutMissing(h) \/ TierRefuse(h) \/ SupersedeRefuse(h) \/ ClearRefuse(h)
    BY <1>5, <1>10 DEF PutMissing, TierRefuse, SupersedeRefuse, ClearRefuse, Refuse
<1>11. CASE PutWrite(h) \/ TierSet(h) \/ TierSetFails(h)
    BY <1>5, <1>11 DEF PutWrite, TierSet, TierSetFails, Finish
<1>12. CASE Stamp(h) \/ SupersedeWrite(h) \/ Unsupersede(h)
    BY <1>5, <1>12 DEF Stamp, SupersedeWrite, Unsupersede, Finish
<1> QED
    BY <1>2, <1>3, <1>6, <1>7, <1>8, <1>9, <1>10, <1>11, <1>12 DEF Handle

LEMMA AuditStep ==
    ASSUME TypeOK, NEW h \in Handlers, HandlerInv(h), Request(h) \/ Handle(h)
    PROVE  AuditType' /\ audit \subseteq audit'
<1>0. AuditType /\ Shapes
    BY TypeParts, ShapesOK
<1>1. CASE UNCHANGED audit
    BY <1>0, <1>1 DEF AuditType
<1>2. CASE Insert(h)
    BY <1>0, <1>2, InsertStep DEF AuditType
<1>3. CASE TierIntent(h)
    <2>1. req[h].to \in Tiers /\ req[h].id \in Ids
        BY <1>0, <1>3 DEF TierIntent, HandlerInv, RequestInv, Shapes
    <2> QED
        BY <1>0, <1>3, <2>1 DEF TierIntent, AuditType
<1>4. CASE SupersedeRead(h)
    BY <1>0, <1>4 DEF SupersedeRead, AuditType, Shapes
<1>5. CASE DeleteIntent(h)
    <2>1. req[h].id \in Ids /\ audit' = audit \cup {<<req[h].id, "delete">>, <<req[h].id, req[h].op>>}
        BY <1>0, <1>5 DEF DeleteIntent, Shapes
    <2>2. req[h].op \in {"delete", "cascade"}
        BY <1>5 DEF DeleteIntent, HandlerInv, DeleteInv
    <2> QED
        BY <1>0, <2>1, <2>2 DEF AuditType
<1>6. CASE Request(h)
    <2>1. live \subseteq Ids /\ \A i \in Ids : mem[i].text \in Texts
        BY <1>0 DEF Shapes, Payload, Store!Payload
    <2> QED
        BY <1>1, <1>6, <2>1, RequestStep DEF Arrival, Arrive
<1>7. CASE Rewrites(h) \/ Removes(h)
    BY <1>0, <1>1, <1>7, RewriteStep, RemoveStep DEF Touch, Still
<1>8. CASE Quiet(h) /\ ~(Request(h) \/ TierIntent(h) \/ SupersedeRead(h) \/ DeleteIntent(h))
    BY <1>1, <1>8 DEF Quiet, Acquire, Duplicate, PutRead, PutMissing, TierRefuse,
       TierSetFails, JudgeAdmits, JudgeFlags, SupersedeRefuse, ClearRefuse, Visit,
       ReadMember, ChainDone, Refuse, Finish
<1> QED
    BY <1>2, <1>3, <1>4, <1>5, <1>6, <1>7, <1>8, HandleSplit

-----------------------------------------------------------------------------
(* A step of one handler keeps the invariant of every other. *)

\* What h does outside its own locks and locals.
Effect(h) ==
    /\ \A i \in born : lock[i] # h => mem'[i] = mem[i] /\ (i \in live' => i \in live)
    /\ \A i \in Ids \ born : mem'[i].sup = Nobody \/ (mem'[i] = mem[i] /\ i \notin live')
    /\ born \subseteq born' /\ audit \subseteq audit'

OwnLocals(h) ==
    /\ \A k \in Handlers \ {h} : pc'[k] = pc[k] /\ req'[k] = req[k]
    /\ \A k \in Handlers \ {h} : copy'[k] = copy[k] /\ todo'[k] = todo[k]
    /\ \A i \in Ids : lock[i] \notin {h, Nobody} => lock'[i] = lock[i]

LEMMA EffectStep ==
    ASSUME TypeOK, NEW h \in Handlers, HandlerInv(h), Request(h) \/ Handle(h)
    PROVE  Effect(h)
<1>0. Shapes /\ audit \subseteq audit'
    BY ShapesOK, AuditStep
<1>1. CASE Quiet(h)
    BY <1>0, <1>1, QuietStep DEF Effect, Shapes
<1>2. CASE Rewrites(h)
    <2>1. CASE Still
        BY <1>0, <2>1 DEF Still, Effect, Shapes
    <2>2. ASSUME NEW p \in Payload, Touch(h, p)
          PROVE  Effect(h)
        BY <1>0, <2>2 DEF Touch, Effect, Shapes
    <2> QED
        BY <1>0, <1>2, <2>1, <2>2, RewriteStep
<1>3. CASE Removes(h)
    BY <1>0, <1>3, RemoveStep DEF Effect, Shapes
<1>4. CASE Insert(h)
    <2>1. PICK i \in Ids \ born :
              /\ req[h].text \in Texts /\ req[h].to \in Tiers
              /\ born' = born \cup {i} /\ live' = live \cup {i}
              /\ mem' = [mem EXCEPT ![i] = Fresh(req[h].text, req[h].to)]
        BY <1>0, <1>4, InsertStep
    <2>2. DOMAIN mem = Ids /\ live \subseteq born
        BY <1>0 DEF Shapes
    <2>3. mem'[i].sup = Nobody
        BY <2>1, <2>2 DEF Fresh, Store!Fresh
    <2>4. \A j \in born : mem'[j] = mem[j] /\ (j \in live' => j \in live)
        BY <1>0, <2>1, <2>2 DEF Shapes
    <2>5. \A j \in Ids \ born : j # i => mem'[j] = mem[j] /\ j \notin live'
        BY <2>1, <2>2
    <2> QED
        <3>1. \A j \in Ids \ born : mem'[j].sup = Nobody \/ (mem'[j] = mem[j] /\ j \notin live')
            BY <2>3, <2>5
        <3>2. born \subseteq born'
            BY <2>1
        <3> QED
            BY <1>0, <2>4, <3>1, <3>2 DEF Effect
<1> QED
    BY <1>1, <1>2, <1>3, <1>4, HandleSplit

\* A request that ends clears its own locals and gives up its own locks.
LEMMA EndOfCall ==
    ASSUME Shapes, NEW h \in Handlers, NEW from, Step(h, from, "idle"), Forget(h),
           Release(h) \/ UNCHANGED lock
    PROVE  OwnLocals(h)
<1>1. \A k \in Handlers \ {h} : pc'[k] = pc[k]
    BY DEF Shapes
<1>2. \A k \in Handlers \ {h} : req'[k] = req[k] /\ copy'[k] = copy[k] /\ todo'[k] = todo[k]
    BY DEF Shapes, Forget
<1>3. \A i \in Ids : lock[i] \notin {h, Nobody} => lock'[i] = lock[i]
    BY DEF Shapes, Release
<1> QED
    BY <1>1, <1>2, <1>3 DEF OwnLocals

LEMMA OwnLocalsStep ==
    ASSUME Shapes, NEW h \in Handlers, Request(h) \/ Handle(h)
    PROVE  OwnLocals(h)
<1> USE DEF OwnLocals
<1>0. /\ DOMAIN pc = Handlers /\ DOMAIN req = Handlers /\ DOMAIN copy = Handlers
      /\ DOMAIN todo = Handlers /\ DOMAIN lock = Ids
    BY DEF Shapes
<1>1. CASE Request(h)
    <2>1. PICK to, c : Arrive(h, to, c)
        BY <1>1 DEF Request, Add, Put, Promote, Consolidate, Retier, Sweep, Retire, Supersede,
                    Clear, Delete
    <2> QED
        BY <1>0, <2>1 DEF Arrive
<1>2. CASE Duplicate(h)
    BY <1>2, EndOfCall DEF Duplicate
<1>3. CASE JudgeAdmits(h)
    BY <1>3, EndOfCall DEF JudgeAdmits
<1>4. CASE DeleteRoot(h)
    BY <1>4, EndOfCall DEF DeleteRoot
<1>5. CASE PutMissing(h)
    BY <1>5, EndOfCall DEF PutMissing, Refuse
<1>6. CASE TierRefuse(h)
    BY <1>6, EndOfCall DEF TierRefuse, Refuse
<1>7. CASE SupersedeRefuse(h)
    BY <1>7, EndOfCall DEF SupersedeRefuse, Refuse
<1>8. CASE ClearRefuse(h)
    BY <1>8, EndOfCall DEF ClearRefuse, Refuse
<1>9. CASE TierSet(h)
    BY <1>9, EndOfCall DEF TierSet, Finish
<1>10. CASE TierSetFails(h)
    BY <1>10, EndOfCall DEF TierSetFails, Finish
<1>11. CASE Stamp(h)
    BY <1>11, EndOfCall DEF Stamp, Finish
<1>12. CASE SupersedeWrite(h)
    BY <1>12, EndOfCall DEF SupersedeWrite, Finish
<1>13. CASE Unsupersede(h)
    BY <1>13, EndOfCall DEF Unsupersede, Finish
<1>14. CASE Acquire(h)
    BY <1>0, <1>14 DEF Acquire
<1>15. CASE Insert(h)
    BY <1>0, <1>15 DEF Insert
<1>16. CASE PutRead(h)
    BY <1>0, <1>16 DEF PutRead
<1>17. CASE PutWrite(h)
    BY <1>0, <1>17 DEF PutWrite, Release
<1>18. CASE TierIntent(h)
    BY <1>0, <1>18 DEF TierIntent
<1>19. CASE JudgeFlags(h)
    BY <1>0, <1>19 DEF JudgeFlags
<1>20. CASE SupersedeRead(h)
    BY <1>0, <1>20 DEF SupersedeRead
<1>21. CASE DeleteIntent(h)
    BY <1>0, <1>21 DEF DeleteIntent
<1>22. CASE Visit(h)
    BY <1>0, <1>22 DEF Visit
<1>23. CASE ReadMember(h)
    BY <1>0, <1>23 DEF ReadMember
<1>24. CASE DeleteMember(h)
    BY <1>0, <1>24 DEF DeleteMember
<1>25. CASE ChainDone(h)
    BY <1>0, <1>25 DEF ChainDone
<1> QED
    BY <1>1, <1>2, <1>3, <1>4, <1>5, <1>6, <1>7, <1>8, <1>9, <1>10, <1>11, <1>12,
       <1>13, <1>14, <1>15, <1>16, <1>17, <1>18, <1>19, <1>20, <1>21, <1>22, <1>23,
       <1>24, <1>25 DEF Handle

LEMMA OthersKeep ==
    ASSUME Shapes, NEW h \in Handlers, NEW k \in Handlers \ {h}, HandlerInv(k),
           Effect(h), OwnLocals(h)
    PROVE  HandlerInv(k)'
<1>1. /\ pc'[k] = pc[k] /\ req'[k] = req[k] /\ copy'[k] = copy[k] /\ todo'[k] = todo[k]
      /\ req[k].id \in Ids /\ Needs(k)' = Needs(k)
    BY DEF OwnLocals, Shapes, Needs
<1>2. RequestInv(k)'
    BY <1>1 DEF HandlerInv, RequestInv
<1>3. pc[k] \in {"locked", "read"} =>
          \A i \in Needs(k) : i \in Ids /\ lock[i] = k /\ lock'[i] = k
    BY <1>1, RecordsAssumption DEF HandlerInv, LockInv, RequestInv, Needs, OwnLocals, Superseders
<1>4. LockInv(k)'
    BY <1>1, <1>3 DEF LockInv
<1>5. PutInv(k)'
    <2> SUFFICES ASSUME pc[k] = "read", req[k].op = "put"
                 PROVE  req[k].id \in born' /\ copy[k] = mem'[req[k].id]
        BY <1>1 DEF PutInv
    <2>1. req[k].id \in Needs(k)
        BY DEF Needs
    <2> QED
        BY <1>3, <2>1 DEF HandlerInv, PutInv, Effect
<1>6. TierInv(k)'
    <2> SUFFICES ASSUME pc[k] = "read", req[k].op = "tier"
                 PROVE  /\ <<req[k].id, req[k].to>> \in audit'
                        /\ req[k].to \in Protected /\ req[k].id \in live' =>
                               mem'[req[k].id].sup = Nobody
                        /\ req[k].to # "canonical" /\ req[k].by # "operator" =>
                               /\ req[k].id \in born'
                               /\ ~LeavesProtection(mem'[req[k].id].tier, req[k].to)
        BY <1>1 DEF TierInv
    <2>1. lock[req[k].id] # h /\ TierInv(k)
        BY <1>3 DEF Needs, HandlerInv
    <2>2. <<req[k].id, req[k].to>> \in audit'
        BY <2>1 DEF TierInv, Effect
    <2>3. req[k].to \in Protected /\ req[k].id \in live' => mem'[req[k].id].sup = Nobody
        BY <1>1, <2>1 DEF TierInv, Effect
    <2>4. req[k].to # "canonical" /\ req[k].by # "operator" =>
              /\ req[k].id \in born'
              /\ ~LeavesProtection(mem'[req[k].id].tier, req[k].to)
        BY <1>1, <2>1 DEF TierInv, Effect
    <2> QED
        BY <2>2, <2>3, <2>4
<1>7. SupersedeInv(k)'
    <2> SUFFICES ASSUME pc[k] = "read", req[k].op \in Superseders
                 PROVE  /\ {req[k].id, req[k].to} \subseteq born'
                        /\ mem'[req[k].id].tier \notin Protected
                        /\ mem'[req[k].id].sup = Nobody /\ mem'[req[k].to].sup = Nobody
                        /\ copy[k] = mem'[req[k].id]
                        /\ <<req[k].id, req[k].op>> \in audit'
        BY <1>1 DEF SupersedeInv
    <2>1. lock[req[k].id] # h /\ lock[req[k].to] # h /\ SupersedeInv(k)
        BY <1>3 DEF Needs, HandlerInv, Superseders
    <2> QED
        BY <2>1 DEF SupersedeInv, Effect
<1>8. DeleteInv(k)'
    BY <1>1 DEF HandlerInv, DeleteInv, Effect
<1> QED
    BY <1>2, <1>4, <1>5, <1>6, <1>7, <1>8 DEF HandlerInv

-----------------------------------------------------------------------------
(* A handler's own step. *)

LEMMA IdleInv ==
    ASSUME NEW h \in Handlers, pc'[h] = "idle", req'[h] = NoCall
    PROVE  HandlerInv(h)'
<1>1. req'[h].op = "add"
    BY DEF NoCall
<1> QED
    BY <1>1 DEF HandlerInv, RequestInv, LockInv, PutInv, TierInv, SupersedeInv, DeleteInv,
                Superseders, Stampers

LEMMA EndStep ==
    ASSUME Shapes, NEW h \in Handlers, NEW from, Step(h, from, "idle"), Forget(h)
    PROVE  HandlerInv(h)'
<1>1. pc'[h] = "idle" /\ req'[h] = NoCall
    BY DEF Shapes, Forget
<1> QED
    BY <1>1, IdleInv

LEMMA RequestKeeps ==
    ASSUME Shapes, NEW h \in Handlers, Request(h)
    PROVE  HandlerInv(h)'
<1>1. live \subseteq Ids /\ \A i \in Ids : mem[i].text \in Texts
    BY DEF Shapes, Payload, Store!Payload
<1>2. PICK to \in {"probe", "wait", "intent"}, c \in Calls : Arrival(h, to, c)
    BY <1>1, RequestStep
<1>3. pc'[h] = to /\ req'[h] = c
    BY <1>2 DEF Arrival, Arrive, Shapes
<1>4. RequestInv(h)'
    BY <1>2, <1>3 DEF Arrival, RequestInv
<1>5. DeleteInv(h)'
    BY <1>2, <1>3 DEF Arrival, DeleteInv
<1> QED
    BY <1>3, <1>4, <1>5 DEF HandlerInv, LockInv, PutInv, TierInv, SupersedeInv

LEMMA AcquireKeeps ==
    ASSUME Shapes, NEW h \in Handlers, HandlerInv(h), Acquire(h)
    PROVE  HandlerInv(h)'
<1>1. /\ pc[h] = "wait" /\ pc'[h] \in {"wait", "locked"} /\ UNCHANGED <<req, copy, audit>>
    BY DEF Acquire, Shapes
<1>2. RequestInv(h)'
    BY <1>1 DEF HandlerInv, RequestInv
<1>3. LockInv(h)'
    <2> SUFFICES ASSUME pc'[h] = "locked", NEW j \in Needs(h)
                 PROVE  lock'[j] = h
        BY <1>1 DEF LockInv, Needs
    <2>1. PICK i \in Needs(h) \ Holds(h) :
              /\ lock' = [lock EXCEPT ![i] = h]
              /\ pc' = [pc EXCEPT ![h] = IF Needs(h) \ Holds(h) = {i} THEN "locked" ELSE "wait"]
        BY DEF Acquire
    <2>2. Needs(h) \ Holds(h) = {i}
        BY <2>1 DEF Shapes
    <2>3. j \in Ids
        BY DEF Needs, HandlerInv, RequestInv, Superseders, Shapes
    <2>4. CASE j = i
        BY <2>1, <2>3, <2>4 DEF Shapes
    <2>5. CASE j # i
        <3>1. lock[j] = h
            BY <2>2, <2>5 DEF Holds
        <3> QED
            BY <2>1, <2>3, <2>5, <3>1 DEF Shapes
    <2> QED
        BY <2>4, <2>5
<1> QED
    BY <1>1, <1>2, <1>3 DEF HandlerInv, PutInv, TierInv, SupersedeInv, DeleteInv

LEMMA InsertKeeps ==
    ASSUME Shapes, NEW h \in Handlers, HandlerInv(h), Insert(h)
    PROVE  HandlerInv(h)'
<1>1. pc'[h] = "judge"
    BY DEF Insert, Shapes
<1>2. PICK i : req' = [req EXCEPT ![h].id = i]
    BY DEF Insert
<1>3. req'[h].op = "add"
    <2>1. req[h].op = "add" /\ req[h] \in Calls
        BY DEF Insert, HandlerInv, RequestInv, Shapes
    <2>2. req'[h] = [req[h] EXCEPT !.id = i]
        BY <1>2 DEF Shapes
    <2> QED
        BY <2>1, <2>2 DEF Calls
<1> QED
    BY <1>1, <1>3 DEF HandlerInv, RequestInv, LockInv, PutInv, TierInv, SupersedeInv,
                      DeleteInv, Superseders, Stampers

LEMMA PutKeeps ==
    ASSUME Shapes, NEW h \in Handlers, HandlerInv(h), PutRead(h) \/ PutWrite(h)
    PROVE  HandlerInv(h)'
<1>0. req[h].op = "put" /\ UNCHANGED req /\ RequestInv(h)
    BY DEF PutRead, PutWrite, HandlerInv
<1>1. CASE PutRead(h)
    <2>1. pc[h] = "locked" /\ pc'[h] = "read" /\ UNCHANGED <<lock, mem, born>>
          /\ copy'[h] = mem[req[h].id] /\ req[h].id \in born
        BY <1>1 DEF PutRead, Shapes
    <2>2. LockInv(h)'
        BY <1>0, <2>1 DEF HandlerInv, LockInv, Needs
    <2>3. PutInv(h)'
        BY <1>0, <2>1 DEF PutInv
    <2>4. RequestInv(h)'
        BY <1>0, <2>1 DEF RequestInv
    <2> QED
        BY <1>0, <2>1, <2>2, <2>3, <2>4 DEF HandlerInv, TierInv, SupersedeInv, DeleteInv,
           Superseders
<1>2. CASE PutWrite(h)
    <2>1. pc'[h] = "judge"
        BY <1>2 DEF PutWrite, Shapes
    <2> QED
        BY <1>0, <2>1 DEF HandlerInv, RequestInv, LockInv, PutInv, TierInv, SupersedeInv,
           DeleteInv
<1> QED
    BY <1>1, <1>2

LEMMA TierIntentKeeps ==
    ASSUME Shapes, NEW h \in Handlers, HandlerInv(h), TierIntent(h)
    PROVE  HandlerInv(h)'
<1>1. /\ req[h].op = "tier" /\ UNCHANGED <<req, lock, mem, live, born>>
      /\ pc[h] = "locked" /\ pc'[h] = "read" /\ <<req[h].id, req[h].to>> \in audit'
    BY DEF TierIntent, Shapes
<1>2. ~TierRefused(h)
    BY DEF TierIntent
<1>3. req[h].to \in Protected /\ req[h].id \in live => mem[req[h].id].sup = Nobody
    BY <1>2 DEF TierRefused
<1>4. req[h].to # "canonical" /\ req[h].by # "operator" =>
          req[h].id \in born /\ ~LeavesProtection(mem[req[h].id].tier, req[h].to)
    BY <1>2 DEF TierRefused, TierOf, Shapes
<1>5. LockInv(h)'
    BY <1>1 DEF HandlerInv, LockInv, Needs
<1>6. TierInv(h)'
    BY <1>1, <1>3, <1>4 DEF TierInv
<1>7. RequestInv(h)'
    BY <1>1 DEF HandlerInv, RequestInv
<1> QED
    BY <1>1, <1>5, <1>6, <1>7 DEF HandlerInv, PutInv, SupersedeInv, DeleteInv, Superseders

LEMMA JudgeFlagsKeeps ==
    ASSUME Shapes, NEW h \in Handlers, HandlerInv(h), JudgeFlags(h)
    PROVE  HandlerInv(h)'
<1>1. PICK w \in live : req' = [req EXCEPT ![h] = [@ EXCEPT !.op = "stamp", !.to = w]]
    BY DEF JudgeFlags, Neighbours
<1>2. req'[h] = [req[h] EXCEPT !.op = "stamp", !.to = w] /\ req[h] \in Calls
    BY <1>1 DEF Shapes
<1>3. req'[h].op = "stamp" /\ req'[h].to = w /\ w \in Ids
    BY <1>2 DEF Calls, Shapes
<1>4. pc'[h] = "wait"
    BY DEF JudgeFlags, Shapes
<1> QED
    BY <1>3, <1>4 DEF HandlerInv, RequestInv, LockInv, PutInv, TierInv, SupersedeInv,
                      DeleteInv, Superseders, Stampers

LEMMA SupersedeReadKeeps ==
    ASSUME Shapes, NEW h \in Handlers, HandlerInv(h), SupersedeRead(h)
    PROVE  HandlerInv(h)'
<1>1. /\ req[h].op \in Superseders /\ UNCHANGED <<req, lock, mem, live, born>>
      /\ pc[h] = "locked" /\ pc'[h] = "read" /\ <<req[h].id, req[h].op>> \in audit'
      /\ copy'[h] = mem[req[h].id]
    BY DEF SupersedeRead, Shapes, Superseders
<1>2. Superseding(req[h]) /\ ~Noop(req[h])
    BY DEF SupersedeRead
<1>3. /\ {req[h].id, req[h].to} \subseteq born
      /\ mem[req[h].id].tier \notin Protected
      /\ mem[req[h].id].sup = Nobody /\ mem[req[h].to].sup = Nobody
    BY <1>1, <1>2 DEF Superseding, Noop, Shapes, Superseders
<1>4. LockInv(h)'
    BY <1>1 DEF HandlerInv, LockInv, Needs
<1>5. SupersedeInv(h)'
    BY <1>1, <1>3 DEF SupersedeInv
<1>6. RequestInv(h)'
    BY <1>1 DEF HandlerInv, RequestInv
<1> QED
    BY <1>1, <1>4, <1>5, <1>6 DEF HandlerInv, PutInv, TierInv, DeleteInv, Superseders

LEMMA DeleteKeeps ==
    ASSUME Shapes, NEW h \in Handlers, HandlerInv(h),
           \/ DeleteIntent(h) \/ Visit(h) \/ ReadMember(h) \/ DeleteMember(h) \/ ChainDone(h)
    PROVE  HandlerInv(h)'
<1>0. /\ UNCHANGED req /\ audit \subseteq audit'
      /\ pc[h] \in {"intent", "walk", "member", "kill"}
      /\ pc'[h] \in {"walk", "root", "member", "kill"}
    BY DEF DeleteIntent, Visit, ReadMember, DeleteMember, ChainDone, Shapes
<1>1. RequestInv(h)'
    BY <1>0 DEF HandlerInv, RequestInv
<1>2. pc'[h] = "kill" => \E i \in Ids : todo'[h] = {i}
    <2>1. CASE ReadMember(h)
        BY <2>1 DEF ReadMember, Shapes
    <2>2. CASE ~ReadMember(h)
        BY <2>2 DEF DeleteIntent, Visit, DeleteMember, ChainDone, Shapes
    <2> QED
        BY <2>1, <2>2
<1>3. /\ pc'[h] \in {"walk", "member", "kill"} =>
             <<req[h].id, "delete">> \in audit' /\ <<req[h].id, "cascade">> \in audit'
      /\ pc'[h] = "root" => <<req[h].id, "delete">> \in audit'
    <2>1. CASE DeleteIntent(h)
        BY <2>1 DEF DeleteIntent, HandlerInv, DeleteInv, Shapes
    <2>2. CASE Visit(h) \/ ReadMember(h) \/ DeleteMember(h) \/ ChainDone(h)
        <3>1. pc[h] \in {"walk", "member", "kill"}
            BY <2>2 DEF Visit, ReadMember, DeleteMember, ChainDone
        <3> QED
            BY <1>0, <3>1 DEF HandlerInv, DeleteInv
    <2> QED
        BY <2>1, <2>2
<1>4. DeleteInv(h)'
    BY <1>0, <1>2, <1>3 DEF DeleteInv
<1> QED
    BY <1>0, <1>1, <1>4 DEF HandlerInv, LockInv, PutInv, TierInv, SupersedeInv

LEMMA OwnStep ==
    ASSUME Shapes, NEW h \in Handlers, HandlerInv(h), Request(h) \/ Handle(h)
    PROVE  HandlerInv(h)'
<1>1. CASE Duplicate(h) \/ JudgeAdmits(h) \/ DeleteRoot(h)
    BY <1>1, EndStep DEF Duplicate, JudgeAdmits, DeleteRoot
<1>2. CASE PutMissing(h) \/ TierRefuse(h) \/ SupersedeRefuse(h) \/ ClearRefuse(h)
    BY <1>2, EndStep DEF PutMissing, TierRefuse, SupersedeRefuse, ClearRefuse, Refuse
<1>3. CASE TierSet(h) \/ TierSetFails(h) \/ Stamp(h) \/ SupersedeWrite(h) \/ Unsupersede(h)
    BY <1>3, EndStep DEF TierSet, TierSetFails, Stamp, SupersedeWrite, Unsupersede, Finish
<1> QED
    BY <1>1, <1>2, <1>3, RequestKeeps, AcquireKeeps, InsertKeeps, PutKeeps, TierIntentKeeps,
       JudgeFlagsKeeps, SupersedeReadKeeps, DeleteKeeps DEF Handle

-----------------------------------------------------------------------------
(* The properties of the collection, from what a step may write. *)

\* A step that writes or adds one record, in those terms.
LEMMA StepKinds ==
    ASSUME Shapes, NEW h \in Handlers, HandlerInv(h), Request(h) \/ Handle(h)
    PROVE  \/ UNCHANGED mem
           \/ \E p \in Payload : Touch(h, p) /\ Allowed(h, p)
           \/ \E i \in Ids \ born, p \in Payload :
                 p.sup = Nobody /\ mem' = [mem EXCEPT ![i] = p]
<1>1. CASE Insert(h)
    <2>1. PICK i \in Ids \ born :
              /\ req[h].text \in Texts /\ req[h].to \in Tiers
              /\ mem' = [mem EXCEPT ![i] = Fresh(req[h].text, req[h].to)]
        BY <1>1, InsertStep
    <2>2. Fresh(req[h].text, req[h].to) \in Payload
        BY <2>1, FreshType
    <2>3. Fresh(req[h].text, req[h].to).sup = Nobody
        BY DEF Fresh, Store!Fresh
    <2> QED
        BY <2>1, <2>2, <2>3
<1>2. CASE Rewrites(h)
    BY <1>2, RewriteStep DEF Still
<1>3. CASE Quiet(h)
    BY <1>3, QuietStep
<1>4. CASE Removes(h)
    BY <1>4, RemoveStep
<1> QED
    BY <1>1, <1>2, <1>3, <1>4, HandleSplit

LEMMA ProtectedStep ==
    ASSUME Shapes, NEW h \in Handlers, HandlerInv(h), Request(h) \/ Handle(h),
           ProtectedNeverSuperseded
    PROVE  ProtectedNeverSuperseded'
<1>1. CASE UNCHANGED mem
    BY <1>1 DEF ProtectedNeverSuperseded
<1>2. ASSUME NEW p \in Payload, Touch(h, p), Allowed(h, p)
      PROVE  ProtectedNeverSuperseded'
    <2>1. req[h].id \in Ids /\ DOMAIN mem = Ids /\ mem' = [mem EXCEPT ![req[h].id] = p]
        BY <1>2 DEF Touch, Shapes
    <2>2. p.tier \in Protected => p.sup = Nobody
        BY <1>2, <2>1 DEF Allowed, KeepsRank, ChangesTier, GoesBehind, ProtectedNeverSuperseded
    <2> QED
        BY <2>1, <2>2 DEF ProtectedNeverSuperseded
<1>3. ASSUME NEW i \in Ids \ born, NEW p \in Payload, p.sup = Nobody,
             mem' = [mem EXCEPT ![i] = p]
      PROVE  ProtectedNeverSuperseded'
    BY <1>3 DEF ProtectedNeverSuperseded, Shapes
<1> QED
    BY <1>1, <1>2, <1>3, StepKinds

LEMMA CycleStep ==
    ASSUME Shapes, NEW h \in Handlers, HandlerInv(h), Request(h) \/ Handle(h),
           NoSupersessionCycle
    PROVE  NoSupersessionCycle'
<1> SUFFICES ASSUME NEW S \in (SUBSET Ids) \ {{}}
             PROVE  \E i \in S : mem'[i].sup \notin S
    BY DEF NoSupersessionCycle
<1>0. PICK i \in S : mem[i].sup \notin S
    BY DEF NoSupersessionCycle
<1>1. CASE UNCHANGED mem
    BY <1>0, <1>1
<1>2. ASSUME NEW p \in Payload, Touch(h, p), Allowed(h, p)
      PROVE  \E j \in S : mem'[j].sup \notin S
    <2>1. /\ req[h].id \in Ids /\ DOMAIN mem = Ids /\ mem' = [mem EXCEPT ![req[h].id] = p]
          /\ Nobody \notin S /\ i \in Ids
        BY <1>2, RecordsAssumption DEF Touch, Shapes
    <2>2. CASE p.sup \in {mem[req[h].id].sup, Nobody}
        <3>1. CASE req[h].id = i
            BY <1>0, <2>1, <2>2, <3>1
        <3>2. CASE req[h].id # i
            BY <1>0, <2>1, <3>2
        <3> QED
            BY <3>1, <3>2
    <2>3. CASE GoesBehind(h, p)
        <3>1. p.sup \in Ids /\ p.sup # req[h].id /\ mem[p.sup].sup = Nobody
            BY <2>3 DEF GoesBehind
        <3>2. CASE p.sup \in S
            <4>1. mem'[p.sup].sup = Nobody
                BY <2>1, <3>1
            <4> QED
                BY <2>1, <3>2, <4>1
        <3>3. CASE p.sup \notin S /\ req[h].id \in S
            BY <2>1, <3>3
        <3>4. CASE req[h].id \notin S
            BY <1>0, <2>1, <3>4
        <3> QED
            BY <3>2, <3>3, <3>4
    <2> QED
        BY <1>2, <2>2, <2>3 DEF Allowed, KeepsRank, ChangesTier
<1>3. ASSUME NEW j \in Ids \ born, NEW p \in Payload, p.sup = Nobody,
             mem' = [mem EXCEPT ![j] = p]
      PROVE  \E k \in S : mem'[k].sup \notin S
    <2>1. DOMAIN mem = Ids /\ Nobody \notin S /\ i \in Ids
        BY RecordsAssumption DEF Shapes
    <2>2. CASE j = i
        BY <1>3, <2>1, <2>2
    <2>3. CASE j # i
        BY <1>0, <1>3, <2>1, <2>3
    <2> QED
        BY <2>2, <2>3
<1> QED
    BY <1>1, <1>2, <1>3, StepKinds

\* What a record needs on file.
OnFile(i, p, there, log) ==
    /\ <<i, p.tier>> \in log
    /\ p.sup # Nobody => <<i, "supersede">> \in log
    /\ ~there => \/ <<i, "delete">> \in log
                 \/ \E r \in Ids : <<r, "cascade">> \in log

LEMMA AuditInvStep ==
    ASSUME TypeOK, NEW h \in Handlers, HandlerInv(h), Request(h) \/ Handle(h),
           NothingUnaudited
    PROVE  NothingUnaudited'
<1>0. Shapes /\ audit \subseteq audit'
    BY ShapesOK, AuditStep
<1>1. \A i \in born : OnFile(i, mem[i], i \in live, audit)
    BY DEF NothingUnaudited, OnFile
<1>2. (\A i \in born' : OnFile(i, mem'[i], i \in live', audit')) => NothingUnaudited'
    BY DEF NothingUnaudited, OnFile
<1>3. CASE UNCHANGED <<live, mem, born>>
    BY <1>0, <1>1, <1>2, <1>3 DEF OnFile
<1>4. ASSUME NEW p \in Payload, Touch(h, p), Allowed(h, p)
      PROVE  NothingUnaudited'
    <2>1. /\ req[h].id \in born /\ mem' = [mem EXCEPT ![req[h].id] = p] /\ DOMAIN mem = Ids
          /\ live \subseteq live' /\ UNCHANGED <<born, audit>> /\ born \subseteq Ids
        BY <1>0, <1>4 DEF Touch, Shapes
    <2>2. OnFile(req[h].id, mem[req[h].id], req[h].id \in live, audit)
        BY <1>1, <2>1
    <2>3. <<req[h].id, p.tier>> \in audit
        BY <1>4, <2>2 DEF Allowed, KeepsRank, ChangesTier, GoesBehind, OnFile
    <2>4. p.sup # Nobody => <<req[h].id, "supersede">> \in audit
        BY <1>4, <2>2 DEF Allowed, KeepsRank, ChangesTier, GoesBehind, OnFile
    <2>5. OnFile(req[h].id, p, req[h].id \in live', audit')
        BY <2>1, <2>2, <2>3, <2>4 DEF OnFile
    <2>6. \A i \in born : i # req[h].id => OnFile(i, mem'[i], i \in live', audit')
        BY <1>1, <2>1 DEF OnFile
    <2> QED
        BY <1>2, <2>1, <2>5, <2>6
<1>5. CASE Insert(h)
    <2>1. PICK i \in Ids \ born :
              /\ born' = born \cup {i} /\ live' = live \cup {i}
              /\ mem' = [mem EXCEPT ![i] = Fresh(req[h].text, req[h].to)]
              /\ audit' = audit \cup {<<i, req[h].to>>}
        BY <1>0, <1>5, InsertStep
    <2>2. OnFile(i, mem'[i], i \in live', audit')
        BY <1>0, <2>1 DEF OnFile, Shapes, Fresh, Store!Fresh
    <2>3. \A j \in born : OnFile(j, mem'[j], j \in live', audit')
        BY <1>0, <1>1, <2>1 DEF OnFile, Shapes
    <2> QED
        BY <1>2, <2>1, <2>2, <2>3
<1>6. CASE Removes(h)
    <2>1. PICK i \in Ids : /\ live' = live \ {i} /\ UNCHANGED <<mem, born, audit>>
                           /\ \/ <<i, "delete">> \in audit
                              \/ <<req[h].id, "cascade">> \in audit
        BY <1>0, <1>6, RemoveStep
    <2>2. req[h].id \in Ids
        BY <1>0 DEF Shapes
    <2>3. \A j \in born : OnFile(j, mem[j], j \in live', audit)
        BY <1>1, <2>1, <2>2 DEF OnFile
    <2> QED
        BY <1>2, <2>1, <2>3
<1>7. CASE Rewrites(h)
    BY <1>0, <1>3, <1>4, <1>7, RewriteStep DEF Still
<1>8. CASE Quiet(h)
    BY <1>0, <1>3, <1>8, QuietStep
<1> QED
    BY <1>5, <1>6, <1>7, <1>8, HandleSplit

-----------------------------------------------------------------------------
(* The invariant holds at the start and is kept. *)

LEMMA InitIInv == Init => IInv
<1> SUFFICES ASSUME Init PROVE IInv
    OBVIOUS
<1>1. TypeOK
    <2>1. NoCall \in Calls /\ NoPayload \in Payload /\ {} \in SUBSET Ids
        BY NoCallType
    <2>2. mem \in [Ids -> Payload]
        BY FreshType DEF Init
    <2>3. \A i \in Ids : mem[i].tier \in Tiers
        BY <2>2 DEF Payload, Store!Payload, Tiers
    <2>4. audit \subseteq Ids \X (Tiers \cup {"supersede", "annotate", "delete", "cascade"})
        BY <2>3, RecordsAssumption DEF Init
    <2>5. calls \in 0..MaxCalls /\ restarts \in 0..MaxRestarts
        BY RecordsAssumption DEF Init
    <2> QED
        BY <2>1, <2>2, <2>4, <2>5, RecordsAssumption DEF Init, TypeOK, Pcs
<1>2. \A i \in Ids : mem[i].sup = Nobody
    BY DEF Init, Fresh, Store!Fresh
<1>3. ASSUME NEW h \in Handlers
      PROVE  HandlerInv(h)
    <2>1. pc[h] = "idle" /\ req[h] = NoCall
        BY DEF Init
    <2>2. req[h].op = "add"
        BY <2>1 DEF NoCall
    <2> QED
        BY <2>1, <2>2 DEF HandlerInv, RequestInv, LockInv, PutInv, TierInv, SupersedeInv,
           DeleteInv, Superseders, Stampers
<1>4. ProtectedNeverSuperseded
    BY <1>2 DEF ProtectedNeverSuperseded
<1>5. NoSupersessionCycle
    <2> SUFFICES ASSUME NEW S \in (SUBSET Ids) \ {{}}
                 PROVE  \E i \in S : mem[i].sup \notin S
        BY DEF NoSupersessionCycle
    <2>1. PICK i \in S : TRUE
        OBVIOUS
    <2>2. mem[i].sup = Nobody /\ Nobody \notin S
        BY <1>2, RecordsAssumption
    <2> QED
        BY <2>2
<1>6. NothingUnaudited
    BY <1>2, RecordsAssumption DEF NothingUnaudited, Init
<1> QED
    BY <1>1, <1>3, <1>4, <1>5, <1>6 DEF IInv

LEMMA RestartKeeps == IInv /\ Restart => IInv'
<1> SUFFICES ASSUME IInv, Restart PROVE IInv'
    OBVIOUS
<1>1. ASSUME NEW h \in Handlers
      PROVE  HandlerInv(h)'
    <2>1. pc'[h] = "idle" /\ req'[h] = NoCall
        BY DEF Restart
    <2> QED
        BY <2>1, IdleInv
<1>2. TypeOK'
    <2>1. NoCall \in Calls /\ NoPayload \in Payload /\ {} \in SUBSET Ids
        BY NoCallType
    <2>2. restarts' \in 0..MaxRestarts
        BY RecordsAssumption DEF IInv, TypeOK, Restart
    <2> QED
        BY <2>1, <2>2 DEF IInv, TypeOK, Restart, Pcs
<1>3. UNCHANGED <<live, mem, born, audit>>
    BY DEF Restart
<1> QED
    BY <1>1, <1>2, <1>3 DEF IInv, ProtectedNeverSuperseded, NoSupersessionCycle,
       NothingUnaudited

LEMMA StepKeeps ==
    ASSUME IInv, NEW h \in Handlers, Request(h) \/ Handle(h)
    PROVE  IInv'
<1>0. TypeOK /\ Shapes /\ HandlerInv(h)
    BY ShapesOK DEF IInv
<1>1. TypeOK'
    <2>1. StoreTypes' /\ LocalTypes' /\ ControlTypes' /\ AuditType'
        BY <1>0, StoreStep, LocalStep, ControlStep, AuditStep
    <2> QED
        BY <2>1 DEF TypeOK, StoreTypes, LocalTypes, ControlTypes, AuditType
<1>2. ASSUME NEW k \in Handlers
      PROVE  HandlerInv(k)'
    <2>1. CASE k = h
        BY <1>0, <2>1, OwnStep
    <2>2. CASE k # h
        <3>1. Effect(h) /\ OwnLocals(h)
            BY <1>0, EffectStep, OwnLocalsStep
        <3>2. HandlerInv(k)
            BY DEF IInv
        <3> QED
            BY <1>0, <2>2, <3>1, <3>2, OthersKeep
    <2> QED
        BY <2>1, <2>2
<1>3. ProtectedNeverSuperseded' /\ NoSupersessionCycle' /\ NothingUnaudited'
    BY <1>0, ProtectedStep, CycleStep, AuditInvStep DEF IInv
<1> QED
    BY <1>1, <1>2, <1>3 DEF IInv

LEMMA StutterKeeps == IInv /\ UNCHANGED vars => IInv'
<1> SUFFICES ASSUME IInv, UNCHANGED vars PROVE IInv'
    OBVIOUS
<1> USE DEF vars
<1>1. TypeOK'
    BY DEF IInv, TypeOK
<1>2. ASSUME NEW h \in Handlers
      PROVE  HandlerInv(h)'
    <2>1. HandlerInv(h)
        BY DEF IInv
    <2>2. RequestInv(h)' /\ DeleteInv(h)'
        BY <2>1 DEF HandlerInv, RequestInv, DeleteInv
    <2>3. LockInv(h)' /\ PutInv(h)'
        BY <2>1 DEF HandlerInv, LockInv, PutInv, Needs
    <2>4. TierInv(h)' /\ SupersedeInv(h)'
        BY <2>1 DEF HandlerInv, TierInv, SupersedeInv
    <2> QED
        BY <2>2, <2>3, <2>4 DEF HandlerInv
<1>3. ProtectedNeverSuperseded' /\ NoSupersessionCycle' /\ NothingUnaudited'
    BY DEF IInv, ProtectedNeverSuperseded, NoSupersessionCycle, NothingUnaudited
<1> QED
    BY <1>1, <1>2, <1>3 DEF IInv

LEMMA AlwaysIInv == Spec => []IInv
<1>1. IInv /\ [Next]_vars => IInv'
    BY StepKeeps, RestartKeeps, StutterKeeps DEF Next
<1> QED
    BY <1>1, InitIInv, PTL DEF Spec

-----------------------------------------------------------------------------
(* The theorems. *)

\* The server's variables keep their types: no request is served with a stale
\* or foreign local (the handlers of app.py).
THEOREM TypeCorrect == Spec => []TypeOK
<1>1. IInv => TypeOK
    BY DEF IInv
<1> QED
    BY <1>1, AlwaysIInv, PTL

\* A canonical or insight record is never hidden behind a winner, whatever the
\* order of promotions, supersessions and rewrites (update_tier, precheck).
THEOREM ProtectionHolds == Spec => []ProtectedNeverSuperseded
<1>1. IInv => ProtectedNeverSuperseded
    BY DEF IInv
<1> QED
    BY <1>1, AlwaysIInv, PTL

\* Supersession never runs in a circle (_supersede_locks, precheck).
THEOREM SupersessionIsAcyclic == Spec => []NoSupersessionCycle
<1>1. IInv => NoSupersessionCycle
    BY DEF IInv
<1> QED
    BY <1>1, AlwaysIInv, PTL

\* What changed a record's tier, hid it or removed it has a line in the ledger
\* (update_tier, run_supersede, delete).
THEOREM AuditIsWrittenAhead == Spec => []NothingUnaudited
<1>1. IInv => NothingUnaudited
    BY DEF IInv
<1> QED
    BY <1>1, AlwaysIInv, PTL

\* A record leaves a protected tier only on the operator's signature (the second
\* read of update_tier).
THEOREM DemotionIsSigned == Spec => UnsignedNeverDemotes
<1> DEFINE Signed == \A i \in Ids : LeavesProtection(mem[i].tier, mem'[i].tier) =>
               \/ i \notin born
               \/ \E h \in Handlers : /\ req[h].op = "tier" /\ req[h].id = i
                                      /\ req[h].by = "operator"
<1>1. ASSUME IInv, NEW h \in Handlers, Request(h) \/ Handle(h), NEW i \in Ids,
             LeavesProtection(mem[i].tier, mem'[i].tier), i \in born
      PROVE  req[h].op = "tier" /\ req[h].id = i /\ req[h].by = "operator"
    <2>0. Shapes /\ HandlerInv(h)
        BY <1>1, ShapesOK DEF IInv
    <2>1. ~LeavesProtection(mem[i].tier, mem[i].tier)
        BY DEF LeavesProtection
    <2>2. PICK p \in Payload : Touch(h, p) /\ Allowed(h, p)
        BY <1>1, <2>0, <2>1, StepKinds DEF Shapes
    <2>3. mem' = [mem EXCEPT ![req[h].id] = p] /\ DOMAIN mem = Ids
        BY <2>0, <2>2 DEF Touch, Shapes
    <2>4. i = req[h].id
        BY <1>1, <2>1, <2>3
    <2>5. p.tier = mem'[i].tier
        BY <2>3, <2>4
    <2>6. ChangesTier(h, p)
        BY <1>1, <2>1, <2>2, <2>4, <2>5 DEF Allowed, KeepsRank, GoesBehind
    <2> QED
        BY <1>1, <2>4, <2>5, <2>6 DEF ChangesTier
<1>2. IInv /\ [Next]_vars => [Signed]_vars
    <2> SUFFICES ASSUME IInv, Next PROVE Signed
        OBVIOUS
    <2>1. CASE Restart
        BY <2>1 DEF Restart, LeavesProtection
    <2> QED
        BY <1>1, <2>1 DEF Next
<1> QED
    BY <1>2, AlwaysIInv, PTL DEF Spec, UnsignedNeverDemotes

-----------------------------------------------------------------------------
(* The server implements MemoryStore. *)

LEMMA StoreInit == Init => Store!Init
  BY RecordsAssumption DEF Init, Store!Init, Fresh, Tiers

LEMMA RewriteImplements ==
    ASSUME Shapes, NEW h \in Handlers, HandlerInv(h), Rewrites(h)
    PROVE  Store!Next \/ UNCHANGED <<live, mem>>
<1> DEFINE r == req[h].id
<1>0. r \in Ids /\ req[h].text \in Texts
    BY DEF Shapes, Calls
<1>1. CASE PutWrite(h)
    <2>1. mem' = [mem EXCEPT ![r] = Carryover(mem[r], req[h].text)]
        BY <1>1, PutWriteStep DEF Touch
    <2>2. live' = live \cup {r}
        BY <1>1 DEF PutWrite
    <2>3. CASE r \in live
        <3>1. Store!Rewrite(r, req[h].text)
            BY <2>1, <2>2, <2>3 DEF Store!Rewrite, Store!Put, Carryover
        <3> QED
            BY <1>0, <3>1 DEF Store!Next
    <2>4. CASE r \notin live
        <3>1. Store!Revive(r, req[h].text)
            BY <2>1, <2>2, <2>4 DEF Store!Revive, Store!Put, Carryover
        <3> QED
            BY <1>0, <3>1 DEF Store!Next
    <2> QED
        BY <2>3, <2>4
<1>2. CASE TierSet(h)
    <2> SUFFICES ASSUME ~Still PROVE Store!Next
        BY DEF Still
    <2> DEFINE p == [mem[r] EXCEPT !.tier = req[h].to]
    <2>1. /\ Touch(h, p) /\ ChangesTier(h, p) /\ UNCHANGED live
          /\ req[h].to \in Tiers /\ r \in live
          /\ p.sup = mem[r].sup /\ p.tier = req[h].to
        BY <1>2, TierSetStep
    <2>2. req[h].to \in Protected => mem[r].sup = Nobody
        BY <2>1 DEF ChangesTier
    <2>3. mem' = [mem EXCEPT ![r] = [mem[r] EXCEPT !.tier = req[h].to]]
        BY <2>1 DEF Touch
    <2>4. Store!Retier(r, req[h].to)
        BY <2>1, <2>2, <2>3 DEF Store!Retier, Store!Put, Protected
    <2> QED
        BY <1>0, <2>1, <2>4 DEF Store!Next, Tiers
<1>3. CASE Stamp(h)
    <2> SUFFICES ASSUME ~Still PROVE Store!Next
        BY DEF Still
    <2>1. /\ Touch(h, StampOf(req[h], mem[r])) /\ UNCHANGED live /\ r \in live
          /\ req[h].to \in Ids \cup {"retired"}
        BY <1>3, StampStep
    <2>2. mem' = [mem EXCEPT ![r] = StampOf(req[h], mem[r])]
        BY <2>1 DEF Touch
    <2>3. CASE req[h].to = "retired"
        <3>1. Store!Retire(r)
            BY <2>1, <2>2, <2>3 DEF Store!Retire, Store!Put, StampOf
        <3> QED
            BY <1>0, <3>1 DEF Store!Next
    <2>4. CASE req[h].to # "retired"
        <3>1. Store!Flag(r, req[h].to, req[h].text)
            BY <2>1, <2>2, <2>4 DEF Store!Flag, Store!Put, StampOf
        <3> QED
            BY <1>0, <2>1, <2>4, <3>1 DEF Store!Next
    <2> QED
        BY <2>3, <2>4
<1>4. CASE SupersedeWrite(h)
    <2> SUFFICES ASSUME ~Still PROVE Store!Next
        BY DEF Still
    <2>0. /\ UNCHANGED live /\ r \in live /\ req[h].to \in Ids /\ req[h].to # r
          /\ mem[req[h].to].sup = Nobody /\ mem[r].sup = Nobody
          /\ mem[r].tier \notin Protected
        BY <1>4, SupersedeWriteStep
    <2>1. CASE mem' = [mem EXCEPT ![r] = [mem[r] EXCEPT !.sup = req[h].to]]
        <3>1. Store!Supersede(r, req[h].to)
            BY <2>0, <2>1 DEF Store!Supersede, Store!Put, Protected
        <3> QED
            BY <1>0, <2>0, <3>1 DEF Store!Next
    <2>2. CASE mem' = [mem EXCEPT ![r] = [mem[r] EXCEPT !.notes = @ \cup {req[h].to}]]
        <3>1. Store!Annotate(r, req[h].to)
            BY <2>0, <2>2 DEF Store!Annotate, Store!Put, Protected
        <3> QED
            BY <1>0, <2>0, <3>1 DEF Store!Next
    <2> QED
        BY <1>4, <2>1, <2>2, SupersedeWriteStep DEF Touch
<1>5. CASE Unsupersede(h)
    <2>1. /\ r \in live /\ UNCHANGED live /\ mem[r].tier \notin Protected
          /\ \E p \in {[mem[r] EXCEPT !.sup = Nobody], [mem[r] EXCEPT !.notes = {}],
                       [mem[r] EXCEPT !.sup = Nobody, !.notes = {}]} :
                mem' = [mem EXCEPT ![r] = p]
        BY <1>5, UnsupersedeStep DEF Touch
    <2>2. Store!Clear(r)
        BY <2>1 DEF Store!Clear, Store!Put, Protected
    <2> QED
        BY <1>0, <2>2 DEF Store!Next
<1> QED
    BY <1>1, <1>2, <1>3, <1>4, <1>5 DEF Rewrites

LEMMA StepImplements ==
    ASSUME Shapes, NEW h \in Handlers, HandlerInv(h), Request(h) \/ Handle(h)
    PROVE  Store!Next \/ UNCHANGED <<live, mem>>
<1>1. CASE Insert(h)
    <2>1. PICK i \in Ids \ born :
              /\ req[h].text \in Texts /\ req[h].to \in Tiers
              /\ live' = live \cup {i}
              /\ mem' = [mem EXCEPT ![i] = Fresh(req[h].text, req[h].to)]
        BY <1>1, InsertStep
    <2>2. i \notin live
        BY <2>1 DEF Shapes
    <2>3. Store!Create(i, req[h].text, req[h].to)
        BY <2>1, <2>2 DEF Store!Create, Store!Put, Fresh
    <2> QED
        BY <2>1, <2>3 DEF Store!Next, Tiers
<1>2. CASE Removes(h)
    <2>1. PICK i \in Ids : live' = live \ {i} /\ UNCHANGED mem
        BY <1>2, RemoveStep
    <2>2. CASE i \in live
        BY <2>1, <2>2 DEF Store!Delete, Store!Next
    <2>3. CASE i \notin live
        BY <2>1, <2>3
    <2> QED
        BY <2>2, <2>3
<1>3. CASE Rewrites(h)
    BY <1>3, RewriteImplements
<1>4. CASE Quiet(h)
    BY <1>4, QuietStep
<1> QED
    BY <1>1, <1>2, <1>3, <1>4, HandleSplit

\* Every route takes effect in one step, on the payload as it then is: the reads
\* before a write are still true when it is made (_mid_write_lock).
THEOREM ServerImplementsStore == Spec => ImplementsStore
<1>1. IInv /\ [Next]_vars => [Store!Next]_<<live, mem>>
    <2>1. CASE UNCHANGED vars
        BY <2>1 DEF vars
    <2>2. CASE Restart
        BY <2>2 DEF Restart
    <2>3. ASSUME IInv, NEW h \in Handlers, Request(h) \/ Handle(h)
          PROVE  Store!Next \/ UNCHANGED <<live, mem>>
        BY <2>3, ShapesOK, StepImplements DEF IInv
    <2> QED
        BY <2>1, <2>2, <2>3 DEF Next
<1>2. [Store!Next]_<<live, mem>> => [Store!Next]_(Store!store)
    BY DEF Store!store
<1> QED
    BY <1>1, <1>2, StoreInit, AlwaysIInv, PTL DEF Spec, ImplementsStore, Store!Spec
-----------------------------------------------------------------------------
(* The locks: whoever waits holds only locks below those it still needs. *)

Climbs(h) ==
    /\ pc[h] \notin {"wait", "locked", "read"} => Holds(h) = {}
    /\ pc[h] = "wait" => \A i \in Holds(h), j \in Needs(h) \ Holds(h) : Rank[i] < Rank[j]

ClimbInv == \A h \in Handlers : Climbs(h)

\* What a step other than an acquisition does to the locks and to who is where.
LEMMA LockStep ==
    ASSUME Shapes, NEW g \in Handlers, Request(g) \/ Handle(g), ~Acquire(g)
    PROVE  /\ \A h \in Handlers \ {g} : pc'[h] = pc[h] /\ req'[h] = req[h]
           /\ \/ lock' = [i \in Ids |-> IF lock[i] = g THEN Nobody ELSE lock[i]]
              \/ lock' = lock /\ pc[g] \notin {"wait", "locked", "read"}
              \/ lock' = lock /\ pc[g] = "locked" /\ pc'[g] = "read"
<1> USE DEF Shapes
<1>1. CASE Request(g)
    <2>1. PICK to \in {"probe", "wait", "intent"}, c \in Calls : Arrive(g, to, c)
        <3>1. live \subseteq Ids /\ \A i \in Ids : mem[i].text \in Texts
            BY DEF Payload, Store!Payload
        <3> QED
            BY <1>1, <3>1, RequestStep DEF Arrival
    <2> QED
        BY <2>1 DEF Arrive
<1>2. CASE PutRead(g) \/ TierIntent(g) \/ SupersedeRead(g)
    BY <1>2 DEF PutRead, TierIntent, SupersedeRead
<1>3. CASE PutMissing(g) \/ TierRefuse(g) \/ SupersedeRefuse(g) \/ ClearRefuse(g)
    BY <1>3 DEF PutMissing, TierRefuse, SupersedeRefuse, ClearRefuse, Refuse, Release, Forget
<1>4. CASE PutWrite(g) \/ TierSet(g) \/ TierSetFails(g) \/ Stamp(g) \/ SupersedeWrite(g)
           \/ Unsupersede(g)
    BY <1>4 DEF PutWrite, TierSet, TierSetFails, Stamp, SupersedeWrite, Unsupersede, Finish,
                Release, Forget
<1>5. CASE Insert(g) \/ JudgeFlags(g)
    BY <1>5 DEF Insert, JudgeFlags
<1>6. CASE DeleteIntent(g) \/ Visit(g) \/ ReadMember(g) \/ DeleteMember(g) \/ ChainDone(g)
           \/ DeleteRoot(g)
    BY <1>6 DEF DeleteIntent, Visit, ReadMember, DeleteMember, ChainDone, DeleteRoot, Forget
<1>7. CASE Duplicate(g) \/ JudgeAdmits(g)
    BY <1>7 DEF Duplicate, JudgeAdmits, Forget
<1> QED
    BY <1>1, <1>2, <1>3, <1>4, <1>5, <1>6, <1>7 DEF Handle

\* A handler that stays where it is, with its request and its locks, still climbs.
LEMMA StillClimbs ==
    ASSUME NEW h \in Handlers, Climbs(h), pc'[h] = pc[h], req'[h] = req[h],
           Holds(h)' = Holds(h)
    PROVE  Climbs(h)'
<1>1. Needs(h)' = Needs(h)
    BY DEF Needs
<1> QED
    BY <1>1 DEF Climbs

LEMMA NeedsAreIds ==
    ASSUME Shapes, NEW h \in Handlers, RequestInv(h) PROVE Needs(h) \subseteq Ids
  BY DEF Shapes, RequestInv, Needs, Superseders

\* The lock that is taken comes before those still needed, and after those held.
LEMMA AcquireClimbs ==
    ASSUME Shapes, ClimbInv, NEW g \in Handlers, RequestInv(g), Acquire(g) PROVE ClimbInv'
<1>0. PICK i \in Needs(g) \ Holds(g) :
          /\ \A j \in Needs(g) \ Holds(g) : Rank[i] <= Rank[j]
          /\ lock[i] = Nobody /\ lock' = [lock EXCEPT ![i] = g]
          /\ pc' = [pc EXCEPT ![g] = IF Needs(g) \ Holds(g) = {i} THEN "locked" ELSE "wait"]
    BY DEF Acquire
<1>1. pc[g] = "wait" /\ req' = req
    BY DEF Acquire
<1>2. ASSUME NEW h \in Handlers, h # g PROVE Climbs(h)'
    <2>1. Holds(h)' = Holds(h)
        BY <1>0, <1>2, RecordsAssumption DEF Holds, Shapes
    <2> QED
        BY <1>0, <1>1, <1>2, <2>1, StillClimbs DEF ClimbInv, Shapes
<1>3. Climbs(g)'
    <2>0. Needs(g) \subseteq Ids /\ i \in Ids
        BY <1>0, NeedsAreIds
    <2>1. Holds(g)' = Holds(g) \cup {i} /\ Needs(g)' = Needs(g)
        BY <1>0, <1>1, <2>0 DEF Holds, Needs, Shapes
    <2>2. ASSUME NEW k \in Holds(g) \cup {i}, NEW j \in Needs(g) \ (Holds(g) \cup {i})
          PROVE  Rank[k] < Rank[j]
        <3>1. i \in Ids /\ j \in Ids /\ i # j /\ Rank[i] <= Rank[j]
            BY <1>0, <2>0
        <3>2. CASE k = i
            BY <3>1, <3>2, RecordsAssumption
        <3>3. CASE k \in Holds(g)
            BY <1>0, <1>1, <3>3 DEF ClimbInv, Climbs
        <3> QED
            BY <3>2, <3>3
    <2>3. pc'[g] \in {"locked", "wait"}
        BY <1>0 DEF Shapes
    <2> QED
        BY <2>1, <2>2, <2>3 DEF Climbs
<1> QED
    BY <1>2, <1>3 DEF ClimbInv

LEMMA ClimbStep ==
    ASSUME Shapes, ClimbInv, NEW g \in Handlers, RequestInv(g), Request(g) \/ Handle(g)
    PROVE  ClimbInv'
<1> SUFFICES ASSUME ~Acquire(g), NEW h \in Handlers PROVE Climbs(h)'
    BY AcquireClimbs DEF ClimbInv
<1> DEFINE freed == [i \in Ids |-> IF lock[i] = g THEN Nobody ELSE lock[i]]
<1>1. g # Nobody /\ h # Nobody
    BY RecordsAssumption
<1>2. CASE h # g
    <2>1. pc'[h] = pc[h] /\ req'[h] = req[h] /\ (lock' = freed \/ lock' = lock)
        BY <1>2, LockStep
    <2>2. Holds(h)' = Holds(h)
        BY <1>1, <1>2, <2>1 DEF Holds
    <2> QED
        BY <2>1, <2>2, StillClimbs DEF ClimbInv
<1>3. CASE h = g
    <2>1. CASE lock' = freed
        <3>1. Holds(h)' = {}
            BY <1>1, <1>3, <2>1 DEF Holds
        <3> QED
            BY <3>1 DEF Climbs
    <2>2. CASE lock' = lock /\ pc[g] \notin {"wait", "locked", "read"}
        <3>1. Holds(h)' = {}
            BY <1>3, <2>2 DEF Holds, ClimbInv, Climbs
        <3> QED
            BY <3>1 DEF Climbs
    <2>3. CASE lock' = lock /\ pc[g] = "locked" /\ pc'[g] = "read"
        BY <1>3, <2>3 DEF Climbs
    <2> QED
        BY <2>1, <2>2, <2>3, LockStep
<1> QED
    BY <1>2, <1>3

LEMMA AlwaysClimb == Spec => []ClimbInv
<1>1. Init => ClimbInv
    BY RecordsAssumption DEF Init, ClimbInv, Climbs, Holds
<1>2. IInv /\ ClimbInv /\ [Next]_vars => ClimbInv'
    <2> SUFFICES ASSUME IInv, ClimbInv, [Next]_vars PROVE ClimbInv'
        OBVIOUS
    <2>1. CASE UNCHANGED vars
        BY <2>1 DEF vars, ClimbInv, Climbs, Holds, Needs
    <2>2. CASE Restart
        BY <2>2, RecordsAssumption DEF Restart, ClimbInv, Climbs, Holds
    <2>3. ASSUME NEW g \in Handlers, Request(g) \/ Handle(g) PROVE ClimbInv'
        BY <2>3, ClimbStep, ShapesOK DEF IInv, HandlerInv
    <2> QED
        BY <2>1, <2>2, <2>3 DEF Next
<1> QED
    BY <1>1, <1>2, AlwaysIInv, PTL DEF Spec

\* Among finitely many things with numbers one has the greatest.
LEMMA Greatest ==
    ASSUME NEW H, IsFiniteSet(H), H # {}, NEW f, \A h \in H : f[h] \in Nat
    PROVE  \E h \in H : \A g \in H : f[g] <= f[h]
<1> DEFINE Above(h) == {g \in H : f[g] > f[h]}
           Y == {Cardinality(Above(h)) : h \in H}
<1>1. \A h \in H : IsFiniteSet(Above(h)) /\ Cardinality(Above(h)) \in Nat
    BY FS_Subset, FS_CardinalityType
<1>2. Y \subseteq Nat /\ Y # {}
    BY <1>1
<1>3. PICK y \in Y : \A z \in Y : <<z, y>> \notin OpToRel(<, Nat)
    BY <1>2, NatLessThanWellFounded, WFMin, Zenon
<1>4. \A z \in Y : ~(z < y)
    <2>1. OpToRel(<, Nat) = {r \in Nat \X Nat : r[1] < r[2]}
        BY DEF OpToRel
    <2>2. \A z \in Y : <<z, y>> \notin {r \in Nat \X Nat : r[1] < r[2]}
        BY <1>3, <2>1, Zenon
    <2> HIDE DEF Y
    <2> QED
        BY <1>2, <2>2
<1>5. PICK h \in H : y = Cardinality(Above(h))
    OBVIOUS
<1> SUFFICES ASSUME NEW g \in H, f[g] > f[h] PROVE FALSE
    BY <1>5
<1>6. Above(g) \subseteq Above(h) /\ g \in Above(h) /\ g \notin Above(g)
    OBVIOUS
<1>7. Cardinality(Above(g)) < Cardinality(Above(h))
    <2> HIDE DEF Above
    <2>1. Above(g) # Above(h)
        BY <1>6
    <2> QED
        BY <1>1, <1>6, <2>1, FS_Subset
<1>8. Cardinality(Above(g)) \in Y
    OBVIOUS
<1> QED
    BY <1>4, <1>5, <1>7, <1>8

\* No handlers wait for each other in a circle, for any number of threads: along
\* a chain of waiting handlers the locks go up (_supersede_locks).
THEOREM NoCircularWait == Spec => []NobodyWaitsInACircle
<1>1. IInv /\ ClimbInv => NobodyWaitsInACircle
    <2> SUFFICES ASSUME IInv, ClimbInv, NEW H \in (SUBSET Handlers) \ {{}},
                        \A h \in H : \E g \in H : WaitsFor(h, g)
                 PROVE  FALSE
        BY DEF NobodyWaitsInACircle
    <2>0. \A h \in H : Needs(h) \subseteq Ids
        BY NeedsAreIds, ShapesOK DEF IInv, HandlerInv
    <2> DEFINE Wanted(h) == {i \in Needs(h) \ Holds(h) : lock[i] \in H}
               want == [h \in H |-> CHOOSE i \in Wanted(h) : TRUE]
               rank == [h \in H |-> Rank[want[h]]]
    <2>1. ASSUME NEW h \in H PROVE pc[h] = "wait" /\ want[h] \in Wanted(h)
        <3>1. Wanted(h) # {} /\ pc[h] = "wait"
            BY DEF WaitsFor
        <3> HIDE DEF Wanted
        <3> QED
            BY <3>1
    <2>2. ASSUME NEW h \in H
          PROVE  want[h] \in Ids /\ want[h] \in Needs(h) \ Holds(h) /\ lock[want[h]] \in H
        <3>1. want[h] \in Needs(h) \ Holds(h) /\ lock[want[h]] \in H
            BY <2>1
        <3> QED
            BY <2>0, <3>1
    <2> HIDE DEF want
    <2>3. \A h \in H : rank[h] \in Nat
        BY <2>2, RecordsAssumption
    <2>4. PICK h \in H : \A g \in H : rank[g] <= rank[h]
        <3>1. IsFiniteSet(H)
            BY RecordsAssumption, FS_Subset
        <3> HIDE DEF rank
        <3> QED
            BY <2>3, <3>1, Greatest
    <2> DEFINE g == lock[want[h]]
    <2>5. g \in H /\ want[h] \in Holds(g)
        BY <2>2 DEF Holds
    <2>6. rank[h] < rank[g]
        BY <2>1, <2>2, <2>5 DEF ClimbInv, Climbs
    <2> QED
        BY <2>3, <2>4, <2>5, <2>6
<1> QED
    BY <1>1, AlwaysClimb, AlwaysIInv, PTL
=============================================================================
