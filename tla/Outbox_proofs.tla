--------------------------- MODULE Outbox_proofs ----------------------------
(***************************************************************************)
(* What the outbox guarantees for every set of queued operations, every    *)
(* number of drainers and every number of crashes.                         *)
(***************************************************************************)
EXTENDS Outbox, SequenceTheorems, WellFoundedInduction, TLAPS

(***************************************************************************)
(* Sequences of records.                                                   *)
(***************************************************************************)

\* Appending a record adds it to the records of a file.
LEMMA ElemsAppend ==
    ASSUME NEW S, NEW s \in Seq(S), NEW k \in S
    PROVE  /\ Append(s, k) \in Seq(S)
           /\ Elems(Append(s, k)) = Elems(s) \cup {k}
<1> DEFINE t == Append(s, k)
<1>1. /\ t \in Seq(S) /\ Len(t) = Len(s) + 1 /\ Len(s) \in Nat
      /\ \A i \in 1..Len(s) : t[i] = s[i]
      /\ t[Len(s) + 1] = k
  OBVIOUS
<1>2. DOMAIN t = 1..(Len(s) + 1) /\ DOMAIN s = 1..Len(s)
  BY <1>1
<1>3. Elems(t) \subseteq Elems(s) \cup {k}
  BY <1>1, <1>2 DEF Elems
<1>4. Elems(s) \cup {k} \subseteq Elems(t)
  BY <1>1, <1>2 DEF Elems
<1>5. QED BY <1>1, <1>3, <1>4

\* Folding a file onto another keeps the records of both.
LEMMA ElemsConcat ==
    ASSUME NEW S, NEW s \in Seq(S), NEW t \in Seq(S)
    PROVE  /\ s \o t \in Seq(S)
           /\ Elems(s \o t) = Elems(s) \cup Elems(t)
<1>1. s \o t \in Seq(S)
  OBVIOUS
<1>2. Elems(s \o t) \subseteq Elems(s) \cup Elems(t)
  BY DEF Elems
<1>3. Elems(s) \subseteq Elems(s \o t)
  BY DEF Elems
<1>4. ASSUME NEW x \in Elems(t) PROVE x \in Elems(s \o t)
  <2>1. PICK i \in 1..Len(t) : x = t[i]
    BY <1>4 DEF Elems
  <2>2. Len(s) + i \in DOMAIN (s \o t) /\ (s \o t)[Len(s) + i] = t[i]
    BY <2>1
  <2>3. QED BY <2>1, <2>2 DEF Elems
<1>5. QED BY <1>1, <1>2, <1>3, <1>4

\* What comes after a position of a file is in the file.
LEMMA ElemsSuffix ==
    ASSUME NEW S, NEW s \in Seq(S), NEW i \in DOMAIN s
    PROVE  Elems(SubSeq(s, i + 1, Len(s))) \subseteq Elems(s)
<1> DEFINE t == SubSeq(s, i + 1, Len(s))
<1>1. i \in 1..Len(s) /\ Len(s) \in Nat /\ DOMAIN s = 1..Len(s)
  OBVIOUS
<1>2. DOMAIN t = 1..(Len(s) - i) /\ \A j \in 1..(Len(s) - i) : t[j] = s[i + j]
  BY <1>1
<1>3. \A j \in 1..(Len(s) - i) : i + j \in DOMAIN s
  BY <1>1
<1>4. QED BY <1>2, <1>3 DEF Elems

\* Visiting the record at i removes that record and no other.
LEMMA ElemsWithout ==
    ASSUME NEW S, NEW s \in Seq(S), NEW i \in DOMAIN s
    PROVE  /\ Without(s, i) \in Seq(S)
           /\ Elems(s) = Elems(Without(s, i)) \cup {s[i]}
<1> DEFINE w == Without(s, i)
<1>0. i \in 1..Len(s) /\ Len(s) \in Nat
  OBVIOUS
<1>1. w \in [1..(Len(s) - 1) -> S] /\ Len(s) - 1 \in Nat
  BY <1>0 DEF Without
<1>2. w \in Seq(S) /\ DOMAIN w = 1..(Len(s) - 1)
  BY <1>1
<1>3. Elems(w) \cup {s[i]} \subseteq Elems(s)
  BY <1>0, <1>2 DEF Elems, Without
<1>4. ASSUME NEW x \in Elems(s), x # s[i] PROVE x \in Elems(w)
  <2>1. PICK j \in 1..Len(s) : x = s[j]
    BY DEF Elems
  <2>2. j # i
    BY <1>4, <2>1
  <2>3. CASE j < i
    <3>1. j \in 1..(Len(s) - 1) /\ w[j] = s[j]
      BY <1>0, <2>1, <2>3 DEF Without
    <3>2. QED BY <3>1, <1>2, <2>1 DEF Elems
  <2>4. CASE j > i
    <3>1. j - 1 \in 1..(Len(s) - 1) /\ w[j - 1] = s[j]
      BY <1>0, <2>1, <2>4 DEF Without
    <3>2. QED BY <3>1, <1>2, <2>1 DEF Elems
  <2>5. QED BY <2>2, <2>3, <2>4, <1>0
<1>5. QED BY <1>2, <1>3, <1>4

\* An empty file has no records.
LEMMA ElemsEmpty == Elems(<<>>) = {}
<1>1. DOMAIN <<>> = {}
  OBVIOUS
<1>2. QED BY <1>1 DEF Elems

\* A nonempty set of naturals has a least element.
LEMMA SmallestNat ==
    ASSUME NEW S \in SUBSET Nat, S # {}
    PROVE  \E j \in S : \A n \in S : j <= n
<1>1. PICK j \in S : \A n \in S : ~ (<<n, j>> \in OpToRel(<, Nat))
  BY NatLessThanWellFounded, WFMin
<1>2. OpToRel(<, Nat) = {ss \in Nat \X Nat : ss[1] < ss[2]}
  BY DEF OpToRel
<1>3. \A n \in S : ~ (<<n, j>> \in {ss \in Nat \X Nat : ss[1] < ss[2]})
  BY <1>1, <1>2, Zenon
<1>4. ASSUME NEW n \in S PROVE j <= n
  <2>1. n \in Nat /\ j \in Nat
    OBVIOUS
  <2>2. ~ (n < j)
    <3>1. SUFFICES ASSUME n < j PROVE <<n, j>> \in {ss \in Nat \X Nat : ss[1] < ss[2]}
      BY <1>3
    <3>2. QED BY <2>1, <3>1
  <2>3. QED BY <2>1, <2>2
<1>5. QED BY <1>4

\* What a stopped drain keeps after the current record.
LEMMA RestAfterType ==
    ASSUME TypeOK, NEW d \in Drainers, cur[d] \in Ops
    PROVE  /\ RestAfter(d) \in Seq(Ops)
           /\ Elems(recs[d]) \subseteq Elems(RestAfter(d))
           /\ Elems(RestAfter(d)) \subseteq Elems(past[d]) \cup {cur[d]} \cup Elems(recs[d])
<1> DEFINE k == cur[d]
           seen == {j \in DOMAIN past[d] : past[d][j] = k}
           first == CHOOSE j \in seen : \A n \in seen : j <= n
           front == SubSeq(past[d], first + 1, Len(past[d])) \o <<k>>
<1>1. recs[d] \in Seq(Ops) /\ past[d] \in Seq(Ops)
  BY DEF TypeOK
<1>2. CASE seen = {}
  BY <1>1, <1>2 DEF RestAfter
<1>3. CASE seen # {}
  <2>1. RestAfter(d) = front \o recs[d]
    BY <1>3 DEF RestAfter
  <2>2. first \in seen
    <3>1. seen \subseteq Nat /\ seen # {}
      BY <1>1, <1>3
    <3>2. \E j \in seen : \A n \in seen : j <= n
      BY <3>1, SmallestNat
    <3>3. QED BY <3>2
  <2>3. SubSeq(past[d], first + 1, Len(past[d])) \in Seq(Ops)
    <3>1. first \in 1..Len(past[d]) /\ Len(past[d]) \in Nat
      BY <1>1, <2>2
    <3> HIDE DEF first
    <3>2. /\ first + 1 \in Int /\ Len(past[d]) \in Int
          /\ \A i \in (first + 1)..Len(past[d]) : past[d][i] \in Ops
      BY <1>1, <3>1
    <3>3. QED BY <3>2, SubSeqProperties
  <2>4. front \in Seq(Ops) /\ Elems(front) \subseteq Elems(past[d]) \cup {k}
    <3> DEFINE tail == SubSeq(past[d], first + 1, Len(past[d]))
    <3>1. tail \in Seq(Ops) /\ <<k>> \in Seq(Ops) /\ Elems(<<k>>) = {k}
      BY <2>3 DEF Elems
    <3>2. Elems(tail) \subseteq Elems(past[d])
      BY <1>1, <2>2, ElemsSuffix
    <3>3. front = tail \o <<k>>
      OBVIOUS
    <3> DEFINE last == <<k>>
    <3> HIDE DEF tail, front, last
    <3>4. ASSUME NEW s \in Seq(Ops), NEW t \in Seq(Ops)
          PROVE  s \o t \in Seq(Ops) /\ Elems(s \o t) = Elems(s) \cup Elems(t)
      BY ElemsConcat
    <3>5. last \in Seq(Ops) /\ Elems(last) = {k} /\ front = tail \o last
      BY <3>1, <3>3 DEF last
    <3> HIDE DEF k
    <3>6. QED BY <3>1, <3>2, <3>4, <3>5
  <2>5. /\ front \o recs[d] \in Seq(Ops)
        /\ Elems(front \o recs[d]) = Elems(front) \cup Elems(recs[d])
    <3> HIDE DEF front
    <3>1. QED BY <2>4, <1>1, ElemsConcat
  <2> HIDE DEF front, k
  <2>6. k = cur[d]
    BY DEF k
  <2>7. QED BY <2>1, <2>4, <2>5, <2>6
<1>4. QED BY <1>2, <1>3
-----------------------------------------------------------------------------
(***************************************************************************)
(* Type correctness.                                                       *)
(***************************************************************************)

\* Executing a record at its destination keeps the authority's state well typed.
LEMMA DeliverType ==
    ASSUME TypeOK, NEW d \in Drainers, NEW k \in Ops, Deliver(d, k)
    PROVE  /\ applied' \subseteq Ops /\ stale' \subseteq Ops
           /\ repeated' \subseteq Ops /\ direct' = direct
BY DEF TypeOK, Deliver, QueuedOn, remote

\* A process that ends leaves well-typed locals behind.
LEMMA ExitType ==
    ASSUME TypeOK, NEW d \in Drainers, Exit(d)
    PROVE  /\ lock' \in Drainers \cup {None}
           /\ pc' \in [Drainers -> PCs]
           /\ recs' \in [Drainers -> Seq(Ops)]
           /\ cur' \in [Drainers -> Ops \cup {None}]
           /\ past' \in [Drainers -> Seq(Ops)]
           /\ kept' \in [Drainers -> Seq(Ops)]
           /\ done' \in [Drainers -> SUBSET Ops]
           /\ sshDown' \in [Drainers -> BOOLEAN]
           /\ dst' \in [Drainers -> {"authority", "local"}]
<1>1. <<>> \in Seq(Ops)
  OBVIOUS
<1>2. QED BY <1>1 DEF TypeOK, Exit, Goto, PCs

\* cur names a record while one is being dispatched or ledgered.
CurSet == \A d \in Drainers : pc[d] \in {"dispatch", "ledger"} => cur[d] \in Ops

\* Every step keeps the files, the locals and the authority well typed.
LEMMA TypeStep == TypeOK /\ CurSet /\ [Next]_vars => TypeOK' /\ CurSet'
<1> SUFFICES ASSUME TypeOK, CurSet, [Next]_vars PROVE TypeOK' /\ CurSet'
  OBVIOUS
<1> USE DEF files, locals, remote
<1>1. CASE UNCHANGED vars
  BY <1>1 DEF TypeOK, CurSet, vars, Memories
<1>2. ASSUME NEW k \in Ops, QueueOpen(k) PROVE TypeOK' /\ CurSet'
  BY <1>2 DEF QueueOpen, TypeOK, CurSet, Memories
<1>3. ASSUME NEW k \in Ops, QueueWrite(k) PROVE TypeOK' /\ CurSet'
  <2>1. outbox' \in Seq(Ops) /\ rotating' \in Seq(Ops)
    BY <1>3, ElemsAppend DEF QueueWrite, TypeOK
  <2>2. QED BY <1>3, <2>1 DEF QueueWrite, TypeOK, CurSet, Memories
<1>4. ASSUME NEW m \in Memories, DirectUpdate(m) PROVE TypeOK' /\ CurSet'
  BY <1>4 DEF DirectUpdate, TypeOK, CurSet, QueuedOn, Memories
<1>5. ASSUME NEW d \in Drainers, ShimDrain(d) \/ GoOnlineDrain(d) PROVE TypeOK' /\ CurSet'
  <2>1. /\ pc' \in [Drainers -> PCs] /\ dst' \in [Drainers -> {"authority", "local"}]
        /\ lock' \in Drainers \cup {None}
    <3>1. Begin(d)
      BY <1>5 DEF ShimDrain, GoOnlineDrain
    <3>2. pc' \in [Drainers -> PCs] /\ lock' \in Drainers \cup {None}
      BY <3>1 DEF Begin, Goto, TypeOK, PCs
    <3>3. PICK x \in Destinations : dst' = [dst EXCEPT ![d] = x]
      BY <3>1 DEF Begin
    <3>4. QED BY <3>2, <3>3 DEF Destinations, TypeOK
  <2>2. QED BY <1>5, <2>1 DEF ShimDrain, GoOnlineDrain, Begin, Goto, TypeOK, CurSet, Memories
<1>6. ASSUME NEW d \in Drainers, NEW l \in {"unlinkLeftover", "unlink"}, FoldRotating(d, l)
      PROVE  TypeOK' /\ CurSet'
  <2>1. replaying' \in Seq(Ops)
    BY <1>6, ElemsConcat DEF FoldRotating, TypeOK
  <2>2. QED BY <1>6, <2>1 DEF FoldRotating, Goto, TypeOK, CurSet, PCs, Memories
<1>7. ASSUME NEW d \in Drainers, NEW l \in {"rotate", "load"}, UnlinkRotating(d, l)
      PROVE  TypeOK' /\ CurSet'
  BY <1>7 DEF UnlinkRotating, Goto, TypeOK, CurSet, PCs, Memories
<1>8. ASSUME NEW d \in Drainers, Rotate(d) PROVE TypeOK' /\ CurSet'
  BY <1>8 DEF Rotate, Goto, TypeOK, CurSet, PCs, Memories
<1>9. ASSUME NEW d \in Drainers, Load(d) PROVE TypeOK' /\ CurSet'
  <2>1. <<>> \in Seq(Ops)
    OBVIOUS
  <2>2. QED BY <1>9, <2>1 DEF Load, Goto, TypeOK, CurSet, PCs, Memories
<1>10. ASSUME NEW d \in Drainers, Unparseable(d) PROVE TypeOK' /\ CurSet'
  <2>1. PICK i \in DOMAIN recs[d] :
           /\ conflicts' = conflicts \cup {<<recs[d][i], "unparseable">>}
           /\ recs' = [recs EXCEPT ![d] = Without(recs[d], i)]
    BY <1>10 DEF Unparseable
  <2>2. recs[d][i] \in Ops /\ Without(recs[d], i) \in Seq(Ops)
    BY ElemsWithout DEF TypeOK
  <2>3. QED BY <1>10, <2>1, <2>2 DEF Unparseable, TypeOK, CurSet, PCs, Reasons, Memories
<1>11. ASSUME NEW d \in Drainers, Parsed(d) PROVE TypeOK' /\ CurSet'
  BY <1>11 DEF Parsed, Goto, TypeOK, CurSet, PCs, Memories
<1>12. ASSUME NEW d \in Drainers, NEW i \in DOMAIN recs[d]
       PROVE  /\ recs[d][i] \in Ops
              /\ Without(recs[d], i) \in Seq(Ops)
              /\ Append(past[d], recs[d][i]) \in Seq(Ops)
              /\ Append(kept[d], recs[d][i]) \in Seq(Ops)
  BY ElemsWithout, ElemsAppend DEF TypeOK
<1>13. ASSUME NEW d \in Drainers, SkipDone(d) PROVE TypeOK' /\ CurSet'
  <2>1. PICK i \in DOMAIN recs[d] : Visit(d, i) /\ Remember(d, recs[d][i])
    BY <1>13 DEF SkipDone
  <2>2. QED BY <1>13, <1>12, <2>1 DEF SkipDone, Visit, Remember, TypeOK, CurSet, Memories
<1>14. ASSUME NEW d \in Drainers, ParkCanonize(d) PROVE TypeOK' /\ CurSet'
  <2>1. PICK i \in DOMAIN recs[d] : Visit(d, i) /\ Keep(d, recs[d][i]) /\ Remember(d, recs[d][i])
    BY <1>14 DEF ParkCanonize
  <2>2. QED BY <1>14, <1>12, <2>1 DEF ParkCanonize, Visit, Remember, Keep, TypeOK, CurSet, Memories
<1>15. ASSUME NEW d \in Drainers, ConflictSuperseded(d) PROVE TypeOK' /\ CurSet'
  <2>1. PICK i \in DOMAIN recs[d] :
           /\ Visit(d, i) /\ Remember(d, recs[d][i])
           /\ conflicts' = conflicts \cup {<<recs[d][i], "superseded">>}
    BY <1>15 DEF ConflictSuperseded
  <2>2. QED BY <1>15, <1>12, <2>1
            DEF ConflictSuperseded, Visit, Remember, TypeOK, CurSet, Reasons, Memories
<1>16. ASSUME NEW d \in Drainers, ToDispatch(d) PROVE TypeOK' /\ CurSet'
  <2>1. PICK i \in DOMAIN recs[d] : Visit(d, i) /\ cur' = [cur EXCEPT ![d] = recs[d][i]]
    BY <1>16 DEF ToDispatch
  <2>2. QED BY <1>16, <1>12, <2>1 DEF ToDispatch, Visit, Goto, TypeOK, CurSet, PCs, Memories
<1>17. ASSUME NEW d \in Drainers, cur[d] \in Ops
       PROVE  /\ Append(past[d], cur[d]) \in Seq(Ops)
              /\ Append(kept[d], cur[d]) \in Seq(Ops)
  BY <1>17, ElemsAppend DEF TypeOK
<1>18. ASSUME NEW d \in Drainers, DispatchOk(d) PROVE TypeOK' /\ CurSet'
  <2>1. cur[d] \in Ops
    BY <1>18 DEF DispatchOk, CurSet
  <2>2. QED BY <1>18, <2>1, DeliverType DEF DispatchOk, Goto, TypeOK, CurSet, PCs, Memories
<1>19. ASSUME NEW d \in Drainers, LedgerAppend(d) PROVE TypeOK' /\ CurSet'
  <2>1. cur[d] \in Ops
    BY <1>19 DEF LedgerAppend, CurSet
  <2>2. QED BY <1>19, <1>17, <2>1 DEF LedgerAppend, Remember, Goto, TypeOK, CurSet, PCs, Memories
<1>20. ASSUME NEW d \in Drainers, KeepTransient(d) PROVE TypeOK' /\ CurSet'
  <2>1. cur[d] \in Ops
    BY <1>20 DEF KeepTransient, CurSet
  <2>2. /\ applied' \subseteq Ops /\ stale' \subseteq Ops
        /\ repeated' \subseteq Ops /\ direct' = direct
    BY <1>20, <2>1, DeliverType DEF KeepTransient, TypeOK
  <2>3. QED BY <1>20, <1>17, <2>1, <2>2
            DEF KeepTransient, Remember, Keep, Goto, TypeOK, CurSet, PCs, Memories
<1>21. ASSUME NEW d \in Drainers, KeepSSH(d) PROVE TypeOK' /\ CurSet'
  <2>1. cur[d] \in Ops
    BY <1>21 DEF KeepSSH, CurSet
  <2>2. /\ applied' \subseteq Ops /\ stale' \subseteq Ops
        /\ repeated' \subseteq Ops /\ direct' = direct
    BY <1>21, <2>1, DeliverType DEF KeepSSH, TypeOK
  <2>3. QED BY <1>21, <1>17, <2>1, <2>2
            DEF KeepSSH, Remember, Keep, Goto, TypeOK, CurSet, PCs, Memories
<1>22. ASSUME NEW d \in Drainers, StopRetryable(d) PROVE TypeOK' /\ CurSet'
  <2>1. cur[d] \in Ops
    BY <1>22 DEF StopRetryable, CurSet
  <2>2. <<>> \in Seq(Ops) /\ (kept[d] \o <<cur[d]>>) \o RestAfter(d) \in Seq(Ops)
    BY <2>1, RestAfterType, ElemsConcat DEF TypeOK
  <2>3. QED BY <1>22, <2>1, <2>2 DEF StopRetryable, Goto, TypeOK, CurSet, PCs, Memories
<1>23. ASSUME NEW d \in Drainers, ConflictRefused(d) PROVE TypeOK' /\ CurSet'
  <2>1. cur[d] \in Ops
    BY <1>23 DEF ConflictRefused, CurSet
  <2>2. QED BY <1>23, <1>17, <2>1
            DEF ConflictRefused, Remember, Goto, TypeOK, CurSet, PCs, Reasons, Memories
<1>24. ASSUME NEW d \in Drainers, FinishClean(d) \/ Rewrite(d) PROVE TypeOK' /\ CurSet'
  <2>1. replaying' \in Seq(Ops) /\ Exit(d)
    BY <1>24 DEF FinishClean, Rewrite, TypeOK
  <2>2. CurSet'
    BY <2>1 DEF Exit, Goto, TypeOK, CurSet
  <2>3. QED BY <1>24, <2>1, <2>2, ExitType DEF FinishClean, Rewrite, TypeOK, Memories
<1>25. ASSUME NEW d \in Drainers, Truncate(d) PROVE TypeOK' /\ CurSet'
  <2>1. <<>> \in Seq(Ops)
    OBVIOUS
  <2>2. QED BY <1>25, <2>1 DEF Truncate, Goto, TypeOK, CurSet, PCs, Memories
<1>26. ASSUME NEW d \in Drainers, Crash(d) PROVE TypeOK' /\ CurSet'
  <2>1. Exit(d) /\ torn' \subseteq Ops /\ crashes' \in Nat
    BY <1>26 DEF Crash, TypeOK, Elems
  <2>2. CurSet'
    BY <2>1 DEF Exit, Goto, TypeOK, CurSet
  <2>3. QED BY <1>26, <2>1, <2>2, ExitType DEF Crash, TypeOK, Memories
<1>27. ASSUME NEW d \in Drainers, Drain(d) PROVE TypeOK' /\ CurSet'
  BY <1>27, <1>6, <1>7, <1>8, <1>9, <1>10, <1>11, <1>13, <1>14, <1>15, <1>16, <1>18, <1>19,
     <1>20, <1>21, <1>22, <1>23, <1>24, <1>25
     DEF Drain, FoldLeftover, UnlinkLeftover, Fold, Unlink
<1>28. QED
  BY <1>1, <1>2, <1>3, <1>4, <1>5, <1>26, <1>27 DEF Next

\* The state of the outbox is well typed in every reachable state.
THEOREM OutboxTypeCorrect == Spec => []TypeOK
<1>1. Init => TypeOK /\ CurSet
  <2>1. <<>> \in Seq(Ops)
    OBVIOUS
  <2>2. QED BY <2>1, OutboxAssumption DEF Init, TypeOK, CurSet, PCs
<1>2. QED BY <1>1, TypeStep, PTL DEF Spec
-----------------------------------------------------------------------------
(***************************************************************************)
(* The inductive invariant.                                                *)
(***************************************************************************)
Working == {"parse", "loop", "dispatch", "ledger"}
InHand(d) == IF pc[d] \in {"dispatch", "ledger"} THEN {cur[d]} ELSE {}

\* The flock: a drainer runs exactly when it holds the lock.
OneDrainer == \A d \in Drainers : pc[d] # "idle" <=> lock = d

\* Between fold and unlink everything in the rotated file has been copied,
\* but for what was written to it after the copy.
FoldedInv ==
    \A d \in Drainers : pc[d] \in {"unlinkLeftover", "unlink"}
        => Elems(rotating) \subseteq Elems(replaying) \cup late

\* The live outbox is rotated only onto a name nobody uses.
RotateInv ==
    \A d \in Drainers : pc[d] = "rotate"
        => rotating = <<>> /\ \A k \in Ops : fd[k] # "rotating"

\* The file that the final rewrite replaces is empty by then.
TruncatedInv == \A d \in Drainers : pc[d] = "rewrite" => replaying = <<>>

\* The replaying file lists nothing that the batch in memory does not account for.
BatchInv ==
    \A d \in Drainers : pc[d] \in Working
        => Elems(replaying) \subseteq Elems(recs[d]) \cup Elems(kept[d]) \cup Settled \cup InHand(d)

\* done_keys is the ledger, and the record in hand is not in it.
LedgerInv ==
    \A d \in Drainers :
        /\ pc[d] \in Working => done[d] = ledger
        /\ InHand(d) \cap ledger = {}
        /\ dst[d] = "authority"
        /\ pc[d] = "ledger" => cur[d] \in applied

IInv ==
    /\ TypeOK /\ CurSet
    /\ OneDrainer
    /\ LostOnlyInTheTwoWindows
    /\ FoldedInv /\ RotateInv /\ TruncatedInv /\ BatchInv
    /\ LedgerInv /\ LedgeredMeansDelivered
-----------------------------------------------------------------------------
(***************************************************************************)
(* The flock excludes a second drainer.                                    *)
(***************************************************************************)

\* While one drainer runs, every other is idle.
LEMMA OthersIdle ==
    ASSUME OneDrainer, NEW d \in Drainers, pc[d] # "idle"
    PROVE  lock = d /\ \A e \in Drainers : e # d => pc[e] = "idle"
BY DEF OneDrainer

\* No step starts a second drainer.
LEMMA OneDrainerStep == TypeOK /\ OneDrainer /\ [Next]_vars => OneDrainer'
<1> SUFFICES ASSUME TypeOK, OneDrainer, [Next]_vars PROVE OneDrainer'
  OBVIOUS
<1> USE OutboxAssumption DEF files, locals, remote, OneDrainer
<1>1. CASE pc' = pc /\ lock' = lock
  BY <1>1
<1>2. ASSUME NEW d \in Drainers, pc[d] # "idle", lock' = lock, NEW l, l # "idle", Goto(d, l)
      PROVE  OneDrainer'
  BY <1>2 DEF Goto, TypeOK
<1>3. ASSUME NEW d \in Drainers, pc[d] # "idle", Exit(d) PROVE OneDrainer'
  BY <1>3 DEF Exit, Goto, TypeOK
<1>4. ASSUME NEW d \in Drainers, Begin(d) PROVE OneDrainer'
  BY <1>4 DEF Begin, Goto, TypeOK
<1>5. ASSUME NEW d \in Drainers, Drain(d) PROVE OneDrainer'
  <2>1. CASE FoldLeftover(d) \/ UnlinkLeftover(d) \/ Rotate(d) \/ Fold(d) \/ Unlink(d) \/ Load(d) \/ Parsed(d)
    BY <1>2, <2>1 DEF FoldLeftover, UnlinkLeftover, Rotate, Fold, Unlink, Load, Parsed,
                      FoldRotating, UnlinkRotating
  <2>2. CASE Unparseable(d) \/ SkipDone(d) \/ ParkCanonize(d) \/ ConflictSuperseded(d)
    BY <1>1, <2>2 DEF Unparseable, SkipDone, ParkCanonize, ConflictSuperseded
  <2>3. CASE ToDispatch(d)
    BY <1>2, <2>3 DEF ToDispatch, Visit
  <2>4. CASE DispatchOk(d) \/ LedgerAppend(d) \/ KeepTransient(d) \/ KeepSSH(d) \/ StopRetryable(d) \/ ConflictRefused(d)
    BY <1>2, <2>4 DEF DispatchOk, LedgerAppend, KeepTransient, KeepSSH, StopRetryable, ConflictRefused
  <2>5. CASE Truncate(d)
    BY <1>2, <2>5 DEF Truncate
  <2>6. CASE FinishClean(d) \/ Rewrite(d)
    BY <1>3, <2>6 DEF FinishClean, Rewrite
  <2>7. QED BY <1>5, <2>1, <2>2, <2>3, <2>4, <2>5, <2>6 DEF Drain
<1>6. QED
  BY <1>1, <1>3, <1>4, <1>5 DEF Next, vars, QueueOpen, QueueWrite, DirectUpdate, ShimDrain, GoOnlineDrain, Crash
-----------------------------------------------------------------------------
(***************************************************************************)
(* One step of the rest of the invariant.                                  *)
(***************************************************************************)
DrainInv == FoldedInv /\ RotateInv /\ TruncatedInv /\ BatchInv /\ LedgerInv

\* A step that touches no file, no drainer and no part of the authority but
\* the stamps, or that only lets a writer open the outbox.
LEMMA WriterStep ==
    ASSUME IInv, NEW k \in Ops, QueueOpen(k) \/ QueueWrite(k)
    PROVE  LostOnlyInTheTwoWindows' /\ DrainInv' /\ LedgeredMeansDelivered'
<1> USE DEF files, locals, remote, IInv
<1>1. CASE QueueOpen(k)
  <2>1. LostOnlyInTheTwoWindows'
    BY <1>1 DEF QueueOpen, LostOnlyInTheTwoWindows, Queued, OnDisk, Settled, ConflictKeys, Rewriting, TypeOK
  <2>2. FoldedInv' /\ TruncatedInv' /\ BatchInv' /\ LedgerInv' /\ LedgeredMeansDelivered'
    BY <1>1 DEF QueueOpen, FoldedInv, TruncatedInv, BatchInv, LedgerInv, LedgeredMeansDelivered, Settled, ConflictKeys, InHand
  <2>3. RotateInv'
    BY <1>1 DEF QueueOpen, RotateInv, TypeOK
  <2>4. QED BY <2>1, <2>2, <2>3 DEF DrainInv
<1>2. CASE QueueWrite(k)
  <2>1. /\ Elems(outbox') = IF fd[k] = "outbox" THEN Elems(outbox) \cup {k} ELSE Elems(outbox)
        /\ Elems(rotating') = IF fd[k] = "rotating" THEN Elems(rotating) \cup {k} ELSE Elems(rotating)
    <3>1. outbox \in Seq(Ops) /\ rotating \in Seq(Ops)
      BY DEF TypeOK
    <3>2. /\ Elems(Append(outbox, k)) = Elems(outbox) \cup {k}
          /\ Elems(Append(rotating, k)) = Elems(rotating) \cup {k}
      BY <3>1, ElemsAppend
    <3>3. QED BY <1>2, <3>2 DEF QueueWrite
  <2>2. LostOnlyInTheTwoWindows'
    <3>1. Queued' \subseteq Queued \cup {k}
      BY <1>2 DEF QueueWrite, Queued, TypeOK
    <3>2. /\ OnDisk \subseteq OnDisk' /\ late \subseteq late' /\ torn' = torn
          /\ Settled' = Settled /\ Rewriting' = Rewriting
      BY <1>2, <2>1 DEF QueueWrite, OnDisk, Settled, ConflictKeys, Rewriting
    <3>3. k \in OnDisk' \cup late'
      BY <1>2, <2>1 DEF QueueWrite, OnDisk, TypeOK
    <3>4. QED BY <3>1, <3>2, <3>3 DEF LostOnlyInTheTwoWindows
  <2>3. FoldedInv'
    BY <1>2, <2>1 DEF QueueWrite, FoldedInv
  <2>4. TruncatedInv' /\ BatchInv' /\ LedgerInv' /\ LedgeredMeansDelivered'
    BY <1>2 DEF QueueWrite, TruncatedInv, BatchInv, LedgerInv, LedgeredMeansDelivered, Settled, ConflictKeys, InHand
  <2>5. RotateInv'
    BY <1>2 DEF QueueWrite, RotateInv, TypeOK
  <2>6. QED BY <2>2, <2>3, <2>4, <2>5 DEF DrainInv
<1>3. QED BY <1>1, <1>2

\* Rotation, folding and unlinking move records between files and lose none.
LEMMA RotationStep ==
    ASSUME IInv, NEW d \in Drainers,
           \/ FoldLeftover(d) \/ UnlinkLeftover(d) \/ Rotate(d) \/ Fold(d) \/ Unlink(d) \/ Load(d)
    PROVE  LostOnlyInTheTwoWindows' /\ DrainInv' /\ LedgeredMeansDelivered'
<1> USE DEF files, locals, remote, IInv
<1>0. pc[d] # "idle"
  BY DEF FoldLeftover, UnlinkLeftover, Rotate, Fold, Unlink, Load
<1>1. lock = d /\ \A e \in Drainers : e # d => pc[e] = "idle"
  BY <1>0, OthersIdle
<1>2. CASE FoldLeftover(d) \/ Fold(d)
  <2>1. Elems(replaying') = Elems(replaying) \cup Elems(rotating)
    <3>1. replaying \in Seq(Ops) /\ rotating \in Seq(Ops) /\ replaying' = replaying \o rotating
      BY <1>2 DEF FoldLeftover, Fold, FoldRotating, TypeOK
    <3>2. Elems(replaying \o rotating) = Elems(replaying) \cup Elems(rotating)
      BY <3>1, ElemsConcat
    <3>3. QED BY <3>1, <3>2
  <2>2. LostOnlyInTheTwoWindows'
    BY <1>2, <2>1 DEF FoldLeftover, Fold, FoldRotating, Goto, LostOnlyInTheTwoWindows, Queued, OnDisk,
       Settled, ConflictKeys, Rewriting, TypeOK
  <2>3. DrainInv' /\ LedgeredMeansDelivered'
    <3>1. FoldedInv'
      BY <1>1, <1>2, <2>1 DEF FoldLeftover, Fold, FoldRotating, Goto, FoldedInv, TypeOK
    <3>2. RotateInv'
      BY <1>1, <1>2, <2>1 DEF FoldLeftover, Fold, FoldRotating, Goto, RotateInv, TypeOK
    <3>3. TruncatedInv'
      BY <1>1, <1>2, <2>1 DEF FoldLeftover, Fold, FoldRotating, Goto, TruncatedInv, TypeOK
    <3>4. BatchInv'
      BY <1>1, <1>2, <2>1 DEF FoldLeftover, Fold, FoldRotating, Goto, BatchInv, Settled, ConflictKeys, Working, InHand, TypeOK
    <3>5. LedgerInv' /\ LedgeredMeansDelivered'
      BY <1>1, <1>2, <2>1 DEF FoldLeftover, Fold, FoldRotating, Goto, LedgerInv, LedgeredMeansDelivered, Working, InHand, TypeOK
    <3>6. QED BY <3>1, <3>2, <3>3, <3>4, <3>5 DEF DrainInv
  <2>4. QED BY <2>2, <2>3
<1>3. CASE UnlinkLeftover(d) \/ Unlink(d)
  <2>1. Elems(rotating') = {} /\ Elems(rotating) \subseteq Elems(replaying) \cup late
    BY <1>3, ElemsEmpty DEF UnlinkLeftover, Unlink, UnlinkRotating, FoldedInv
  <2>2. LostOnlyInTheTwoWindows'
    BY <1>3, <2>1 DEF UnlinkLeftover, Unlink, UnlinkRotating, Goto, LostOnlyInTheTwoWindows, Queued, OnDisk,
       Settled, ConflictKeys, Rewriting, TypeOK
  <2>3. DrainInv' /\ LedgeredMeansDelivered'
    <3>1. FoldedInv'
      BY <1>1, <1>3, <2>1 DEF UnlinkLeftover, Unlink, UnlinkRotating, Goto, FoldedInv, TypeOK
    <3>2. RotateInv'
      BY <1>1, <1>3, <2>1 DEF UnlinkLeftover, Unlink, UnlinkRotating, Goto, RotateInv, TypeOK
    <3>3. TruncatedInv'
      BY <1>1, <1>3, <2>1 DEF UnlinkLeftover, Unlink, UnlinkRotating, Goto, TruncatedInv, TypeOK
    <3>4. BatchInv'
      BY <1>1, <1>3, <2>1 DEF UnlinkLeftover, Unlink, UnlinkRotating, Goto, BatchInv, Settled, ConflictKeys, Working, InHand, TypeOK
    <3>5. LedgerInv' /\ LedgeredMeansDelivered'
      BY <1>1, <1>3, <2>1 DEF UnlinkLeftover, Unlink, UnlinkRotating, Goto, LedgerInv, LedgeredMeansDelivered, Working, InHand, TypeOK
    <3>6. QED BY <3>1, <3>2, <3>3, <3>4, <3>5 DEF DrainInv
  <2>4. QED BY <2>2, <2>3
<1>4. CASE Rotate(d)
  <2>1. rotating = <<>> /\ Elems(outbox') = {} /\ Elems(rotating) = {}
    BY <1>4, ElemsEmpty DEF Rotate, RotateInv
  <2>2. LostOnlyInTheTwoWindows'
    BY <1>4, <2>1 DEF Rotate, Goto, LostOnlyInTheTwoWindows, Queued, OnDisk,
       Settled, ConflictKeys, Rewriting, TypeOK
  <2>3. DrainInv' /\ LedgeredMeansDelivered'
    <3>1. FoldedInv'
      BY <1>1, <1>4, <2>1 DEF Rotate, Goto, FoldedInv, TypeOK
    <3>2. RotateInv'
      BY <1>1, <1>4, <2>1 DEF Rotate, Goto, RotateInv, TypeOK
    <3>3. TruncatedInv'
      BY <1>1, <1>4, <2>1 DEF Rotate, Goto, TruncatedInv, TypeOK
    <3>4. BatchInv'
      BY <1>1, <1>4, <2>1 DEF Rotate, Goto, BatchInv, Settled, ConflictKeys, Working, InHand, TypeOK
    <3>5. LedgerInv' /\ LedgeredMeansDelivered'
      BY <1>1, <1>4, <2>1 DEF Rotate, Goto, LedgerInv, LedgeredMeansDelivered, Working, InHand, TypeOK
    <3>6. QED BY <3>1, <3>2, <3>3, <3>4, <3>5 DEF DrainInv
  <2>4. QED BY <2>2, <2>3
<1>5. CASE Load(d)
  <2>1. LostOnlyInTheTwoWindows'
    BY <1>5 DEF Load, Goto, LostOnlyInTheTwoWindows, Queued, OnDisk,
       Settled, ConflictKeys, Rewriting, TypeOK
  <2>2. DrainInv' /\ LedgeredMeansDelivered'
    BY <1>1, <1>5 DEF Load, Goto, DrainInv, FoldedInv, RotateInv, TruncatedInv, BatchInv,
       LedgerInv, LedgeredMeansDelivered, Working, InHand, TypeOK
  <2>3. QED BY <2>1, <2>2
<1>6. QED BY <1>2, <1>3, <1>4, <1>5

\* What the loop does to one drainer: it leaves the three files and the
\* writers alone, its outcomes only grow, and it stays in the loop.
LoopStep(d) ==
    /\ pc[d] \in Working
    /\ \E l \in Working : Goto(d, l)
    /\ outbox' = outbox /\ rotating' = rotating /\ replaying' = replaying
    /\ fd' = fd /\ late' = late /\ torn' = torn /\ dst' = dst
    /\ ledger \subseteq ledger' /\ conflicts \subseteq conflicts'
    /\ applied \subseteq applied'
    /\ \A e \in Drainers : e # d => done'[e] = done[e] /\ cur'[e] = cur[e]

\* Such a step preserves the invariant when it accounts for the batch and
\* keeps done_keys equal to the ledger.
LEMMA LoopStepInv ==
    ASSUME IInv, NEW d \in Drainers, LoopStep(d), TypeOK', CurSet',
           Elems(recs[d]) \cup Elems(kept[d]) \cup InHand(d)
              \subseteq Elems(recs'[d]) \cup Elems(kept'[d]) \cup Settled' \cup InHand(d)',
           done'[d] = ledger', InHand(d)' \cap ledger' = {}, ledger' \subseteq applied',
           pc'[d] = "ledger" => cur'[d] \in applied'
    PROVE  LostOnlyInTheTwoWindows' /\ DrainInv' /\ LedgeredMeansDelivered'
<1> USE DEF IInv
<1>1. lock = d /\ \A e \in Drainers : e # d => pc[e] = "idle" /\ pc'[e] = "idle"
  BY OthersIdle DEF LoopStep, Working, Goto, TypeOK
<1>2. pc'[d] \in Working
  BY DEF LoopStep, Goto, TypeOK
<1>3. Settled \subseteq Settled'
  BY DEF LoopStep, Settled, ConflictKeys
<1>4. LostOnlyInTheTwoWindows'
  BY <1>1, <1>3 DEF LoopStep, LostOnlyInTheTwoWindows, Queued, OnDisk, Rewriting, Working
<1>5. FoldedInv' /\ RotateInv' /\ TruncatedInv'
  BY <1>1, <1>2 DEF FoldedInv, RotateInv, TruncatedInv, Working
<1>6. BatchInv'
  <2>1. Elems(replaying) \subseteq Elems(recs[d]) \cup Elems(kept[d]) \cup Settled \cup InHand(d)
    BY DEF BatchInv, LoopStep
  <2>2. Elems(replaying') \subseteq Elems(recs'[d]) \cup Elems(kept'[d]) \cup Settled' \cup InHand(d)'
    BY <1>3, <2>1 DEF LoopStep
  <2>3. QED BY <1>1, <2>2 DEF BatchInv, Working
<1>7. LedgerInv'
  <2>1. \A e \in Drainers : dst'[e] = "authority"
    BY DEF LoopStep, LedgerInv
  <2>2. \A e \in Drainers : e # d => InHand(e)' = {}
    BY <1>1 DEF InHand
  <2>3. QED BY <1>1, <2>1, <2>2 DEF LedgerInv, Working
<1>8. QED BY <1>4, <1>5, <1>6, <1>7 DEF DrainInv, LedgeredMeansDelivered

\* Parsing and the tests at the head of the loop body account for each record.
LEMMA VisitStep ==
    ASSUME IInv, TypeOK', CurSet', NEW d \in Drainers,
           \/ Unparseable(d) \/ Parsed(d) \/ SkipDone(d) \/ ParkCanonize(d)
           \/ ConflictSuperseded(d) \/ ToDispatch(d)
    PROVE  LostOnlyInTheTwoWindows' /\ DrainInv' /\ LedgeredMeansDelivered'
<1> USE DEF files, locals, remote, IInv
<1>0. ASSUME NEW i \in DOMAIN recs[d]
      PROVE  /\ recs[d][i] \in Ops
             /\ Elems(recs[d]) = Elems(Without(recs[d], i)) \cup {recs[d][i]}
             /\ Elems(Append(kept[d], recs[d][i])) = Elems(kept[d]) \cup {recs[d][i]}
  <2>1. recs[d] \in Seq(Ops) /\ kept[d] \in Seq(Ops)
    BY DEF TypeOK
  <2>2. recs[d][i] \in Ops
    BY <2>1
  <2>3. QED BY <2>1, <2>2, ElemsWithout, ElemsAppend
<1>1. CASE Unparseable(d)
  <2>1. PICK i \in DOMAIN recs[d] :
           /\ conflicts' = conflicts \cup {<<recs[d][i], "unparseable">>}
           /\ recs' = [recs EXCEPT ![d] = Without(recs[d], i)]
    BY <1>1 DEF Unparseable
  <2>2. LoopStep(d)
    BY <1>1, <2>1 DEF Unparseable, LoopStep, Goto, Working, TypeOK
  <2>3. recs[d][i] \in Settled'
    BY <1>0, <2>1 DEF Settled, ConflictKeys, Reasons
  <2>4. /\ recs'[d] = Without(recs[d], i) /\ kept' = kept /\ InHand(d) = {} /\ InHand(d)' = {}
        /\ done'[d] = ledger' /\ ledger' \subseteq applied' /\ pc'[d] = "parse"
    BY <1>1, <2>1 DEF Unparseable, InHand, Working, LedgerInv, LedgeredMeansDelivered, TypeOK
  <2>5. QED BY <1>0, <2>2, <2>3, <2>4, LoopStepInv
<1>2. CASE Parsed(d)
  <2>1. LoopStep(d)
    BY <1>2 DEF Parsed, LoopStep, Goto, Working, TypeOK
  <2>2. QED BY <1>2, <2>1, LoopStepInv
            DEF Parsed, Goto, InHand, Working, LedgerInv, LedgeredMeansDelivered, TypeOK
<1>3. CASE SkipDone(d)
  <2>1. PICK i \in DOMAIN recs[d] : Visit(d, i) /\ recs[d][i] \in done[d]
    BY <1>3 DEF SkipDone
  <2>2. LoopStep(d)
    BY <1>3, <2>1 DEF SkipDone, Visit, LoopStep, Goto, Working, TypeOK
  <2>3. recs[d][i] \in Settled'
    BY <1>3, <2>1 DEF SkipDone, Visit, LedgerInv, Working, Settled
  <2>4. /\ recs'[d] = Without(recs[d], i) /\ kept' = kept /\ InHand(d) = {} /\ InHand(d)' = {}
        /\ done'[d] = ledger' /\ ledger' \subseteq applied' /\ pc'[d] = "loop"
    BY <1>3, <2>1 DEF SkipDone, Visit, InHand, Working, LedgerInv, LedgeredMeansDelivered, TypeOK
  <2>5. QED BY <1>0, <2>2, <2>3, <2>4, LoopStepInv
<1>4. CASE ParkCanonize(d)
  <2>1. PICK i \in DOMAIN recs[d] : Visit(d, i) /\ Keep(d, recs[d][i])
    BY <1>4 DEF ParkCanonize
  <2>2. LoopStep(d)
    BY <1>4, <2>1 DEF ParkCanonize, Visit, LoopStep, Goto, Working, TypeOK
  <2>3. /\ recs'[d] = Without(recs[d], i) /\ kept'[d] = Append(kept[d], recs[d][i])
        /\ InHand(d) = {} /\ InHand(d)' = {}
        /\ done'[d] = ledger' /\ ledger' \subseteq applied' /\ pc'[d] = "loop"
    BY <1>4, <2>1 DEF ParkCanonize, Visit, Keep, InHand, Working, LedgerInv, LedgeredMeansDelivered, TypeOK
  <2>4. QED BY <1>0, <2>2, <2>3, LoopStepInv
<1>5. CASE ConflictSuperseded(d)
  <2>1. PICK i \in DOMAIN recs[d] :
           Visit(d, i) /\ conflicts' = conflicts \cup {<<recs[d][i], "superseded">>}
    BY <1>5 DEF ConflictSuperseded
  <2>2. LoopStep(d)
    BY <1>5, <2>1 DEF ConflictSuperseded, Visit, LoopStep, Goto, Working, TypeOK
  <2>3. recs[d][i] \in Settled'
    BY <1>0, <2>1 DEF Settled, ConflictKeys, Reasons
  <2>4. /\ recs'[d] = Without(recs[d], i) /\ kept' = kept /\ InHand(d) = {} /\ InHand(d)' = {}
        /\ done'[d] = ledger' /\ ledger' \subseteq applied' /\ pc'[d] = "loop"
    BY <1>5, <2>1 DEF ConflictSuperseded, Visit, InHand, Working, LedgerInv, LedgeredMeansDelivered, TypeOK
  <2>5. QED BY <1>0, <2>2, <2>3, <2>4, LoopStepInv
<1>6. CASE ToDispatch(d)
  <2>1. PICK i \in DOMAIN recs[d] :
           Visit(d, i) /\ Untried(d, recs[d][i]) /\ cur' = [cur EXCEPT ![d] = recs[d][i]]
    BY <1>6 DEF ToDispatch
  <2>2. LoopStep(d)
    BY <1>6, <2>1 DEF ToDispatch, Visit, LoopStep, Goto, Working, TypeOK
  <2>3. InHand(d)' = {recs[d][i]} /\ recs[d][i] \notin ledger /\ pc'[d] = "dispatch"
    BY <1>6, <2>1 DEF ToDispatch, Visit, Untried, InHand, Goto, LedgerInv, Working, TypeOK
  <2>4. /\ recs'[d] = Without(recs[d], i) /\ kept' = kept /\ InHand(d) = {}
        /\ done'[d] = ledger' /\ ledger' = ledger /\ ledger' \subseteq applied'
    BY <1>6, <2>1 DEF ToDispatch, Visit, InHand, Working, LedgerInv, LedgeredMeansDelivered, TypeOK
  <2>5. QED BY <1>0, <2>2, <2>3, <2>4, LoopStepInv
<1>7. QED BY <1>1, <1>2, <1>3, <1>4, <1>5, <1>6

\* Each outcome of a dispatch accounts for the record in hand.
LEMMA OutcomeStep ==
    ASSUME IInv, TypeOK', CurSet', NEW d \in Drainers,
           \/ DispatchOk(d) \/ LedgerAppend(d) \/ KeepTransient(d) \/ KeepSSH(d)
           \/ StopRetryable(d) \/ ConflictRefused(d)
    PROVE  LostOnlyInTheTwoWindows' /\ DrainInv' /\ LedgeredMeansDelivered'
<1> USE DEF files, locals, remote, IInv
<1>0. /\ pc[d] \in {"dispatch", "ledger"} /\ cur[d] \in Ops
      /\ done[d] = ledger /\ cur[d] \notin ledger /\ InHand(d) = {cur[d]} /\ dst[d] = "authority"
  BY DEF DispatchOk, LedgerAppend, KeepTransient, KeepSSH, StopRetryable, ConflictRefused,
         CurSet, LedgerInv, InHand, Working
<1>1. Deliver(d, cur[d]) => applied' = applied \cup {cur[d]}
  BY <1>0 DEF Deliver
<1>2. CASE DispatchOk(d)
  <2>1. LoopStep(d)
    BY <1>1, <1>2 DEF DispatchOk, LoopStep, Goto, Working, TypeOK
  <2>2. InHand(d)' = {cur[d]} /\ cur'[d] \in applied'
    BY <1>1, <1>2 DEF DispatchOk, InHand, Goto, TypeOK
  <2>3. QED BY <1>0, <1>1, <1>2, <2>1, <2>2, LoopStepInv
            DEF DispatchOk, LedgeredMeansDelivered
<1>3. CASE LedgerAppend(d)
  <2>1. LoopStep(d)
    BY <1>3 DEF LedgerAppend, LoopStep, Goto, Working, TypeOK
  <2>2. cur[d] \in Settled' /\ cur[d] \in applied /\ pc'[d] = "loop" /\ done'[d] = ledger'
    BY <1>0, <1>3 DEF LedgerAppend, Settled, LedgerInv, Goto, TypeOK
  <2>3. QED BY <1>0, <1>3, <2>1, <2>2, LoopStepInv
            DEF LedgerAppend, LedgeredMeansDelivered, InHand
<1>4. CASE KeepTransient(d) \/ KeepSSH(d)
  <2>1. applied \subseteq applied'
    BY <1>1, <1>4 DEF KeepTransient, KeepSSH
  <2>2. LoopStep(d)
    BY <1>0, <1>4, <2>1 DEF KeepTransient, KeepSSH, LoopStep, Goto, Working, TypeOK
  <2>3. Elems(kept'[d]) = Elems(kept[d]) \cup {cur[d]}
    <3>1. kept[d] \in Seq(Ops) /\ kept'[d] = Append(kept[d], cur[d])
      BY <1>4 DEF KeepTransient, KeepSSH, Keep, TypeOK
    <3>2. QED BY <1>0, <3>1, ElemsAppend
  <2>4. pc'[d] = "loop" /\ recs' = recs /\ done' = done /\ ledger' = ledger
    BY <1>4 DEF KeepTransient, KeepSSH, Goto, TypeOK
  <2>5. QED BY <1>0, <2>1, <2>2, <2>3, <2>4, LoopStepInv DEF LedgeredMeansDelivered, InHand
<1>5. CASE StopRetryable(d)
  <2>1. LoopStep(d)
    BY <1>0, <1>5 DEF StopRetryable, LoopStep, Goto, Working, TypeOK
  <2>2. Elems(kept[d]) \cup {cur[d]} \cup Elems(recs[d]) \subseteq Elems(kept'[d])
    <3>1. kept[d] \in Seq(Ops) /\ <<cur[d]>> \in Seq(Ops) /\ RestAfter(d) \in Seq(Ops)
          /\ Elems(recs[d]) \subseteq Elems(RestAfter(d))
      <4>1. TypeOK /\ cur[d] \in Ops
        BY <1>0
      <4>2. kept[d] \in Seq(Ops)
        BY <4>1 DEF TypeOK
      <4>3. <<cur[d]>> \in Seq(Ops)
        BY <4>1
      <4>4. QED BY <4>1, <4>2, <4>3, RestAfterType
    <3>2. kept[d] \o <<cur[d]>> \in Seq(Ops) /\ Elems(kept[d] \o <<cur[d]>>) = Elems(kept[d]) \cup Elems(<<cur[d]>>)
      <4>1. \A s, t \in Seq(Ops) : s \o t \in Seq(Ops) /\ Elems(s \o t) = Elems(s) \cup Elems(t)
        BY ElemsConcat
      <4> HIDE DEF IInv
      <4>2. QED BY <3>1, <4>1
    <3> DEFINE p == kept[d] \o <<cur[d]>>
    <3>3. Elems(p \o RestAfter(d)) = Elems(p) \cup Elems(RestAfter(d))
      <4>1. p \in Seq(Ops)
        BY <3>2
      <4> HIDE DEF p
      <4>2. QED BY <3>1, <4>1, ElemsConcat
    <3>4. cur[d] \in Elems(<<cur[d]>>)
      BY DEF Elems
    <3>5. kept'[d] = (kept[d] \o <<cur[d]>>) \o RestAfter(d)
      BY <1>5 DEF StopRetryable, TypeOK
    <3>6. QED BY <3>1, <3>2, <3>3, <3>4, <3>5
  <2>3. pc'[d] = "loop"
    BY <1>5 DEF StopRetryable, Goto, TypeOK
  <2>4. QED BY <1>0, <1>5, <2>1, <2>2, <2>3, LoopStepInv
            DEF StopRetryable, LedgeredMeansDelivered, InHand
<1>6. CASE ConflictRefused(d)
  <2>1. LoopStep(d)
    BY <1>0, <1>6 DEF ConflictRefused, LoopStep, Goto, Working, TypeOK
  <2>2. cur[d] \in Settled' /\ pc'[d] = "loop"
    BY <1>0, <1>6 DEF ConflictRefused, Settled, ConflictKeys, Reasons, Goto, TypeOK
  <2>3. QED BY <1>0, <1>6, <2>1, <2>2, LoopStepInv
            DEF ConflictRefused, LedgeredMeansDelivered, InHand
<1>7. QED BY <1>2, <1>3, <1>4, <1>5, <1>6

\* The end of a drain, planned or not, gives up only what is settled, kept or
\* lost in the rewrite window.
LEMMA EndStep ==
    ASSUME IInv, NEW d \in Drainers,
           FinishClean(d) \/ Truncate(d) \/ Rewrite(d) \/ Crash(d)
    PROVE  LostOnlyInTheTwoWindows' /\ DrainInv' /\ LedgeredMeansDelivered'
<1> USE DEF files, locals, remote, IInv
<1>0. pc[d] # "idle"
  BY DEF FinishClean, Truncate, Rewrite, Crash
<1>1. lock = d /\ \A e \in Drainers : e # d => pc[e] = "idle"
  BY <1>0, OthersIdle
<1>2. ASSUME Exit(d), ledger' = ledger, applied' = applied
      PROVE  DrainInv' /\ LedgeredMeansDelivered'
  BY <1>1, <1>2 DEF Exit, Goto, DrainInv, FoldedInv, RotateInv, TruncatedInv, BatchInv,
       LedgerInv, LedgeredMeansDelivered, Working, InHand, TypeOK
<1>3. CASE FinishClean(d)
  <2>1. Elems(replaying) \subseteq Settled /\ Elems(replaying') = {}
    BY <1>3, ElemsEmpty DEF FinishClean, BatchInv, InHand, Working
  <2>2. LostOnlyInTheTwoWindows'
    BY <1>1, <1>3, <2>1 DEF FinishClean, LostOnlyInTheTwoWindows, Queued, OnDisk, Settled,
       ConflictKeys, Rewriting
  <2>3. QED BY <1>2, <1>3, <2>2 DEF FinishClean
<1>4. CASE Truncate(d)
  <2>1. Elems(replaying) \subseteq Elems(kept[d]) \cup Settled /\ Elems(replaying') = {}
    BY <1>4, ElemsEmpty DEF Truncate, BatchInv, InHand, Working
  <2>2. LostOnlyInTheTwoWindows'
    BY <1>1, <1>4, <2>1 DEF Truncate, Goto, LostOnlyInTheTwoWindows, Queued, OnDisk, Settled,
       ConflictKeys, Rewriting, TypeOK
  <2>3. DrainInv' /\ LedgeredMeansDelivered'
    BY <1>1, <1>4 DEF Truncate, Goto, DrainInv, FoldedInv, RotateInv, TruncatedInv, BatchInv,
       LedgerInv, LedgeredMeansDelivered, Working, InHand, TypeOK
  <2>4. QED BY <2>2, <2>3
<1>5. CASE Rewrite(d)
  <2>1. LostOnlyInTheTwoWindows'
    <3>1. Elems(replaying) = {}
      BY <1>5, ElemsEmpty DEF Rewrite, TruncatedInv
    <3>2. QED BY <1>1, <1>5, <3>1 DEF Rewrite, LostOnlyInTheTwoWindows, Queued, OnDisk, Settled, ConflictKeys, Rewriting
  <2>2. QED BY <1>2, <1>5, <2>1 DEF Rewrite
<1>6. CASE Crash(d)
  <2>1. Rewriting \subseteq torn' /\ torn \subseteq torn'
    BY <1>1, <1>6 DEF Crash, Rewriting
  <2>2. LostOnlyInTheTwoWindows'
    <3>1. Queued' = Queued /\ OnDisk' = OnDisk /\ Settled' = Settled /\ late' = late
      BY <1>6 DEF Crash, Queued, OnDisk, Settled, ConflictKeys
    <3>2. QED BY <2>1, <3>1 DEF LostOnlyInTheTwoWindows
  <2>3. QED BY <1>2, <1>6, <2>2 DEF Crash
<1>7. QED BY <1>3, <1>4, <1>5, <1>6

\* A drain starts only against the authority, and touches no file yet.
LEMMA BeginStep ==
    ASSUME IInv, NEW d \in Drainers, Begin(d)
    PROVE  LostOnlyInTheTwoWindows' /\ DrainInv' /\ LedgeredMeansDelivered'
<1> USE DEF files, locals, remote, IInv
<1>1. \A e \in Drainers : pc[e] = "idle"
  BY OutboxAssumption DEF Begin, OneDrainer
<1>2. dst'[d] = "authority" /\ \A e \in Drainers : e # d => dst'[e] = dst[e]
  BY OutboxAssumption DEF Begin, Destinations, RefusesDestination, TypeOK
<1>3. LostOnlyInTheTwoWindows'
  BY <1>1 DEF Begin, LostOnlyInTheTwoWindows, Queued, OnDisk, Settled, ConflictKeys, Rewriting
<1>4. DrainInv' /\ LedgeredMeansDelivered'
  BY <1>1, <1>2 DEF Begin, Goto, DrainInv, FoldedInv, RotateInv, TruncatedInv, BatchInv,
       LedgerInv, LedgeredMeansDelivered, Working, InHand, TypeOK
<1>5. QED BY <1>3, <1>4

\* A step that changes nothing the invariant speaks of.
LEMMA IdleStep ==
    ASSUME IInv, UNCHANGED vars \/ \E m \in Memories : DirectUpdate(m)
    PROVE  LostOnlyInTheTwoWindows' /\ DrainInv' /\ LedgeredMeansDelivered'
<1> USE DEF files, locals, remote, IInv
<1>1. UNCHANGED <<files, fd, pc, locals, applied, late, torn>>
  BY DEF vars, DirectUpdate
<1>2. LostOnlyInTheTwoWindows'
  BY <1>1 DEF LostOnlyInTheTwoWindows, Queued, OnDisk, Settled, ConflictKeys, Rewriting
<1>3. DrainInv' /\ LedgeredMeansDelivered'
  BY <1>1 DEF DrainInv, FoldedInv, RotateInv, TruncatedInv, BatchInv, LedgerInv, LedgeredMeansDelivered,
       Settled, ConflictKeys, InHand
<1>4. QED BY <1>2, <1>3

\* Every step preserves the invariant.
LEMMA IInvStep == IInv /\ [Next]_vars => IInv'
<1> SUFFICES ASSUME IInv, [Next]_vars PROVE IInv'
  OBVIOUS
<1>1. TypeOK' /\ CurSet' /\ OneDrainer'
  BY TypeStep, OneDrainerStep DEF IInv
<1>2. LostOnlyInTheTwoWindows' /\ DrainInv' /\ LedgeredMeansDelivered'
  BY <1>1, WriterStep, RotationStep, VisitStep, OutcomeStep, EndStep, BeginStep, IdleStep
     DEF Next, Drain, ShimDrain, GoOnlineDrain
<1>3. QED BY <1>1, <1>2 DEF IInv, DrainInv

\* The invariant holds in every reachable state.
LEMMA IInvHolds == Spec => []IInv
<1>1. Init => IInv
  <2>1. <<>> \in Seq(Ops)
    OBVIOUS
  <2>2. Init => TypeOK /\ CurSet
    BY <2>1, OutboxAssumption DEF Init, TypeOK, CurSet, PCs
  <2>3. Init => OneDrainer /\ LostOnlyInTheTwoWindows /\ DrainInv /\ LedgeredMeansDelivered
    BY OutboxAssumption DEF Init, OneDrainer, LostOnlyInTheTwoWindows, Queued, DrainInv, FoldedInv,
       RotateInv, TruncatedInv, BatchInv, LedgerInv, LedgeredMeansDelivered, Working, InHand
  <2>4. QED BY <2>2, <2>3 DEF IInv, DrainInv
<1>2. QED BY <1>1, IInvStep, PTL DEF Spec

\* A queued record leaves the files, the ledger and the conflict log only by a
\* write to an already folded inode or a crash inside the final rewrite.
THEOREM RecordsLostOnlyInTheTwoWindows == Spec => []LostOnlyInTheTwoWindows
BY IInvHolds, PTL DEF IInv

\* A key is in the replayed-key ledger only if the authority executed it.
THEOREM LedgerVouchesForDelivery == Spec => []LedgeredMeansDelivered
BY IInvHolds, PTL DEF IInv

\* No step of any drainer sends a ledgered key to the authority again.
THEOREM NoLedgeredKeySentAgain == Spec => LedgeredNeverSentAgain
<1>1. ASSUME IInv, [Next]_vars
      PROVE  [\A k \in ledger : k \in repeated' => k \in repeated]_vars
  <2> SUFFICES ASSUME NEW k \in ledger, k \in repeated', k \notin repeated PROVE FALSE
    OBVIOUS
  <2> USE DEF files, locals, remote
  <2>1. ASSUME NEW d \in Drainers, pc[d] \in {"dispatch", "ledger"}, Deliver(d, cur[d]) PROVE FALSE
    <3>1. cur[d] \notin ledger
      BY <1>1, <2>1 DEF IInv, LedgerInv, InHand
    <3>2. QED BY <2>1, <3>1 DEF Deliver
  <2>2. repeated' # repeated
    OBVIOUS
  <2>3. ASSUME NEW d \in Drainers, Drain(d) PROVE FALSE
    BY <2>1, <2>2, <2>3 DEF Drain, FoldLeftover, UnlinkLeftover, Rotate, Fold, Unlink, FoldRotating,
       UnlinkRotating, Load, Unparseable, Parsed, SkipDone, ParkCanonize, ConflictSuperseded, ToDispatch,
       DispatchOk, LedgerAppend, KeepTransient, KeepSSH, StopRetryable, ConflictRefused, FinishClean,
       Truncate, Rewrite
  <2>4. QED
    BY <1>1, <2>2, <2>3 DEF Next, vars, QueueOpen, QueueWrite, DirectUpdate, ShimDrain, GoOnlineDrain, Begin, Crash
<1>2. QED BY <1>1, IInvHolds, PTL DEF Spec, LedgeredNeverSentAgain
-----------------------------------------------------------------------------
(***************************************************************************)
(* The outbox implements the delivery queue.                               *)
(***************************************************************************)

\* What a drain has in memory it has read from the replaying file, which it
\* leaves alone until the end.
InBatch ==
    \A d \in Drainers : pc[d] \in Working
        => Elems(recs[d]) \cup Elems(kept[d]) \cup Elems(past[d]) \cup InHand(d) \subseteq Elems(replaying)

\* A torn line is conflict-logged before the loop and never gets further.
TornInv ==
    /\ \A k \in ledger : Kind[k] # "torn"
    /\ \A d \in Drainers : pc[d] \in {"loop", "dispatch", "ledger"}
          => \A k \in Elems(recs[d]) \cup InHand(d) : Kind[k] # "torn"

BookInv == InBatch /\ TornInv

\* A step of the loop keeps the book when it takes the records it moves from
\* those at hand, and leaves the parser only when no torn line remains.
LEMMA LoopBook ==
    ASSUME IInv, BookInv, NEW d \in Drainers, LoopStep(d),
           Elems(recs'[d]) \subseteq Elems(recs[d]),
           InHand(d)' \subseteq Elems(recs[d]) \cup InHand(d),
           Elems(kept'[d]) \cup Elems(past'[d])
              \subseteq Elems(recs[d]) \cup Elems(kept[d]) \cup Elems(past[d]) \cup InHand(d),
           ledger' \subseteq ledger \cup InHand(d),
           pc[d] = "parse" =>
              \/ pc'[d] = "parse"
              \/ \A k \in Elems(recs[d]) : Kind[k] # "torn"
    PROVE  BookInv'
<1>1. lock = d /\ \A e \in Drainers : e # d => pc[e] = "idle" /\ pc'[e] = "idle"
  BY OthersIdle DEF IInv, LoopStep, Working, Goto, TypeOK
<1>2. InBatch'
  BY <1>1 DEF LoopStep, BookInv, InBatch, Working
<1>3. TornInv'
  <2>1. pc[d] = "parse" => InHand(d) = {}
    BY DEF InHand
  <2>2. \A k \in InHand(d) : Kind[k] # "torn"
    BY DEF InHand, BookInv, TornInv
  <2>3. pc'[d] \in {"loop", "dispatch", "ledger"} => \A k \in Elems(recs[d]) : Kind[k] # "torn"
    BY DEF LoopStep, Working, BookInv, TornInv
  <2>4. QED BY <1>1, <2>2, <2>3 DEF BookInv, TornInv
<1>4. QED BY <1>2, <1>3 DEF BookInv

\* Parsing, and the tests at the head of the loop body, keep the book.
LEMMA VisitBook ==
    ASSUME IInv, BookInv, NEW d \in Drainers,
           \/ Unparseable(d) \/ Parsed(d) \/ SkipDone(d) \/ ParkCanonize(d)
           \/ ConflictSuperseded(d) \/ ToDispatch(d)
    PROVE  LoopStep(d) /\ BookInv'
<1> USE DEF files, locals, remote
<1>0. TypeOK
  BY DEF IInv
<1>1. LoopStep(d)
  BY <1>0 DEF Unparseable, Parsed, SkipDone, ParkCanonize, ConflictSuperseded, ToDispatch, Visit,
              LoopStep, Goto, Working, TypeOK
<1>2. ASSUME NEW i \in DOMAIN recs[d]
      PROVE  /\ recs[d][i] \in Elems(recs[d])
             /\ Elems(Without(recs[d], i)) \subseteq Elems(recs[d])
             /\ Elems(Append(kept[d], recs[d][i])) = Elems(kept[d]) \cup {recs[d][i]}
             /\ Elems(Append(past[d], recs[d][i])) = Elems(past[d]) \cup {recs[d][i]}
  <2>1. recs[d] \in Seq(Ops) /\ kept[d] \in Seq(Ops) /\ past[d] \in Seq(Ops)
    BY <1>0 DEF TypeOK
  <2>2. recs[d][i] \in Ops
    BY <2>1
  <2>3. QED BY <2>1, <2>2, ElemsWithout, ElemsAppend
<1>3. CASE Parsed(d)
  BY <1>0, <1>1, <1>3, LoopBook DEF Parsed, InHand, Goto, TypeOK
<1>4. CASE Unparseable(d)
  BY <1>0, <1>1, <1>2, <1>4, LoopBook DEF Unparseable, InHand, TypeOK
<1>5. CASE SkipDone(d) \/ ParkCanonize(d) \/ ConflictSuperseded(d)
  <2>1. PICK i \in DOMAIN recs[d] :
           /\ recs'[d] = Without(recs[d], i)
           /\ past'[d] = Append(past[d], recs[d][i])
           /\ kept'[d] = kept[d] \/ kept'[d] = Append(kept[d], recs[d][i])
    BY <1>0, <1>5 DEF SkipDone, ParkCanonize, ConflictSuperseded, Visit, Remember, Keep, TypeOK
  <2>2. ledger' = ledger /\ InHand(d)' = {} /\ pc[d] = "loop"
    BY <1>5 DEF SkipDone, ParkCanonize, ConflictSuperseded, Visit, InHand
  <2>3. QED BY <1>1, <1>2, <2>1, <2>2, LoopBook
<1>6. CASE ToDispatch(d)
  <2>1. PICK i \in DOMAIN recs[d] : recs'[d] = Without(recs[d], i) /\ cur'[d] = recs[d][i]
    BY <1>0, <1>6 DEF ToDispatch, Visit, TypeOK
  <2>2. /\ ledger' = ledger /\ past' = past /\ kept' = kept
        /\ InHand(d)' = {cur'[d]} /\ pc[d] = "loop"
    BY <1>0, <1>6 DEF ToDispatch, Visit, InHand, Goto, TypeOK
  <2>3. QED BY <1>1, <1>2, <2>1, <2>2, LoopBook
<1>7. QED BY <1>1, <1>3, <1>4, <1>5, <1>6

\* The outcomes of a dispatch keep the book.
LEMMA OutcomeBook ==
    ASSUME IInv, BookInv, NEW d \in Drainers,
           \/ DispatchOk(d) \/ LedgerAppend(d) \/ KeepTransient(d) \/ KeepSSH(d)
           \/ StopRetryable(d) \/ ConflictRefused(d)
    PROVE  LoopStep(d) /\ BookInv'
<1> USE DEF files, locals, remote
<1>0. /\ TypeOK /\ pc[d] \in {"dispatch", "ledger"} /\ cur[d] \in Ops
      /\ InHand(d) = {cur[d]} /\ dst[d] = "authority"
  BY DEF DispatchOk, LedgerAppend, KeepTransient, KeepSSH, StopRetryable, ConflictRefused,
         IInv, CurSet, LedgerInv, InHand
<1>1. Deliver(d, cur[d]) => applied \subseteq applied'
  BY <1>0 DEF Deliver
<1>2. LoopStep(d)
  BY <1>0, <1>1 DEF DispatchOk, LedgerAppend, KeepTransient, KeepSSH, StopRetryable, ConflictRefused,
     LoopStep, Goto, Working, TypeOK
<1>3. /\ Elems(Append(kept[d], cur[d])) = Elems(kept[d]) \cup {cur[d]}
      /\ Elems(Append(past[d], cur[d])) = Elems(past[d]) \cup {cur[d]}
  <2>1. kept[d] \in Seq(Ops) /\ past[d] \in Seq(Ops)
    BY <1>0 DEF TypeOK
  <2>2. QED BY <1>0, <2>1, ElemsAppend
<1>4. CASE StopRetryable(d)
  <2>1. Elems(kept'[d]) \subseteq Elems(kept[d]) \cup {cur[d]} \cup Elems(past[d]) \cup Elems(recs[d])
    <3> DEFINE K == kept[d]
               C == <<cur[d]>>
               R == RestAfter(d)
    <3>1. kept'[d] = (K \o C) \o R
      BY <1>0, <1>4 DEF StopRetryable, TypeOK
    <3>2. K \in Seq(Ops) /\ C \in Seq(Ops) /\ Elems(C) = {cur[d]}
      BY <1>0 DEF TypeOK, Elems
    <3>3. R \in Seq(Ops) /\ Elems(R) \subseteq Elems(past[d]) \cup {cur[d]} \cup Elems(recs[d])
      BY <1>0, RestAfterType
    <3>4. ASSUME NEW s \in Seq(Ops), NEW t \in Seq(Ops)
          PROVE  s \o t \in Seq(Ops) /\ Elems(s \o t) = Elems(s) \cup Elems(t)
      BY ElemsConcat
    <3>5. Elems(K) = Elems(kept[d])
      OBVIOUS
    <3> HIDE DEF K, C, R
    <3>6. K \o C \in Seq(Ops) /\ Elems(K \o C) = Elems(K) \cup {cur[d]}
      BY <3>2, <3>4
    <3>7. Elems((K \o C) \o R) = Elems(K \o C) \cup Elems(R)
      BY <3>3, <3>4, <3>6
    <3>8. QED BY <3>1, <3>3, <3>5, <3>6, <3>7
  <2>2. Elems(recs'[d]) = {} /\ past' = past /\ ledger' = ledger /\ InHand(d)' = {} /\ pc[d] # "parse"
    BY <1>0, <1>4, ElemsEmpty DEF StopRetryable, InHand, Goto, TypeOK
  <2>3. QED BY <1>0, <1>2, <2>1, <2>2, LoopBook
<1>5. CASE DispatchOk(d)
  BY <1>0, <1>2, <1>5, LoopBook DEF DispatchOk, InHand, Goto, TypeOK
<1>6. CASE LedgerAppend(d) \/ ConflictRefused(d)
  BY <1>0, <1>2, <1>3, <1>6, LoopBook DEF LedgerAppend, ConflictRefused, Remember, InHand, Goto, TypeOK
<1>7. CASE KeepTransient(d) \/ KeepSSH(d)
  BY <1>0, <1>2, <1>3, <1>7, LoopBook DEF KeepTransient, KeepSSH, Remember, Keep, InHand, Goto, TypeOK
<1>8. QED BY <1>2, <1>4, <1>5, <1>6, <1>7

QueueStep == Queue!Next \/ UNCHANGED Queue!delivery

\* The loop takes records from the batch in memory and none from the queue.
LEMMA LoopKeepsQueue ==
    ASSUME IInv, NEW d \in Drainers, LoopStep(d)
    PROVE  Queued' = Queued /\ Pending' = Pending /\ Lost' = Lost
<1>1. \A e \in Drainers : pc[e] # "rewrite" /\ pc'[e] # "rewrite"
  <2>1. \A e \in Drainers : e # d => pc[e] = "idle" /\ pc'[e] = "idle"
    BY OthersIdle DEF IInv, LoopStep, Working, Goto, TypeOK
  <2>2. pc[d] # "rewrite" /\ pc'[d] # "rewrite"
    BY DEF IInv, LoopStep, Working, Goto, TypeOK
  <2>3. QED BY <2>1, <2>2
<1>2. QED BY <1>1 DEF LoopStep, Queued, Pending, OnDisk, Rewriting, Lost

\* A record a drain has at hand is pending, and one in hand is not ledgered.
LEMMA AtHandIsPending ==
    ASSUME IInv, BookInv, NEW d \in Drainers, pc[d] \in Working
    PROVE  Elems(recs[d]) \cup InHand(d) \subseteq Pending /\ InHand(d) \cap ledger = {}
BY DEF BookInv, InBatch, Pending, OnDisk, IInv, LedgerInv

\* A record enters the conflict log from the batch, before it is ledgered.
LEMMA Logged ==
    ASSUME NEW k \in Ops, NEW r \in Reasons, conflicts' = conflicts \cup {<<k, r>>},
           k \in Pending, k \notin ledger, ledger' = ledger, applied' = applied,
           Queued' = Queued, Pending' = Pending, Lost' = Lost
    PROVE  QueueStep
<1>1. ConflictKeys' = ConflictKeys \cup {k}
  BY DEF ConflictKeys
<1>2. Queue!SetAside(k)
  BY <1>1 DEF Queue!SetAside, Queue!Open
<1>3. QED BY <1>2 DEF QueueStep, Queue!Next

\* A step that settles nothing leaves the queue as it is.
LEMMA Quiet ==
    ASSUME conflicts' = conflicts, ledger' = ledger, applied' = applied,
           Queued' = Queued, Pending' = Pending, Lost' = Lost
    PROVE  QueueStep
BY DEF QueueStep, Queue!delivery, ConflictKeys

\* Visiting a record settles it only by setting it aside, and a torn or
\* superseded record that is set aside is not ledgered.
LEMMA VisitQueue ==
    ASSUME IInv, BookInv, NEW d \in Drainers,
           \/ Unparseable(d) \/ Parsed(d) \/ SkipDone(d) \/ ParkCanonize(d)
           \/ ConflictSuperseded(d) \/ ToDispatch(d)
    PROVE  QueueStep
<1> USE DEF files, locals, remote
<1>1. /\ Queued' = Queued /\ Pending' = Pending /\ Lost' = Lost
      /\ pc[d] \in Working /\ Elems(recs[d]) \subseteq Pending /\ recs[d] \in Seq(Ops)
  BY VisitBook, LoopKeepsQueue, AtHandIsPending DEF LoopStep, IInv, TypeOK
<1>2. \A i \in DOMAIN recs[d] : recs[d][i] \in Ops /\ recs[d][i] \in Pending
  BY <1>1 DEF Elems
<1>3. CASE Unparseable(d)
  <2>1. PICK i \in DOMAIN recs[d] :
           /\ Kind[recs[d][i]] = "torn"
           /\ conflicts' = conflicts \cup {<<recs[d][i], "unparseable">>}
    BY <1>3 DEF Unparseable
  <2>2. recs[d][i] \notin ledger /\ ledger' = ledger /\ applied' = applied
    BY <1>3, <2>1 DEF Unparseable, BookInv, TornInv
  <2>3. QED BY <1>1, <1>2, <2>1, <2>2, Logged DEF Reasons
<1>4. CASE ConflictSuperseded(d)
  <2>1. PICK i \in DOMAIN recs[d] :
           /\ Untried(d, recs[d][i])
           /\ conflicts' = conflicts \cup {<<recs[d][i], "superseded">>}
    BY <1>4 DEF ConflictSuperseded
  <2>2. recs[d][i] \notin ledger /\ ledger' = ledger /\ applied' = applied
    BY <1>1, <1>4, <2>1 DEF ConflictSuperseded, Untried, IInv, LedgerInv
  <2>3. QED BY <1>1, <1>2, <2>1, <2>2, Logged DEF Reasons
<1>5. CASE Parsed(d) \/ SkipDone(d) \/ ParkCanonize(d) \/ ToDispatch(d)
  BY <1>1, <1>5, Quiet DEF Parsed, SkipDone, ParkCanonize, ToDispatch
<1>6. QED BY <1>3, <1>4, <1>5

\* A dispatch executes a pending record that is not ledgered; the ledger line
\* follows an execution; a refusal sets the record aside.
LEMMA OutcomeQueue ==
    ASSUME IInv, BookInv, NEW d \in Drainers,
           \/ DispatchOk(d) \/ LedgerAppend(d) \/ KeepTransient(d) \/ KeepSSH(d)
           \/ StopRetryable(d) \/ ConflictRefused(d)
    PROVE  QueueStep
<1> USE DEF files, locals, remote
<1> DEFINE k == cur[d]
<1>1. pc[d] \in {"dispatch", "ledger"} /\ k \in Ops /\ InHand(d) = {k} /\ dst[d] = "authority"
  BY DEF DispatchOk, LedgerAppend, KeepTransient, KeepSSH, StopRetryable, ConflictRefused,
         IInv, CurSet, LedgerInv, InHand
<1>2. Queued' = Queued /\ Pending' = Pending /\ Lost' = Lost
  BY OutcomeBook, LoopKeepsQueue
<1>3. k \in Pending /\ k \notin ledger
  BY <1>1, AtHandIsPending DEF Working
<1>4. ASSUME Deliver(d, k), ledger' = ledger, conflicts' = conflicts PROVE QueueStep
  <2>1. Queue!Execute(k)
    BY <1>1, <1>2, <1>3, <1>4 DEF Deliver, Queue!Execute, Queue!Open, ConflictKeys
  <2>2. QED BY <1>1, <2>1 DEF QueueStep, Queue!Next
<1>5. CASE DispatchOk(d)
  BY <1>4, <1>5 DEF DispatchOk
<1>6. CASE LedgerAppend(d)
  <2>1. k \in applied /\ ledger' = ledger \cup {k} /\ applied' = applied /\ ConflictKeys' = ConflictKeys
    BY <1>6 DEF LedgerAppend, IInv, LedgerInv, ConflictKeys
  <2>2. Queue!Acknowledge(k)
    BY <1>2, <1>3, <2>1 DEF Queue!Acknowledge, Queue!Open
  <2>3. QED BY <1>1, <2>2 DEF QueueStep, Queue!Next
<1>7. CASE KeepTransient(d) \/ KeepSSH(d)
  <2>1. ledger' = ledger /\ conflicts' = conflicts /\ (Deliver(d, k) \/ UNCHANGED remote)
    BY <1>7 DEF KeepTransient, KeepSSH
  <2>2. QED BY <1>2, <1>4, <2>1, Quiet
<1>8. CASE StopRetryable(d)
  BY <1>2, <1>8, Quiet DEF StopRetryable
<1>9. CASE ConflictRefused(d)
  <2>1. PICK r \in Reasons : conflicts' = conflicts \cup {<<k, r>>}
    BY <1>9 DEF ConflictRefused, Reasons
  <2>2. ledger' = ledger /\ applied' = applied
    BY <1>9 DEF ConflictRefused
  <2>3. QED BY <1>1, <1>2, <1>3, <2>1, <2>2, Logged
<1>10. QED BY <1>5, <1>6, <1>7, <1>8, <1>9

\* Opening the outbox changes no record; the write puts one into a file, or
\* where no drain will find it.
LEMMA WriterQueue ==
    ASSUME IInv, BookInv, NEW k \in Ops, QueueOpen(k) \/ QueueWrite(k)
    PROVE  BookInv' /\ QueueStep
<1> USE DEF files, locals, remote
<1>1. BookInv'
  BY DEF QueueOpen, QueueWrite, BookInv, InBatch, TornInv, InHand
<1>2. CASE QueueOpen(k)
  <2>1. Queued' = Queued
    BY <1>2 DEF QueueOpen, Queued, IInv, TypeOK
  <2>2. Pending' = Pending /\ Lost' = Lost
    BY <1>2 DEF QueueOpen, Pending, OnDisk, Rewriting, Lost
  <2>3. QED BY <1>1, <1>2, <2>1, <2>2, Quiet DEF QueueOpen
<1>3. CASE QueueWrite(k)
  <2>1. outbox \in Seq(Ops) /\ rotating \in Seq(Ops) /\ fd \in [Ops -> {"unopened", "outbox", "rotating", "unlinked", "closed"}]
    BY DEF IInv, TypeOK
  <2>2. /\ Elems(Append(outbox, k)) = Elems(outbox) \cup {k}
        /\ Elems(Append(rotating, k)) = Elems(rotating) \cup {k}
    BY <2>1, ElemsAppend
  <2>3. k \notin Queued /\ Queued' = Queued \cup {k}
    BY <1>3, <2>1 DEF QueueWrite, Queued
  <2>4. Rewriting' = Rewriting /\ ConflictKeys' = ConflictKeys
    BY <1>3 DEF QueueWrite, Rewriting, ConflictKeys
  <2>5. Pending' = IF fd[k] = "unlinked" THEN Pending ELSE Pending \cup {k}
    BY <1>3, <2>2, <2>4 DEF QueueWrite, Pending, OnDisk
  <2>6. Lost' \in {Lost, Lost \cup {k}} /\ (fd[k] = "unlinked" => k \in Lost')
    BY <1>3 DEF QueueWrite, Lost
  <2>7. Queue!Accept(k)
    BY <1>3, <2>3, <2>4, <2>5, <2>6 DEF QueueWrite, Queue!Accept
  <2>8. QED BY <1>1, <2>7 DEF QueueStep, Queue!Next
<1>4. QED BY <1>1, <1>2, <1>3

\* What leaves the queue outside the loop has been accounted for.
LEMMA TidyUp ==
    ASSUME Queued' = Queued, applied' = applied, ledger' = ledger, conflicts' = conflicts,
           Pending' \subseteq Pending, Lost \subseteq Lost', Lost' \subseteq Lost \cup Pending,
           Pending \subseteq Pending' \cup Settled \cup Lost'
    PROVE  QueueStep
<1>1. ConflictKeys' = ConflictKeys
  BY DEF ConflictKeys
<1>2. QED BY <1>1 DEF Settled, QueueStep, Queue!Next, Queue!Tidy

\* Rotation and folding move the pending records from file to file; unlinking
\* the rotated file loses those that were written to it late.
LEMMA RotationQueue ==
    ASSUME IInv, BookInv, NEW d \in Drainers,
           \/ FoldLeftover(d) \/ UnlinkLeftover(d) \/ Rotate(d) \/ Fold(d) \/ Unlink(d) \/ Load(d)
    PROVE  BookInv' /\ QueueStep
<1> USE DEF files, locals, remote
<1>0. TypeOK /\ pc[d] \notin {"idle", "rewrite"}
  BY DEF IInv, FoldLeftover, UnlinkLeftover, Rotate, Fold, Unlink, Load
<1>1. \A e \in Drainers : e # d => pc[e] = "idle"
  BY <1>0, OthersIdle DEF IInv
<1>2. BookInv'
  <2>1. CASE Load(d)
    <3>1. /\ recs'[d] = replaying /\ kept'[d] = <<>> /\ past'[d] = <<>> /\ pc'[d] = "parse"
          /\ replaying' = replaying /\ ledger' = ledger
          /\ \A e \in Drainers : e # d => pc'[e] = "idle"
      BY <1>0, <1>1, <2>1 DEF Load, Goto, TypeOK
    <3>2. QED BY <1>0, <3>1, ElemsEmpty DEF BookInv, InBatch, TornInv, InHand, Working
  <2>2. CASE ~ Load(d)
    <3>1. /\ pc'[d] \notin Working /\ ledger' = ledger
          /\ \A e \in Drainers : e # d => pc'[e] = "idle"
      BY <1>0, <1>1, <2>2 DEF FoldLeftover, UnlinkLeftover, Rotate, Fold, Unlink, FoldRotating,
         UnlinkRotating, Goto, Working, TypeOK
    <3>2. QED BY <3>1 DEF BookInv, InBatch, TornInv, Working
  <2>3. QED BY <2>1, <2>2
<1>3. /\ Lost' = Lost /\ Queued' = Queued /\ applied' = applied /\ ledger' = ledger
      /\ conflicts' = conflicts /\ Rewriting = {} /\ Rewriting' = {}
  <2>1. /\ late' = late /\ torn' = torn /\ applied' = applied /\ ledger' = ledger
        /\ conflicts' = conflicts
    BY DEF FoldLeftover, UnlinkLeftover, Rotate, Fold, Unlink, Load, FoldRotating, UnlinkRotating
  <2>2. \A e \in Drainers : pc[e] # "rewrite" /\ pc'[e] # "rewrite"
    BY <1>0, <1>1 DEF FoldLeftover, UnlinkLeftover, Rotate, Fold, Unlink, Load, FoldRotating, UnlinkRotating,
       Goto, TypeOK
  <2>3. \A k \in Ops : fd'[k] = "closed" <=> fd[k] = "closed"
    BY <1>0 DEF FoldLeftover, UnlinkLeftover, Rotate, Fold, Unlink, Load, FoldRotating, UnlinkRotating, TypeOK
  <2>4. QED BY <2>1, <2>2, <2>3 DEF Lost, Queued, Rewriting
<1>4. CASE FoldLeftover(d) \/ Fold(d)
  <2>1. Elems(replaying') = Elems(replaying) \cup Elems(rotating)
    <3>1. replaying \in Seq(Ops) /\ rotating \in Seq(Ops) /\ replaying' = replaying \o rotating
      BY <1>0, <1>4 DEF FoldLeftover, Fold, FoldRotating, TypeOK
    <3>2. Elems(replaying \o rotating) = Elems(replaying) \cup Elems(rotating)
      BY <3>1, ElemsConcat
    <3>3. QED BY <3>1, <3>2
  <2>2. Pending' = Pending
    BY <1>3, <1>4, <2>1 DEF FoldLeftover, Fold, FoldRotating, Pending, OnDisk
  <2>3. QED BY <1>2, <1>3, <2>2, Quiet
<1>5. CASE UnlinkLeftover(d) \/ Unlink(d)
  <2>1. Elems(rotating') = {} /\ outbox' = outbox /\ replaying' = replaying
    BY <1>5, ElemsEmpty DEF UnlinkLeftover, Unlink, UnlinkRotating
  <2>2. Elems(rotating) \subseteq Elems(replaying) \cup late
    BY <1>5 DEF UnlinkLeftover, Unlink, IInv, FoldedInv
  <2>3. Pending' \subseteq Pending /\ Pending \subseteq Pending' \cup Lost
    BY <1>3, <2>1, <2>2 DEF Pending, OnDisk, Lost
  <2>4. QED BY <1>2, <1>3, <2>3, TidyUp
<1>6. CASE Rotate(d)
  <2>1. Elems(rotating) = {} /\ Elems(outbox') = {}
    BY <1>6, ElemsEmpty DEF Rotate, IInv, RotateInv
  <2>2. Pending' = Pending
    BY <1>3, <1>6, <2>1 DEF Rotate, Pending, OnDisk
  <2>3. QED BY <1>2, <1>3, <2>2, Quiet
<1>7. CASE Load(d)
  BY <1>2, <1>3, <1>7, Quiet DEF Load, Pending, OnDisk
<1>8. QED BY <1>4, <1>5, <1>6, <1>7

\* The end of a drain drops what is settled and hands the rest to the final
\* rewrite; a crash there loses what it held.
LEMMA EndQueue ==
    ASSUME IInv, BookInv, NEW d \in Drainers,
           FinishClean(d) \/ Truncate(d) \/ Rewrite(d) \/ Crash(d)
    PROVE  BookInv' /\ QueueStep
<1> USE DEF files, locals, remote
<1>0. TypeOK /\ pc[d] # "idle"
  BY DEF IInv, FinishClean, Truncate, Rewrite, Crash
<1>1. \A e \in Drainers : e # d => pc[e] = "idle"
  BY <1>0, OthersIdle DEF IInv
<1>2. BookInv'
  BY <1>0, <1>1 DEF FinishClean, Truncate, Rewrite, Crash, Exit, Goto, BookInv, InBatch, TornInv, InHand,
     Working, TypeOK
<1>3. /\ Queued' = Queued /\ applied' = applied /\ ledger' = ledger /\ conflicts' = conflicts
      /\ outbox' = outbox /\ rotating' = rotating /\ late' = late
  BY DEF FinishClean, Truncate, Rewrite, Crash, Queued
<1>4. /\ Rewriting = IF pc[d] = "rewrite" THEN {k \in Ops : k \in Elems(kept[d])} ELSE {}
      /\ Elems(kept[d]) \subseteq Ops
  <2>1. kept[d] \in Seq(Ops)
    BY <1>0 DEF TypeOK
  <2>2. Elems(kept[d]) \subseteq Ops
    BY <2>1 DEF Elems
  <2>3. QED BY <1>0, <1>1, <2>2 DEF Rewriting
<1>5. CASE FinishClean(d)
  <2>1. Elems(replaying) \subseteq Settled /\ Elems(replaying') = {}
    BY <1>5, ElemsEmpty DEF FinishClean, IInv, BatchInv, InHand, Working
  <2>2. Rewriting = {} /\ Rewriting' = {} /\ Lost' = Lost
    BY <1>0, <1>1, <1>5 DEF FinishClean, Exit, Goto, Rewriting, Lost, TypeOK
  <2>3. QED BY <1>2, <1>3, <2>1, <2>2, TidyUp DEF Pending, OnDisk
<1>6. CASE Truncate(d)
  <2>1. Elems(replaying) \subseteq Elems(kept[d]) \cup Settled /\ Elems(replaying') = {}
    BY <1>6, ElemsEmpty DEF Truncate, IInv, BatchInv, InHand, Working
  <2>2. Elems(kept[d]) \subseteq Elems(replaying)
    BY <1>6 DEF Truncate, BookInv, InBatch, Working
  <2>3. Rewriting = {} /\ Rewriting' = Elems(kept[d]) /\ Lost' = Lost
    BY <1>0, <1>1, <1>4, <1>6 DEF Truncate, Goto, Rewriting, Lost, TypeOK
  <2>4. QED BY <1>2, <1>3, <2>1, <2>2, <2>3, TidyUp DEF Pending, OnDisk
<1>7. CASE Rewrite(d)
  <2>1. Elems(replaying) = {} /\ replaying' = kept[d]
    BY <1>7, ElemsEmpty DEF Rewrite, IInv, TruncatedInv
  <2>2. Rewriting = Elems(kept[d]) /\ Rewriting' = {} /\ Lost' = Lost
    BY <1>0, <1>1, <1>4, <1>7 DEF Rewrite, Exit, Goto, Rewriting, Lost, TypeOK
  <2>3. QED BY <1>2, <1>3, <2>1, <2>2, Quiet DEF Pending, OnDisk
<1>8. CASE Crash(d)
  <2>1. Rewriting' = {} /\ replaying' = replaying
    BY <1>0, <1>1, <1>8 DEF Crash, Exit, Goto, Rewriting, TypeOK
  <2>2. Lost' = Lost \cup Rewriting
    BY <1>4, <1>8 DEF Crash, Lost
  <2>3. QED BY <1>2, <1>3, <2>1, <2>2, TidyUp DEF Pending, OnDisk
<1>9. QED BY <1>5, <1>6, <1>7, <1>8

\* Starting a drain, and an online session's update, leave the queue alone.
LEMMA OtherQueue ==
    ASSUME IInv, BookInv,
           \/ \E d \in Drainers : Begin(d)
           \/ \E m \in Memories : DirectUpdate(m)
           \/ UNCHANGED vars
    PROVE  BookInv' /\ QueueStep
<1> USE DEF files, locals, remote
<1>1. CASE \E d \in Drainers : Begin(d)
  <2>1. PICK d \in Drainers : Begin(d)
    BY <1>1
  <2>2. \A e \in Drainers : pc[e] = "idle" /\ pc'[e] \in {"idle", "foldLeftover"}
    BY <2>1, OutboxAssumption DEF Begin, Goto, IInv, OneDrainer, TypeOK
  <2>3. BookInv'
    BY <2>1, <2>2 DEF Begin, BookInv, InBatch, TornInv, InHand, Working
  <2>4. QED BY <2>1, <2>2, <2>3, Quiet DEF Begin, Queued, Pending, OnDisk, Rewriting, Lost
<1>2. CASE UNCHANGED vars \/ \E m \in Memories : DirectUpdate(m)
  BY <1>2, Quiet DEF vars, DirectUpdate, BookInv, InBatch, TornInv, InHand, Queued, Pending, OnDisk,
     Rewriting, Lost
<1>3. QED BY <1>1, <1>2

\* Every step of the outbox is a step of the queue or none: a record that was
\* queued stays pending until it is ledgered, conflict-logged or lost in one
\* of the two windows, and a ledgered one is never sent or conflict-logged.
THEOREM OutboxImplementsDelivery == Spec => ImplementsDelivery
<1>1. Init => Queue!Init /\ BookInv
  BY ElemsEmpty DEF Init, Queue!Init, Queued, Pending, OnDisk, Rewriting, ConflictKeys, Lost, BookInv,
     InBatch, TornInv, Working
<1>2. IInv /\ BookInv /\ [Next]_vars => BookInv' /\ [Queue!Next]_(Queue!delivery)
  <2> SUFFICES ASSUME IInv, BookInv, [Next]_vars PROVE BookInv' /\ QueueStep
    BY DEF QueueStep
  <2>1. QED BY WriterQueue, RotationQueue, VisitBook, VisitQueue, OutcomeBook, OutcomeQueue, EndQueue, OtherQueue
            DEF Next, Drain, ShimDrain, GoOnlineDrain
<1>3. QED BY <1>1, <1>2, IInvHolds, PTL DEF Spec, ImplementsDelivery, Queue!Spec

\* What the queue promises is enough: everything accepted is accounted for,
\* and a record is ledgered only after it was executed, by the abstract steps
\* alone.
THEOREM DeliveryAccounts == Queue!Spec => []Queue!Accounted
<1> DEFINE Acc == Queue!Accounted /\ Pending \subseteq Queued
<1>1. Queue!Init => Acc
  BY DEF Queue!Init, Queue!Accounted
<1>2. Acc /\ [Queue!Next]_(Queue!delivery) => Acc'
  BY DEF Queue!Next, Queue!delivery, Queue!Accept, Queue!Execute, Queue!Acknowledge, Queue!SetAside,
     Queue!Tidy, Queue!Open, Queue!Accounted
<1>3. QED BY <1>1, <1>2, PTL DEF Queue!Spec
=============================================================================
