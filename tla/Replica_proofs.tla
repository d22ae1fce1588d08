--------------------------- MODULE Replica_proofs ---------------------------
(***************************************************************************)
(* Proofs about Replica, for all bounds.  A restore of the watcher's runs   *)
(* only while the stamp is not fresh, and nothing but the end of a restore *)
(* makes it fresh; a restore by hand has no such guard.                    *)
(***************************************************************************)
EXTENDS Replica, TLAPS

Bounds == DownTicks \in Nat /\ UpTicks \in Nat /\ MaxFaults \in Nat /\ MaxByHand \in Nat

\* A restore by hand is known to have been run.
HandInv == doing["hand"] \in Restoring => meddled

\* While the watcher restores the stamp is not fresh, and what it proves is whole.
TickInv == /\ doing["tick"] \in Restoring => restored # "fresh" \/ meddled
           /\ doing["tick"] = "prove" => whole \/ meddled

IInv == TypeOK /\ HandInv /\ TickInv /\ FreshIsWhole

-----------------------------------------------------------------------------
LEMMA DefaultIsState == Bounds => Default \in State
  BY DEF Bounds, Default, State

LEMMA CappedIsBounded ==
  ASSUME NEW n \in Nat, NEW cap \in Nat PROVE Capped(n, cap) \in 0..cap
  <1>1. CASE n < cap BY <1>1 DEF Capped
  <1>2. CASE ~(n < cap) BY <1>2 DEF Capped
  <1> QED BY <1>1, <1>2

LEMMA SteppedIsState == ASSUME Bounds, NEW s \in State PROVE Stepped(s) \in State
  <1> DEFINE down == IF up THEN 0 ELSE Capped(s.down + 1, DownTicks)
             back == IF up THEN Capped(s.up + 1, UpTicks) ELSE 0
             mode == IF s.mode = "online" /\ down >= DownTicks THEN "offline"
                     ELSE IF s.mode = "offline" /\ back >= UpTicks THEN "online" ELSE s.mode
  <1>1. s.mode \in {"online", "offline"} /\ s.down \in Nat /\ s.up \in Nat
    BY DEF State, Bounds
  <1>2. Capped(s.down + 1, DownTicks) \in 0..DownTicks /\ Capped(s.up + 1, UpTicks) \in 0..UpTicks
    <2>1. s.down + 1 \in Nat /\ s.up + 1 \in Nat BY <1>1
    <2> QED BY <2>1, CappedIsBounded DEF Bounds
  <1>3. down \in 0..DownTicks /\ back \in 0..UpTicks BY <1>2 DEF Bounds
  <1>4. mode \in {"online", "offline"} BY <1>1
  <1>5. Stepped(s) = [mode |-> mode, down |-> down, up |-> back] BY DEF Stepped
  <1> HIDE DEF down, back, mode
  <1> QED BY <1>3, <1>4, <1>5 DEF State

LEMMA InitInv == ASSUME Bounds, Init PROVE IInv
  <1>1. TypeOK
    <2>1. whole \in BOOLEAN /\ restored \in {"never", "fresh", "stale"} BY DEF Init
    <2>2. doing \in [Restores -> {"idle"}] BY DEF Init
    <2>3. units \subseteq All /\ faults \in 0..MaxFaults /\ byHand \in 0..MaxByHand
      BY DEF Init, Bounds
    <2> QED BY <2>1, <2>2, <2>3, DefaultIsState DEF Init, TypeOK
  <1> QED BY <1>1 DEF Init, IInv, HandInv, TickInv, FreshIsWhole, Restoring, Restores

\* Whoever goes somewhere, the other stays.
LEMMA Moving ==
  ASSUME TypeOK, NEW r \in Restores, NEW to, Goes(r, to)
  PROVE  doing'[r] = to /\ \A q \in Restores \ {r} : doing'[q] = doing[q]
  BY DEF TypeOK, Goes

LEMMA MovingKeepsType ==
  ASSUME TypeOK, NEW r \in Restores,
         NEW to \in {"idle", "start", "drain", "stop", "trap", "save"} \cup Restoring,
         Goes(r, to)
  PROVE  doing' \in [Restores -> {"idle", "start", "drain", "stop", "trap", "save"} \cup Restoring]
  BY DEF TypeOK, Goes

\* A step of the tick's that is no step of a restore's, or the end of one.
LEMMA QuietInv ==
  ASSUME IInv, NEW r \in Restores,
         NEW to \in {"idle", "start", "drain", "stop", "trap", "save"}, Goes(r, to),
         UNCHANGED <<stamps, meddled>>
  PROVE  HandInv' /\ TickInv' /\ FreshIsWhole'
  <1>1. doing'[r] = to /\ \A q \in Restores \ {r} : doing'[q] = doing[q]
    BY Moving DEF IInv
  <1>2. to \notin Restoring BY DEF Restoring
  <1>3. HandInv' BY <1>1, <1>2 DEF IInv, HandInv, Restores
  <1>4. TickInv' BY <1>1, <1>2 DEF IInv, TickInv, Restores, stamps, Restoring
  <1>5. FreshIsWhole' BY DEF IInv, FreshIsWhole, stamps
  <1> QED BY <1>3, <1>4, <1>5

LEMMA WorldInv ==
  ASSUME Bounds, IInv, BrainGoesOrComes \/ TimePasses \/ Reboot PROVE IInv'
  <1>1. CASE BrainGoesOrComes
    BY <1>1 DEF IInv, BrainGoesOrComes, TypeOK, HandInv, TickInv, FreshIsWhole, stamps, counts
  <1>2. CASE TimePasses
    BY <1>2 DEF IInv, TimePasses, TypeOK, HandInv, TickInv, FreshIsWhole, counts
  <1>3. CASE Reboot
    <2>1. TypeOK'
      <3>1. missed' \in BOOLEAN BY <1>3 DEF Reboot, Offline
      <3> QED BY <1>3, <3>1, DefaultIsState DEF IInv, Reboot, TypeOK, Fault, stamps, Bounds
    <2>2. \A r \in Restores : doing'[r] = "idle" BY <1>3 DEF Reboot
    <2> QED BY <1>3, <2>1, <2>2
            DEF IInv, Reboot, HandInv, TickInv, FreshIsWhole, stamps, Restores, Restoring
  <1> QED BY <1>1, <1>2, <1>3

LEMMA TickInvKept == ASSUME Bounds, IInv, Tick PROVE IInv'
  <1> DEFINE to == Planned(nxt')
  <1>1. Loaded \in State BY DefaultIsState DEF Loaded, IInv, TypeOK
  <1>2. nxt' \in State BY <1>1, SteppedIsState DEF Tick
  <1>3. to \in {"start", "drain", "fetch", "save"} /\ (to = "fetch" => Due)
    BY DEF Planned
  <1>4. doing'["tick"] = to /\ doing'["hand"] = doing["hand"]
    BY Moving DEF Tick, IInv, Restores
  <1>5. doing' \in [Restores -> {"idle", "start", "drain", "stop", "trap", "save"} \cup Restoring]
    BY <1>3, MovingKeepsType DEF Tick, IInv, Restores, Restoring
  <1>6. /\ UNCHANGED <<up, saved, units, restored, whole, faults, byHand, missed>>
        /\ tried' \in {tried, "recent"}
        /\ meddled' = (meddled /\ ~(doing'["tick"] = "fetch" /\ doing["hand"] = "idle"))
    BY DEF Tick
  <1> HIDE DEF to
  <1>7. TypeOK' BY <1>2, <1>5, <1>6 DEF IInv, TypeOK
  <1>8. HandInv' BY <1>4, <1>6 DEF IInv, HandInv, Restoring
  <1>9. to = "fetch" => restored # "fresh" BY <1>3 DEF Due
  <1>10. TickInv' BY <1>3, <1>4, <1>6, <1>9 DEF TickInv, Restoring
  <1>11. FreshIsWhole' BY <1>4, <1>6, <1>9 DEF IInv, FreshIsWhole
  <1> QED BY <1>7, <1>8, <1>10, <1>11 DEF IInv

LEMMA StartInv == ASSUME Bounds, IInv, Start \/ StartFails PROVE IInv'
  <1>1. Goes("tick", "save") /\ UNCHANGED <<up, saved, nxt, stamps, meddled, byHand>>
    BY DEF Start, StartFails, counts
  <1>2. units' \subseteq All /\ missed' \in BOOLEAN
    BY DEF IInv, TypeOK, Start, StartFails
  <1>3. faults' \in 0..MaxFaults
    BY DEF IInv, TypeOK, Bounds, Start, StartFails, Fault, counts
  <1>4. TypeOK' BY <1>1, <1>2, <1>3, MovingKeepsType DEF IInv, TypeOK, stamps, Restores
  <1>5. HandInv' /\ TickInv' /\ FreshIsWhole' BY <1>1, QuietInv DEF Restores
  <1> QED BY <1>4, <1>5 DEF IInv

LEMMA DrainInv == ASSUME Bounds, IInv, Drained \/ Stop \/ StopFails PROVE IInv'
  <1> DEFINE to == IF Drained THEN "stop" ELSE "save"
  <1>1. /\ UNCHANGED <<up, saved, nxt, stamps, meddled, byHand>>
        /\ Goes("tick", "stop") \/ Goes("tick", "save")
    BY DEF Drained, Stop, StopFails, counts
  <1>2. units' \subseteq All /\ missed' \in BOOLEAN
    BY DEF IInv, TypeOK, Drained, Stop, StopFails, Stopped
  <1>3. faults' \in 0..MaxFaults
    BY DEF IInv, TypeOK, Bounds, Drained, Stop, StopFails, Fault, counts
  <1>4. TypeOK' BY <1>1, <1>2, <1>3, MovingKeepsType DEF IInv, TypeOK, stamps, Restores
  <1>5. HandInv' /\ TickInv' /\ FreshIsWhole' BY <1>1, QuietInv DEF Restores
  <1> QED BY <1>4, <1>5 DEF IInv

LEMMA SaveInv == ASSUME Bounds, IInv, Save \/ TickDies PROVE IInv'
  <1>1. /\ UNCHANGED <<up, units, stamps, meddled, byHand>> /\ Goes("tick", "idle")
        /\ nxt' = Default
    BY DEF Save, TickDies, counts
  <1>2. saved' \in State \cup {Torn} /\ missed' \in BOOLEAN
    BY DEF IInv, TypeOK, Save, TickDies, Offline
  <1>3. faults' \in 0..MaxFaults
    BY DEF IInv, TypeOK, Bounds, Save, TickDies, Fault, counts
  <1>4. TypeOK'
    BY <1>1, <1>2, <1>3, MovingKeepsType, DefaultIsState DEF IInv, TypeOK, stamps, Restores
  <1>5. HandInv' /\ TickInv' /\ FreshIsWhole' BY <1>1, QuietInv DEF Restores
  <1> QED BY <1>4, <1>5 DEF IInv

LEMMA ByHandInv == ASSUME Bounds, IInv, ByHand PROVE IInv'
  <1>1. TypeOK'
    <2>1. "fetch" \in Restoring /\ "hand" \in Restores BY DEF Restoring, Restores
    <2>2. byHand' \in 0..MaxByHand BY DEF IInv, TypeOK, Bounds, ByHand
    <2> QED BY <2>1, <2>2, MovingKeepsType DEF IInv, TypeOK, ByHand, stamps
  <1> QED BY <1>1 DEF IInv, ByHand, HandInv, TickInv, FreshIsWhole

\* Where a restore ends, no restore is under way.
LEMMA AfterIsQuiet == ASSUME NEW r \in Restores PROVE After(r) \in {"save", "idle"}
  BY DEF After

LEMMA EndInv ==
  ASSUME Bounds, IInv, NEW r \in Restores, RestoreFails(r) \/ RestoreKilled(r) \/ Trap(r)
  PROVE  IInv'
  <1>1. /\ UNCHANGED <<up, saved, nxt, stamps, meddled, byHand>>
        /\ Goes(r, "trap") \/ Goes(r, After(r))
    BY DEF RestoreFails, RestoreKilled, Trap, counts
  <1>2. units' \subseteq All /\ missed' \in BOOLEAN
    BY DEF IInv, TypeOK, RestoreFails, RestoreKilled, Trap, Stopped, All
  <1>3. faults' \in 0..MaxFaults
    BY DEF IInv, TypeOK, Bounds, RestoreFails, RestoreKilled, Trap, Fault, counts
  <1>4. TypeOK'
    BY <1>1, <1>2, <1>3, MovingKeepsType, AfterIsQuiet DEF IInv, TypeOK, stamps
  <1>5. HandInv' /\ TickInv' /\ FreshIsWhole' BY <1>1, QuietInv, AfterIsQuiet
  <1> QED BY <1>4, <1>5 DEF IInv

LEMMA RestoreInv ==
  ASSUME Bounds, IInv, NEW r \in Restores, Fetch(r) \/ Load(r) \/ Upload(r) \/ Prove(r)
  PROVE  IInv'
  <1>1. doing[r] \in Restoring /\ UNCHANGED <<up, saved, nxt, tried, faults, byHand, meddled>>
    BY DEF Fetch, Load, Upload, Prove, Restoring, stamps, counts
  <1>2. TypeOK'
    <2>1. /\ units' \subseteq All /\ missed' \in BOOLEAN /\ whole' \in BOOLEAN
          /\ restored' \in {"never", "fresh", "stale"}
      BY DEF IInv, TypeOK, Fetch, Load, Upload, Prove, Stopped, All, stamps
    <2>2. \E to \in {"trap"} \cup Restoring : Goes(r, to)
      BY DEF Fetch, Load, Upload, Prove, Restoring
    <2>3. doing' \in [Restores -> {"idle", "start", "drain", "stop", "trap", "save"} \cup Restoring]
      BY <2>2, MovingKeepsType DEF IInv
    <2> QED BY <1>1, <2>1, <2>3 DEF IInv, TypeOK
  <1>3. HandInv'
    <2>1. CASE r = "hand" BY <1>1, <2>1 DEF IInv, HandInv
    <2>2. CASE r = "tick"
      <3>1. doing'["hand"] = doing["hand"]
        BY <2>2, Moving DEF IInv, Fetch, Load, Upload, Prove, Restores
      <3> QED BY <1>1, <3>1 DEF IInv, HandInv
    <2> QED BY <2>1, <2>2 DEF Restores
  <1>4. CASE r = "hand"
    <2>1. meddled' BY <1>1, <1>4 DEF IInv, HandInv
    <2> QED BY <1>2, <1>3, <2>1 DEF IInv, TickInv, FreshIsWhole
  <1>5. CASE r = "tick"
    <2>1. restored # "fresh" \/ meddled BY <1>1, <1>5 DEF IInv, TickInv
    <2>2. CASE Prove(r)
      <3>1. doing'[r] = "trap" /\ restored' = "fresh" /\ whole' = whole /\ doing[r] = "prove"
        BY <2>2, Moving DEF IInv, Prove
      <3>2. whole' \/ meddled' BY <1>1, <1>5, <3>1 DEF IInv, TickInv
      <3> QED BY <1>2, <1>3, <1>5, <3>1, <3>2 DEF IInv, TickInv, FreshIsWhole, Restoring
    <2>3. CASE Fetch(r) \/ Load(r) \/ Upload(r)
      <3>1. restored' = restored BY <2>3 DEF Fetch, Load, Upload, stamps
      <3>2. doing'[r] = "prove" => whole' \/ meddled'
        BY <2>3, Moving DEF IInv, Fetch, Load, Upload
      <3> QED BY <1>1, <1>2, <1>3, <1>5, <2>1, <3>1, <3>2 DEF IInv, TickInv, FreshIsWhole
    <2> QED BY <2>2, <2>3
  <1> QED BY <1>4, <1>5 DEF Restores

LEMMA NextInv == ASSUME Bounds, IInv, [Next]_vars PROVE IInv'
  <1>1. CASE BrainGoesOrComes \/ TimePasses \/ Reboot BY <1>1, WorldInv
  <1>2. CASE TickStep \/ StartFails \/ StopFails \/ TickDies
    BY <1>2, TickInvKept, StartInv, DrainInv, SaveInv DEF TickStep
  <1>3. CASE ByHand BY <1>3, ByHandInv
  <1>4. CASE \E r \in Restores : RestoreStep(r) \/ RestoreFails(r) \/ RestoreKilled(r)
    BY <1>4, EndInv, RestoreInv DEF RestoreStep
  <1>5. CASE UNCHANGED vars
    BY <1>5 DEF IInv, vars, stamps, counts, TypeOK, HandInv, TickInv, FreshIsWhole
  <1> QED BY <1>1, <1>2, <1>3, <1>4, <1>5 DEF Next

(* Every variable of the replica keeps its type.                            *)
THEOREM ReplicaTypeCorrect == ASSUME Bounds PROVE Spec => []TypeOK
  <1>1. Init => IInv BY InitInv
  <1>2. IInv /\ [Next]_vars => IInv' BY NextInv
  <1>3. IInv => TypeOK BY DEF IInv
  <1> QED BY <1>1, <1>2, <1>3, PTL DEF Spec

(* A fresh stamp vouches for a whole set, wherever the watcher's restores    *)
(* and ticks die, unless a restore was run by hand (restore-replica.sh).    *)
THEOREM FreshStampsAreTrue == ASSUME Bounds PROVE Spec => []FreshIsWhole
  <1>1. Init => IInv BY InitInv
  <1>2. IInv /\ [Next]_vars => IInv' BY NextInv
  <1>3. IInv => FreshIsWhole BY DEF IInv
  <1> QED BY <1>1, <1>2, <1>3, PTL DEF Spec
=============================================================================
