------------------------------ MODULE Replica ------------------------------
(***************************************************************************)
(* The offline watcher of a Linux replica, started every two minutes by    *)
(* its timer (scripts/travel/offline-watcher.py), and the restore it runs  *)
(* (scripts/travel/restore-replica.sh), which the installer and operators  *)
(* run too.  The watcher follows the Brain: it starts the local server     *)
(* when the Brain has been away for a while and stops it when it is back.  *)
(*                                                                         *)
(* Units that are started answer; a drain (Outbox) only takes time here.   *)
(***************************************************************************)
EXTENDS Naturals

CONSTANTS
    DownTicks, UpTicks,  \* probes in a row that make a transition
    Torn,                \* a state file that does not parse
    MaxFaults,           \* bound on what fails or dies
    MaxByHand            \* bound on restores run by hand

VARIABLES
    up,        \* the Brain answers
    saved,     \* offline-mode.json
    nxt,       \* the state the running tick will save
    doing,     \* where the tick is, and the restore run by hand
    units,     \* the local units that run
    restored,  \* age of the stamp replica-restored
    tried,     \* age of the stamp replica-refresh-attempt
    whole,     \* the local store is one whole set
    faults, byHand,
    missed,    \* observer: units stopped, or not started, that no later tick starts
    meddled    \* observer: a restore was run by hand since the watcher's last one began

vars == <<up, saved, nxt, doing, units, restored, tried, whole, faults, byHand, missed, meddled>>
stamps == <<restored, tried, whole>>
counts == <<faults, byHand, meddled>>

All       == {"qdrant", "mem0"}
Restores  == {"tick", "hand"}
Restoring == {"fetch", "load", "upload", "prove"}
State     == [mode : {"online", "offline"}, down : 0..DownTicks, up : 0..UpTicks]
Default   == [mode |-> "online", down |-> 0, up |-> 0]

TypeOK ==
    /\ up \in BOOLEAN /\ saved \in State \cup {Torn} /\ nxt \in State
    /\ doing \in [Restores -> {"idle", "start", "drain", "stop", "trap", "save"} \cup Restoring]
    /\ units \subseteq All
    /\ restored \in {"never", "fresh", "stale"} /\ tried \in {"recent", "cooled"}
    /\ whole \in BOOLEAN /\ missed \in BOOLEAN /\ meddled \in BOOLEAN
    /\ faults \in 0..MaxFaults /\ byHand \in 0..MaxByHand

\* Installed: the units are disabled, and the first restore is still to come, or done.
Init ==
    /\ up \in BOOLEAN /\ saved = Default /\ nxt = Default
    /\ doing = [r \in Restores |-> "idle"] /\ units = {}
    /\ restored \in {"never", "fresh"} /\ whole = (restored = "fresh") /\ tried = "cooled"
    /\ faults = 0 /\ byHand = 0 /\ missed = FALSE /\ meddled = FALSE

Goes(r, to) == doing' = [doing EXCEPT ![r] = to]
Fault == faults < MaxFaults /\ faults' = faults + 1

\* The file, or the tick that is about to write it, says offline: nothing is a transition to it.
Offline(file, next) == next.mode = "offline" \/ (file # Torn /\ file.mode = "offline")

Stopped(U) == units' = U /\ missed' = (missed \/ (Offline(saved, nxt) /\ U # All))

----------------------------------------------------------------------------
(* The world. *)

BrainGoesOrComes ==
    /\ up' = ~up
    /\ UNCHANGED <<saved, nxt, doing, units, stamps, counts, missed>>

TimePasses ==
    /\ \/ restored = "fresh" /\ restored' = "stale" /\ UNCHANGED tried
       \/ tried = "recent" /\ tried' = "cooled" /\ UNCHANGED restored
    /\ UNCHANGED <<up, saved, nxt, doing, units, whole, counts, missed>>

\* The units are disabled: they stay down after a boot.  A write of the file may be torn.
Reboot ==
    /\ Fault
    /\ doing' = [r \in Restores |-> "idle"] /\ units' = {} /\ nxt' = Default
    /\ saved' \in {saved} \cup (IF doing["tick"] = "save" THEN {Torn} ELSE {})
    /\ missed' = Offline(saved', Default)
    /\ UNCHANGED <<up, stamps, byHand, meddled>>

----------------------------------------------------------------------------
(* A tick: probe, step, plan. *)

Capped(n, cap) == IF n < cap THEN n ELSE cap

\* step_offline_state
Stepped(s) ==
    LET down == IF up THEN 0 ELSE Capped(s.down + 1, DownTicks)
        back == IF up THEN Capped(s.up + 1, UpTicks) ELSE 0
        mode == IF s.mode = "online" /\ down >= DownTicks THEN "offline"
                ELSE IF s.mode = "offline" /\ back >= UpTicks THEN "online" ELSE s.mode
    IN  [mode |-> mode, down |-> down, up |-> back]

\* Mutant: a state file that does not parse is taken for an outage under way.
LoadedOffline == IF saved = Torn THEN [Default EXCEPT !.mode = "offline"] ELSE saved

Loaded == IF saved = Torn THEN Default ELSE saved

Due == restored # "fresh" /\ tried = "cooled"

\* plan_actions: what this tick does first.
Planned(s) ==
    IF s.mode # Loaded.mode THEN IF s.mode = "offline" THEN "start" ELSE "drain"
    ELSE IF s.mode = "online" /\ up /\ Due THEN "fetch" ELSE "save"

\* The attempt is stamped before a refresh; that write may fail.
Tick ==
    /\ doing["tick"] = "idle"
    /\ nxt' = Stepped(Loaded) /\ Goes("tick", Planned(nxt'))
    /\ tried' \in IF doing'["tick"] = "fetch" THEN {tried, "recent"} ELSE {tried}
    /\ meddled' = (meddled /\ ~(doing'["tick"] = "fetch" /\ doing["hand"] = "idle"))
    /\ UNCHANGED <<up, saved, units, restored, whole, faults, byHand, missed>>

Start ==
    /\ doing["tick"] = "start" /\ units' = All /\ missed' = FALSE /\ Goes("tick", "save")
    /\ UNCHANGED <<up, saved, nxt, stamps, counts>>

\* systemctl starts one of the two, or none.
StartFails ==
    /\ doing["tick"] = "start" /\ Fault
    /\ \E U \in SUBSET All \ {All} : units' = units \cup U
    /\ missed' = (units' # All) /\ Goes("tick", "save")
    /\ UNCHANGED <<up, saved, nxt, stamps, byHand, meddled>>

\* replay-ops.py has run, whatever came of it.
Drained ==
    /\ doing["tick"] = "drain" /\ Goes("tick", "stop")
    /\ UNCHANGED <<up, saved, nxt, units, stamps, counts, missed>>

Stop ==
    /\ doing["tick"] = "stop" /\ Stopped({}) /\ Goes("tick", "save")
    /\ UNCHANGED <<up, saved, nxt, stamps, counts>>

StopFails ==
    /\ doing["tick"] = "stop" /\ Fault
    /\ \E U \in SUBSET units : Stopped(U)
    /\ Goes("tick", "save")
    /\ UNCHANGED <<up, saved, nxt, stamps, byHand, meddled>>

Save ==
    /\ doing["tick"] = "save"
    /\ saved' = nxt /\ nxt' = Default /\ missed' = (missed /\ nxt.mode = "offline")
    /\ Goes("tick", "idle")
    /\ UNCHANGED <<up, units, stamps, counts>>

\* The write fails, before or after it truncated the file, or the tick dies anywhere.
TickDies ==
    /\ doing["tick"] # "idle" /\ Fault
    /\ saved' \in {saved} \cup (IF doing["tick"] = "save" THEN {Torn} ELSE {})
    /\ nxt' = Default /\ Goes("tick", "idle")
    /\ missed' = (Offline(saved', Default) /\ (missed \/ units # All))
    /\ UNCHANGED <<up, units, stamps, byHand, meddled>>

----------------------------------------------------------------------------
(* A restore, by the tick or by hand.  Its EXIT trap stops the units. *)

After(r) == IF r = "tick" THEN "save" ELSE "idle"

ByHand ==
    /\ doing["hand"] = "idle" /\ byHand < MaxByHand
    /\ byHand' = byHand + 1 /\ meddled' = TRUE /\ Goes("hand", "fetch")
    /\ UNCHANGED <<up, saved, nxt, units, stamps, faults, missed>>

Fetch(r) ==
    /\ doing[r] = "fetch" /\ Goes(r, IF up THEN "load" ELSE "trap")
    /\ UNCHANGED <<up, saved, nxt, units, stamps, counts, missed>>

\* mem0 is stopped, qdrant started, and the old collection dropped.
Load(r) ==
    /\ doing[r] = "load" /\ Stopped({"qdrant"}) /\ whole' = FALSE /\ Goes(r, "upload")
    /\ UNCHANGED <<up, saved, nxt, restored, tried, counts>>

\* The snapshot is uploaded and both ledgers are replaced.
Upload(r) ==
    /\ doing[r] = "upload" /\ whole' = TRUE /\ Goes(r, "prove")
    /\ UNCHANGED <<up, saved, nxt, units, restored, tried, counts, missed>>

\* mem0 is started and answers; then the stamp.
Prove(r) ==
    /\ doing[r] = "prove" /\ units' = All /\ restored' = "fresh" /\ Goes(r, "trap")
    /\ UNCHANGED <<up, saved, nxt, tried, whole, counts, missed>>

\* A step fails; in the last one mem0 may have been started.
RestoreFails(r) ==
    /\ doing[r] \in Restoring /\ Fault /\ Goes(r, "trap")
    /\ units' \in {units} \cup (IF doing[r] = "prove" THEN {All} ELSE {})
    /\ UNCHANGED <<up, saved, nxt, stamps, byHand, meddled, missed>>

\* Killed at its timeout, so that no trap runs, or the trap's stop fails.
RestoreKilled(r) ==
    /\ doing[r] \in Restoring \cup {"trap"} /\ Fault /\ Goes(r, After(r))
    /\ UNCHANGED <<up, saved, nxt, units, stamps, byHand, meddled, missed>>

Trap(r) ==
    /\ doing[r] = "trap" /\ Stopped({}) /\ Goes(r, After(r))
    /\ UNCHANGED <<up, saved, nxt, stamps, counts>>

----------------------------------------------------------------------------
TickStep == Tick \/ Start \/ Drained \/ Stop \/ Save
RestoreStep(r) == Fetch(r) \/ Load(r) \/ Upload(r) \/ Prove(r) \/ Trap(r)

Next ==
    \/ BrainGoesOrComes \/ TimePasses \/ Reboot
    \/ TickStep \/ StartFails \/ StopFails \/ TickDies
    \/ ByHand
    \/ \E r \in Restores : RestoreStep(r) \/ RestoreFails(r) \/ RestoreKilled(r)

Spec == Init /\ [][Next]_vars

\* The timer fires, a running script goes on, time passes.  The Brain need not come back.
Fairness ==
    /\ WF_vars(TickStep) /\ WF_vars(TimePasses)
    /\ \A r \in Restores : WF_vars(RestoreStep(r))

----------------------------------------------------------------------------
(* In an outage that lasts the local server runs some day, unless its start *)
(* failed on the one tick that tries, or a boot, a dead tick or a restore by*)
(* hand stopped it while the file said offline.                             *)
Serves == ~up ~> (up \/ units = All \/ missed)

(* When the Brain stays, the local server is stopped some day, also when    *)
(* the file was torn, a stop failed or a restore was killed.                *)
Rests == up ~> (~up \/ units = {})

(* The stamp that keeps the watcher from refreshing vouches for a whole set,*)
(* wherever a restore of the watcher's died, unless one was run by hand.    *)
FreshIsWhole == restored = "fresh" => whole \/ meddled

FollowsTheBrain == Serves /\ Rests /\ []FreshIsWhole
=============================================================================
