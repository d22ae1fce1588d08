------------------------------ MODULE MCReplica ------------------------------
(***************************************************************************)
(* The two halves of a replica's offline life: its outbox, and the watcher *)
(* that starts and stops its server.  Each has the other in it already: the *)
(* outbox is drained at any time (GoOnlineDrain), and the watcher's drain  *)
(* takes any time (Drained).  So a behaviour is one of the one or of the   *)
(* other, and the other stays where it began.                              *)
(***************************************************************************)
EXTENDS MCOutbox

CONSTANTS DownTicks, UpTicks, Torn, MaxFaults, MaxByHand

VARIABLES half,
    up, saved, nxt, doing, units, restored, tried, whole, faults, byHand, missed, meddled

R == INSTANCE Replica

replicaVars == <<up, saved, nxt, doing, units, restored, tried, whole, faults, byHand, missed,
                 meddled>>

Following(A) == half = "replica" /\ A

HalvesInit == /\ half \in {"outbox", "replica"}
              /\ Init /\ R!Init
              /\ half = "outbox" => up /\ restored = "never"

HalvesNext == \/ half = "outbox" /\ Next /\ UNCHANGED <<half, replicaVars>>
              \/ Following(R!Next) /\ UNCHANGED <<half, vars>>

\* An outbox that nobody writes to has nothing to be fair about.
Halves ==
    /\ HalvesInit /\ [][HalvesNext]_<<half, vars, replicaVars>>
    /\ Fairness
    /\ WF_replicaVars(Following(R!TickStep)) /\ WF_replicaVars(Following(R!TimePasses))
    /\ \A r \in R!Restores : WF_replicaVars(Following(R!RestoreStep(r)))

----------------------------------------------------------------------------
(* A replica's server runs in an outage that lasts and rests when the Brain *)
(* stays, and what its stamp vouches for is whole, but in the windows that  *)
(* Replica names (step_offline_state, plan_actions, restore-replica.sh).    *)
FollowsTheBrain == R!FollowsTheBrain
=============================================================================
