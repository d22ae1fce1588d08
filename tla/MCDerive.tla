------------------------------- MODULE MCDerive -------------------------------
(***************************************************************************)
(* The jobs of MCJobs, and one more: the derive and the gate of one store. *)
(***************************************************************************)
EXTENDS MCJobs

CONSTANTS Notes, Doctrine, Prose, SyncLimit, Trigger, MaxLines, MaxEdits

VARIABLES notes, lines, tracked, deleted, deriver, before, names, unread, taken, derived,
          glimpse, meant, late, spared, hurried, edits

V == INSTANCE Derive WITH Slugs <- Notes, file <- notes, index <- lines, pc <- deriver,
                          todo <- unread, copy <- taken, plan <- derived

\* What the jobs' proofs assume: an episode's number is not what stands for none, whether
\* two facts clash does not depend on their order, the holders of a lock are told apart.
SweepAssumption == /\ Nobody \notin Canonicals /\ IsFiniteSet(Canonicals) /\ Limit \in Nat
                   /\ Newer \subseteq Canonicals \X Candidates
                   /\ Stale \subseteq Candidates \X Candidates
EpisodesAssumption == None \notin Nat /\ None \notin Titles /\ MaxRows \in Nat
DreamAssumption == /\ IsFiniteSet(Insights) /\ IsFiniteSet(Facts)
                   /\ \A f, g \in Facts : <<f, g>> \in Clashing => <<g, f>> \in Clashing
                   /\ \A f \in Facts : <<f, f>> \notin Clashing
WatchAssumption == /\ MaxDeaths \in Nat /\ Free # Dead
                   /\ Shells \cap W!Passes = {} /\ Watch \notin W!Hooks
                   /\ {Free, Dead} \cap (Shells \cup W!Passes) = {}
ASSUME JobsAssumption ==
    SweepAssumption /\ EpisodesAssumption /\ DreamAssumption /\ WatchAssumption

deriveVars == <<notes, lines, tracked, deleted, deriver, before, names, unread, taken, derived,
                glimpse, meant, late, spared, hurried, edits>>

AllInit == /\ MCInit /\ V!Init
           /\ job # "derive" => lines = V!Empty

AllNext == \/ MCNext /\ UNCHANGED deriveVars
           \/ job = "derive" /\ V!Next /\ UNCHANGED jobsVars

All == AllInit /\ [][AllNext]_<<jobsVars, deriveVars>>

----------------------------------------------------------------------------
(* Every variable keeps its type.                                          *)
AllTypeOK == JobsTypeOK /\ V!TypeOK

(* A derive takes no hook out of the index that is nowhere else, and       *)
(* neither derive nor gate undoes what a session wrote meanwhile, but      *)
(* between the comparison and the write, or a harvest's read and its write *)
(* (harvest, then hygiene, cap and floor, then the comparison).            *)
NothingIsDerivedAway == V!NothingIsDerivedAway
=============================================================================
