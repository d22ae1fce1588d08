-------------------------------- MODULE Lease --------------------------------
(***************************************************************************)
(* What the per-PC lock promises those who write a store under it: the     *)
(* lease has one owner at a time and is granted only when it is free.  It  *)
(* is taken from an owner that is still at work only by a process that had *)
(* not seen it on the path, and then the owner is counted as displaced.    *)
(* PerPcLock implements it with a file that anybody may remove, a guard    *)
(* file and a window of time.  An owner is at work from its grant until it *)
(* stops: it lets go, fails, dies or lets its window pass.                 *)
(***************************************************************************)
CONSTANTS Attempts, Absent

VARIABLES lease,     \* the owner, or Absent
          working,   \* those who were granted it and have not stopped
          displaced  \* those it was taken from unseen

lock == <<lease, working, displaced>>

Init == lease = Absent /\ working = {} /\ displaced = {}

\* Whoever was slow to come may be past its window when it is granted.
Take(a) == /\ lease = Absent /\ lease' = a
           /\ a \notin working \cup displaced
           /\ working' \in {working, working \cup {a}}
           /\ UNCHANGED displaced

\* It becomes free when its owner has stopped, or is displaced.
Lose == /\ lease # Absent /\ lease' = Absent
        /\ displaced' \in {displaced, displaced \cup {lease}}
        /\ lease \in working' => lease \in displaced'

\* Any may stop in a step that takes the lease away, or in one that does not.
Next == \/ \E a \in Attempts : Take(a)
        \/ working' \subseteq working /\ (Lose \/ UNCHANGED <<lease, displaced>>)

Spec == Init /\ [][Next]_lock

(* What the promise is worth: of two at work, one was displaced.            *)
OneWorks == \A a, b \in working : a = b \/ a \in displaced \/ b \in displaced
=============================================================================
