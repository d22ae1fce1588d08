---------------------------- MODULE MCPerPcLock ----------------------------
(* Instances of PerPcLock for TLC. *)
EXTENDS PerPcLock, TLC

CONSTANTS a, b, c, s, t

\* Three ams-store processes of one box.
KindGo     == [x \in Attempts |-> "go"]
OneSession == [x \in Attempts |-> s]

\* ams-store and the compactor on one desktop, ams-store in another session.
KindMixed    == (a :> "go") @@ (b :> "compactor") @@ (c :> "go")
TwoSessions  == (a :> s) @@ (b :> s) @@ (c :> t)

----------------------------------------------------------------------------
(* A lock file that names its holder does not outlast that holder's silence *)
(* (IsLive, breakDead).  The three processes are alike, so what holds for   *)
(* the file of one holds for all.                                           *)
NamedLockGivesWay == GivesWay(a)
=============================================================================
