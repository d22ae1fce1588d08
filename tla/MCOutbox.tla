------------------------------ MODULE MCOutbox ------------------------------
(* Instances of Outbox for TLC. *)
EXTENDS Outbox, TLC

CONSTANTS a, u, v, c, t, m, n

\* An add and two updates of one memory.
KindUpdates   == (a :> "add") @@ (u :> "update") @@ (v :> "update")
TargetUpdates == (a :> n) @@ (u :> m) @@ (v :> m)

\* A guarded update, a canonization and a line torn by a crash of its writer.
KindTorn   == (u :> "update") @@ (c :> "canonize") @@ (t :> "torn")
TargetTorn == (u :> m) @@ (c :> n) @@ (t :> n)

\* Two canonizations, of which one can fail over ssh and the other be parked.
KindCanonize   == (c :> "canonize") @@ (v :> "canonize")
TargetCanonize == (c :> n) @@ (v :> n)
=============================================================================
