----------------------------- MODULE MCRecords -----------------------------
(* Instances of Records for TLC. *)
EXTENDS Records, TLC

CONSTANTS i1, i2, i3, x, y, h1, h2

RankTwo   == (i1 :> 1) @@ (i2 :> 2)
RankThree == (i1 :> 1) @@ (i2 :> 2) @@ (i3 :> 3)

\* The two texts contradict each other; the second is a standing order.
Clash == {<<x, y>>, <<y, x>>}

NoClash == {}

\* Threads are interchangeable where no fairness is assumed.
Threads == Permutations(Handlers)
=============================================================================
