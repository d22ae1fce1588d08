---------------------------- MODULE MCStoreSync ----------------------------
(* Instances of StoreSync for TLC. *)
EXTENDS StoreSync, TLC

\* One PC has the file, with nothing in it yet, and seeds the fleet.
OneSeeds == {[p \in PCs |-> IF p = q THEN {} ELSE Absent] : q \in PCs}

\* PCs and lines are interchangeable.
Symmetry == Permutations(PCs) \cup Permutations(Lines)
=============================================================================
