------------------------- MODULE MCConsistencyCheck -------------------------
(* ConsistencyCheck for TLC: a value of zero, one so small that the 1e-6 of the  *)
(* denominator matters, and a ratio of 2 %; offline, every user has the last.     *)
EXTENDS ConsistencyCheck

MCValues == {0, 10, 20000}
MCDelta == [u \in Users |-> [f \in Features |-> 20000]]
MCDagNoise == {-5, 5}
MCPageNoise == {-10, 11}
=============================================================================
