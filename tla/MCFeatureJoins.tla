--------------------------- MODULE MCFeatureJoins ---------------------------
(* FeatureJoins for TLC: users and sessions are interchangeable.              *)
EXTENDS FeatureJoins, TLC

Symmetry == Permutations(Users) \cup Permutations(Sessions)
=============================================================================
