--------------------------- MODULE MCDeltaTable ---------------------------
(* DeltaTable for TLC.  No definition tells one user from another.          *)
EXTENDS DeltaTable, TLC

UserSymmetry == Permutations(Users)
=============================================================================
