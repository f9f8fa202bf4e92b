--------------------------- MODULE MCOnlineStore ---------------------------
(* OnlineStore for TLC.  Users are interchangeable: no definition chooses    *)
(* one, so states that differ by a permutation of them are explored once.    *)
EXTENDS OnlineStore, TLC

UserSymmetry == Permutations(Users)
=============================================================================
