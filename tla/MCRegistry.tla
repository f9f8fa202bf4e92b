----------------------------- MODULE MCRegistry -----------------------------
(* Registry for TLC: three of the six seeds, in the order of seed_data.py.   *)
EXTENDS Registry

SeedList == <<"txn_count_5m", "cart_abandon_ratio", "anomaly_score">>
=============================================================================
