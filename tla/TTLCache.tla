------------------------------ MODULE TTLCache ------------------------------
(***************************************************************************)
(* What the online store promises to whoever reads it, whichever jobs write  *)
(* it: a cache of proper rows.  An entry appears or changes only by a write,   *)
(* which leaves it a proper row with a deadline, has nothing but that          *)
(* deadline moved by a refresh, and is gone when the deadline passes.         *)
(* Entries may be lost at any time, and a server that restarts may bring back *)
(* the entries of its last image that have not expired.                       *)
(***************************************************************************)
EXTENDS Naturals

CONSTANTS
    Keys,
    IsRow(_),   \* what counts as a proper row
    Lifetimes   \* the times to live that a write or a refresh may set

VARIABLES
    time,
    cache,      \* from the keys present to [vec, at, until]
    image       \* the entries the server would restart with

cacheVars == <<time, cache, image>>

Empty == [k \in {} |-> {}]
Alive(c, t) == {k \in DOMAIN c : c[k].until > t}
Only(c, K) == [k \in K |-> c[k]]

CacheInit == time = 0 /\ cache = Empty /\ image = Empty

\* Writes land for the keys K, all at once.
Land(K) ==
    /\ DOMAIN cache' = DOMAIN cache \cup K
    /\ \A k \in K : /\ IsRow(cache'[k].vec)
                    /\ cache'[k].at \in 0..time
                    /\ \E l \in Lifetimes : cache'[k].until = time + l
    /\ \A k \in DOMAIN cache \ K : cache'[k] = cache[k]
    /\ UNCHANGED <<time, image>>

\* The deadline of the keys K moves, and nothing else of them.
Prolong(K) ==
    /\ DOMAIN cache' = DOMAIN cache
    /\ \A k \in K : /\ cache'[k].vec = cache[k].vec
                    /\ cache'[k].at = cache[k].at
                    /\ \E l \in Lifetimes : cache'[k].until = time + l
    /\ \A k \in DOMAIN cache \ K : cache'[k] = cache[k]
    /\ UNCHANGED <<time, image>>

Lose(k) ==
    /\ cache' = Only(cache, DOMAIN cache \ {k})
    /\ UNCHANGED <<time, image>>

TakeImage == image' = cache /\ UNCHANGED <<time, cache>>

Reload ==
    /\ cache' = Only(image, Alive(image, time))
    /\ UNCHANGED <<time, image>>

Pass ==
    /\ time' = time + 1
    /\ cache' = Only(cache, Alive(cache, time'))
    /\ UNCHANGED image

CacheNext ==
    \/ \E K \in SUBSET Keys : Land(K)
    \/ \E K \in SUBSET DOMAIN cache : Prolong(K)
    \/ \E k \in DOMAIN cache : Lose(k)
    \/ TakeImage \/ Reload \/ Pass

CacheSpec == CacheInit /\ [][CacheNext]_cacheVars

=============================================================================
