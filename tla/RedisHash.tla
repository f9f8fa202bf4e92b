----------------------------- MODULE RedisHash -----------------------------
(***************************************************************************)
(* The Redis commands that the feature store issues on features:{user}      *)
(* keys.  Redis is not part of the repository: each operator is what the    *)
(* code relies on when it calls HSET, EXPIRE and TTL.                       *)
(*                                                                          *)
(* A key space db is a function from the users that HAVE a features hash to  *)
(* its contents:                                                            *)
(*   vec    the feature fields present, each with the value stored          *)
(*   at     the computed_at field                                           *)
(*   until  the moment the key expires, Immortal when it has no TTL         *)
(***************************************************************************)
EXTENDS Naturals

Immortal == 0

\* HSET on a hash: the fields given replace, the other fields stay.
Merge(new, old) ==
    [f \in DOMAIN new \cup DOMAIN old |->
        IF f \in DOMAIN new THEN new[f] ELSE old[f]]

\* HSET of rows[u] (its vec, and its computed_at) for every user u of rows.  It
\* keeps the TTL of a key that exists, and creates the others without one.
HSet(db, rows) ==
    [u \in DOMAIN db \cup DOMAIN rows |->
        IF u \notin DOMAIN rows THEN db[u]
        ELSE IF u \in DOMAIN db
             THEN [vec |-> Merge(rows[u].vec, db[u].vec), at |-> rows[u].at, until |-> db[u].until]
             ELSE [vec |-> rows[u].vec, at |-> rows[u].at, until |-> Immortal]]

\* Variant of Expire: SET-like, it creates the key.
ExpireOrCreate(db, U, deadline) ==
    [u \in DOMAIN db \cup U |->
        IF u \notin DOMAIN db THEN [vec |-> [f \in {} |-> 0], at |-> 0, until |-> deadline]
        ELSE IF u \in U THEN [db[u] EXCEPT !.until = deadline] ELSE db[u]]

\* EXPIRE of every key of U: nothing happens for a key that is not there.
Expire(db, U, deadline) ==
    [u \in DOMAIN db |->
        IF u \in U THEN [db[u] EXCEPT !.until = deadline] ELSE db[u]]

\* The keys left once the clock reads `time`.
Unexpired(db, time) ==
    LET Kept == {u \in DOMAIN db : db[u].until = Immortal \/ db[u].until > time}
    IN  [u \in Kept |-> db[u]]

\* DEL, or eviction by allkeys-lru.
Without(db, u) == [v \in DOMAIN db \ {u} |-> db[v]]

\* 0 < TTL < limit, the test that both refreshers make.  TTL is -2 for a missing
\* key and -1 for one without expiry, so neither passes.
NearExpiry(db, u, time, limit) ==
    /\ u \in DOMAIN db
    /\ db[u].until # Immortal
    /\ time < db[u].until
    /\ db[u].until < time + limit

=============================================================================
