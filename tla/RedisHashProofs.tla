-------------------------- MODULE RedisHashProofs --------------------------
(* What the Redis commands of RedisHash do to a key space, for any key space. *)
EXTENDS RedisHash, TLAPS

\* HSET merges: the fields it is given replace the old ones, the others stay
\* (redis_sink.py:50 and redis_client.py:54 live with it).
LEMMA MergeEffect ==
    ASSUME NEW new, NEW old
    PROVE  /\ DOMAIN Merge(new, old) = DOMAIN new \cup DOMAIN old
           /\ \A f \in DOMAIN new : Merge(new, old)[f] = new[f]
           /\ \A f \in DOMAIN old \ DOMAIN new : Merge(new, old)[f] = old[f]
BY DEF Merge

\* HSET then EXPIRE in one transaction: the keys there and the keys written are
\* there afterwards.
LEMMA PipelineDomain ==
    ASSUME NEW db, NEW rows, NEW deadline,
           NEW w, w = Expire(HSet(db, rows), DOMAIN rows, deadline)
    PROVE  DOMAIN w = DOMAIN db \cup DOMAIN rows
BY DEF HSet, Expire

\* The written keys get their row, merged into what was there, and the deadline;
\* the other keys are as they were.
LEMMA PipelineEffect ==
    ASSUME NEW db, NEW rows, NEW deadline,
           NEW w, w = Expire(HSet(db, rows), DOMAIN rows, deadline)
    PROVE  /\ w = [u \in DOMAIN w |-> w[u]]
           /\ \A u \in DOMAIN rows :
                w[u] = [vec |-> IF u \in DOMAIN db THEN Merge(rows[u].vec, db[u].vec)
                                ELSE rows[u].vec,
                        at |-> rows[u].at, until |-> deadline]
           /\ \A u \in DOMAIN db \ DOMAIN rows : w[u] = db[u]
<1>. DEFINE h == HSet(db, rows)
<1>1. DOMAIN h = DOMAIN db \cup DOMAIN rows
  BY DEF HSet
<1>2. w = [u \in DOMAIN h |-> IF u \in DOMAIN rows THEN [h[u] EXCEPT !.until = deadline] ELSE h[u]]
  BY DEF Expire
<1>3. ASSUME NEW u \in DOMAIN rows
      PROVE  w[u] = [vec |-> IF u \in DOMAIN db THEN Merge(rows[u].vec, db[u].vec)
                             ELSE rows[u].vec,
                     at |-> rows[u].at, until |-> deadline]
  <2>1. w[u] = [h[u] EXCEPT !.until = deadline]
    BY <1>1, <1>2
  <2>2. CASE u \in DOMAIN db
    <3>1. h[u] = [vec |-> Merge(rows[u].vec, db[u].vec), at |-> rows[u].at, until |-> db[u].until]
      BY <2>2 DEF HSet
    <3>. HIDE DEF h
    <3>. QED BY <2>1, <2>2, <3>1
  <2>3. CASE u \notin DOMAIN db
    <3>1. h[u] = [vec |-> rows[u].vec, at |-> rows[u].at, until |-> Immortal]
      BY <2>3 DEF HSet
    <3>. HIDE DEF h
    <3>. QED BY <2>1, <2>3, <3>1
  <2>. QED BY <2>2, <2>3
<1>4. ASSUME NEW u \in DOMAIN db \ DOMAIN rows
      PROVE  w[u] = db[u]
  <2>1. h[u] = db[u]
    BY DEF HSet
  <2>. HIDE DEF h
  <2>. QED BY <1>1, <1>2, <2>1
<1>. HIDE DEF h
<1>. QED BY <1>1, <1>2, <1>3, <1>4

\* EXPIRE moves deadlines and nothing else, and creates no key.
LEMMA ExpireEffect ==
    ASSUME NEW db, NEW U, NEW deadline, NEW w, w = Expire(db, U, deadline),
           \A u \in DOMAIN db :
               db[u] = [vec |-> db[u].vec, at |-> db[u].at, until |-> db[u].until]
    PROVE  /\ DOMAIN w = DOMAIN db
           /\ w = [u \in DOMAIN w |-> w[u]]
           /\ \A u \in DOMAIN db :
                w[u] = [vec |-> db[u].vec, at |-> db[u].at,
                        until |-> IF u \in U THEN deadline ELSE db[u].until]
<1>1. DOMAIN w = DOMAIN db /\ w = [u \in DOMAIN w |-> w[u]]
  BY DEF Expire
<1>2. ASSUME NEW u \in DOMAIN db
      PROVE  w[u] = [vec |-> db[u].vec, at |-> db[u].at,
                     until |-> IF u \in U THEN deadline ELSE db[u].until]
  <2>1. w[u] = IF u \in U THEN [db[u] EXCEPT !.until = deadline] ELSE db[u]
    BY DEF Expire
  <2>2. db[u] = [vec |-> db[u].vec, at |-> db[u].at, until |-> db[u].until]
    OBVIOUS
  <2>. QED BY <2>1, <2>2
<1>. QED BY <1>1, <1>2

\* Keys only leave when the clock passes their deadline.
LEMMA UnexpiredEffect ==
    ASSUME NEW db, NEW time, NEW w, w = Unexpired(db, time)
    PROVE  /\ DOMAIN w \subseteq DOMAIN db
           /\ w = [u \in DOMAIN w |-> w[u]]
           /\ \A u \in DOMAIN w :
                w[u] = db[u] /\ (db[u].until = Immortal \/ db[u].until > time)
           /\ \A u \in DOMAIN db :
                (db[u].until = Immortal \/ db[u].until > time) => u \in DOMAIN w
BY DEF Unexpired

=============================================================================
