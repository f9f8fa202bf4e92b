------------------------- MODULE OnlineStoreProofs -------------------------
(***************************************************************************)
(* Proofs about OnlineStore, for every value of its constants.               *)
(***************************************************************************)
EXTENDS OnlineStore, RedisHashProofs, FiniteSetTheorems

USE TimesAssumption, BoundsAssumption, DataAssumption DEF Time

-----------------------------------------------------------------------------
(* Key spaces stay key spaces *)

\* What a writer hands to the pipeline for one user.
IsRow(r) ==
    /\ DOMAIN r.vec \subseteq Fields
    /\ r.vec \in [DOMAIN r.vec -> Value]
    /\ r.at \in Time

LEMMA MergeType ==
    ASSUME NEW new, NEW old,
           DOMAIN new \subseteq Fields, new \in [DOMAIN new -> Value],
           DOMAIN old \subseteq Fields, old \in [DOMAIN old -> Value]
    PROVE  /\ DOMAIN Merge(new, old) \subseteq Fields
           /\ Merge(new, old) \in [DOMAIN Merge(new, old) -> Value]
BY DEF Merge

LEMMA WriteType ==
    ASSUME NEW db, IsKeySpace(db), NEW rows, DOMAIN rows \subseteq Users,
           \A u \in DOMAIN rows : IsRow(rows[u]), NEW d \in Nat,
           NEW w, w = Expire(HSet(db, rows), DOMAIN rows, d)
    PROVE  IsKeySpace(w)
<1>1. /\ w = [u \in DOMAIN w |-> w[u]]
      /\ \A u \in DOMAIN rows :
           w[u] = [vec |-> IF u \in DOMAIN db THEN Merge(rows[u].vec, db[u].vec)
                           ELSE rows[u].vec,
                   at |-> rows[u].at, until |-> d]
      /\ \A u \in DOMAIN db \ DOMAIN rows : w[u] = db[u]
  BY PipelineEffect
<1>0. DOMAIN w = DOMAIN db \cup DOMAIN rows
  BY PipelineDomain
<1>2. ASSUME NEW u \in DOMAIN rows PROVE IsEntry(w[u])
  <2>1. IsRow(rows[u])
    OBVIOUS
  <2>2. CASE u \in DOMAIN db
    <3>1. IsEntry(db[u])
      BY <2>2 DEF IsKeySpace
    <3>2. /\ DOMAIN Merge(rows[u].vec, db[u].vec) \subseteq Fields
          /\ Merge(rows[u].vec, db[u].vec) \in [DOMAIN Merge(rows[u].vec, db[u].vec) -> Value]
      BY <2>1, <3>1, MergeType DEF IsRow, IsEntry
    <3>3. w[u] = [vec |-> Merge(rows[u].vec, db[u].vec), at |-> rows[u].at, until |-> d]
      BY <1>1, <2>2
    <3>. QED BY <2>1, <3>2, <3>3 DEF IsRow, IsEntry
  <2>3. CASE u \notin DOMAIN db
    <3>1. w[u] = [vec |-> rows[u].vec, at |-> rows[u].at, until |-> d]
      BY <1>1, <2>3
    <3>. QED BY <2>1, <3>1 DEF IsRow, IsEntry
  <2>. QED BY <2>2, <2>3
<1>3. ASSUME NEW u \in DOMAIN db \ DOMAIN rows PROVE IsEntry(w[u])
  BY <1>1 DEF IsKeySpace
<1>. QED BY <1>0, <1>1, <1>2, <1>3 DEF IsKeySpace

LEMMA ExpireType ==
    ASSUME NEW db, IsKeySpace(db), NEW U, NEW d \in Nat, NEW w, w = Expire(db, U, d)
    PROVE  IsKeySpace(w)
<1>1. \A u \in DOMAIN db : db[u] = [vec |-> db[u].vec, at |-> db[u].at, until |-> db[u].until]
  BY DEF IsKeySpace, IsEntry
<1>2. /\ DOMAIN w = DOMAIN db
      /\ w = [u \in DOMAIN w |-> w[u]]
      /\ \A u \in DOMAIN db :
           w[u] = [vec |-> db[u].vec, at |-> db[u].at,
                   until |-> IF u \in U THEN d ELSE db[u].until]
  BY <1>1, ExpireEffect
<1>3. \A u \in DOMAIN w : IsEntry(w[u])
  BY <1>2 DEF IsKeySpace, IsEntry
<1>. QED BY <1>2, <1>3 DEF IsKeySpace

LEMMA UnexpiredType ==
    ASSUME NEW db, IsKeySpace(db), NEW t PROVE IsKeySpace(Unexpired(db, t))
BY UnexpiredEffect DEF IsKeySpace

LEMMA WithoutType ==
    ASSUME NEW db, IsKeySpace(db), NEW u PROVE IsKeySpace(Without(db, u))
BY DEF IsKeySpace, Without

LEMMA SinkRowType ==
    ASSUME NEW ts \in Nat, NEW w \in Windows
    PROVE  IsRow(SinkRow(ts, w))
BY DEF SinkRow, SinkFields, IsRow, Value

LEMMA BulkRowType ==
    ASSUME NEW made \in Nat, NEW at \in Nat, NEW w \in Windows
    PROVE  IsRow(BulkRow(made, at, w))
BY DEF BulkRow, IsRow, Value

LEMMA FnRowType ==
    ASSUME now \in Nat, refresher.made \in Nat
    PROVE  IsRow(FnRow)
BY DEF FnRow, IsRow, Value

LEMMA NoTries == 0 \in Nat /\ 0 \in 0..Attempts /\ {} \in SUBSET Users
OBVIOUS

\* The retry counter of write_features stays within its attempts.
LEMMA RetryType ==
    ASSUME refresher \in RefresherStates
    PROVE  UserDone \in RefresherStates /\ AfterFailure \in RefresherStates
<1>1. UserDone \in RefresherStates
  BY NoTries DEF UserDone, RefresherStates
<1>2. CASE refresher.tries + 1 >= Attempts
  BY <1>1, <1>2 DEF AfterFailure
<1>3. CASE ~(refresher.tries + 1 >= Attempts)
  <2>1. refresher.tries + 1 \in 0..Attempts
    BY <1>3 DEF RefresherStates
  <2>2. AfterFailure = [refresher EXCEPT !.tries = refresher.tries + 1]
    BY <1>3 DEF AfterFailure
  <2>. QED BY <1>1, <2>1, <2>2 DEF RefresherStates
<1>. QED BY <1>2, <1>3

-----------------------------------------------------------------------------
(* The type invariant *)

\* The states of the program are of the types its variables are declared with.
THEOREM TypeCorrect == Spec => []TypeOK
<1>1. Init => TypeOK
  BY DEF Init, TypeOK, DagStates, RefresherStates, IsKeySpace, NoBatch, Resting, Batches
<1>2. ASSUME TypeOK, [Next]_vars
      PROVE  TypeOK'
  <2>. USE <1>2 DEF TypeOK, DagStates, redis, disk
  <2>1. CASE Streaming
    <3>1. CASE SinkCollect
      BY <3>1 DEF SinkCollect
    <3>2. CASE SinkExecute
      <4>1. PICK last \in [RowUsers(sink.rows) -> Windows] :
               WriteAll([u \in DOMAIN last |-> SinkRow(sink.ts, last[u])])
        BY <3>2 DEF SinkExecute
      <4>. DEFINE rows == [u \in DOMAIN last |-> SinkRow(sink.ts, last[u])]
      <4>2. DOMAIN rows \subseteq Users
        BY DEF RowUsers, Batches
      <4>3. \A u \in DOMAIN rows : IsRow(rows[u])
        BY SinkRowType
      <4>4. store' = Expire(HSet(store, rows), DOMAIN rows, now + TTL) /\ index' = index \cup DOMAIN rows
        BY <4>1 DEF WriteAll, Indexed
      <4>. HIDE DEF rows
      <4>5. IsKeySpace(store') /\ index' \subseteq Users
        BY <4>2, <4>3, <4>4, WriteType
      <4>. QED BY <3>2, <4>5 DEF SinkExecute
    <3>3. CASE SinkCommit
      BY <3>3 DEF SinkCommit, redis, NoBatch, Batches
    <3>4. CASE SinkFail
      BY <3>4 DEF SinkFail
    <3>5. CASE SinkReplay
      BY <3>5 DEF SinkReplay
    <3>. QED BY <2>1, <3>1, <3>2, <3>3, <3>4, <3>5 DEF Streaming
  <2>2. CASE RefreshDag
    <3>1. CASE DagStart
      BY <3>1 DEF DagStart, Samples
    <3>2. CASE \E u \in Users : DagScan(u)
      <4>1. PICK u \in Users : DagScan(u)
        BY <3>2
      <4>2. dag' \in DagStates
        <5>1. CASE NearExpiry(store, u, now, StaleBelow)
          BY <4>1, <5>1 DEF DagScan
        <5>2. CASE ~NearExpiry(store, u, now, StaleBelow)
          BY <4>1, <5>2 DEF DagScan
        <5>. QED BY <5>1, <5>2
      <4>. QED BY <4>1, <4>2 DEF DagScan
    <3>3. CASE DagExecute
      <4>1. IsKeySpace(store')
        BY <3>3, ExpireType DEF DagExecute, ExtendAll
      <4>. QED BY <3>3, <4>1 DEF DagExecute
    <3>4. CASE DagFail
      BY <3>4 DEF DagFail
    <3>. QED BY <2>2, <3>1, <3>2, <3>3, <3>4 DEF RefreshDag
  <2>3. CASE CacheRefresh
    <3>. USE DEF NextUser
    <3>1. CASE RefresherStart
      <4>1. refresher' \in RefresherStates
        BY <3>1, NoTries DEF RefresherStart, Resting, Samples, RefresherStates
      <4>. QED BY <3>1, <4>1 DEF RefresherStart
    <3>2. CASE \E u \in Users : RefresherScan(u)
      <4>1. PICK u \in Users : RefresherScan(u)
        BY <3>2
      <4>2. refresher' \in RefresherStates
        <5>1. CASE NearExpiry(store, u, now, RefreshThreshold)
          BY <4>1, <5>1 DEF RefresherScan, RefresherStates
        <5>2. CASE ~NearExpiry(store, u, now, RefreshThreshold)
          BY <4>1, <5>2 DEF RefresherScan, RefresherStates
        <5>. QED BY <5>1, <5>2
      <4>. QED BY <4>1, <4>2 DEF RefresherScan
    <3>3. CASE \E u \in Users : RefresherExtend(u)
      <4>1. IsKeySpace(store')
        BY <3>3, ExpireType DEF RefresherExtend
      <4>2. refresher' \in RefresherStates
        BY <3>3 DEF RefresherExtend, RefresherStates
      <4>. QED BY <3>3, <4>1, <4>2 DEF RefresherExtend
    <3>4. CASE \E u \in Users : RefresherCompute(u)
      <4>0. PICK u \in Users : RefresherCompute(u)
        BY <3>4
      <4>1. refresher' = [refresher EXCEPT !.stale = refresher.stale \ {u}, !.cur = {u},
                                           !.made = now, !.tries = 0]
        BY <4>0 DEF RefresherCompute
      <4>2. {u} \in SUBSET Users /\ refresher.stale \ {u} \in SUBSET Users
        BY DEF RefresherStates
      <4>3. refresher' \in RefresherStates
        BY <4>1, <4>2, NoTries DEF RefresherStates
      <4>. QED BY <3>4, <4>3 DEF RefresherCompute
    <3>5. CASE \E u \in Users : RefresherSkip(u)
      <4>1. refresher' \in RefresherStates
        BY <3>5 DEF RefresherSkip, RefresherStates
      <4>. QED BY <3>5, <4>1 DEF RefresherSkip
    <3>a. UserDone \in RefresherStates /\ AfterFailure \in RefresherStates
      BY RetryType
    <3>6. CASE RefresherWrite
      <4>. DEFINE rows == [u \in refresher.cur |-> FnRow]
      <4>1. DOMAIN rows \subseteq Users /\ \A u \in DOMAIN rows : IsRow(rows[u])
        BY FnRowType DEF RefresherStates
      <4>2. store' = Expire(HSet(store, rows), DOMAIN rows, now + TTL) /\ index' = index \cup DOMAIN rows
        BY <3>6 DEF RefresherWrite, WriteCurrent, WriteAll, Indexed
      <4>. HIDE DEF rows
      <4>3. IsKeySpace(store') /\ index' \subseteq Users
        BY <4>1, <4>2, WriteType
      <4>. QED BY <3>6, <3>a, <4>3 DEF RefresherWrite
    <3>7. CASE RefresherWriteFail
      BY <3>7, <3>a DEF RefresherWriteFail
    <3>8. CASE RefresherEnd
      BY <3>8 DEF RefresherEnd, Resting, RefresherStates
    <3>. QED BY <2>3, <3>1, <3>2, <3>3, <3>4, <3>5, <3>6, <3>7, <3>8 DEF CacheRefresh
  <2>4. CASE BulkWrite
    <3>0. PICK U \in SUBSET Users, w \in Windows, made \in 0..now :
            \E at \in {made, now} : WriteAll([u \in U |-> BulkRow(made, at, w)])
      BY <2>4 DEF BulkWrite
    <3>1. PICK at \in {made, now} : WriteAll([u \in U |-> BulkRow(made, at, w)])
      BY <3>0
    <3>a. made \in Nat /\ at \in Nat /\ at <= now
      OBVIOUS
    <3>. DEFINE rows == [u \in U |-> BulkRow(made, at, w)]
    <3>2. DOMAIN rows \subseteq Users /\ \A u \in DOMAIN rows : IsRow(rows[u])
      BY <3>a, BulkRowType
    <3>3. store' = Expire(HSet(store, rows), DOMAIN rows, now + TTL) /\ index' = index \cup DOMAIN rows
      BY <3>1 DEF WriteAll, Indexed
    <3>. HIDE DEF rows
    <3>4. IsKeySpace(store') /\ index' \subseteq Users
      BY <3>2, <3>3, WriteType
    <3>. QED BY <2>4, <3>4 DEF BulkWrite
  <2>5. CASE Api
    <3>1. CASE \E u \in Users : PostRefresh(u)
      BY <3>1 DEF PostRefresh
    <3>2. CASE \E u \in Users : DoRefresh(u)
      <4>1. IsKeySpace(store')
        BY <3>2, ExpireType DEF DoRefresh, ExtendAll
      <4>. QED BY <3>2, <4>1 DEF DoRefresh
    <3>3. CASE \E u \in Users : LoseRefresh(u)
      BY <3>3 DEF LoseRefresh
    <3>. QED BY <2>5, <3>1, <3>2, <3>3 DEF Api
  <2>6. CASE RedisServer
    <3>1. CASE \E u \in Users : EvictKey(u)
      BY <3>1, WithoutType DEF EvictKey
    <3>2. CASE EvictIndex
      BY <3>2 DEF EvictIndex
    <3>3. CASE Save
      BY <3>3 DEF Save
    <3>4. CASE Restart
      BY <3>4, UnexpiredType DEF Restart
    <3>5. CASE Tick
      <4>1. (dag.due \/ now' % Period = 0) \in BOOLEAN
        OBVIOUS
      <4>2. dag' \in DagStates
        BY <3>5, <4>1 DEF Tick
      <4>. QED BY <3>5, <4>2, UnexpiredType DEF Tick
    <3>. QED BY <2>6, <3>1, <3>2, <3>3, <3>4, <3>5 DEF RedisServer
  <2>7. CASE UNCHANGED vars
    BY <2>7 DEF vars
  <2>. QED BY <2>1, <2>2, <2>3, <2>4, <2>5, <2>6, <2>7 DEF Next
<1>. QED BY <1>1, <1>2, PTL DEF Spec

-----------------------------------------------------------------------------
(* Unmixed vectors with a deadline *)

\* A row of one value, with or without the fields that are written together.
OneRow(r, t) ==
    /\ \A f, g \in Fields : Together(f, g) => (f \in DOMAIN r.vec <=> g \in DOMAIN r.vec)
    /\ \A f, g \in DOMAIN r.vec : r.vec[f] = r.vec[g]
    /\ \A f \in Fields : AlwaysWritten(f) => f \in DOMAIN r.vec
    /\ r.at <= t

\* HSET of such a row into a vector that mixes nothing mixes nothing.
LEMMA MergeUnmixed ==
    ASSUME NEW r, NEW t, OneRow(r, t), NEW old, Unmixed(old)
    PROVE  Unmixed(r.vec) /\ Unmixed(Merge(r.vec, old))
<1>1. Unmixed(r.vec)
  BY DEF OneRow, Unmixed
<1>. DEFINE m == Merge(r.vec, old)
<1>2. /\ DOMAIN m = DOMAIN r.vec \cup DOMAIN old
      /\ \A f \in DOMAIN r.vec : m[f] = r.vec[f]
      /\ \A f \in DOMAIN old \ DOMAIN r.vec : m[f] = old[f]
  BY MergeEffect
<1>. HIDE DEF m
<1>3. Unmixed(m)
  BY <1>2 DEF OneRow, Unmixed
<1>. QED BY <1>1, <1>3 DEF m

LEMMA Lifetimes ==
    /\ MaxLife \in Nat
    /\ TTL \in Nat \ {0} /\ TTL <= MaxLife
    /\ RefreshTTL \in Nat \ {0} /\ RefreshTTL <= MaxLife
BY DEF MaxLife, Max2

LEMMA WriteSound ==
    ASSUME NEW db, IsKeySpace(db), NEW t \in Nat, Sound(db, t), Alive(db, t),
           NEW rows, \A u \in DOMAIN rows : OneRow(rows[u], t),
           NEW w, w = Expire(HSet(db, rows), DOMAIN rows, t + TTL)
    PROVE  Sound(w, t) /\ Alive(w, t)
<1>0. DOMAIN w = DOMAIN db \cup DOMAIN rows
  BY PipelineDomain
<1>1. \A u \in DOMAIN rows :
         w[u] = [vec |-> IF u \in DOMAIN db THEN Merge(rows[u].vec, db[u].vec)
                         ELSE rows[u].vec,
                 at |-> rows[u].at, until |-> t + TTL]
  BY PipelineEffect
<1>2. \A u \in DOMAIN db \ DOMAIN rows : w[u] = db[u]
  BY PipelineEffect
<1>3. t + TTL # Immortal /\ t + TTL <= t + MaxLife /\ t + TTL > t
  BY Lifetimes DEF Immortal
<1>4. ASSUME NEW u \in DOMAIN rows
      PROVE  /\ Unmixed(w[u].vec) /\ w[u].at <= t
             /\ w[u].until # Immortal /\ w[u].until <= t + MaxLife /\ w[u].until > t
  <2>1. /\ w[u].vec = IF u \in DOMAIN db THEN Merge(rows[u].vec, db[u].vec) ELSE rows[u].vec
        /\ w[u].at = rows[u].at /\ w[u].until = t + TTL
    <3>. DEFINE vec == IF u \in DOMAIN db THEN Merge(rows[u].vec, db[u].vec) ELSE rows[u].vec
    <3>1. w[u] = [vec |-> vec, at |-> rows[u].at, until |-> t + TTL]
      BY <1>1
    <3>. HIDE DEF vec
    <3>2. w[u].vec = vec /\ w[u].at = rows[u].at /\ w[u].until = t + TTL
      BY <3>1
    <3>. QED BY <3>2 DEF vec
  <2>2. OneRow(rows[u], t) /\ rows[u].at <= t
    BY DEF OneRow
  <2>3. Unmixed(w[u].vec)
    <3>1. CASE u \in DOMAIN db
      BY <2>1, <2>2, <3>1, MergeUnmixed DEF Sound
    <3>2. CASE u \notin DOMAIN db
      BY <2>1, <2>2, <3>2 DEF OneRow, Unmixed
    <3>. QED BY <3>1, <3>2
  <2>. QED BY <1>3, <2>1, <2>2, <2>3
<1>. QED BY <1>0, <1>2, <1>4 DEF Sound, Alive

LEMMA ExpireSound ==
    ASSUME NEW db, IsKeySpace(db), NEW t \in Nat, Sound(db, t), Alive(db, t),
           NEW U, NEW l \in {TTL, RefreshTTL}, NEW w, w = Expire(db, U, t + l)
    PROVE  Sound(w, t) /\ Alive(w, t)
<1>1. \A u \in DOMAIN db : db[u] = [vec |-> db[u].vec, at |-> db[u].at, until |-> db[u].until]
  BY DEF IsKeySpace, IsEntry
<1>2. DOMAIN w = DOMAIN db
  BY DEF Expire
<1>3. \A u \in DOMAIN db :
         w[u] = [vec |-> db[u].vec, at |-> db[u].at,
                 until |-> IF u \in U THEN t + l ELSE db[u].until]
  BY <1>1, ExpireEffect
<1>4. t + l # Immortal /\ t + l <= t + MaxLife /\ t + l > t
  BY Lifetimes DEF Immortal
<1>5. ASSUME NEW u \in DOMAIN db
      PROVE  /\ w[u].vec = db[u].vec /\ w[u].at = db[u].at
             /\ w[u].until = IF u \in U THEN t + l ELSE db[u].until
  <2>1. w[u] = [vec |-> db[u].vec, at |-> db[u].at,
                until |-> IF u \in U THEN t + l ELSE db[u].until]
    BY <1>3
  <2>. QED BY <2>1
<1>. QED BY <1>2, <1>4, <1>5 DEF Sound, Alive

LEMMA UnexpiredSound ==
    ASSUME NEW db, IsKeySpace(db), NEW s \in Nat, NEW t \in Nat, s <= t, Sound(db, s),
           NEW w, w = Unexpired(db, t)
    PROVE  Sound(w, t) /\ Alive(w, t)
<1>1. \A u \in DOMAIN w : u \in DOMAIN db /\ w[u] = db[u]
                          /\ (db[u].until = Immortal \/ db[u].until > t)
  BY UnexpiredEffect
<1>2. \A u \in DOMAIN db : db[u].at \in Nat /\ db[u].until \in Nat
  BY DEF IsKeySpace, IsEntry
<1>. QED BY <1>1, <1>2, Lifetimes DEF Sound, Alive

LEMMA SoundLater ==
    ASSUME NEW db, IsKeySpace(db), NEW s \in Nat, NEW t \in Nat, s <= t, Sound(db, s)
    PROVE  Sound(db, t)
<1>1. \A u \in DOMAIN db : db[u].at \in Nat /\ db[u].until \in Nat
  BY DEF IsKeySpace, IsEntry
<1>. QED BY <1>1, Lifetimes DEF Sound

LEMMA WithoutSound ==
    ASSUME NEW db, NEW t, NEW u, Sound(db, t), Alive(db, t)
    PROVE  Sound(Without(db, u), t) /\ Alive(Without(db, u), t)
BY DEF Sound, Alive, Without

LEMMA SinkRowIsOne ==
    ASSUME NEW ts \in Nat, NEW t \in Nat, ts <= t, NEW w
    PROVE  OneRow(SinkRow(ts, w), t)
BY DEF SinkRow, SinkFields, OneRow

LEMMA BulkRowIsOne ==
    ASSUME "bulk" \in Deployed, NEW made, NEW at \in Nat, NEW t \in Nat, at <= t, NEW w
    PROVE  OneRow(BulkRow(made, at, w), t)
BY DEF BulkRow, OneRow, Together, AlwaysWritten

LEMMA FnRowIsOne ==
    ASSUME FnFields # {}, now \in Nat
    PROVE  OneRow(FnRow, now)
BY DEF FnRow, OneRow, Together, AlwaysWritten

\* The strengthened invariant, whatever part of the fields a feature_fn returns and
\* bulk records have.
THEOREM StoreSafe == Spec => []StoreInv
<1>. DEFINE SafeInv == /\ Sound(store, now) /\ Alive(store, now)
                       /\ Sound(savedStore, now) /\ InFlightOK
<1>1. Init => SafeInv
  BY DEF Init, Sound, Alive, InFlightOK, NoBatch, Resting
<1>2. ASSUME TypeOK, TypeOK', SafeInv, [Next]_vars
      PROVE  SafeInv'
  <2>. USE <1>2 DEF TypeOK
  <2>. DEFINE Same == UNCHANGED <<now, store, savedStore>>
  <2>a. Same => (Sound(store, now) /\ Alive(store, now) /\ Sound(savedStore, now))'
    BY DEF Sound, Alive
  <2>b. ASSUME UNCHANGED <<now, savedStore>>, Sound(store', now), Alive(store', now)
        PROVE  (Sound(store, now) /\ Alive(store, now) /\ Sound(savedStore, now))'
    BY <2>b DEF Sound, Alive
  <2>c. UNCHANGED <<now, sink, refresher>> => InFlightOK'
    BY DEF InFlightOK
  <2>1. CASE Streaming
    <3>1. CASE SinkCollect
      BY <3>1, <2>a DEF SinkCollect, InFlightOK, redis, disk
    <3>2. CASE SinkExecute
      <4>1. PICK last \in [RowUsers(sink.rows) -> Windows] :
               WriteAll([u \in DOMAIN last |-> SinkRow(sink.ts, last[u])])
        BY <3>2 DEF SinkExecute
      <4>. DEFINE rows == [u \in DOMAIN last |-> SinkRow(sink.ts, last[u])]
      <4>2. \A u \in DOMAIN rows : OneRow(rows[u], now)
        BY SinkRowIsOne DEF InFlightOK
      <4>3. store' = Expire(HSet(store, rows), DOMAIN rows, now + TTL)
        BY <4>1 DEF WriteAll
      <4>. HIDE DEF rows
      <4>4. Sound(store', now) /\ Alive(store', now)
        BY <4>2, <4>3, WriteSound
      <4>. QED BY <3>2, <4>4, <2>b DEF SinkExecute, InFlightOK, disk
    <3>3. CASE SinkCommit
      BY <3>3, <2>a DEF SinkCommit, InFlightOK, NoBatch, redis, disk
    <3>4. CASE SinkFail
      BY <3>4, <2>a DEF SinkFail, InFlightOK, redis, disk
    <3>5. CASE SinkReplay
      BY <3>5, <2>a DEF SinkReplay, InFlightOK, redis, disk
    <3>. QED BY <2>1, <3>1, <3>2, <3>3, <3>4, <3>5 DEF Streaming
  <2>2. CASE RefreshDag
    <3>1. CASE DagStart \/ (\E u \in Users : DagScan(u)) \/ DagFail
      BY <3>1, <2>a, <2>c DEF DagStart, DagScan, DagFail, redis, disk
    <3>2. CASE DagExecute
      <4>1. Sound(store', now) /\ Alive(store', now)
        BY <3>2, ExpireSound DEF DagExecute, ExtendAll
      <4>. QED BY <3>2, <4>1, <2>b, <2>c DEF DagExecute, disk
    <3>. QED BY <2>2, <3>1, <3>2 DEF RefreshDag
  <2>3. CASE CacheRefresh
    <3>. USE DEF InFlightOK
    <3>1. CASE RefresherStart
      BY <3>1, <2>a DEF RefresherStart, Resting, redis, disk
    <3>2. CASE \E u \in Users : RefresherScan(u) \/ RefresherSkip(u)
      BY <3>2, <2>a DEF RefresherScan, RefresherSkip, RefresherStates, redis, disk
    <3>3. CASE \E u \in Users : RefresherExtend(u)
      <4>1. Sound(store', now) /\ Alive(store', now)
        BY <3>3, ExpireSound DEF RefresherExtend
      <4>. QED BY <3>3, <4>1, <2>b DEF RefresherExtend, RefresherStates, disk
    <3>4. CASE \E u \in Users : RefresherCompute(u)
      BY <3>4, <2>a DEF RefresherCompute, RefresherStates, redis, disk
    <3>a. ASSUME refresher' \in {UserDone, AfterFailure}, UNCHANGED <<now, sink>>
          PROVE  InFlightOK'
      <4>1. UserDone.cur = {} /\ UserDone.made = 0
        BY DEF UserDone, RefresherStates
      <4>2. CASE refresher' = UserDone
        BY <3>a, <4>1, <4>2
      <4>3. CASE refresher' = [refresher EXCEPT !.tries = @ + 1]
        BY <3>a, <4>3 DEF RefresherStates
      <4>. QED BY <3>a, <4>2, <4>3 DEF AfterFailure
    <3>5. CASE RefresherWrite
      <4>. DEFINE rows == [u \in refresher.cur |-> FnRow]
      <4>1. \A u \in DOMAIN rows : OneRow(rows[u], now)
        BY <3>5, FnRowIsOne DEF RefresherWrite
      <4>2. store' = Expire(HSet(store, rows), DOMAIN rows, now + TTL)
        BY <3>5 DEF RefresherWrite, WriteCurrent, WriteAll
      <4>. HIDE DEF rows
      <4>3. Sound(store', now) /\ Alive(store', now)
        BY <4>1, <4>2, WriteSound
      <4>. QED BY <3>5, <4>3, <3>a, <2>b DEF RefresherWrite, disk
    <3>6. CASE RefresherWriteFail
      BY <3>6, <3>a, <2>a DEF RefresherWriteFail, redis, disk
    <3>7. CASE RefresherEnd
      BY <3>7, <2>a DEF RefresherEnd, Resting, redis, disk
    <3>. QED BY <2>3, <3>1, <3>2, <3>3, <3>4, <3>5, <3>6, <3>7 DEF CacheRefresh
  <2>4. CASE BulkWrite
    <3>0. PICK U \in SUBSET Users, w \in Windows, made \in 0..now :
            \E at \in {made, now} : WriteAll([u \in U |-> BulkRow(made, at, w)])
      BY <2>4 DEF BulkWrite
    <3>1. PICK at \in {made, now} : WriteAll([u \in U |-> BulkRow(made, at, w)])
      BY <3>0
    <3>a. made \in Nat /\ at \in Nat /\ at <= now /\ "bulk" \in Deployed
      BY <2>4 DEF BulkWrite
    <3>. DEFINE rows == [u \in U |-> BulkRow(made, at, w)]
    <3>2. \A u \in DOMAIN rows : OneRow(rows[u], now)
      BY <3>a, BulkRowIsOne
    <3>3. store' = Expire(HSet(store, rows), DOMAIN rows, now + TTL)
      BY <3>1 DEF WriteAll
    <3>. HIDE DEF rows
    <3>4. Sound(store', now) /\ Alive(store', now)
      BY <3>2, <3>3, WriteSound
    <3>. QED BY <2>4, <3>4, <2>b, <2>c DEF BulkWrite, disk
  <2>5. CASE Api
    <3>1. CASE \E u \in Users : PostRefresh(u) \/ LoseRefresh(u)
      BY <3>1, <2>a, <2>c DEF PostRefresh, LoseRefresh, redis, disk
    <3>2. CASE \E u \in Users : DoRefresh(u)
      <4>1. Sound(store', now) /\ Alive(store', now)
        BY <3>2, ExpireSound DEF DoRefresh, ExtendAll
      <4>. QED BY <3>2, <4>1, <2>b, <2>c DEF DoRefresh, disk
    <3>. QED BY <2>5, <3>1, <3>2 DEF Api
  <2>6. CASE RedisServer
    <3>1. CASE \E u \in Users : EvictKey(u)
      <4>1. Sound(store', now) /\ Alive(store', now)
        BY <3>1, WithoutSound DEF EvictKey
      <4>. QED BY <3>1, <4>1, <2>b, <2>c DEF EvictKey, disk
    <3>2. CASE EvictIndex
      BY <3>2, <2>a, <2>c DEF EvictIndex, disk
    <3>3. CASE Save
      BY <3>3, <2>c DEF Save, redis, Sound, Alive
    <3>4. CASE Restart
      <4>1. Sound(store', now) /\ Alive(store', now)
        BY <3>4, UnexpiredSound DEF Restart
      <4>. QED BY <3>4, <4>1, <2>b, <2>c DEF Restart, disk
    <3>5. CASE Tick
      <4>1. now' \in Nat /\ now <= now' /\ UNCHANGED <<savedStore, sink, refresher>>
        BY <3>5 DEF Tick, disk
      <4>2. Sound(store', now') /\ Alive(store', now')
        BY <3>5, <4>1, UnexpiredSound DEF Tick
      <4>3. Sound(savedStore, now')
        BY <4>1, SoundLater
      <4>4. InFlightOK'
        BY <4>1 DEF InFlightOK, RefresherStates
      <4>. QED BY <4>1, <4>2, <4>3, <4>4 DEF Sound, Alive
    <3>. QED BY <2>6, <3>1, <3>2, <3>3, <3>4, <3>5 DEF RedisServer
  <2>7. CASE UNCHANGED vars
    BY <2>7, <2>a, <2>c DEF vars, redis, disk
  <2>. QED BY <2>1, <2>2, <2>3, <2>4, <2>5, <2>6, <2>7 DEF Next
<1>3. Spec => []SafeInv
  BY <1>1, <1>2, TypeCorrect, PTL DEF Spec
<1>4. TypeOK /\ SafeInv => StoreInv
  BY DEF StoreInv
<1>. QED BY <1>3, <1>4, TypeCorrect, PTL

-----------------------------------------------------------------------------
(* What readers and operators may rely on *)

\* No hash is ever left without a TTL or with one beyond what is set.
THEOREM KeysExpire == Spec => []EveryKeyExpires
<1>1. StoreInv => EveryKeyExpires
  <2>. SUFFICES ASSUME StoreInv, NEW u \in DOMAIN store
                PROVE  store[u].until # Immortal /\ store[u].until - now \in 1..MaxLife
    BY DEF EveryKeyExpires
  <2>1. store[u].until \in Nat /\ now \in Nat
    BY DEF StoreInv, TypeOK, IsKeySpace, IsEntry
  <2>2. /\ store[u].until # Immortal
        /\ store[u].until > now /\ store[u].until <= now + MaxLife
    BY DEF StoreInv, Sound, Alive
  <2>. QED BY <2>1, <2>2, Lifetimes
<1>. QED BY <1>1, StoreSafe, PTL

\* GET /features never mixes rows in fields that are written together, nor pads one
\* that is always written, whatever fields each writer's records have; where all
\* of them have all fields, it serves whole vectors.
THEOREM VectorsAreWhole == Spec => []ServedWhole
<1>1. StoreInv => ServedWhole
  <2>. SUFFICES ASSUME StoreInv, NEW u \in Users, NEW asked \in SUBSET Fields,
                       Get(u, asked).status = 200
                PROVE  /\ \A f, g \in Wanted(asked) : Together(f, g) =>
                            Get(u, asked).features[f] = Get(u, asked).features[g]
                       /\ \A f \in Wanted(asked) : AlwaysWritten(f) =>
                            Get(u, asked).features[f] # Default
                       /\ Get(u, asked).freshness >= 0
    BY Zenon DEF ServedWhole
  <2>. u \in DOMAIN store
    BY DEF Get
  <2>. DEFINE vec == store[u].vec
  <2>1. IsEntry(store[u]) /\ now \in Nat
    BY DEF StoreInv, TypeOK, IsKeySpace
  <2>2. Unmixed(vec) /\ store[u].at <= now
    BY DEF StoreInv, Sound
  <2>3. Wanted(asked) \subseteq Fields
    BY DEF Wanted
  <2>4. /\ Get(u, asked).freshness = now - store[u].at
        /\ \A f \in Wanted(asked) : Get(u, asked).features[f] =
              IF f \in DOMAIN vec THEN vec[f] ELSE Default
    BY <2>3 DEF Get
  <2>5. \A f \in DOMAIN vec : vec[f] \in Value /\ vec[f].made # -1
    BY <2>1 DEF IsEntry, Value
  <2>6. \A f \in DOMAIN vec : vec[f] # Default
    BY <2>5 DEF Default
  <2>7. store[u].at \in Nat
    BY <2>1 DEF IsEntry
  <2>. HIDE DEF vec
  <2>. QED BY <2>1, <2>2, <2>3, <2>4, <2>6, <2>7 DEF Unmixed
<1>. QED BY <1>1, StoreSafe, PTL

-----------------------------------------------------------------------------
(* Every step, seen from the key space *)

Written(rows) ==
    /\ DOMAIN rows \subseteq Users
    /\ \A u \in DOMAIN rows : IsRow(rows[u]) /\ OneRow(rows[u], now)
    /\ store' = Expire(HSet(store, rows), DOMAIN rows, now + TTL)
    /\ index' = index \cup DOMAIN rows
Extended(U, l) == store' = Expire(store, U, now + l) /\ UNCHANGED index

\* A step writes rows, moves deadlines, is one of Redis' own, or leaves
\* clock, keys, index and snapshot alone.
LEMMA StepKinds ==
    ASSUME StoreInv, [Next]_vars
    PROVE  \/ UNCHANGED <<now, disk>> /\ \E rows : Written(rows)
           \/ UNCHANGED <<now, disk>> /\ \E U \in SUBSET Users : \E l \in {TTL, RefreshTTL} : Extended(U, l)
           \/ \E u \in Users : EvictKey(u)
           \/ EvictIndex \/ Save \/ Restart \/ Tick
           \/ UNCHANGED <<now, redis, disk>>
<1>. USE DEF StoreInv, TypeOK
<1>1. CASE SinkExecute
  <2>1. PICK last \in [RowUsers(sink.rows) -> Windows] :
           WriteAll([u \in DOMAIN last |-> SinkRow(sink.ts, last[u])])
    BY <1>1 DEF SinkExecute
  <2>. DEFINE rows == [u \in DOMAIN last |-> SinkRow(sink.ts, last[u])]
  <2>2. DOMAIN rows \subseteq Users
    BY DEF RowUsers, Batches
  <2>3. \A u \in DOMAIN rows : IsRow(rows[u]) /\ OneRow(rows[u], now)
    BY SinkRowType, SinkRowIsOne DEF InFlightOK
  <2>4. Written(rows)
    BY <2>1, <2>2, <2>3 DEF WriteAll, Indexed, Written
  <2>. QED BY <1>1, <2>4 DEF SinkExecute
<1>2. CASE RefresherWrite
  <2>. DEFINE rows == [u \in refresher.cur |-> FnRow]
  <2>1. DOMAIN rows \subseteq Users
    BY DEF RefresherStates
  <2>2. \A u \in DOMAIN rows : IsRow(rows[u]) /\ OneRow(rows[u], now)
    BY <1>2, FnRowType, FnRowIsOne DEF RefresherWrite, InFlightOK, RefresherStates
  <2>3. Written(rows)
    BY <1>2, <2>1, <2>2 DEF RefresherWrite, WriteCurrent, WriteAll, Indexed, Written
  <2>. QED BY <1>2, <2>3 DEF RefresherWrite
<1>3. CASE BulkWrite
  <2>0. PICK U \in SUBSET Users, w \in Windows, made \in 0..now :
          \E at \in {made, now} : WriteAll([u \in U |-> BulkRow(made, at, w)])
    BY <1>3 DEF BulkWrite
  <2>1. PICK at \in {made, now} : WriteAll([u \in U |-> BulkRow(made, at, w)])
    BY <2>0
  <2>a. made \in Nat /\ at \in Nat /\ at <= now /\ "bulk" \in Deployed
    BY <1>3 DEF BulkWrite
  <2>. DEFINE rows == [u \in U |-> BulkRow(made, at, w)]
  <2>2. \A u \in DOMAIN rows : IsRow(rows[u]) /\ OneRow(rows[u], now)
    BY <2>a, BulkRowType, BulkRowIsOne
  <2>3. Written(rows)
    BY <2>1, <2>2 DEF WriteAll, Indexed, Written
  <2>. QED BY <1>3, <2>3 DEF BulkWrite
<1>4. CASE DagExecute
  <2>1. UNCHANGED <<now, disk>> /\ Extended(dag.stale, RefreshTTL)
    BY <1>4 DEF DagExecute, ExtendAll, Extended
  <2>. QED BY <2>1 DEF DagStates
<1>5. CASE \E u \in Users : RefresherExtend(u)
  <2>1. PICK u \in Users : RefresherExtend(u)
    BY <1>5
  <2>2. UNCHANGED <<now, disk>> /\ Extended({u}, TTL)
    BY <2>1 DEF RefresherExtend, Extended
  <2>. QED BY <2>2
<1>6. CASE \E u \in Users : DoRefresh(u)
  <2>1. PICK u \in Users : DoRefresh(u)
    BY <1>6
  <2>2. UNCHANGED <<now, disk>> /\ Extended({u}, RefreshTTL)
    BY <2>1 DEF DoRefresh, ExtendAll, Extended
  <2>. QED BY <2>2
<1>7. CASE SinkCollect \/ SinkCommit \/ SinkFail \/ SinkReplay
  BY <1>7 DEF SinkCollect, SinkCommit, SinkFail, SinkReplay
<1>8. CASE DagStart \/ (\E u \in Users : DagScan(u)) \/ DagFail
  BY <1>8 DEF DagStart, DagScan, DagFail
<1>9. CASE \/ RefresherStart \/ RefresherWriteFail \/ RefresherEnd
           \/ \E u \in Users : RefresherScan(u) \/ RefresherCompute(u) \/ RefresherSkip(u)
  BY <1>9 DEF RefresherStart, RefresherWriteFail, RefresherEnd, RefresherScan,
              RefresherCompute, RefresherSkip
<1>10. CASE \E u \in Users : PostRefresh(u) \/ LoseRefresh(u)
  BY <1>10 DEF PostRefresh, LoseRefresh
<1>11. CASE UNCHANGED vars
  BY <1>11 DEF vars, redis, disk
<1>12. CASE RedisServer
  BY <1>12 DEF RedisServer
<1>13. CASE Streaming
  BY <1>1, <1>7, <1>13 DEF Streaming
<1>14. CASE RefreshDag
  BY <1>4, <1>8, <1>14 DEF RefreshDag
<1>15. CASE CacheRefresh
  BY <1>2, <1>5, <1>9, <1>15 DEF CacheRefresh
<1>16. CASE Api
  BY <1>6, <1>10, <1>16 DEF Api
<1>. QED BY <1>3, <1>11, <1>12, <1>13, <1>14, <1>15, <1>16 DEF Next

\* Every live hash is in index:active_users until Redis evicts the index.
THEOREM IndexIsComplete ==
    ASSUME "lru" \notin Deployed
    PROVE  Spec => []IndexCoversKeys
<1>. DEFINE Covered == DOMAIN store \subseteq index /\ DOMAIN savedStore \subseteq savedIndex
<1>1. Init => Covered
  BY DEF Init
<1>2. ASSUME StoreInv, Covered, [Next]_vars
      PROVE  Covered'
  <2>. USE <1>2 DEF redis, disk
  <2>1. CASE UNCHANGED <<now, disk>> /\ \E rows : Written(rows)
    <3>1. PICK rows : Written(rows)
      BY <2>1
    <3>2. DOMAIN store' = DOMAIN store \cup DOMAIN rows
      BY <3>1, PipelineDomain DEF Written
    <3>. QED BY <2>1, <3>1, <3>2 DEF Written
  <2>2. CASE UNCHANGED <<now, disk>> /\ \E U \in SUBSET Users : \E l \in {TTL, RefreshTTL} : Extended(U, l)
    BY <2>2 DEF Extended, Expire
  <2>3. CASE Restart
    BY <2>3, UnexpiredEffect DEF Restart
  <2>4. CASE Tick
    BY <2>4, UnexpiredEffect DEF Tick
  <2>5. CASE Save
    BY <2>5 DEF Save
  <2>6. CASE UNCHANGED <<now, redis, disk>>
    BY <2>6
  <2>. QED BY <2>1, <2>2, <2>3, <2>4, <2>5, <2>6, StepKinds DEF EvictKey, EvictIndex
<1>. QED BY <1>1, <1>2, StoreSafe, PTL DEF Spec, IndexCoversKeys

\* With the 300 of the DAG and of the API equal to FEATURE_TTL_SECONDS, no race
\* between a refresh and a write brings the deadline of a live key forward.
THEOREM DeadlinesOnlyMoveOn ==
    ASSUME RefreshTTL = TTL
    PROVE  Spec => DeadlineNeverMovesBack
<1>. DEFINE Step == \A u \in DOMAIN store \cap DOMAIN store' :
                       Restart \/ store'[u].until >= store[u].until
<1>1. ASSUME StoreInv, [Next]_vars
      PROVE  Step
  <2>. SUFFICES ASSUME NEW u \in DOMAIN store \cap DOMAIN store', ~Restart
                PROVE  store'[u].until >= store[u].until
    OBVIOUS
  <2>. USE <1>1
  <2>0. /\ IsKeySpace(store) /\ IsEntry(store[u])
        /\ now \in Nat /\ store[u].until \in Nat
        /\ store[u].until <= now + TTL
    BY DEF StoreInv, TypeOK, IsKeySpace, IsEntry, Sound, MaxLife, Max2
  <2>1. CASE \E rows : Written(rows)
    <3>1. PICK rows : Written(rows)
      BY <2>1
    <3>2. CASE u \in DOMAIN rows
      <4>1. store'[u] = [vec |-> IF u \in DOMAIN store THEN Merge(rows[u].vec, store[u].vec)
                                 ELSE rows[u].vec,
                         at |-> rows[u].at, until |-> now + TTL]
        BY <3>1, <3>2, PipelineEffect DEF Written
      <4>2. store'[u].until = now + TTL
        BY <4>1
      <4>. QED BY <2>0, <4>2
    <3>3. CASE u \notin DOMAIN rows
      <4>1. store'[u] = store[u]
        BY <3>1, <3>3, PipelineEffect DEF Written
      <4>. QED BY <2>0, <4>1
    <3>. QED BY <3>2, <3>3
  <2>2. CASE \E U \in SUBSET Users : \E l \in {TTL, RefreshTTL} : Extended(U, l)
    <3>1. PICK U : Extended(U, TTL)
      BY <2>2
    <3>2. \A v \in DOMAIN store :
             store[v] = [vec |-> store[v].vec, at |-> store[v].at, until |-> store[v].until]
      BY <2>0 DEF IsKeySpace, IsEntry
    <3>3. store'[u] = [vec |-> store[u].vec, at |-> store[u].at,
                       until |-> IF u \in U THEN now + TTL ELSE store[u].until]
      BY <3>1, <3>2, ExpireEffect DEF Extended
    <3>4. store'[u].until = IF u \in U THEN now + TTL ELSE store[u].until
      BY <3>3
    <3>. QED BY <2>0, <3>4
  <2>3. CASE Tick \/ \E v \in Users : EvictKey(v)
    <3>1. CASE Tick
      BY <2>0, <3>1, UnexpiredEffect DEF Tick
    <3>2. CASE \E v \in Users : EvictKey(v)
      BY <2>0, <3>2 DEF EvictKey, Without
    <3>. QED BY <2>3, <3>1, <3>2
  <2>4. CASE EvictIndex \/ Save \/ UNCHANGED <<now, redis, disk>>
    BY <2>0, <2>4 DEF EvictIndex, Save, redis
  <2>. QED BY <2>1, <2>2, <2>3, <2>4, StepKinds
<1>2. StoreInv /\ [Next]_vars => [Step]_vars
  BY <1>1
<1>. QED BY <1>2, StoreSafe, PTL DEF Spec, DeadlineNeverMovesBack

-----------------------------------------------------------------------------
(* Stamps *)

\* Every hash, in memory and on disk, is at most as new as the sink's batch.
AtMost(db, ts) == \A u \in DOMAIN db : db[u].at <= ts
BatchIsNewest ==
    sink.phase # "idle" => AtMost(store, sink.ts) /\ AtMost(savedStore, sink.ts)

\* Without a feature_fn and bulk writes the sink alone sets computed_at; a step
\* is one of its own, or drops, extends or copies entries.
LEMMA StampKinds ==
    ASSUME FnFields = {}, "bulk" \notin Deployed, StoreInv, [Next]_vars
    PROVE  \/ SinkExecute
           \/ SinkCollect
           \/ /\ UNCHANGED <<now, savedStore, sink>>
              /\ \E U \in SUBSET Users : \E l \in {TTL, RefreshTTL} : Extended(U, l)
           \/ \E u \in Users : EvictKey(u)
           \/ Save \/ Restart \/ Tick
           \/ /\ UNCHANGED <<now, store, savedStore>>
              /\ sink'.phase = "idle" \/ (sink.phase # "idle" /\ sink'.ts = sink.ts) \/ UNCHANGED sink
<1>. USE DEF StoreInv, TypeOK, redis, disk
<1>1. CASE Streaming
  <2>1. CASE SinkCommit
    BY <2>1 DEF SinkCommit, NoBatch
  <2>2. CASE SinkFail
    BY <2>2 DEF SinkFail
  <2>3. CASE SinkReplay
    BY <2>3 DEF SinkReplay
  <2>. QED BY <1>1, <2>1, <2>2, <2>3 DEF Streaming
<1>2. CASE RefreshDag
  <2>1. CASE DagExecute
    <3>1. Extended(dag.stale, RefreshTTL) /\ dag.stale \in SUBSET Users
      BY <2>1 DEF DagExecute, ExtendAll, Extended, DagStates
    <3>. QED BY <2>1, <3>1 DEF DagExecute
  <2>. QED BY <1>2, <2>1 DEF RefreshDag, DagStart, DagScan, DagFail
<1>3. CASE CacheRefresh
  <2>1. CASE \E u \in Users : RefresherExtend(u)
    <3>1. PICK u \in Users : RefresherExtend(u)
      BY <2>1
    <3>2. Extended({u}, TTL) /\ {u} \in SUBSET Users
      BY <3>1 DEF RefresherExtend, Extended
    <3>. QED BY <3>1, <3>2 DEF RefresherExtend
  <2>2. ~RefresherWrite
    BY DEF RefresherWrite, InFlightOK
  <2>. QED BY <1>3, <2>1, <2>2 DEF CacheRefresh, RefresherStart, RefresherScan,
              RefresherCompute, RefresherSkip, RefresherWriteFail, RefresherEnd
<1>4. CASE Api
  <2>1. CASE \E u \in Users : DoRefresh(u)
    <3>1. PICK u \in Users : DoRefresh(u)
      BY <2>1
    <3>2. Extended({u}, RefreshTTL) /\ {u} \in SUBSET Users
      BY <3>1 DEF DoRefresh, ExtendAll, Extended
    <3>. QED BY <3>1, <3>2 DEF DoRefresh
  <2>. QED BY <1>4, <2>1 DEF Api, PostRefresh, LoseRefresh
<1>5. CASE RedisServer \/ UNCHANGED vars
  BY <1>5 DEF RedisServer, EvictIndex, vars
<1>6. ~BulkWrite
  BY DEF BulkWrite
<1>. QED BY <1>1, <1>2, <1>3, <1>4, <1>5, <1>6 DEF Next

\* What a step of the sink does to the stamps.
LEMMA ExecuteStamps ==
    ASSUME SinkExecute
    PROVE  /\ DOMAIN store \subseteq DOMAIN store'
           /\ \A u \in DOMAIN store' :
                 store'[u].at = sink.ts \/ (u \in DOMAIN store /\ store'[u] = store[u])
<1>1. PICK last \in [RowUsers(sink.rows) -> Windows] :
         WriteAll([u \in DOMAIN last |-> SinkRow(sink.ts, last[u])])
  BY DEF SinkExecute
<1>. DEFINE rows == [u \in DOMAIN last |-> SinkRow(sink.ts, last[u])]
<1>2. store' = Expire(HSet(store, rows), DOMAIN rows, now + TTL)
  BY <1>1 DEF WriteAll
<1>3. \A u \in DOMAIN rows : rows[u].at = sink.ts
  BY DEF SinkRow
<1>. HIDE DEF rows
<1>4. DOMAIN store' = DOMAIN store \cup DOMAIN rows
  BY <1>2, PipelineDomain
<1>5. ASSUME NEW u \in DOMAIN rows PROVE store'[u].at = sink.ts
  <2>1. store'[u] = [vec |-> IF u \in DOMAIN store THEN Merge(rows[u].vec, store[u].vec)
                             ELSE rows[u].vec,
                     at |-> rows[u].at, until |-> now + TTL]
    BY <1>2, PipelineEffect
  <2>. QED BY <2>1, <1>3
<1>6. \A u \in DOMAIN store \ DOMAIN rows : store'[u] = store[u]
  BY <1>2, PipelineEffect
<1>. QED BY <1>4, <1>5, <1>6

LEMMA ExtendStamps ==
    ASSUME IsKeySpace(store), NEW U, NEW l, Extended(U, l)
    PROVE  /\ DOMAIN store' = DOMAIN store
           /\ \A u \in DOMAIN store : store'[u].at = store[u].at
<1>1. \A u \in DOMAIN store :
         store[u] = [vec |-> store[u].vec, at |-> store[u].at, until |-> store[u].until]
  BY DEF IsKeySpace, IsEntry
<1>2. DOMAIN store' = DOMAIN store
  BY DEF Extended, Expire
<1>3. ASSUME NEW u \in DOMAIN store PROVE store'[u].at = store[u].at
  <2>1. store'[u] = [vec |-> store[u].vec, at |-> store[u].at,
                     until |-> IF u \in U THEN now + l ELSE store[u].until]
    BY <1>1, ExpireEffect DEF Extended
  <2>. QED BY <2>1
<1>. QED BY <1>2, <1>3

\* A batch that Spark runs again is still the newest there is: computed_at of a
\* live hash only moves forward.
THEOREM StampsOnlyMoveOn ==
    ASSUME FnFields = {}, "bulk" \notin Deployed
    PROVE  Spec => ComputedAtNeverRegresses
<1>. DEFINE Step == \A u \in DOMAIN store \cap DOMAIN store' :
                       Restart \/ store'[u].at >= store[u].at
<1>1. Init => BatchIsNewest
  BY DEF Init, NoBatch, BatchIsNewest
<1>2. ASSUME StoreInv, BatchIsNewest, [Next]_vars
      PROVE  BatchIsNewest' /\ Step
  <2>. USE <1>2
  <2>0. /\ IsKeySpace(store) /\ \A u \in DOMAIN store : store[u].at \in Nat
        /\ IsKeySpace(savedStore) /\ \A u \in DOMAIN savedStore : savedStore[u].at \in Nat
        /\ AtMost(store, now) /\ AtMost(savedStore, now)
    BY DEF StoreInv, TypeOK, IsKeySpace, IsEntry, Sound, AtMost
  <2>1. CASE SinkExecute
    <3>1. sink.phase # "idle" /\ sink'.ts = sink.ts /\ savedStore' = savedStore /\ sink.ts \in Nat
      BY <2>1 DEF SinkExecute, StoreInv, TypeOK, disk
    <3>. QED BY <2>0, <2>1, <3>1, ExecuteStamps DEF BatchIsNewest, AtMost
  <2>2. CASE SinkCollect
    <3>1. sink'.ts = now /\ store' = store /\ savedStore' = savedStore
      BY <2>2 DEF SinkCollect, redis, disk
    <3>. QED BY <2>0, <3>1 DEF BatchIsNewest, AtMost
  <2>3. CASE /\ UNCHANGED <<now, savedStore, sink>>
             /\ \E U \in SUBSET Users : \E l \in {TTL, RefreshTTL} : Extended(U, l)
    <3>1. DOMAIN store' = DOMAIN store /\ \A u \in DOMAIN store : store'[u].at = store[u].at
      BY <2>0, <2>3, ExtendStamps
    <3>. QED BY <2>0, <2>3, <3>1 DEF BatchIsNewest, AtMost
  <2>4. CASE \E u \in Users : EvictKey(u)
    BY <2>0, <2>4 DEF EvictKey, Without, disk, BatchIsNewest, AtMost
  <2>5. CASE Save
    BY <2>0, <2>5 DEF Save, redis, BatchIsNewest, AtMost
  <2>6. CASE Restart
    BY <2>0, <2>6, UnexpiredEffect DEF Restart, disk, BatchIsNewest, AtMost
  <2>7. CASE Tick
    BY <2>0, <2>7, UnexpiredEffect DEF Tick, disk, BatchIsNewest, AtMost
  <2>8. CASE /\ UNCHANGED <<now, store, savedStore>>
             /\ sink'.phase = "idle" \/ (sink.phase # "idle" /\ sink'.ts = sink.ts) \/ UNCHANGED sink
    BY <2>0, <2>8 DEF BatchIsNewest, AtMost
  <2>. QED BY <2>1, <2>2, <2>3, <2>4, <2>5, <2>6, <2>7, <2>8, StampKinds
<1>3. StoreInv /\ BatchIsNewest /\ [Next]_vars => [Step]_vars
  BY <1>2
<1>4. Spec => []StoreInv
  BY StoreSafe
<1>. QED BY <1>1, <1>2, <1>3, <1>4, PTL DEF Spec, ComputedAtNeverRegresses

-----------------------------------------------------------------------------
(* When the refresh DAG keeps keys alive *)

\* Settings under which it does: every run samples everybody, no TTL is shorter than its
\* threshold, and Redis does not crash: a restored snapshot may bring deadlines that no
\* run has seen.
Sufficient ==
    /\ IsFiniteSet(Users) /\ DagSample >= Cardinality(Users)
    /\ TTL >= StaleBelow /\ RefreshTTL >= StaleBelow
    /\ "rdb" \notin Deployed

\* Unless a run is due or the last one failed, every key in the index outlives the last one
\* by the threshold, or the run under way has still to look at it or to extend it.
LastRun(time) == time - (time % Period)
HasMargin(u) == store[u].until >= LastRun(now) + StaleBelow
Attended ==
    ~dag.due /\ dag.phase # "failed" =>
        \A u \in DOMAIN store \cap index :
            HasMargin(u) \/ (dag.phase = "scan" /\ u \in dag.todo \cup dag.stale)

\* The clock between two runs.
LEMMA RunsByPeriod ==
    ASSUME NEW time \in Nat
    PROVE  /\ time % Period \in 0..(Period - 1)
           /\ LastRun(time) \in Nat /\ LastRun(time) <= time
           /\ (time + 1) % Period # 0 => LastRun(time + 1) = LastRun(time)
<1>1. time % Period = time - (Period * (time \div Period)) /\ time % Period \in 0..(Period - 1)
  OBVIOUS
<1>2. /\ (time + 1) % Period = (time + 1) - (Period * ((time + 1) \div Period))
      /\ (time + 1) % Period \in 0..(Period - 1)
  OBVIOUS
<1>3. time \div Period \in Nat /\ (time + 1) \div Period \in Nat
  OBVIOUS
<1>4. LastRun(time) \in Nat /\ LastRun(time) <= time
  BY <1>1, <1>3 DEF LastRun
<1>5. ASSUME (time + 1) % Period # 0
      PROVE  LastRun(time + 1) = LastRun(time)
  <2>. DEFINE a == time \div Period
              b == (time + 1) \div Period
  <2>1. Period * a <= time /\ time < Period * a + Period
    BY <1>1, <1>3
  <2>2. Period * b < time + 1 /\ time + 1 < Period * b + Period
    BY <1>2, <1>3, <1>5
  <2>3. a \in Nat /\ b \in Nat
    BY <1>3
  <2>4. Period * a \in Int /\ Period * b \in Int
    BY <2>3
  <2>6. time % Period = time - (Period * a) /\ (time + 1) % Period = (time + 1) - (Period * b)
    BY <1>1, <1>2
  <2>. HIDE DEF a, b
  <2>7. LastRun(time) = Period * a
    <3>1. LastRun(time) = time - (time % Period)
      BY DEF LastRun
    <3>2. \A x \in Int : time - (time - x) = x
      OBVIOUS
    <3>. QED BY <2>4, <2>6, <3>1, <3>2
  <2>8. LastRun(time + 1) = Period * b
    <3>1. LastRun(time + 1) = (time + 1) - ((time + 1) % Period)
      BY DEF LastRun
    <3>2. \A x \in Int : (time + 1) - ((time + 1) - x) = x
      OBVIOUS
    <3>. QED BY <2>4, <2>6, <3>1, <3>2
  <2>5. a = b
    <3>1. CASE a < b
      <4>1. Period * (a + 1) <= Period * b /\ Period * (a + 1) = Period * a + Period
        BY <2>3, <3>1
      <4>. QED BY <2>1, <2>2, <2>3, <4>1
    <3>2. CASE b < a
      <4>1. Period * (b + 1) <= Period * a /\ Period * (b + 1) = Period * b + Period
        BY <2>3, <3>2
      <4>. QED BY <2>1, <2>2, <2>3, <4>1
    <3>. QED BY <2>3, <3>1, <3>2
  <2>. QED BY <2>5, <2>7, <2>8
<1>. QED BY <1>1, <1>4, <1>5

\* DagSample of an index no larger than that is the index.
LEMMA SampleIsAll ==
    ASSUME IsFiniteSet(Users), DagSample >= Cardinality(Users), index \subseteq Users,
           NEW S \in Samples(DagSample)
    PROVE  S = index
<1>1. IsFiniteSet(index) /\ Cardinality(index) <= Cardinality(Users)
  BY FS_Subset
<1>2. Cardinality(index) \in Nat /\ Cardinality(Users) \in Nat
  BY <1>1, FS_CardinalityType
<1>3. S \subseteq index /\ Cardinality(S) = Cardinality(index)
  BY <1>1, <1>2 DEF Samples
<1>. QED BY <1>1, <1>3, FS_Subset

\* A step that lets no time pass leaves an indexed key its deadline, or sets one that
\* lies a TTL ahead.
LEMMA DeadlinesBetweenTicks ==
    ASSUME StoreInv, [Next]_vars,
           "rdb" \notin Deployed, ~Tick,
           NEW u \in DOMAIN store' \cap index'
    PROVE  /\ now' = now
           /\ \/ u \in DOMAIN store \cap index /\ store'[u].until = store[u].until
              \/ store'[u].until \in {now + TTL, now + RefreshTTL}
<1>0. IsKeySpace(store)
  BY DEF StoreInv, TypeOK
<1>1. CASE UNCHANGED <<now, disk>> /\ \E rows : Written(rows)
  <2>1. PICK rows : Written(rows)
    BY <1>1
  <2>2. /\ DOMAIN store' = DOMAIN store \cup DOMAIN rows
        /\ index' = index \cup DOMAIN rows
    BY <2>1, PipelineDomain DEF Written
  <2>3. CASE u \in DOMAIN rows
    <3>1. store'[u] = [vec |-> IF u \in DOMAIN store THEN Merge(rows[u].vec, store[u].vec)
                               ELSE rows[u].vec,
                       at |-> rows[u].at, until |-> now + TTL]
      BY <2>1, <2>3, PipelineEffect DEF Written
    <3>2. store'[u].until = now + TTL
      BY <3>1
    <3>. QED BY <1>1, <3>2
  <2>4. CASE u \notin DOMAIN rows
    <3>1. u \in DOMAIN store \cap index
      BY <2>2, <2>4
    <3>2. store'[u] = store[u]
      BY <2>1, <2>4, <3>1, PipelineEffect DEF Written
    <3>. QED BY <1>1, <3>1, <3>2
  <2>. QED BY <2>3, <2>4
<1>2. CASE /\ UNCHANGED <<now, disk>>
           /\ \E U \in SUBSET Users : \E l \in {TTL, RefreshTTL} : Extended(U, l)
  <2>1. PICK U \in SUBSET Users, l \in {TTL, RefreshTTL} : Extended(U, l)
    BY <1>2
  <2>2. DOMAIN store' = DOMAIN store /\ index' = index
    BY <2>1 DEF Extended, Expire
  <2>3. \A v \in DOMAIN store :
           store[v] = [vec |-> store[v].vec, at |-> store[v].at, until |-> store[v].until]
    BY <1>0 DEF IsKeySpace, IsEntry
  <2>4. store'[u] = [vec |-> store[u].vec, at |-> store[u].at,
                     until |-> IF u \in U THEN now + l ELSE store[u].until]
    BY <2>1, <2>2, <2>3, ExpireEffect DEF Extended
  <2>5. store'[u].until = IF u \in U THEN now + l ELSE store[u].until
    BY <2>4
  <2>. QED BY <1>2, <2>2, <2>5
<1>3. CASE \E v \in Users : EvictKey(v)
  BY <1>3 DEF EvictKey, Without
<1>4. CASE EvictIndex
  BY <1>4 DEF EvictIndex
<1>5. CASE UNCHANGED <<now, redis, disk>>
  BY <1>5 DEF redis
<1>. QED BY <1>1, <1>2, <1>3, <1>4, <1>5, StepKinds DEF Save, Restart

\* What a step does to the state of the DAG.
LEMMA DagKinds ==
    ASSUME StoreInv, [Next]_vars
    PROVE  \/ UNCHANGED dag
           \/ DagStart \/ (\E u \in Users : DagScan(u)) \/ DagExecute \/ DagFail
           \/ Tick
<1>1. CASE Streaming
  BY <1>1 DEF Streaming, SinkCollect, SinkExecute, SinkCommit, SinkFail, SinkReplay
<1>2. CASE RefreshDag
  BY <1>2 DEF RefreshDag
<1>3. CASE CacheRefresh
  BY <1>3 DEF CacheRefresh, RefresherStart, RefresherScan, RefresherExtend, RefresherCompute,
      RefresherSkip, RefresherWrite, RefresherWriteFail, RefresherEnd
<1>4. CASE BulkWrite \/ Api
  BY <1>4 DEF BulkWrite, Api, PostRefresh, DoRefresh, LoseRefresh
<1>5. CASE RedisServer \/ UNCHANGED vars
  BY <1>5 DEF RedisServer, EvictKey, EvictIndex, Save, Restart, vars
<1>. QED BY <1>1, <1>2, <1>3, <1>4, <1>5 DEF Next

\* A tick that takes an indexed key takes it when a run is due, under way or has failed, or
\* when the threshold has passed since the last one.
LEMMA TickKeepsAttended ==
    ASSUME StoreInv, Attended, Tick
    PROVE  /\ Attended'
           /\ \A u \in DOMAIN store \cap index :
                 u \notin DOMAIN store' =>
                    dag'.due \/ dag.phase \in {"scan", "failed"} \/ now' % Period >= StaleBelow
<1>1. now \in Nat /\ now' = now + 1 /\ index' = index /\ dag \in DagStates
  BY DEF StoreInv, TypeOK, Tick
<1>2. /\ dag' = [dag EXCEPT !.due = dag.due \/ now' % Period = 0]
      /\ dag'.phase = dag.phase /\ dag'.todo = dag.todo /\ dag'.stale = dag.stale
      /\ dag'.due <=> dag.due \/ now' % Period = 0
  BY <1>1 DEF Tick, DagStates
<1>3. \A u \in DOMAIN store' : u \in DOMAIN store /\ store'[u] = store[u]
  BY UnexpiredEffect DEF Tick
<1>4. \A u \in DOMAIN store : store[u].until > now' => u \in DOMAIN store'
  BY DEF Tick, Unexpired
<1>5. ~dag'.due => ~dag.due /\ LastRun(now') = LastRun(now)
  BY <1>1, <1>2, RunsByPeriod
<1>6. \A u \in DOMAIN store : store[u].until \in Nat
  BY DEF StoreInv, TypeOK, IsKeySpace, IsEntry
<1>7. Attended'
  BY <1>1, <1>2, <1>3, <1>5 DEF Attended, HasMargin
<1>8. ASSUME NEW u \in DOMAIN store \cap index, u \notin DOMAIN store', ~dag'.due,
             dag.phase \notin {"scan", "failed"}
      PROVE  now' % Period >= StaleBelow
  <2>1. store[u].until >= LastRun(now) + StaleBelow
    BY <1>5, <1>8 DEF Attended, HasMargin
  <2>2. store[u].until <= now'
    BY <1>1, <1>4, <1>6, <1>8
  <2>3. now' = LastRun(now) + (now' % Period) /\ now' % Period \in Nat
    <3>1. now' \in Nat
      BY <1>1
    <3>2. now' % Period \in 0..(Period - 1)
      BY <3>1, RunsByPeriod
    <3>3. now' % Period \in Nat
      BY <3>2
    <3>4. LastRun(now') = now' - (now' % Period)
      BY DEF LastRun
    <3>5. LastRun(now') = LastRun(now)
      BY <1>5, <1>8
    <3>6. \A x, y \in Nat : x = (x - y) + y
      OBVIOUS
    <3>7. now' = (now' - (now' % Period)) + (now' % Period)
      BY <3>1, <3>3, <3>6, Zenon
    <3>. QED BY <3>3, <3>4, <3>5, <3>7, Zenon
  <2>4. LastRun(now) \in Nat
    BY <1>1, RunsByPeriod
  <2>. QED BY <1>1, <1>6, <2>1, <2>2, <2>3, <2>4
<1>. QED BY <1>7, <1>8

LEMMA AttendedStays ==
    ASSUME Sufficient, StoreInv, Attended, [Next]_vars, ~Tick
    PROVE  Attended'
<1>0. /\ now \in Nat /\ dag \in DagStates /\ index \subseteq Users
      /\ \A v \in DOMAIN store : store[v].until \in Nat /\ store[v].until > now
      /\ \A v \in DOMAIN store : store[v].until # Immortal
  BY DEF StoreInv, TypeOK, IsKeySpace, IsEntry, Alive, Sound
<1>1. \A u \in DOMAIN store' \cap index' : now' = now
  BY DeadlinesBetweenTicks DEF Sufficient
<1>2. LastRun(now) \in Nat /\ LastRun(now) <= now
  BY <1>0, RunsByPeriod
<1>. SUFFICES ASSUME ~dag'.due, dag'.phase # "failed", NEW u \in DOMAIN store' \cap index',
                     ~(store'[u].until >= LastRun(now) + StaleBelow)
              PROVE  dag'.phase = "scan" /\ u \in dag'.todo \cup dag'.stale
  BY <1>1 DEF Attended, HasMargin
<1>3. u \in DOMAIN store \cap index /\ store'[u].until = store[u].until
  BY <1>0, <1>2, DeadlinesBetweenTicks DEF Sufficient
<1>4. ~HasMargin(u)
  BY <1>3 DEF HasMargin
<1>5. CASE UNCHANGED dag
  BY <1>3, <1>4, <1>5 DEF Attended
<1>6. CASE DagStart
  <2>1. PICK S \in Samples(DagSample) :
           dag' = [due |-> FALSE, phase |-> "scan", todo |-> S, stale |-> {}]
    BY <1>6 DEF DagStart
  <2>2. S = index
    BY <1>0, SampleIsAll DEF Sufficient
  <2>. QED BY <1>3, <2>1, <2>2
<1>7. CASE \E v \in Users : DagScan(v)
  <2>1. PICK v \in Users : DagScan(v)
    BY <1>7
  <2>2. /\ dag'.due = dag.due /\ dag'.phase = dag.phase /\ dag'.todo = dag.todo \ {v}
        /\ dag'.stale = IF NearExpiry(store, v, now, StaleBelow) THEN dag.stale \cup {v} ELSE dag.stale
    BY <1>0, <2>1 DEF DagScan, DagStates
  <2>3. dag.phase = "scan" /\ u \in dag.todo \cup dag.stale
    BY <1>3, <1>4, <2>2 DEF Attended
  <2>4. NearExpiry(store, u, now, StaleBelow)
    <3>1. store[u].until < now + StaleBelow
      BY <1>0, <1>2, <1>3
    <3>. QED BY <1>0, <1>3, <3>1 DEF NearExpiry
  <2>. QED BY <2>2, <2>3, <2>4
<1>8. CASE DagExecute
  <2>1. dag'.due = dag.due
    BY <1>0, <1>8 DEF DagExecute, DagStates
  <2>2. u \in dag.stale
    BY <1>3, <1>4, <1>8, <2>1 DEF Attended, DagExecute
  <2>3. store'[u] = [store[u] EXCEPT !.until = now + RefreshTTL]
    BY <1>3, <1>8, <2>2 DEF DagExecute, ExtendAll, Expire
  <2>4. store[u] = [vec |-> store[u].vec, at |-> store[u].at, until |-> store[u].until]
    BY <1>3 DEF StoreInv, TypeOK, IsKeySpace, IsEntry
  <2>5. store'[u].until = now + RefreshTTL
    BY <2>3, <2>4
  <2>. QED BY <1>0, <1>2, <2>5 DEF Sufficient
<1>9. CASE DagFail
  BY <1>0, <1>9 DEF DagFail, DagStates
<1>. QED BY <1>5, <1>6, <1>7, <1>8, <1>9, DagKinds

\* A run that samples everybody and does not fail leaves every key of the index the
\* threshold to live, whatever the sink, the refreshers, the API and the evictions do
\* while it reads and extends (feature_refresh_dag.py:30-38).
THEOREM RunsLeaveMargins ==
    ASSUME Sufficient
    PROVE  Spec => RunsLeaveAMargin
<1>. DEFINE Step == \A u \in DOMAIN store \cap index :
                       Tick /\ u \notin DOMAIN store' =>
                          \/ dag'.due \/ dag.phase \in {"scan", "failed"}
                          \/ now' % Period >= StaleBelow
<1>1. Init => Attended
  BY DEF Init, Attended
<1>2. StoreInv /\ Attended /\ [Next]_vars => Attended'
  BY AttendedStays, TickKeepsAttended
<1>3. StoreInv /\ Attended /\ [Next]_vars => [Step]_vars
  BY TickKeepsAttended
<1>4. Spec => []StoreInv
  BY StoreSafe
<1>. QED BY <1>1, <1>2, <1>3, <1>4, PTL DEF Spec, RunsLeaveAMargin

\* With a threshold of at least the period, which is not how the DAG is deployed, no key
\* of the index runs out at all unless a run is late or still going, or has failed.
NoneRunsOut ==
    [][\A u \in DOMAIN store \cap index :
          Tick /\ u \notin DOMAIN store' =>
                          dag'.due \/ dag.phase \in {"scan", "failed"}]_vars

\* So a DAG that shall keep all keys alive (feature_refresh_dag.py:1, "extend TTL for
\* stale cached features") needs a threshold that long, or to run that often.
THEOREM LongerThresholdSuffices ==
    ASSUME Sufficient, StaleBelow >= Period
    PROVE  Spec => NoneRunsOut
<1>. DEFINE Left == \A u \in DOMAIN store \cap index :
                       Tick /\ u \notin DOMAIN store' =>
                          \/ dag'.due \/ dag.phase \in {"scan", "failed"}
                          \/ now' % Period >= StaleBelow
            None == \A u \in DOMAIN store \cap index :
                       Tick /\ u \notin DOMAIN store' =>
                          dag'.due \/ dag.phase \in {"scan", "failed"}
<1>1. ASSUME StoreInv, [Left]_vars
      PROVE  [None]_vars
  <2>1. ASSUME Tick
        PROVE  ~(now' % Period >= StaleBelow)
    <3>1. now + 1 \in Nat /\ now' = now + 1
      BY <1>1, <2>1 DEF StoreInv, TypeOK, Tick
    <3>2. now' % Period \in 0..(Period - 1)
      BY <3>1, RunsByPeriod
    <3>. QED BY <3>2
  <2>. QED BY <1>1, <2>1
<1>2. Spec => [][Left]_vars
  BY RunsLeaveMargins DEF RunsLeaveAMargin
<1>3. Spec => []StoreInv
  BY StoreSafe
<1>. QED BY <1>1, <1>2, <1>3, PTL DEF NoneRunsOut

-----------------------------------------------------------------------------
(* Rows without a get method *)

\* As the repository stands, Spark's rows do not answer row.get(...) (redis_sink.py:41):
\* no pipeline is ever executed, and whatever the refresh DAG, the cache refresh without a
\* feature_fn, the API and Redis do, no user ever has a features hash.
NothingInStore == DOMAIN store = {} /\ DOMAIN savedStore = {} /\ sink.phase # "applied"

THEOREM WithoutGetStoreStaysEmpty ==
    ASSUME ~RowHasGet, FnFields = {}, "bulk" \notin Deployed
    PROVE  Spec => []NothingInStore
<1>1. Init => NothingInStore
  BY DEF Init, NothingInStore, NoBatch
<1>2. ASSUME StoreInv, NothingInStore, [Next]_vars
      PROVE  NothingInStore'
  <2>. USE <1>2
  <2>1. sink'.phase # "applied"
    <3>1. CASE Streaming
      BY <3>1 DEF Streaming, SinkCollect, SinkExecute, SinkCommit, SinkFail, SinkReplay,
          NoBatch, NothingInStore, StoreInv, TypeOK
    <3>2. CASE UNCHANGED sink
      BY <3>2 DEF NothingInStore
    <3>3. ~Streaming => UNCHANGED sink
      BY DEF Next, RefreshDag, DagStart, DagScan, DagExecute, DagFail,
          CacheRefresh, RefresherStart, RefresherScan, RefresherExtend, RefresherCompute,
          RefresherSkip, RefresherWrite, RefresherWriteFail, RefresherEnd, BulkWrite,
          Api, PostRefresh, DoRefresh, LoseRefresh,
          RedisServer, EvictKey, EvictIndex, Save, Restart, Tick, vars
    <3>. QED BY <3>1, <3>2, <3>3
  <2>2. DOMAIN store' = {} /\ DOMAIN savedStore' = {}
    <3>1. ~SinkExecute
      BY DEF SinkExecute
    <3>2. CASE /\ UNCHANGED <<now, savedStore, sink>>
               /\ \E U \in SUBSET Users : \E l \in {TTL, RefreshTTL} : Extended(U, l)
      BY <3>2 DEF Extended, Expire, NothingInStore
    <3>3. CASE Tick \/ Restart
      BY <3>3 DEF Tick, Restart, Unexpired, NothingInStore, disk
    <3>4. CASE Save
      BY <3>4 DEF Save, redis, NothingInStore
    <3>. QED BY <3>1, <3>2, <3>3, <3>4, StampKinds
             DEF NothingInStore, SinkCollect, redis, disk, EvictKey
  <2>. QED BY <2>1, <2>2 DEF NothingInStore
<1>3. Spec => []StoreInv
  BY StoreSafe
<1>. QED BY <1>1, <1>2, <1>3, PTL DEF Spec

-----------------------------------------------------------------------------
(* The online store implements a cache with deadlines *)

LEMMA OnlyAlive ==
    ASSUME NEW db, NEW t, \A u \in DOMAIN db : db[u].until # Immortal
    PROVE  Unexpired(db, t) = Promise!Only(db, Promise!Alive(db, t))
BY DEF Unexpired, Promise!Only, Promise!Alive

\* Each pipeline lands proper rows, each EXPIRE only prolongs, and what Redis does
\* by itself is losing, saving, reloading and expiring entries.
THEOREM StoreIsTTLCache == Spec => ImplementsTTLCache
<1>1. Init => Promise!CacheInit
  BY DEF Init, Promise!CacheInit, Promise!Empty
<1>2. ASSUME StoreInv, StoreInv', [Next]_vars
      PROVE  [Promise!CacheNext]_(Promise!cacheVars)
  <2>. USE <1>2
  <2>0. /\ IsKeySpace(store) /\ IsKeySpace(savedStore) /\ now \in Nat
        /\ Sound(store, now) /\ Sound(savedStore, now)
    BY DEF StoreInv, TypeOK
  <2>1. CASE UNCHANGED <<now, disk>> /\ \E rows : Written(rows)
    <3>1. PICK rows : Written(rows)
      BY <2>1
    <3>2. DOMAIN store' = DOMAIN store \cup DOMAIN rows
      BY <3>1, PipelineDomain DEF Written
    <3>3. \A u \in DOMAIN store \ DOMAIN rows : store'[u] = store[u]
      BY <3>1, PipelineEffect DEF Written
    <3>4. ASSUME NEW u \in DOMAIN rows
          PROVE  /\ Unmixed(store'[u].vec) /\ store'[u].at \in 0..now
                 /\ \E l \in {TTL, RefreshTTL} : store'[u].until = now + l
      <4>1. store'[u] = [vec |-> IF u \in DOMAIN store THEN Merge(rows[u].vec, store[u].vec)
                                 ELSE rows[u].vec,
                         at |-> rows[u].at, until |-> now + TTL]
        BY <3>1, PipelineEffect DEF Written
      <4>2. store'[u].at = rows[u].at /\ store'[u].until = now + TTL
        BY <4>1
      <4>3. rows[u].at \in Nat /\ rows[u].at <= now
        BY <3>1 DEF Written, IsRow, OneRow
      <4>4. Unmixed(store'[u].vec)
        BY <3>2 DEF StoreInv, Sound
      <4>. QED BY <2>0, <4>2, <4>3, <4>4
    <3>5. DOMAIN rows \in SUBSET Users
      BY <3>1 DEF Written
    <3>6. Promise!Land(DOMAIN rows)
      BY <2>1, <3>2, <3>3, <3>4 DEF Promise!Land, disk
    <3>. QED BY <3>5, <3>6 DEF Promise!CacheNext
  <2>2. CASE /\ UNCHANGED <<now, disk>>
             /\ \E U \in SUBSET Users : \E l \in {TTL, RefreshTTL} : Extended(U, l)
    <3>1. PICK U \in SUBSET Users, l \in {TTL, RefreshTTL} : Extended(U, l)
      BY <2>2
    <3>2. \A u \in DOMAIN store :
             store[u] = [vec |-> store[u].vec, at |-> store[u].at, until |-> store[u].until]
      BY <2>0 DEF IsKeySpace, IsEntry
    <3>3. DOMAIN store' = DOMAIN store
      BY <3>1 DEF Extended, Expire
    <3>4. ASSUME NEW u \in DOMAIN store
          PROVE  store'[u] = [vec |-> store[u].vec, at |-> store[u].at,
                              until |-> IF u \in U THEN now + l ELSE store[u].until]
      BY <3>1, <3>2, ExpireEffect DEF Extended
    <3>. DEFINE K == U \cap DOMAIN store
    <3>5. ASSUME NEW u \in K
          PROVE  /\ store'[u].vec = store[u].vec /\ store'[u].at = store[u].at
                 /\ store'[u].until = now + l
      <4>1. u \in U /\ u \in DOMAIN store
        OBVIOUS
      <4>2. store'[u] = [vec |-> store[u].vec, at |-> store[u].at, until |-> now + l]
        BY <3>4, <4>1
      <4>. QED BY <4>2
    <3>6. ASSUME NEW u \in DOMAIN store \ K
          PROVE  store'[u] = store[u]
      BY <3>2, <3>4
    <3>7. Promise!Prolong(K)
      BY <2>2, <3>3, <3>5, <3>6 DEF Promise!Prolong, disk
    <3>. QED BY <3>7 DEF Promise!CacheNext
  <2>3. CASE \E u \in Users : EvictKey(u)
    <3>1. PICK u \in Users : EvictKey(u)
      BY <2>3
    <3>2. Promise!Lose(u) /\ u \in DOMAIN store
      BY <3>1 DEF EvictKey, Without, Promise!Lose, Promise!Only, disk
    <3>. QED BY <3>2 DEF Promise!CacheNext
  <2>4. CASE Save
    BY <2>4 DEF Save, redis, Promise!CacheNext, Promise!TakeImage
  <2>5. CASE Restart
    <3>1. store' = Promise!Only(savedStore, Promise!Alive(savedStore, now))
      BY <2>0, <2>5, OnlyAlive DEF Restart, Sound
    <3>. QED BY <2>5, <3>1 DEF Restart, disk, Promise!CacheNext, Promise!Reload
  <2>6. CASE Tick
    <3>1. store' = Promise!Only(store, Promise!Alive(store, now'))
      BY <2>0, <2>6, OnlyAlive DEF Tick, Sound
    <3>. QED BY <2>6, <3>1 DEF Tick, disk, Promise!CacheNext, Promise!Pass
  <2>7. CASE EvictIndex \/ UNCHANGED <<now, redis, disk>>
    BY <2>7 DEF EvictIndex, redis, disk, Promise!cacheVars
  <2>. QED BY <2>1, <2>2, <2>3, <2>4, <2>5, <2>6, <2>7, StepKinds
<1>. QED BY <1>1, <1>2, StoreSafe, PTL DEF Spec, ImplementsTTLCache, Promise!CacheSpec

=============================================================================
