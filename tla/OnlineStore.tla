---------------------------- MODULE OnlineStore ----------------------------
(***************************************************************************)
(* The online feature store: the Redis key space features:{user} and        *)
(* index:active_users, with everything that writes, extends, evicts and      *)
(* reads it.                                                                 *)
(*                                                                          *)
(*   streaming  streaming/redis_sink.py, called by Spark for every batch    *)
(*   airflow    airflow/dags/feature_refresh_dag.py                         *)
(*   refresher  online_store/cache_refresh.py over online_store/redis_client *)
(*   bulk       SyncRedisClient.batch_write_features                        *)
(*   api        api/routers/features.py and admin.py                        *)
(*   lru, rdb   the Redis server's eviction, and its snapshot and restart   *)
(*   failures   tasks of Airflow and of the API that fail                    *)
(*                                                                          *)
(* A feature value is abstracted to its provenance: the moment it was        *)
(* computed and which row of the batch it came from.                         *)
(***************************************************************************)
EXTENDS Integers, FiniteSets, RedisHash

CONSTANTS
    Users,
    Fields,             \* the feature fields of a hash, computed_at apart
    Windows,            \* the windows a user may have rows for in one batch
    TTL,                \* FEATURE_TTL_SECONDS
    RefreshTTL,         \* the 300 written out in the DAG and in admin.py
    StaleBelow,         \* ttl_threshold of the DAG
    RefreshThreshold,   \* REFRESH_THRESHOLD of cache_refresh.py
    Period,             \* the DAG's schedule_interval
    DagSample,          \* how many users the DAG samples
    RefreshSample,      \* how many users find_stale_users samples
    Attempts,           \* stop_after_attempt of write_features
    FnFields,           \* the fields a feature_fn returns, {} when no call has one
    BulkFields,         \* the FEATURE_FIELDS that batch_write_features' records have
    RowHasGet,          \* whether the rows Spark collects answer row.get(...)
    Deployed,           \* which of the parts listed above are running
    MaxPending,         \* bound: refresh tasks pending for one user
    MaxTime             \* bound: where the clock stops

Parts == {"streaming", "airflow", "refresher", "bulk", "api", "lru", "rdb",
          "failures"}

ASSUME TimesAssumption ==
    /\ TTL \in Nat \ {0} /\ RefreshTTL \in Nat \ {0}
    /\ StaleBelow \in Nat /\ RefreshThreshold \in Nat
    /\ Period \in Nat \ {0} /\ MaxTime \in Nat
ASSUME BoundsAssumption ==
    /\ DagSample \in Nat /\ RefreshSample \in Nat
    /\ Attempts \in Nat \ {0} /\ MaxPending \in Nat
ASSUME DataAssumption ==
    /\ Windows \subseteq Nat
    /\ Fields # {}
    /\ FnFields \subseteq Fields /\ BulkFields \subseteq Fields
    /\ RowHasGet \in BOOLEAN
    /\ Deployed \subseteq Parts

VARIABLES
    now,        \* the clock all parties read
    store,      \* the features:{user} hashes
    index,      \* the set index:active_users
    savedStore, savedIndex,     \* the last RDB snapshot of both
    sink,       \* the redis_sink query: its batch and how far it got
    dag,        \* the refresh DAG: due, running, users still to look at, keys to extend
    refresher,  \* cache_refresh: users to look at, stale ones, the one being written
    pending     \* the API's background tasks not run yet, per user

redis == <<store, index>>
disk == <<savedStore, savedIndex>>
vars == <<now, store, index, disk, sink, dag, refresher, pending>>

-----------------------------------------------------------------------------
(* Data *)

Time == Nat
Value == [made : Time, row : Windows \cup {0}]
IsEntry(e) ==
    /\ e = [vec |-> e.vec, at |-> e.at, until |-> e.until]
    /\ DOMAIN e.vec \subseteq Fields
    /\ e.vec \in [DOMAIN e.vec -> Value]
    /\ e.at \in Time /\ e.until \in Time
IsKeySpace(db) ==
    /\ DOMAIN db \subseteq Users
    /\ db = [u \in DOMAIN db |-> db[u]]
    /\ \A u \in DOMAIN db : IsEntry(db[u])
Batches == SUBSET (Users \X Windows)

DagStates ==
    [due : BOOLEAN, phase : {"idle", "scan", "failed"}, todo : SUBSET Users, stale : SUBSET Users]
RefresherStates ==
    [phase : {"idle", "run"}, todo : SUBSET Users, stale : SUBSET Users,
     cur : SUBSET Users, made : Time, tries : 0..Attempts]

NoBatch == [phase |-> "idle", rows |-> {}, ts |-> 0]
Resting == [phase |-> "idle", todo |-> {}, stale |-> {}, cur |-> {}, made |-> 0, tries |-> 0]
Max2(a, b) == IF a >= b THEN a ELSE b
MaxLife == Max2(TTL, RefreshTTL)

TypeOK ==
    /\ now \in Time
    /\ IsKeySpace(store)
    /\ index \subseteq Users
    /\ IsKeySpace(savedStore)
    /\ savedIndex \subseteq Users
    /\ sink \in [phase : {"idle", "collected", "applied", "down"}, rows : Batches, ts : Time]
    /\ dag \in DagStates
    /\ refresher \in RefresherStates
    /\ pending \in [Users -> 0..MaxPending]

Init ==
    /\ now = 0
    /\ store = [u \in {} |-> {}]
    /\ index = {}
    /\ savedStore = store /\ savedIndex = index
    /\ sink = NoBatch
    /\ dag = [due |-> FALSE, phase |-> "idle", todo |-> {}, stale |-> {}]
    /\ refresher = Resting
    /\ pending = [u \in Users |-> 0]

\* Variants of the definitions below, each with a mistake a change could make.
IndexedOnce(U) == IF U \cap index = {} THEN index \cup U ELSE index
WriteAllNoTTL(rows) == store' = HSet(store, rows) /\ index' = index \cup DOMAIN rows
ToppedUp(U) == store' = Expire(store, U, now + StaleBelow)

\* SADD index:active_users.
Indexed(U) == index \cup U

\* One MULTI/EXEC pipeline: HSET, EXPIRE ttl and SADD for every user of rows.
WriteAll(rows) ==
    /\ store' = Expire(HSet(store, rows), DOMAIN rows, now + TTL)
    /\ index' = Indexed(DOMAIN rows)

\* EXPIRE key 300, by the DAG or by the API.
ExtendAll(U) == store' = Expire(store, U, now + RefreshTTL)

\* SRANDMEMBER index:active_users n: n distinct members, or all of them.
Samples(n) ==
    {S \in SUBSET index :
        Cardinality(S) = IF Cardinality(index) < n THEN Cardinality(index) ELSE n}

-----------------------------------------------------------------------------
(* streaming/redis_sink.py *)

RowUsers(rows) == {r[1] : r \in rows}

\* Variant: the window's start for computed_at.
SinkRowByWindow(ts, w) ==
    [vec |-> [f \in Fields |-> [made |-> ts, row |-> w]], at |-> ts - w]

\* The payload of one row: its values are computed when the batch is, and
\* computed_at is the batch's current_timestamp, the same in every row.
SinkFields == Fields
SinkRow(ts, w) == [vec |-> [f \in SinkFields |-> [made |-> ts, row |-> w]], at |-> ts]

\* A batch reaches the sink: rows of some users, for one window or more each.
SinkCollect ==
    /\ "streaming" \in Deployed
    /\ sink.phase = "idle"
    /\ \E rows \in Batches \ {{}} :
          sink' = [phase |-> "collected", rows |-> rows, ts |-> now]
    /\ UNCHANGED <<now, redis, disk, dag, refresher, pending>>

\* pipe.execute() reaches Redis.  Rows are queued in the order collect() returned
\* them, so for each user the last one queued is the one that stays.
SinkExecute ==
    /\ sink.phase = "collected"
    /\ RowHasGet
    /\ \E last \in [RowUsers(sink.rows) -> Windows] :
          /\ \A u \in DOMAIN last : <<u, last[u]>> \in sink.rows
          /\ WriteAll([u \in DOMAIN last |-> SinkRow(sink.ts, last[u])])
    /\ sink' = [sink EXCEPT !.phase = "applied"]
    /\ UNCHANGED <<now, disk, dag, refresher, pending>>

\* The reply arrives, foreachBatch returns and Spark commits the batch.
SinkCommit ==
    /\ sink.phase = "applied"
    /\ sink' = NoBatch
    /\ UNCHANGED <<now, redis, disk, dag, refresher, pending>>

\* row.get or the connection raises, or the process dies: the query stops, and
\* with it the streaming process.
SinkFail ==
    /\ sink.phase \in {"collected", "applied"}
    /\ sink' = [sink EXCEPT !.phase = "down"]
    /\ UNCHANGED <<now, redis, disk, dag, refresher, pending>>

\* Variant: the batch counts as done before the sink has returned.
SinkForget ==
    /\ sink.phase = "down"
    /\ sink' = NoBatch
    /\ UNCHANGED <<now, redis, disk, dag, refresher, pending>>

\* Docker restarts the process, and Spark runs the uncommitted batch of its
\* checkpoint again: same rows, same current_timestamp.
SinkReplay ==
    /\ sink.phase = "down"
    /\ sink' = [sink EXCEPT !.phase = "collected"]
    /\ UNCHANGED <<now, redis, disk, dag, refresher, pending>>

-----------------------------------------------------------------------------
(* airflow/dags/feature_refresh_dag.py *)

\* A scheduled run starts: max_active_runs = 1.
DagStart ==
    /\ "airflow" \in Deployed
    /\ dag.due
    /\ dag.phase # "scan"
    /\ \E S \in Samples(DagSample) :
          dag' = [due |-> FALSE, phase |-> "scan", todo |-> S, stale |-> {}]
    /\ UNCHANGED <<now, redis, disk, sink, refresher, pending>>

\* Variant: a pipeline of its own for each user, of which only the last is sent.
DagScanLast(u) ==
    /\ u \in dag.todo
    /\ dag' = [dag EXCEPT !.todo = @ \ {u},
                          !.stale = IF NearExpiry(store, u, now, StaleBelow) THEN {u} ELSE @]
    /\ UNCHANGED <<now, redis, disk, sink, refresher, pending>>

\* TTL of one sampled user: its EXPIRE is queued in the pipeline, not sent.
DagScan(u) ==
    /\ u \in dag.todo
    /\ dag' = [dag EXCEPT !.todo = @ \ {u},
                          !.stale = IF NearExpiry(store, u, now, StaleBelow) THEN @ \cup {u} ELSE @]
    /\ UNCHANGED <<now, redis, disk, sink, refresher, pending>>

\* All sampled users looked at: the pipeline goes out if anything is queued.
DagExecute ==
    /\ dag.phase = "scan"
    /\ dag.todo = {}
    /\ ExtendAll(dag.stale)
    /\ dag' = [dag EXCEPT !.phase = "idle", !.stale = {}]
    /\ UNCHANGED <<now, index, disk, sink, refresher, pending>>

\* The task fails before the pipeline reaches Redis; retries = 0, so the run has failed.
DagFail ==
    /\ "failures" \in Deployed
    /\ dag.phase = "scan"
    /\ dag' = [dag EXCEPT !.phase = "failed", !.todo = {}, !.stale = {}]
    /\ UNCHANGED <<now, redis, disk, sink, refresher, pending>>

-----------------------------------------------------------------------------
(* online_store/cache_refresh.py, and redis_client.py under it *)

\* find_stale_users begins: sample_active_users.
RefresherStart ==
    /\ "refresher" \in Deployed
    /\ refresher.phase = "idle"
    /\ \E S \in Samples(RefreshSample) :
          refresher' = [Resting EXCEPT !.phase = "run", !.todo = S]
    /\ UNCHANGED <<now, redis, disk, sink, dag, pending>>

\* The loop of find_stale_users: ttl(user_id).
RefresherScan(u) ==
    /\ u \in refresher.todo
    /\ refresher' = [refresher EXCEPT !.todo = @ \ {u},
                        !.stale = IF NearExpiry(store, u, now, RefreshThreshold)
                                  THEN @ \cup {u} ELSE @]
    /\ UNCHANGED <<now, redis, disk, sink, dag, pending>>

\* refresh_features_for_users is between two users.
NextUser(u) ==
    /\ refresher.todo = {}
    /\ refresher.cur = {}
    /\ u \in refresher.stale

\* feature_fn is an argument of each call.  Without one: only extend the TTL.
RefresherExtend(u) ==
    /\ NextUser(u)
    /\ store' = Expire(store, {u}, now + TTL)
    /\ refresher' = [refresher EXCEPT !.stale = @ \ {u}]
    /\ UNCHANGED <<now, index, disk, sink, dag, pending>>

\* With one: the features of u are computed, then written.
RefresherCompute(u) ==
    /\ NextUser(u)
    /\ FnFields # {}
    /\ refresher' = [refresher EXCEPT !.stale = @ \ {u}, !.cur = {u}, !.made = now, !.tries = 0]
    /\ UNCHANGED <<now, redis, disk, sink, dag, pending>>

\* feature_fn or EXPIRE raises: logged, and on to the next user.
RefresherSkip(u) ==
    /\ NextUser(u)
    /\ refresher' = [refresher EXCEPT !.stale = @ \ {u}]
    /\ UNCHANGED <<now, redis, disk, sink, dag, pending>>

UserDone == [refresher EXCEPT !.cur = {}, !.made = 0, !.tries = 0]

\* The attempt failed: another one, or RetryError, which the loop logs.
AfterFailure ==
    IF refresher.tries + 1 >= Attempts THEN UserDone
    ELSE [refresher EXCEPT !.tries = @ + 1]

\* write_features: values from feature_fn, computed_at read at this attempt.
FnRow == [vec |-> [f \in FnFields |-> [made |-> refresher.made, row |-> 0]], at |-> now]
WriteCurrent == WriteAll([u \in refresher.cur |-> FnRow])

\* An attempt that Redis executes.  When the reply is lost, tenacity tries again.
RefresherWrite ==
    /\ refresher.cur # {}
    /\ WriteCurrent
    /\ \/ refresher' = UserDone
       \/ refresher' = AfterFailure
    /\ UNCHANGED <<now, disk, sink, dag, pending>>

\* An attempt that does not reach Redis.
RefresherWriteFail ==
    /\ refresher.cur # {}
    /\ refresher' = AfterFailure
    /\ UNCHANGED <<now, redis, disk, sink, dag, pending>>

\* All users done, or an error of find_stale_users or the process ends the run.
RefresherEnd ==
    /\ refresher.phase = "run"
    /\ refresher' = Resting
    /\ UNCHANGED <<now, redis, disk, sink, dag, pending>>

\* Variant: "if rec.get(k)" for "if k in rec" leaves out a feature that is 0.
BulkRowTruthy(made, at, w) ==
    [vec |-> [f \in BulkFields \ {CHOOSE g \in BulkFields : TRUE} |-> [made |-> made, row |-> w]],
     at |-> at]

\* batch_write_features: records made at some moment, with that computed_at or
\* with none, for which it takes the time of the call.
BulkRow(made, at, w) == [vec |-> [f \in BulkFields |-> [made |-> made, row |-> w]], at |-> at]
BulkWrite ==
    /\ "bulk" \in Deployed
    /\ \E U \in SUBSET Users \ {{}}, w \in Windows, made \in 0..now :
          \E at \in {made, now} : WriteAll([u \in U |-> BulkRow(made, at, w)])
    /\ UNCHANGED <<now, disk, sink, dag, refresher, pending>>

-----------------------------------------------------------------------------
(* api/routers *)

\* POST /refresh-feature: 202 whatever the key's state, and a background task.
PostRefresh(u) ==
    /\ "api" \in Deployed
    /\ pending[u] < MaxPending
    /\ pending' = [pending EXCEPT ![u] = @ + 1]
    /\ UNCHANGED <<now, redis, disk, sink, dag, refresher>>

\* _do_refresh runs.
DoRefresh(u) ==
    /\ pending[u] > 0
    /\ ExtendAll({u})
    /\ pending' = [pending EXCEPT ![u] = @ - 1]
    /\ UNCHANGED <<now, index, disk, sink, dag, refresher>>

\* Variant: a task lost that was never queued.
LoseRefreshUnguarded(u) ==
    /\ "failures" \in Deployed
    /\ pending' = [pending EXCEPT ![u] = @ - 1]
    /\ UNCHANGED <<now, redis, disk, sink, dag, refresher>>

\* _do_refresh raises, or its worker dies: nobody runs it again.
LoseRefresh(u) ==
    /\ "failures" \in Deployed
    /\ pending[u] > 0
    /\ pending' = [pending EXCEPT ![u] = @ - 1]
    /\ UNCHANGED <<now, redis, disk, sink, dag, refresher>>

\* GET /features/{u}?features=asked, asked = {} standing for no filter.
Default == [made |-> -1, row |-> 0]     \* the 0.0 of a field that is not there
Wanted(asked) == IF asked = {} THEN Fields ELSE asked
Get(u, asked) ==
    IF u \notin DOMAIN store THEN [status |-> 404]
    ELSE LET vec == store[u].vec
         IN [status |-> 200,
             features |-> [f \in Fields |-> IF f \in Wanted(asked) \cap DOMAIN vec
                                            THEN vec[f] ELSE Default],
             freshness |-> now - store[u].at]

-----------------------------------------------------------------------------
(* The Redis server *)

EvictKey(u) ==
    /\ "lru" \in Deployed
    /\ u \in DOMAIN store
    /\ store' = Without(store, u)
    /\ UNCHANGED <<now, index, disk, sink, dag, refresher, pending>>

EvictIndex ==
    /\ "lru" \in Deployed
    /\ index # {}
    /\ index' = {}
    /\ UNCHANGED <<now, store, disk, sink, dag, refresher, pending>>

Save ==
    /\ "rdb" \in Deployed
    /\ savedStore' = store /\ savedIndex' = index
    /\ UNCHANGED <<now, redis, sink, dag, refresher, pending>>

\* Variant: keys that expired while Redis was down are loaded as well.
RestartStale ==
    /\ "rdb" \in Deployed
    /\ store' = savedStore
    /\ index' = savedIndex
    /\ UNCHANGED <<now, disk, sink, dag, refresher, pending>>

\* A crash of Redis: it comes back with the snapshot, minus what expired since.
Restart ==
    /\ "rdb" \in Deployed
    /\ store' = Unexpired(savedStore, now)
    /\ index' = savedIndex
    /\ UNCHANGED <<now, disk, sink, dag, refresher, pending>>

Tick ==
    /\ now < MaxTime
    /\ now' = now + 1
    /\ store' = Unexpired(store, now')
    /\ dag' = [dag EXCEPT !.due = @ \/ now' % Period = 0]
    /\ UNCHANGED <<index, disk, sink, refresher, pending>>

Streaming == SinkCollect \/ SinkExecute \/ SinkCommit \/ SinkFail \/ SinkReplay
RefreshDag == DagStart \/ (\E u \in Users : DagScan(u)) \/ DagExecute \/ DagFail
CacheRefresh ==
    \/ RefresherStart
    \/ \E u \in Users : \/ RefresherScan(u) \/ RefresherExtend(u)
                        \/ RefresherCompute(u) \/ RefresherSkip(u)
    \/ RefresherWrite \/ RefresherWriteFail \/ RefresherEnd
Api == \E u \in Users : PostRefresh(u) \/ DoRefresh(u) \/ LoseRefresh(u)
RedisServer == (\E u \in Users : EvictKey(u)) \/ EvictIndex \/ Save \/ Restart \/ Tick

Next == Streaming \/ RefreshDag \/ CacheRefresh \/ BulkWrite \/ Api \/ RedisServer

Spec == Init /\ [][Next]_vars

\* What the deployment owes the streaming query: docker restarts it (restart:
\* unless-stopped), Spark runs the batch again, and Redis does not fail every time.
Fairness ==
    /\ WF_vars(SinkReplay)
    /\ WF_vars(SinkCommit)
    /\ SF_vars(SinkExecute)
FairSpec == Spec /\ Fairness

-----------------------------------------------------------------------------
(* What must hold *)

\* No interleaving of writers, refreshers, evictions and restarts leaves a hash
\* without a TTL, or with a longer one than a write or a refresh sets: data
\* that nobody touches is gone after that long (redis_sink.py:50-52,
\* redis_client.py:53-58, the EXPIREs of the DAG and of admin.py).
EveryKeyExpires ==
    \A u \in DOMAIN store :
        store[u].until # Immortal /\ store[u].until - now \in 1..MaxLife

\* HSET replaces the fields it is given and no others, and both writers of
\* redis_client.py take records without some of them (line 73: "if k in rec").
\* Two fields that every writer writes or leaves out together, and a field that
\* every writer writes:
Together(f, g) ==
    /\ f \in FnFields <=> g \in FnFields
    /\ f \in BulkFields <=> g \in BulkFields
AlwaysWritten(f) ==
    /\ FnFields # {} => f \in FnFields
    /\ "bulk" \in Deployed => f \in BulkFields

\* "One HGETALL retrieves the complete feature vector" (docs/architecture.md:117), as
\* far as the writers carry it: a 200 never mixes two rows in fields that are
\* written together, never fills in with 0.0 a field that all writers write, and
\* never reports an age below zero, whichever of them wrote, retried, expired or was
\* restored in between.
ServedWhole ==
    \A u \in Users, asked \in SUBSET Fields :
        LET r == Get(u, asked)
        IN r.status = 200 =>
             /\ \A f, g \in Wanted(asked) :
                   Together(f, g) => r.features[f] = r.features[g]
             /\ \A f \in Wanted(asked) : AlwaysWritten(f) => r.features[f] # Default
             /\ r.freshness >= 0

\* Whoever samples index:active_users (the refreshers, the consistency DAG, the
\* dashboard) can reach every live hash, as long as Redis does not evict the index.
IndexCoversKeys == DOMAIN store \subseteq index

\* While a key lives its deadline never moves back: a refresh computed from a TTL
\* read earlier, racing a write, still does no harm (feature_refresh_dag.py:30-38).
DeadlineNeverMovesBack ==
    [][\A u \in DOMAIN store \cap DOMAIN store' :
          Restart \/ store'[u].until >= store[u].until]_vars

\* computed_at of a live key never goes back: not for a batch that Spark runs
\* again, nor for rows of older windows (redis_sink.py:37-54).
ComputedAtNeverRegresses ==
    [][\A u \in DOMAIN store \cap DOMAIN store' :
          Restart \/ store'[u].at >= store[u].at]_vars

\* A vector whose fields that are written together are there together and from one
\* row, and that has those every writer writes: whole, if each writer has all fields.
Unmixed(vec) ==
    /\ \A f, g \in Fields :
          Together(f, g) => /\ f \in DOMAIN vec <=> g \in DOMAIN vec
                            /\ f \in DOMAIN vec => vec[f] = vec[g]
    /\ \A f \in Fields : AlwaysWritten(f) => f \in DOMAIN vec

\* The store is a cache of such rows with deadlines (TTLCache), for a reader who
\* sees the hashes only.
Promise == INSTANCE TTLCache WITH
    Keys <- Users, IsRow <- Unmixed, Lifetimes <- {TTL, RefreshTTL},
    time <- now, cache <- store, image <- savedStore
ImplementsTTLCache == Promise!CacheSpec

\* The strengthening behind these invariants.  Sound is what a key space keeps
\* as the clock runs, in memory and on disk.
Sound(db, t) ==
    \A u \in DOMAIN db :
        /\ Unmixed(db[u].vec) /\ db[u].at <= t
        /\ db[u].until # Immortal /\ db[u].until <= t + MaxLife
Alive(db, t) == \A u \in DOMAIN db : db[u].until > t
InFlightOK ==
    /\ sink.ts <= now
    /\ refresher.made <= now
    /\ refresher.cur # {} => FnFields # {}
StoreInv ==
    /\ TypeOK
    /\ Sound(store, now) /\ Alive(store, now)
    /\ Sound(savedStore, now)
    /\ InFlightOK

\* The DAG "runs every 5 minutes and extends TTL for keys with < 60s remaining"
\* (docs/runbook.md:71).  What that gives a user: unless a run is late, still going or has
\* failed, no key of the index runs out within the threshold of a run, although TTLs
\* are read one by one, EXPIREs wait for the end, and others write and extend meanwhile
\* (feature_refresh_dag.py:30-38).
RunsLeaveAMargin ==
    [][\A u \in DOMAIN store \cap index :
          Tick /\ u \notin DOMAIN store' =>
              \/ dag'.due \/ dag.phase \in {"scan", "failed"}
              \/ now' % Period >= StaleBelow]_vars

\* README.md:78, "Verify features are landing in Redis": a batch that reached the
\* sink is eventually executed by Redis, through failures and restarts.
BatchLands == sink.phase = "collected" ~> sink.phase = "applied"

=============================================================================
