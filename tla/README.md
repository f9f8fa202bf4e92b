# Feature store: TLA+ models, model checking and proofs

The repository is a real-time feature store: events go through Kafka to a Spark
Structured Streaming job, which computes features per user and writes them to Redis
(online) and Delta Lake (offline); an API serves the Redis side; Airflow DAGs refresh,
validate, watch for drift and backfill; an LLM engine diagnoses drift. This directory
models it in TLA+, checks the models with TLC and proves the main results with TLAPS.

## 1. Inventory

| Component | Code | State it keeps | Operations | Talks to |
|---|---|---|---|---|
| Ingestion | `ingestion/` | the producer's buffer | generate, produce with retries, poll, flush | Kafka |
| Streaming job | `streaming/feature_processor.py`, `feature_definitions.py`, `anomaly_scorer.py` | two queries, each with its checkpoint | read offsets, compute a batch, call the sink, commit | Kafka, both sinks |
| Redis sink | `streaming/redis_sink.py` | none of its own | one MULTI/EXEC pipeline per batch | Redis |
| Delta sink | `streaming/delta_sink.py` | the Delta table, `fallback_parquet` | MERGE, creating overwrite, fallback append | Delta |
| Online store | `online_store/` | `features:{user}` hashes with TTL, `index:active_users`, baselines | write with retries, bulk write, find stale users, refresh | Redis |
| Refresh DAG | `airflow/dags/feature_refresh_dag.py` | the run's sample and its queued EXPIREs | sample, read TTLs, extend | Redis |
| Serving API | `api/` | background tasks | GET features, POST refresh, RCA, health, metadata | Redis, PostgreSQL, RCA engine |
| Offline store | `offline_store/`, `airflow/dags/backfill_dag.py` | the same Delta table | backfill append, point-in-time reads, OPTIMIZE | Kafka, Delta |
| Registry | `registry/` | definitions, lineage, metrics, RCA results | create tables, seed, read, record | PostgreSQL |
| Validation | `validation/`, `consistency_validation_dag.py` | metrics | sample, compare, classify, record | Redis, PostgreSQL |
| Drift | `drift_detection/`, `drift_monitoring_dag.py` | baselines in Redis, metrics | sample, PSI/KS/Z, record, trigger RCA | Redis, PostgreSQL, RCA |
| RCA engine | `diagnostics/` | the client | call with retries, rule-based fallback | Claude API |
| Monitoring | `monitoring/` | none | read-only pages | Redis, PostgreSQL, API |

What is hard about it, and what makes each part correct:

* **Online store.** Five writers share the hashes without any lock: the sink, bulk
  writes, the refresher, the refresh DAG and the API's background tasks; Redis expires,
  evicts and, after a crash, reloads an older snapshot in between. Correct means: a
  served vector mixes and pads no more than the fields its writers leave out; every hash
  has a deadline; a refresh decided on an old TTL does no harm, and a run of the DAG leaves
  every key it reaches a margin; the index reaches every live hash;
  replays do not take a user back in time; batches do land.
* **Streaming, Delta.** Two queries with separate checkpoints, replay after a crash, a
  check-then-create on the table shared with the backfill, and a fallback that counts as
  success. Correct means: a committed batch is in the table or in the fallback, a replay
  changes nothing, and what a backfill has committed goes only for a batch of that user and
  date or in an overwrite that saw it.
* **Registry.** `uvicorn --workers 2` seeds the same empty database twice at once, and
  metrics must name a known feature.
* **Validation, drift.** Users are sampled and then read one by one while hashes expire;
  metrics are inserted row by row under task retries; thresholds and severities.
* **RCA.** Retries and a fallback. Correct means: an alert that a run ends with is analysed, with an urgency
  that fits, and every request is answered.
* **Ingestion.** A full queue, lost acknowledgements, retries that run out, and a shutdown that
  races deliveries. Correct means: no event vanishes without a report from a running
  generator, the topic has no more copies than sends, and a generator told to stop stops.

`PROJECT.json` lists every component with its status, every hazard at its line, and the
lines each definition translates.

## 2. Modules

```
RedisHash          HSET, EXPIRE, TTL tests, expiry, eviction as operators (external)
  OnlineStore      the online store and everything that touches it
    MCOnlineStore  for TLC (symmetry)
    OnlineStoreProofs   theorems;  RedisHashProofs holds the lemmas on RedisHash
TTLCache           the abstract specification the online store implements
DeltaTable         the offline table, the sink's Delta query and the backfill
  MCDeltaTable     for TLC;  DeltaTableProofs holds the theorems
Registry           API workers creating and seeding the registry at once
  MCRegistry       for TLC;  RegistryProofs holds the theorems
FeatureCatalog     the abstract specification the registry implements
FeatureJoins       the events of the topic, their windows, aggregates and joined rows
  MCFeatureJoins   for TLC (symmetry);  FeatureJoinsProofs holds the theorems
Ingestion          the generator, its producer and the topic
  StreamingPipeline     adds the streaming job: two queries with their checkpoints
    MCStreamingPipeline   for TLC;  StreamingPipelineProofs holds the theorems
LogConsumers       the abstract specification the streaming job implements
ConsistencyCheck   the consistency DAG and the dashboard's live check
  MCConsistencyCheck    for TLC (values);  ConsistencyCheckProofs holds the theorems
RcaEngine          one analysis per caller: attempts, timeouts, rule-based fallback
  DriftMonitoring  the drift DAG and the API's requests, both asking that engine
    MCDriftMonitoring   for TLC;  DriftMonitoringProofs holds the theorems
```

A definition that only serves to show a property can fail is marked "Variant" and used by no
specification: it is the code with a plausible mistake, and `PROJECT.json` lists which
property rejects it.

### OnlineStore

State: `now` the clock; `store` the hashes, a function from the users that have one to
`[vec, at, until]`; `index` the set `index:active_users`; `savedStore`, `savedIndex` the
last RDB snapshot; `sink` the `redis_sink` query; `dag` the refresh DAG; `refresher` a
run of `cache_refresh`; `pending` the API's background tasks. A field's value is its
provenance (when it was computed, and from which row of the batch), since what the
properties tell apart is whether two fields belong together and how old they are.

| Actions | Code |
|---|---|
| `SinkCollect`, `SinkExecute`, `SinkCommit`, `SinkFail`, `SinkReplay` | `redis_sink.py:28-54`, one pipeline per batch; Spark's commit and replay (`feature_processor.py:100-130`, `restart: unless-stopped`) |
| `DagStart`, `DagScan`, `DagExecute`, `DagFail` | `feature_refresh_dag.py:17-41`: TTLs are read one by one, EXPIREs sent together at the end |
| `RefresherStart`, `RefresherScan`, `RefresherExtend`, `RefresherCompute`, `RefresherWrite`, `RefresherWriteFail`, `RefresherSkip`, `RefresherEnd` | `cache_refresh.py:16-48` and `redis_client.py:42-58`: a failed attempt is retried, also when Redis had executed it |
| `BulkWrite` | `redis_client.py:65-79` |
| `PostRefresh`, `DoRefresh`, `LoseRefresh` | `admin.py:15-33` |
| `Get` (an operator: it changes nothing) | `features.py:15-59` |
| `EvictKey`, `EvictIndex`, `Save`, `Restart`, `Tick` | Redis as configured (`docker-compose.yml:131-150`) and time |

A pipeline of redis-py is MULTI/EXEC, so `WriteAll` is one step. `collect()` gives no
order to the several rows a user may have, so `SinkExecute` lets any of them be last.
`RowHasGet` says whether the rows answer `row.get(...)`; pyspark's do not (section 5), and
the other runs set it to TRUE to see how the sink behaves once its rows are mappings.
`FnFields` and `BulkFields` are the fields a `feature_fn` or a bulk record carries.
`redis_client.py` takes records without some of them (line 73, `if k in rec`), and HSET
then leaves the old values of the others in place, so a hash may mix rows. `ServedWhole`
says how far: fields that every writer has or lacks together (`Together`) are of one row, and
one that every writer has (`AlwaysWritten`) is never padded. Where all writers have all fields,
that is whole rows (`Unmixed` says it of a vector).

### TTLCache

What a reader of the store may rely on, whoever writes: a write leaves proper rows with a deadline,
a refresh moves only deadlines, entries are lost, saved, reloaded if not yet expired, and
gone once the deadline passes. `OnlineStore!ImplementsTTLCache` is this specification
under the mapping `time <- now, cache <- store, image <- savedStore`, a proper row being an
`Unmixed` one.

### DeltaTable

State: `now` the clock, `DayLen` ticks of which make an `event_date`; `exists`
(`isDeltaTable`) and `table`, the rows of the latest version; `fallback`, the rows of
`fallback_parquet`; `sink`, the `delta_sink` query with its batch, how far it got and the
snapshot its transaction began with; `task` and `jobs`, the Airflow task
`run_spark_backfill` and the spark-submit jobs of its attempts; `crashes`.

| Actions | Code |
|---|---|
| `StreamCollect`, `StreamCheck`, `StreamBegin` | `delta_sink.py:13-44`: the batch's rows, `isDeltaTable`, the snapshot the transaction reads |
| `StreamWrite`, `StreamError`, `StreamFallback` | `delta_sink.py:34-63`: commit of the MERGE or of the creating overwrite; an exception before the commit or after it; the append to the fallback |
| `StreamCommit`, `StreamCrash`, `StreamReplay` | Spark's commit of the batch, death, and the batch run again (`feature_processor.py:103-130`) |
| `BackfillStart`, `BackfillBegin`, `BackfillCommit`, `BackfillDie` | `backfill_dag.py:41-62`, `backfill.py:42-82`, `delta_writer.py:13-32`: one append per job |
| `TaskSucceed`, `TaskFail` | the task and its one retry; a job whose task was given up on may still be running |

Delta is external and modelled as its users see it: a transaction reads a snapshot and
commits atomically against what others committed since, appends never conflict, and a
MERGE with several source rows for one target row is refused (`Ambiguous`). The merge
condition, the update and the insert are translated from the code. A row is its columns: who
computed it (the stream, or which attempt of the backfill) and the window of the batch stand
for its values, `at` is its `computed_at`, from which `event_date` follows. A matched row
becomes the source's row in every column (`whenMatchedUpdateAll`), so a backfilled row whose
user and date get a batch is gone. Rows that agree in every column are one: how
often a row is in the table or in the fallback is not counted. A backfill that its retry
appends twice shows as rows of two attempts; nothing in the code prevents it.

### Registry

State: `created`, whether the tables are there; `rows` and `lineage`, how many committed
definitions and lineage rows each name has; `worker`, per uvicorn worker its phase, the
seed its loop is at and the names its transaction has added; `crashes`.

| Actions | Code |
|---|---|
| `Start`, `Stop` | `api/main.py:27-48`, `Dockerfile.api:17` (two workers) |
| `CheckTables`, `CreateTables` | `database.py:25-27`: `create_all` looks, then creates what it missed |
| `Look`, `Insert`, `Commit` | `seed_data.py:101-122`: SELECT, flush and lineage, one commit |
| `Fail`, `Crash` | the exception that ends the lifespan; death at any point before serving |

PostgreSQL is external: READ COMMITTED, and a unique key (`models.py:20`) that makes the
second inserter of a name wait for the first one's transaction and then fails or goes on.
A registry may start empty or with any part of the seeds.

### FeatureCatalog

What a client of the serving workers may rely on: an entry of the catalogue is absent or whole,
the whole catalogue is there at once and before anybody serves, and no entry is taken back,
doubled or changed. `Registry!ImplementsCatalog` maps `entries` to what the committed rows and
lineage of a name come to and `serving` to the workers that serve: looking, inserting,
failing and dying are stutters, and a commit is one only if nobody gets to see part of it.

### FeatureJoins

State: `events`, the bag of events the topic holds. `Arrive` (`event_generator.py:67-114`) adds
any event, `Redeliver` one that is there (the producer retries without idempotence),
`Retire` is the topic's retention. The rest are operators, translated from
`feature_definitions.py` and `anomaly_scorer.py`: which windows an instant lies in
(`Starts`), which groups there are (`Windows`) and of what (`Group`), what they come to
(`Value`), and the rows of the left joins (`RowsOf`). Since every join is on `user_id`
alone, a row is the combination of windows it was joined from, and `None` where a user has
none. `Backfilled` is the filter of `backfill.py:66-69`. Rows are those of a batch
computation, which is what the backfill runs.

### RcaEngine and DriftMonitoring

`RcaEngine` has one variable, `analysis`: per caller, what its analysis is doing, the
report it was given and the calls it has made. Its actions are composed by
`DriftMonitoring`, which adds `baselines`, the features with a baseline in Redis; `run` and
`runs`, the DAG run with its task, the try and how far the try got; `xcom`, what the tasks
have pushed; `report`, the results of the last detection; `metrics`, the rows the run has
left in `feature_metrics`; `about`, the feature its analysis is of.

| Actions | Code |
|---|---|
| `Analyze`, `Call`, `NoKey`, `Answer`, `Useless`, `Unreachable`, `Abandoned` | `rca_engine.py:30-107`: three attempts on connection errors, every other failure straight to the rules; `Urgency` is what the rules say (109-175) |
| `Schedule`, `StartTask`, `TaskFails` | Airflow: one run at a time, retries, a retry clears the task's XCom (`drift_monitoring_dag.py:14-19, 141-173`) |
| `Load`, `DetectNothing`, `Detect`, `PushHasDrift`, `PushDrifting`, `WriteMetric`, `DetectDone` | `drift_monitoring_dag.py:22-99` with `drift_detector.py` and `validation/psi_calculator.py:51-56`: two pushes, then two inserts per feature, each in a transaction of its own whose error is swallowed |
| `Branch`, `RunRca`, `RcaDone` | `drift_monitoring_dag.py:102-138` |
| `PostRca`, `ApiDies` | the request's own analysis (`admin.py:36-68`) |
| `SaveBaseline`, `BaselineExpires` | `baseline_manager.py`: nothing in the repository saves one, an operator may |

The statistics are external: with a baseline a feature's PSI and KS outcome are any of
`Measured` and of TRUE and FALSE; without one the code compares the current values with
themselves and both come out equal. A PSI is a number of hundredths. A feature is its
position in `FEATURE_NAMES`, so `drifting[0]` is the least position. `Known` are those the registry has:
a row for another one is refused by the foreign key. `Keyed` are the callers whose process has an API key.

### Ingestion and StreamingPipeline

`Ingestion` has the generator's process (`generator`: its phase, its place in the batch and
the refused calls of `produce`), the events `made` and how many of them before this process
(`born`), the producer's `queue`, what was `logged` as undelivered, and the topic: how often
each event was `appended`, and its `end`. `StreamingPipeline` extends it by the streaming
process: per query its checkpoint (`query`) and the offsets its sink has (`landed`), and `low`,
up to where the topic has forgotten.

| Actions | Code |
|---|---|
| `Start`, `Produce`, `Refuse`, `Poll` | `event_generator.py:117-152`, `kafka_producer.py:31-47`: an event is counted when `produce` has taken it; a full queue is tried five times in all without a poll, and the last refusal ends the generator |
| `Shutdown`, `Flushed`, `Killed` | the signal handler, its `flush(timeout=10)` and `sys.exit`; death with the queue |
| `Deliver`, `LoseAck`, `FailToSend` | librdkafka's thread as configured (`kafka_producer.py:19-29`): `acks` 1, `retries`, no idempotence |
| `Open`, `Plan`, `Run`, `Commit`, `Replan` | `feature_processor.py:50-130`: `startingOffsets` latest, the offsets of a batch in the checkpoint before it is run, its commit after |
| `Terminate`, `Retire` | `awaitAnyTermination` (130) and `restart: unless-stopped`; retention with `failOnDataLoss` false |

A query's phase lives in the process; `opened`, `start`, `done` and `planned` are in its checkpoint,
which a named volume keeps. An offset has `landed` when the sink has returned from its batch, a fallback included:
`OnlineStore` and `DeltaTable` say what that means for each sink, what becomes of a batch
that fails half way and what a batch run again does. `FeatureJoins` says what the events of
the topic come to. The topic of `docker-compose.yml` has 6 partitions; here it has one, since a
batch takes a range of each and commits them together.

### LogConsumers

What a store may rely on, whatever becomes of the processes between it and the topic: it is the
consumer of a log that is trimmed at its beginning. It attaches once, at the end; from its
confirmed offset it takes what is still there, as often as need be; and it confirms an offset
only when it holds all that is still there up to it. `StreamingPipeline!ImplementsLog` maps a
query's `Open` to attaching, `Run` to taking and `Commit` to confirming. Plans, deaths and
everything the generator does short of an append are stutters.

### ConsistencyCheck

State: `store`, the hash of every user; `check`, per check (`"dag"` and `"page"`) its phase,
the users it has still to read and the hashes it has read; `report`, the inconsistent and the
compared users of its last comparison; `tries`, `deaths`, `outcome` of the DAG's runs.

| Actions | Code |
|---|---|
| `Begin`, `Sample`, `Read`, `Compare` | `consistency_validation_dag.py:23-58` and `monitoring/pages/04_consistency_checks.py:12-38`: `srandmember`, `hgetall` of one user after the other, the simulated offline side, `validate_consistency` (`consistency_validator.py`) |
| `WriteMetric`, `Branch` | `consistency_validation_dag.py:64-94`: an insert whose error is swallowed; the rate of the XCom against 5 % |
| `Dies`, `Breaks` | Airflow's retries, which clear the XComs of the task; the page's exception |
| `Change` | everything that writes or removes hashes (`OnlineStore`) |

No step reads what the offline store has for a user (the constant `Delta`): it is there for
`SkewAlarms` to compare with. The code's offline side is what was read, times 1 plus a random perturbation: up to half a percent
in the DAG, Gaussian with a deviation of 0.3 % on the page. Values are integers in
millionths and perturbations in thousandths, which makes `Deviates`, with its 1e-6 in
the denominator, exact. `Healthy`, `Alarming` and `SkewSeverity` are the thresholds of
`consistency_validator.py`, the DAG and `skew_detector.py`.

## 3. What is checked

| Run | Instance | Properties | Shows |
|---|---|---|---|
| `online_jobs` | 2 users, 2 windows, sink + DAG + API with failing tasks, clock to 4, TTL 3 | `TypeOK EveryKeyExpires IndexCoversKeys RunsLeaveAMargin DeadlineNeverMovesBack ComputedAtNeverRegresses ImplementsTTLCache` | no interleaving of batch, replay, scan, extension and background task tears a row, drops a TTL or takes a hash back; an indexed key runs out only while a run is due, scanning or failed, or once the threshold has passed since the last one |
| `online_faults` | 1 user, 3 fields of which a `feature_fn` has 2, sink + refresher with and without a `feature_fn` + bulk writes + eviction + snapshot and restart, clock to 3 | `ServedWhole ImplementsTTLCache BatchLands` | with partial records, retried writes and a Redis that loses and restores data, too, the store is a cache with deadlines, fields written together stay of one row, and a field that all write is never padded; a batch handed to the sink is eventually executed |
| `online_no_row_get` | 1 user, sink | `BatchLands`, violated | see section 5 |
| `delta_writers` | 1 user, 2 windows, 2 dates, sink with errors and a death, a backfill whose task may be given up on before its job | `TypeOK WrittenIsStored OneBatchPerDay RowsGoOnlyForABatch ReplayChangesNothing Settles` | a batch reported as written is stored, the sink's rows of a user and date come from one batch, a committed row goes only when a MERGE puts a row of its batch for the same user and date in its place or when the creating overwrite saw it, a replayed MERGE changes nothing, and every batch is eventually committed |
| `delta_window_rows` | 1 user, 2 windows, nothing fails | `RowsAreMerged`, violated | see section 5 |
| `registry_seed` | 3 workers, 3 seeds with 2 lineage steps, 2 deaths | `TypeOK SeededOnce ServingIsSeeded EveryWorkerServes ImplementsCatalog` | workers that race for the empty registry leave each definition once with its lineage, serve only when all are there, and all come up; clients see a catalogue that is completed at once |
| `joins_rows` | 2 users, 2 sessions each, 3 events, 9 instants, windows of 2, 4 and 6 instants, a range of 6 | `TypeOK OwnWindowsAreJoined OfflineEqualsOnline` | the row meant is among those the joins make; a backfill computes what lies in its range as if it had all events |
| `pipeline` | 2 events, a queue of 1, 2 calls, 2 sends, 2 queries, any number of deaths of the streaming process, one retired offset | `TypeOK NothingVanishes CopiesAreSends StoresFollowTopic StopsWhenTold QueriesCatchUp ImplementsLog` | no event vanishes from a running generator, copies are at most sends, each store holds what its query has committed and nothing it has not planned, a generator told to stop stops, and both queries, consumers that confirm only what they hold, reach the end of the topic unless the process is ended for ever |
| `consistency_checks` | 2 users with hashes that come and go, 2 tries, 2 deaths | `TypeOK OnlyDeathsFail ChecksEnd` | only tries that died fail a run, and every check ends, whatever vanishes while it reads |
| `consistency_skew` | the same, the offline store giving every user 20000 millionths | `SkewAlarms`, violated | see section 5 |
| `drift_dag` | 2 features, one unknown to the registry, 2 tries, 3 calls, 2 runs, a DAG with an API key and requests without | `TypeOK RcaIsDue AlertIsAnalysed AlertsAreUrgent EveryRunEnds EveryAnalysisAnswers` | whichever tries die and whatever the model API does, an analysis runs only for this run's alert, an alert among the last results of a run that ends well is followed by an analysis, no alert is rated low, and everything started ends |
| `drift_most_severe` | 2 features, 1 run | `MostSevereIsAnalysed`, violated | see section 5 |

Bounds. `MaxTime` stops the clock: a TTL of 3 and a clock to 4 let keys be written,
reach the threshold, be extended, expire and be written again, with a DAG period in
between; in `online_faults` it stops at 3, when the first keys expire and may be written or
reloaded again. Its three fields are two that every writer has and one that the `feature_fn` leaves out. A run of
the DAG is due at 3 and may start late, and a key written at 1 then has less than the threshold of 2 left: at 4
it is either extended or a counterexample to `RunsLeaveAMargin`. Two users are enough for a batch, a scan or a sample to treat them differently;
they are symmetric. `MaxPending` = 1 task per user at a time: tasks commute. Three
attempts as in the code. Where the instance allows, the clock stopping lets the system
still move (Redis may always save and reload), so deadlock is checked everywhere.

In `delta_writers` one user and two windows are enough for a source row to meet an old row
of its own, another one of its date, and none; three ticks are two stamps of one date and one of the next, so
a MERGE also meets rows that it must leave alone. The backfill has one attempt, whose job
may go on when Airflow has given its task up; more attempts, and with them Airflow's one retry, and other users'
rows are covered by the theorems, which hold for any number. In `registry_seed` a third worker, beyond the two of the
image, is a second container or a replacement, and three seeds give a first, a middle
and a last one, each of which may be there already.

In `joins_rows` a base window has two instants, so that an inclusive end of the range cuts
through one; the range holds a window of every length and leaves events on both sides. Three
events are a purchase, a cart event and a page view, or copies; no property looks at more
than the events of one window.

In `drift_dag` two tries let one die between any two of its steps, two runs let a run
start with the last one's leftovers, and with two features the analysed one can be the only
one drifting, one of two or not the first. PSI values 0 and 20 are the lowest one and the alert threshold itself, where
`<` and `<=` part. The warning threshold is reached through KS.

In `pipeline` a queue of one event is full with the first, so that the second is refused, once
without and once with the end of the generator, or finds room after a poll; two sends are the
fewest that can copy an event or lose it; two events and two offsets make the batches of the
two queries differ, and let one query start after an event that the other has. `MaxPerTrigger` is
2 and never cuts a batch there; the theorems hold for every value. In `consistency_checks` the values are 0, 10 and
20000 millionths: a hash of zeros, one so small that the 1e-6 counts, and one where it
does not (TLC's integers have 32 bits). `PageNoise` goes past 1 % so that the page
does report inconsistent users. Two users let one hash
vanish while the other is read.

Fairness (`FairSpec`, only for `BatchLands`): weak fairness of `SinkReplay` (docker restarts
the process and Spark runs the uncommitted batch) and of `SinkCommit` (the driver goes
on), strong fairness of `SinkExecute` (Redis does not fail at every attempt). None is
assumed of the DAG, the refresher, the API or Redis' own steps.
`DeltaTable!FairSpec`, for `Settles`: weak fairness of the sink's own steps, replay
included; nothing has to succeed, since an error leads to the fallback. Deaths are bounded by
`MaxCrashes`. `Registry!FairSpec`, for `EveryWorkerServes`: weak fairness of each worker's
start-up, failure and restart (uvicorn's supervisor, `restart: unless-stopped`); none of
the deaths and stops. `DriftMonitoring!FairSpec`: weak fairness of the DAG's steps
(Airflow's workers go on) and of each analysis (a call to the model ends, if only by the
client's timeout); that the model ever answers is not assumed, and neither
are failures. `StreamingPipeline!FairSpec`: weak fairness of each query's own steps (Spark
goes on with them, and docker restarts the process), and of the return of a flush, which has a
timeout; none of Kafka's answers, and none of the steps of a generator that runs. The process may end
any number of times, so `QueriesCatchUp` has a condition: that it is not ended infinitely
often. A sink that raises at every replay, as the Redis sink does today (section 5), ends both
queries for ever.
`ConsistencyCheck!FairSpec`: weak fairness of each check's own steps; Redis or the
database need not answer, since a step that fails is `Dies` or `Breaks`.

## 4. What is proved

`OnlineStoreProofs` proves for every set of users, fields, windows, every TTL, period,
threshold, sample and retry bound (assumptions `TimesAssumption`, `BoundsAssumption`,
`DataAssumption`):

| Theorem | Statement | Under |
|---|---|---|
| `TypeCorrect` | `Spec => []TypeOK` | nothing more |
| `StoreSafe` | `Spec => []StoreInv` | nothing more |
| `KeysExpire` | `Spec => []EveryKeyExpires` | nothing more |
| `VectorsAreWhole` | `Spec => []ServedWhole` | nothing more |
| `IndexIsComplete` | `Spec => []IndexCoversKeys` | no eviction |
| `DeadlinesOnlyMoveOn` | `Spec => DeadlineNeverMovesBack` | `RefreshTTL = TTL` |
| `StampsOnlyMoveOn` | `Spec => ComputedAtNeverRegresses` | no `feature_fn`, no bulk writes |
| `StoreIsTTLCache` | `Spec => ImplementsTTLCache` | nothing more |
| `RunsLeaveMargins` | `Spec => RunsLeaveAMargin` | `Sufficient` |
| `LongerThresholdSuffices` | `Spec => NoneRunsOut` | `Sufficient`, `StaleBelow >= Period` |
| `WithoutGetStoreStaysEmpty` | `Spec => []NothingInStore` | `~RowHasGet`, no `feature_fn`, no bulk writes |

`Sufficient` is: the users are finitely many and every run samples them all, `TTL` and `RefreshTTL` are at
least `StaleBelow`, and Redis does not crash.

The argument. `EveryKeyExpires` is not inductive: a hash may come from the snapshot, and
whether it has a deadline, and a near enough one, depends on the store it was saved from. `StoreInv`
therefore says the same of both: `Sound(store, now)` and `Sound(savedStore, now)` (`Unmixed`,
not from the future, a deadline at most `MaxLife` ahead), and of the store also that
nothing in it has expired; `InFlightOK` carries what a batch or a refresh in progress may
still write. The lemmas `WriteSound`, `ExpireSound`, `UnexpiredSound` and `WithoutSound`
say that each thing that happens to a key space preserves this, and rest on
`RedisHashProofs` (`MergeEffect`: after HSET a field is the new row's if that has it, else
the old one's).
`StepKinds` then sorts all steps into a few kinds (rows written, deadlines moved, Redis'
own steps, nothing), from which the action properties and the refinement follow by cases.
`StampsOnlyMoveOn` needs one invariant more, `BatchIsNewest`: while the sink holds a
batch, nothing in memory or on disk is newer, so that a replay cannot step back.

`RunsLeaveMargins` needs what a run under way may still do. Its invariant `Attended`: unless a run
is due or the last one failed, every indexed key lives until the last run plus the threshold (`HasMargin`), or the run under
way has it still to look at or to extend. `LongerThresholdSuffices` is the conclusion an operator can
draw: with a threshold of a whole period, no indexed key runs out between runs that do not fail. The deployed one is a
fifth of it (section 5).
`WithoutGetStoreStaysEmpty` generalises `online_no_row_get`: as long as rows do not answer `row.get`,
no user ever has a hash, whatever else is deployed, however often Spark tries.

`DeltaTableProofs` proves for every set of users, every window range, day length, backfill
range, number of attempts and deaths:

| Theorem | Statement |
|---|---|
| `DeltaTypeCorrect` | `Spec => []TypeOK` |
| `DeltaSafe` | `Spec => []DeltaInv` |
| `BatchesAreStored` | `Spec => []WrittenIsStored` |
| `DaysAreWhole` | `Spec => []OneBatchPerDay` |
| `RowsGoForBatches` | `Spec => RowsGoOnlyForABatch` |
| `ReplaysAreHarmless` | `Spec => ReplayChangesNothing` |
| `MergeableBatchesAreMerged` | `Spec => [](Mergeable => RowsAreMerged)`, where nothing fails of itself and no backfill can create the table |

The argument. Neither storage nor the unity of a day follows from the table alone: a MERGE
decides on its snapshot what to update and what to insert, and the table may have moved
since. `DeltaInv` therefore carries `Snapshot`: while the sink's transaction runs, the
snapshot holds every row the sink ever wrote, because the only other writer appends rows
of its own. `MergedOneBatch` and `MergedRows` are the facts about one MERGE (what it leaves is a row of
the batch, or an old one that the batch does not match), and
`WriteInv` and `CommitInv` put them together for the two commits. `RowsGoForBatches` takes both: a row
that goes was in the snapshot and is matched, and the batch row that matches it is in the
result. `MergeAgain` is the replay:
merging rows that are there already updates each to itself and inserts none.
`MergeableBatchesAreMerged` is the other side of `delta_window_rows`: `Mergeable` is a batch with one
row per user, which no table can make ambiguous, so through deaths and replays such a batch is in the
table when it counts as written. The run's batch has two rows of a user, and is not.

`RegistryProofs` proves for every number of workers, seeds, lineage steps and deaths:

| Theorem | Statement |
|---|---|
| `RegistryTypeCorrect` | `Spec => []TypeOK` |
| `RegistrySafe` | `Spec => []RegistryInv` |
| `DefinitionsAreSeededOnce` | `Spec => []SeededOnce` |
| `ServersAreSeeded` | `Spec => []ServingIsSeeded` |
| `RegistryIsCatalog` | `Spec => ImplementsCatalog` |
| `SeedingNeverDeadlocks` | `Spec => [](WaitsLookForward /\ SomebodyGoesOn)` |

The argument. That a commit makes every name count exactly one needs to know what the
transaction passed over and what it holds: `Passed` (a name behind the loop is committed or
added) and `Exclusive` (an added name is in no other transaction and not committed).
`OneWorkerMoves` reduces every step but the commit to what one worker may hold (`Fits`);
`CommitKeeps` uses both parts at the end of the loop, through `CommitCompletes`: after a commit every
name has one row and its lineage. The refinement rests on the same fact (`CommitPublishes`); that
no other step shows a client anything (`OthersShowNothing`) is what `Exclusive` rules
out of a failing or dying transaction.
`SeedingNeverDeadlocks` is the part of `EveryWorkerServes` that is a matter of safety, and holds for
more workers than a run can have: since all transactions insert in the order of the seeds (`AddedBehind`)
and no name is there twice, a worker waits only for one further on (`WaitsLookForward`); the furthest of
those with an open transaction therefore waits for nobody (`SomebodyGoesOn`, by `Greatest`).

`FeatureJoinsProofs` proves for all events, window lengths and ranges
(`WindowsAssumption`: the cart window is a whole number of base windows):

| Theorem | Statement |
|---|---|
| `OfflineIsOnline` | `Spec => []OfflineEqualsOnline` |
| `RowMeantExists` | `Spec => []OwnWindowsAreJoined` |
| `CountsMakeSense` | `Spec => []TypeOK` |

The argument. The first two are about operators; the only invariant they need is that the topic
holds events. `WithinIsKept`: a window inside the range takes in no instant outside it, so
`SameGroup`. `Aligned` and `CartWindow`: a base window, whatever its length, never
crosses the end of a tumbling window that is a multiple of it; the sliding windows have one
that begins with it. The row is then put together from these windows.

`TypeOK` bounds the sizes of bags, which the model counts with a fold over the elements
(`Number`). `NumberCountsCopies` gives that fold a meaning without computing it: it is the cardinality of
the set of copies. The induction is `FiniteSetInduction`, from the library's fact that strict
inclusion is well-founded on finite sets; it is stated for a set of subsets instead of an operator on
them, so that the provers can instantiate it. From there
`OneCopyMore` (an arrival adds one), `PartIsNoMore` (a part of a bag has no more) and
`SessionsOfABag` (no more sessions than events) follow from the library's theorems on finite sets.

`StreamingPipelineProofs` proves for every number of events and queries, every queue, batch, retry
and trigger limit, every retention, and a process that dies at will (`IngestionAssumption`,
`PipelineAssumption`):

| Theorem | Statement |
|---|---|
| `PipelineTypeCorrect` | `Spec => []TypeOK` |
| `PipelineSafe` | `Spec => []PipelineInv` |
| `EventsDoNotVanish` | `Spec => []NothingVanishes` |
| `CopiesAreBounded` | `Spec => []CopiesAreSends` |
| `StoresFollow` | `Spec => []StoresFollowTopic` |
| `StoresConsumeTheLog` | `Spec => ImplementsLog` |

The argument. `NothingVanishes` fails at a poll that drops an acknowledged event unless that event is known
to be in the topic (`AckedIsThere`), and `CopiesAreSends` at an append unless whoever waits
has a send left (`SendsLeft`); a new event has no copies because events not yet made are
nowhere (`FutureIsNowhere`). For the stores, `Ordered` keeps the offsets of a checkpoint in
order and says that a batch that ran has landed, which is what its commit needs. Ingestion's
steps leave the stream alone but for the growing `end`, and the stream's steps leave ingestion
alone, so each half is proved on its own. The refinement takes the halves the same way:
`IngestionAppends` (a step of ingestion appends or stutters), and `AdvanceConsumes` (a step of a
query attaches, takes, confirms or stutters), where a commit needs `Ordered` to hold what it
confirms.

`ConsistencyCheckProofs` proves for all finite sets of users, all features and integer values, every
sample size, number of tries and deaths, and every perturbation within half a percent in
the DAG (`CheckAssumption`):

| Theorem | Statement |
|---|---|
| `ThresholdsAgree` | the 5 % of the DAG, the 1 % of `is_healthy` and the levels of the skew never contradict one another |
| `CheckTypeCorrect` | `Spec => []TypeOK` |
| `CheckSafe` | `Spec => []CheckInv` |
| `AlarmIsUnreachable` | `Spec => [](outcome # "trigger_rca")` |
| `OnlyDeathsFailRuns` | `Spec => []OnlyDeathsFail` |

The argument. `SmallNoiseIsFine` is the arithmetic: both sides come from the one value that was read,
so a perturbation of at most 9 thousandths is below 1 % of either, whatever the value and its
sign. Hence nobody is inconsistent, the report is 0 of `n`, and `Alarming` is false:
`AlarmIsUnreachable` is the general form of `consistency_skew`, since neither the hashes nor `Delta`
enter. It says what the code does, not that it is as it should be. The type invariant needs `ReadsAreSampled`, which ties the report to
the sample size; `OnlyDeathsFail` needs `tries <= deaths`.

`DriftMonitoringProofs` proves for every number of features, tries, calls, callers and
runs, and every threshold with `Moderate < Alert` (`RcaAssumption`, `DriftAssumption`):

| Theorem | Statement |
|---|---|
| `DriftTypeCorrect` | `Spec => []TypeOK` |
| `DriftSafe` | `Spec => []DriftInv` |
| `AnalysesAreDue` | `Spec => []RcaIsDue` |
| `AlertsAreAnalysed` | `Spec => []AlertIsAnalysed` |
| `AlertsNeverLow` | `Spec => []AlertsAreUrgent` |
| `FirstDrifterIsAnalysed` | `Spec => []FirstIsAnalysed /\ [](AlertsComeFirst => MostSevereIsAnalysed)` |

The argument. Task `rca` reads what task `detect` pushed, perhaps in an earlier try, so
`RcaIsDue` needs to know what has been pushed at each step of a try: `Handed` says that the
pushed keys are those of the try's own results. Type correctness needs the
same of the counters: `CallsLeft` (whoever is about to call has a call left) and
`RowsOfTries` (a row is there at most once per try that came past its insert, by `StepOf`).
`BesideKeeps` covers all steps that leave the run alone, `EndKeeps` those that end it;
`RowOfStep` ties a step to the row it inserts. `FirstDrifterIsAnalysed` says what
`drift_most_severe` refutes and what holds instead: the feature analysed is the first that drifts in the
run's last results, which is a most severe one as long as no warning precedes an alert
(`AlertsComeFirst`).

Every invariant, action property and refinement that a passing run checks is stated by a theorem.
Only model-checked is liveness, `BatchLands`, `Settles`, `EveryWorkerServes`, `EveryRunEnds`,
`EveryAnalysisAnswers`, `StopsWhenTold`, `QueriesCatchUp` and `ChecksEnd`: it needs fairness, hence
ENABLED, which is beyond the prover. The violated properties are refuted by TLC's
counterexamples. `MergeableBatchesAreMerged` and `FirstDrifterIsAnalysed` give conditions under which two
of them hold; `WithoutGetStoreStaysEmpty` and `AlarmIsUnreachable` show of the other two that they fail for
every value of the constants.

## 5. Where the code and its documents disagree

* `redis_sink.py:41-47` calls `row.get(...)`; a pyspark `Row` has no such method. Every
  batch raises, the query ends, the restarted process replays it: features never land.
  (`online_no_row_get`; README.md "Verify features are landing in Redis".)
* The consistency DAG is to "fetch offline (Delta) + online (Redis) features, compute consistency"
  (`consistency_validation_dag.py:24`) and to alert on a skew above 5 % (`docs/architecture.md:67, 69`,
  `docs/runbook.md:64`). Lines 48-55 make the offline side from the online one, as the comment
  there says: the rate is 0 whatever Delta has, and `trigger_rca` is never taken.
  (`consistency_skew`)
* The merge condition of `delta_sink.py:39` is user and date, a batch has a row per user
  and window: MERGE refuses it and the batch goes to `fallback_parquet`, which nothing
  reads. (`delta_window_rows`; docstring "Merges feature rows into Delta Lake", line 19.)
* `feature_definitions.py:105` promises "a single row per user per window"; the joins drop
  the windows and make every combination of a user's. A single purchase, in 12 hour windows and 288
  day windows, makes 3456 rows of one base window, and which of them is served is open
  (`redis_sink.py:37`). It is the same rows that `delta_window_rows` sees MERGE refuse.
* `drift_monitoring_dag.py:108` promises RCA "for the most severely drifting feature"; line
  116 takes `drifting[0]`, the first of `FEATURE_NAMES` that is not ok, so a warning is
  analysed in place of an alert. (`drift_most_severe`)

Not a contradiction, but worth knowing: the overwrite of `delta_sink.py:46-53` decides on a check
made earlier, so rows that a backfill committed in between are erased; and a MERGE overwrites, column by
column, the rows a backfill has for a user and date that get a batch. Nothing promises
otherwise, and `RowsGoOnlyForABatch` says that committed rows go in no other way. `admin.py:18` sets 300 s whatever
`FEATURE_TTL_SECONDS` is, so with a longer TTL a refresh would shorten a key's life:
`DeadlinesOnlyMoveOn` needs `RefreshTTL = TTL`, which the defaults satisfy.

* The consistency DAG writes its metric for the feature `all_features`, which the registry
  does not have: the foreign key (`models.py`) refuses the row, the task prints the error and goes on, and
  page 04's history of such metrics stays empty. `OnlyDeathsFail` says that no run fails over it.
* The page's Gaussian noise passes 1 % now and then, so there an inconsistent user is chance.
* The refresh DAG's period equals the TTL and its threshold is a fifth of it. A key that has 60 s or
  more at a run is not extended and may be gone before the next one; `docs/runbook.md:71` promises
  no more. `RunsLeaveAMargin` says that no other indexed key runs out between runs, unless one fails.
* A check whose sampled hashes are all gone compares nobody and reports a rate of 0.
* A full producer queue is tried again without a poll, so only librdkafka's own thread can
  make room; finished deliveries stay until their report is served. The fifth refusal ends the generator with all it
  had queued.
* Either query's failure ends both, since the driver waits for any termination. The two may
  start at different offsets, and an event past the retention while the process is down is
  skipped silently. `StoresFollowTopic` says that the batches handed to the two sinks differ in
  no other way; what a sink does with its batch (MERGE or fallback, `delta_window_rows`) is another matter.
* `fetch_feature_freshness` counts the users of the index, expired ones included, and takes `now`
  before it reads, so an age may come out negative. It is shown, never decided upon.
* `drift_monitoring_dag.py` reports fixed numbers to the engine and nothing saves a baseline
  (`baseline_manager.py:37`): both are modelled as they are. Where no operator saves
  baselines the DAG never sees drift.

## 6. Not modelled

* **Airflow's hooks plugin** (`airflow/plugins/feature_store_hooks.py`): wrappers around
  connections, used by no DAG.
* **Dashboard pages** other than the live check of page 04: they read Redis, PostgreSQL and
  the API and draw; nothing they do changes a state, and each redraw starts anew.
* **Health, metadata, middleware, offline reads**: read-only, one request at a time.
* **Functions that no code of the repository calls**: `record_rca` and `record_metric` of
  `registry_service.py`, `emit_skew_alert`, `OPTIMIZE` and the point-in-time readers of
  `offline_store/`.
* **Statistics**: PSI with its logarithms, KS and Z are reals; their outcomes are
  nondeterministic in `DriftMonitoring`, and what is decided on them is modelled. The float
  arithmetic of `ConsistencyCheck` is exact there, as it is not in the code.
* **Spark's watermark and the state of its joins**, and whether Spark accepts the query plan of
  `feature_processor.py`: which events are too late is decided inside Spark.
* **Loss of a checkpoint or of the volume that holds it**, librdkafka's five minutes for a
  delivery, several brokers or partitions.
* **Memory accounting in Redis** and its choice of the evicted key (any key may be evicted),
  clocks of different hosts (one clock), prompts, logging and the wording of responses.
