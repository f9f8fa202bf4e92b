----------------------------- MODULE DeltaTable -----------------------------
(***************************************************************************)
(* The offline store: the Delta table user_features, written by              *)
(*                                                                          *)
(*   streaming/delta_sink.py, called by Spark for every batch: MERGE when    *)
(*     the table is there, an overwrite that creates it when it is not, and   *)
(*     a directory of parquet files when Delta raises;                        *)
(*   offline_store/backfill.py, an append, run by airflow/dags/backfill_dag   *)
(*     with one retry.                                                        *)
(*                                                                          *)
(* Delta's optimistic commits are external: a transaction works on the        *)
(* snapshot it began with, a blind append never conflicts, and creating the    *)
(* table conflicts with whoever created it meanwhile.                         *)
(*                                                                          *)
(* A row is its columns: who computed the values and for which window of the  *)
(* batch stand for the features, `at' is computed_at, and event_date follows  *)
(* from it.  A MERGE rewrites all of them, so nothing of a matched row stays. *)
(* Rows that agree in every column (copies made by the joins) are one: how     *)
(* often a row is in the table or in the fallback is not counted.             *)
(***************************************************************************)
EXTENDS Integers

CONSTANTS
    Users,
    Windows,        \* windows a user may have rows for in one batch
    DayLen,         \* ticks in an event_date
    Preexisting,    \* whether the table is there from the start
    Range,          \* the moments between --start and --end of the backfill
    Attempts,       \* 1 + retries of the backfill task
    WithBackfill,   \* whether somebody triggers the backfill DAG
    WithFailures,   \* whether Delta, Spark or Airflow raise of themselves
    MaxCrashes,     \* bound: how often the streaming process dies
    MaxTime         \* bound: where the clock stops

ASSUME DeltaAssumption ==
    /\ DayLen \in Nat \ {0}
    /\ Windows \subseteq Nat /\ Range \subseteq Nat
    /\ Attempts \in Nat \ {0}
    /\ MaxCrashes \in Nat /\ MaxTime \in Nat
    /\ Preexisting \in BOOLEAN /\ WithBackfill \in BOOLEAN /\ WithFailures \in BOOLEAN

VARIABLES
    now,        \* the clock
    exists,     \* isDeltaTable
    table,      \* the rows of the latest version
    fallback,   \* the rows of fallback_parquet
    sink,       \* the delta_sink query: its batch, how far it got, its snapshot
    crashes,    \* deaths of the streaming process so far
    task,       \* the Airflow task run_spark_backfill
    jobs        \* its spark-submit jobs, one per attempt

store == <<exists, table>>
airflow == <<task, jobs>>
vars == <<now, store, fallback, sink, crashes, airflow>>

-----------------------------------------------------------------------------
(* Data *)

Time == Nat
Stream == 0         \* who computed the sink's rows; attempts are 1, 2, ...
Row == [by : {Stream} \cup 1..Attempts, user : Users, window : Windows \cup {0}, at : Time]
Batches == SUBSET (Users \X Windows)
SinkPhases == {"idle", "collected", "checked", "begun", "failed", "written", "down"}
JobPhases == {"none", "run", "begun", "committed", "dead"}

NoBatch ==
    [phase |-> "idle", rows |-> {}, ts |-> 0, mode |-> "merge", saw |-> FALSE, seen |-> {}]

TypeOK ==
    /\ now \in Time
    /\ exists \in BOOLEAN
    /\ table \subseteq Row
    /\ fallback \subseteq Row
    /\ sink \in [phase : SinkPhases, rows : Batches, ts : Time,
                 mode : {"merge", "create"}, saw : BOOLEAN, seen : SUBSET Row]
    /\ crashes \in 0..MaxCrashes
    /\ task \in [phase : {"idle", "running", "retry", "done", "failed"}, tries : 0..Attempts]
    /\ jobs \in [1..Attempts -> [phase : JobPhases, saw : BOOLEAN]]

Init ==
    /\ now = 0
    /\ exists = Preexisting
    /\ table = {}
    /\ fallback = {}
    /\ sink = NoBatch
    /\ crashes = 0
    /\ task = [phase |-> "idle", tries |-> 0]
    /\ jobs = [a \in 1..Attempts |-> [phase |-> "none", saw |-> FALSE]]

\* event_date = to_date(from_unixtime(computed_at)).
Day(t) == t \div DayLen

\* Variants of the definitions below, each with a mistake a change could make:
\* here a condition on the stamp instead of its date, and one without the date.
MatchesExactly(t, s) == t.user = s.user /\ t.at = s.at
MatchesUser(t, s) == t.user = s.user

\* target.user_id = source.user_id AND target.event_date = source.event_date
Matches(t, s) == t.user = s.user /\ Day(t.at) = Day(s.at)

\* More than one source row for one target row: MERGE raises.
Ambiguous(target, source) ==
    \E t \in target : \E s, q \in source : s # q /\ Matches(t, s) /\ Matches(t, q)

\* whenMatchedUpdateAll on one row: every column becomes the source's.
Updated(t, source) ==
    IF \E s \in source : Matches(t, s) THEN CHOOSE s \in source : Matches(t, s) ELSE t
Unmatched(target, source) == {s \in source : \A t \in target : ~Matches(t, s)}

Merged(target, source) == {Updated(t, source) : t \in target} \cup Unmatched(target, source)

-----------------------------------------------------------------------------
(* streaming/delta_sink.py *)

\* Every row of a batch has the batch's current_timestamp as computed_at.
BatchRow(r) == [by |-> Stream, user |-> r[1], window |-> r[2], at |-> sink.ts]

\* Variant: the sink stamps the rows itself, again at every run.
SourceStampedNow == {[BatchRow(r) EXCEPT !.at = now] : r \in sink.rows}

\* enriched.
Source == {BatchRow(r) : r \in sink.rows}

\* A batch that is not empty reaches the sink.
StreamCollect ==
    /\ sink.phase = "idle"
    /\ \E rows \in Batches \ {{}} :
          sink' = [NoBatch EXCEPT !.phase = "collected", !.rows = rows, !.ts = now]
    /\ UNCHANGED <<now, store, fallback, crashes, airflow>>

\* DeltaTable.isDeltaTable.
StreamCheck ==
    /\ sink.phase = "collected"
    /\ sink' = [sink EXCEPT !.phase = "checked", !.mode = IF exists THEN "merge" ELSE "create"]
    /\ UNCHANGED <<now, store, fallback, crashes, airflow>>

\* MERGE or the overwrite takes its snapshot.
StreamBegin ==
    /\ sink.phase = "checked"
    /\ sink' = [sink EXCEPT !.phase = "begun", !.saw = exists, !.seen = table]
    /\ UNCHANGED <<now, store, fallback, crashes, airflow>>

\* The table was created after the snapshot of whoever wants to create it.
CreatedMeanwhile == ~sink.saw /\ exists
Rejected ==
    IF sink.mode = "merge" THEN Ambiguous(sink.seen, Source) ELSE CreatedMeanwhile

\* A transaction that replaces what it saw.
Replacing(rows) == (table \ sink.seen) \cup rows

\* The commit: MERGE and the overwrite rewrite what they saw.  Delta may still raise
\* after it, in a post-commit hook.
StreamWrite ==
    /\ sink.phase = "begun"
    /\ ~Rejected
    /\ exists' = TRUE
    /\ table' = Replacing(IF sink.mode = "merge" THEN Merged(sink.seen, Source) ELSE Source)
    /\ \/ sink' = [sink EXCEPT !.phase = "written", !.seen = {}]
       \/ /\ WithFailures
          /\ sink' = [sink EXCEPT !.phase = "failed", !.seen = {}]
    /\ UNCHANGED <<now, fallback, crashes, airflow>>

\* Variants: the exception ends the query, and is swallowed without a fallback.
StreamErrorUncaught ==
    /\ sink.phase = "begun"
    /\ WithFailures \/ Rejected
    /\ sink' = [sink EXCEPT !.phase = "down", !.seen = {}]
    /\ UNCHANGED <<now, store, fallback, crashes, airflow>>

\* Any exception inside the try block.
StreamError ==
    /\ \/ sink.phase \in {"collected", "checked", "begun"} /\ WithFailures
       \/ sink.phase = "begun" /\ Rejected
    /\ sink' = [sink EXCEPT !.phase = "failed", !.seen = {}]
    /\ UNCHANGED <<now, store, fallback, crashes, airflow>>

StreamSwallow ==
    /\ sink.phase = "failed"
    /\ sink' = [sink EXCEPT !.phase = "written"]
    /\ UNCHANGED <<now, store, fallback, crashes, airflow>>

\* The append to fallback_parquet.
StreamFallback ==
    /\ sink.phase = "failed"
    /\ fallback' = fallback \cup Source
    /\ sink' = [sink EXCEPT !.phase = "written"]
    /\ UNCHANGED <<now, store, crashes, airflow>>

\* The sink returns and Spark commits the batch.
StreamCommit ==
    /\ sink.phase = "written"
    /\ sink' = NoBatch
    /\ UNCHANGED <<now, store, fallback, crashes, airflow>>

\* The process dies: also when the other query or the fallback's append fails.
StreamCrash ==
    /\ crashes < MaxCrashes
    /\ sink.phase \notin {"idle", "down"}
    /\ sink' = [sink EXCEPT !.phase = "down", !.seen = {}]
    /\ crashes' = crashes + 1
    /\ UNCHANGED <<now, store, fallback, airflow>>

\* Docker restarts it, and Spark runs the uncommitted batch again.
StreamReplay ==
    /\ sink.phase = "down"
    /\ sink' = [NoBatch EXCEPT !.phase = "collected", !.rows = sink.rows, !.ts = sink.ts]
    /\ UNCHANGED <<now, store, fallback, crashes, airflow>>

-----------------------------------------------------------------------------
(* airflow/dags/backfill_dag.py and offline_store/backfill.py *)

\* Somebody triggers the DAG, or the retry comes up: docker exec ... spark-submit.
BackfillStart ==
    /\ WithBackfill
    /\ task.phase \in {"idle", "retry"}
    /\ task' = [phase |-> "running", tries |-> task.tries + 1]
    /\ jobs' = [jobs EXCEPT ![task.tries + 1].phase = "run"]
    /\ UNCHANGED <<now, store, fallback, sink, crashes>>

\* write_features reaches Delta.
BackfillBegin(a) ==
    /\ jobs[a].phase = "run"
    /\ jobs' = [jobs EXCEPT ![a] = [phase |-> "begun", saw |-> exists]]
    /\ UNCHANGED <<now, store, fallback, sink, crashes, task>>

\* Its rows: of some users, for windows of the range that started by now;
\* computed_at is the start of the window.
Backfilled(a, windows) ==
    {[by |-> a, user |-> p[1], window |-> 0, at |-> p[2]] : p \in windows}

\* The append commits; it conflicts only over the creation of the table.
BackfillCommit(a) ==
    /\ jobs[a].phase = "begun"
    /\ jobs[a].saw \/ ~exists
    /\ \E windows \in SUBSET (Users \X {t \in Range : t <= now}) : table' = table \cup Backfilled(a, windows)
    /\ exists' = TRUE
    /\ jobs' = [jobs EXCEPT ![a].phase = "committed"]
    /\ UNCHANGED <<now, fallback, sink, crashes, task>>

\* The job fails before its commit.
BackfillDie(a) ==
    /\ \/ jobs[a].phase \in {"run", "begun"} /\ WithFailures
       \/ jobs[a].phase = "begun" /\ ~jobs[a].saw /\ exists
    /\ jobs' = [jobs EXCEPT ![a].phase = "dead"]
    /\ UNCHANGED <<now, store, fallback, sink, crashes, task>>

TaskSucceed ==
    /\ task.phase = "running"
    /\ jobs[task.tries].phase = "committed"
    /\ task' = [task EXCEPT !.phase = "done"]
    /\ UNCHANGED <<now, store, fallback, sink, crashes, jobs>>

\* Variant: retried without counting.
TaskRetriesForever ==
    /\ task.phase = "running"
    /\ WithFailures \/ jobs[task.tries].phase = "dead"
    /\ task' = [task EXCEPT !.phase = "retry"]
    /\ UNCHANGED <<now, store, fallback, sink, crashes, jobs>>

\* spark-submit reports an error, or Airflow loses docker exec: the job may have
\* committed, or may still be running inside its container.
TaskFail ==
    /\ task.phase = "running"
    /\ WithFailures \/ jobs[task.tries].phase = "dead"
    /\ task' = [task EXCEPT !.phase = IF task.tries < Attempts THEN "retry" ELSE "failed"]
    /\ UNCHANGED <<now, store, fallback, sink, crashes, jobs>>

-----------------------------------------------------------------------------

Tick ==
    /\ now < MaxTime
    /\ now' = now + 1
    /\ UNCHANGED <<store, fallback, sink, crashes, airflow>>

\* What the sink and Spark do on their own once a batch has been collected.
StreamStep ==
    \/ StreamCheck \/ StreamBegin \/ StreamWrite \/ StreamError
    \/ StreamFallback \/ StreamCommit \/ StreamReplay
Backfill ==
    \/ BackfillStart \/ TaskSucceed \/ TaskFail
    \/ \E a \in 1..Attempts : BackfillBegin(a) \/ BackfillCommit(a) \/ BackfillDie(a)

Next == StreamCollect \/ StreamStep \/ StreamCrash \/ Backfill \/ Tick
Spec == Init /\ [][Next]_vars

\* Spark's driver goes on with a batch, and docker restarts a dead process.
FairSpec == Spec /\ WF_vars(StreamStep)

-----------------------------------------------------------------------------
(* What must hold *)

\* A batch that the sink reports as written (delta_sink.py:65) is held by the table,
\* each row with the values it came with, or by the fallback, whatever raised, whoever
\* created the table meanwhile and however often the batch was run.
WrittenIsStored ==
    sink.phase = "written" => \A r \in sink.rows : BatchRow(r) \in table \cup fallback

\* All rows the sink keeps for a user and date come from one batch: the MERGE
\* (delta_sink.py:36-44) never leaves rows of two batches side by side, although a
\* batch may have several rows per user and a backfill may commit in between.
OneBatchPerDay ==
    \A r, q \in table :
        r.by = Stream /\ q.by = Stream /\ r.user = q.user /\ Day(r.at) = Day(q.at)
            => r.at = q.at

\* Merging a batch again that the table holds (a crash after the MERGE, before
\* Spark's commit) changes nothing.
Held ==
    \A r \in sink.rows :
        /\ BatchRow(r) \in table
        /\ \A t \in table : t.user = r[1] /\ Day(t.at) = Day(sink.ts) => t = BatchRow(r)
ReplayChangesNothing ==
    [][StreamWrite /\ sink.mode = "merge" /\ sink.seen = table /\ Held => table' = table]_vars

\* What makes a committed row go: the creating overwrite (delta_sink.py:45-53), when
\* it saw the row, or a MERGE (delta_sink.py:36-44) that saw it and put a row of its
\* batch, of the same user and date, in its place.  What a backfill appends while
\* either is under way stays, and so do other dates and other users; a backfilled row
\* whose user and date get a batch does not.
RowsGoOnlyForABatch ==
    [][\A r \in table \ table' :
          /\ sink.phase = "begun" /\ r \in sink.seen
          /\ \/ sink.mode = "create" /\ sink.saw
             \/ \E b \in sink.rows :
                   /\ b[1] = r.user /\ Day(sink.ts) = Day(r.at)
                   /\ BatchRow(b) \in table']_vars

\* A batch that reached the sink is eventually committed, whatever Delta raises
\* (the except clause, delta_sink.py:54) and whenever the process dies.
Settles == sink.phase = "collected" ~> sink.phase = "idle"

\* The strengthening behind the first two, of what a transaction under way may
\* rely on: its snapshot holds every row the sink ever wrote, and nothing of it goes.
Snapshot ==
    sink.phase = "begun" =>
        /\ sink.seen \subseteq table
        /\ \A r \in table : r.by = Stream => r \in sink.seen
        /\ ~sink.saw => sink.seen = {}
TriesLeft ==
    /\ task.phase = "idle" => task.tries = 0
    /\ task.phase = "retry" => task.tries < Attempts
DeltaInv ==
    /\ TypeOK
    /\ table # {} => exists
    /\ Snapshot
    /\ TriesLeft
    /\ OneBatchPerDay
    /\ WrittenIsStored

\* "Merges feature rows into Delta Lake" (delta_sink.py:19): when nothing fails of
\* itself, the rows of a written batch are in the table.
RowsAreMerged == sink.phase = "written" => \A r \in sink.rows : BatchRow(r) \in table

=============================================================================
