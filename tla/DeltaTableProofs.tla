-------------------------- MODULE DeltaTableProofs --------------------------
(***************************************************************************)
(* Theorems about DeltaTable, for every value of its constants.              *)
(***************************************************************************)
EXTENDS DeltaTable, TLAPS

\* What a row becomes: one of the batch's rows if some match it, itself if none does;
\* its user and its day do not change.
LEMMA UpdatedRow ==
    ASSUME NEW S \in SUBSET Row, NEW t \in Row
    PROVE  /\ Updated(t, S) \in Row
           /\ Updated(t, S).user = t.user
           /\ Day(Updated(t, S).at) = Day(t.at)
           /\ (\E s \in S : Matches(t, s)) => Updated(t, S) \in S /\ Matches(t, Updated(t, S))
           /\ ~(\E s \in S : Matches(t, s)) => Updated(t, S) = t
<1>1. CASE \E s \in S : Matches(t, s)
  <2> DEFINE c == CHOOSE s \in S : Matches(t, s)
  <2>1. c \in S /\ Matches(t, c)  BY <1>1
  <2>2. Updated(t, S) = c  BY <1>1 DEF Updated
  <2> QED  BY <1>1, <2>1, <2>2 DEF Matches
<1>2. CASE ~\E s \in S : Matches(t, s)
  BY <1>2 DEF Updated
<1> QED  BY <1>1, <1>2

LEMMA SourceRows ==
    ASSUME TypeOK, DeltaAssumption
    PROVE  /\ Source \subseteq Row
           /\ \A s \in Source : s.at = sink.ts /\ s.by = Stream
           /\ \A r \in sink.rows : BatchRow(r) \in Source /\ BatchRow(r).user = r[1]
           /\ \A s \in Source : \E r \in sink.rows : s = BatchRow(r)
           /\ sink.ts \in Time
<1>1. sink.rows \subseteq Users \X Windows /\ sink.ts \in Time  BY DEF TypeOK, Batches
<1>2. \A r \in sink.rows : r[1] \in Users /\ r[2] \in Windows  BY <1>1
<1>3. \A r \in sink.rows : BatchRow(r) \in Row
  BY <1>1, <1>2 DEF Row, BatchRow
<1>4. \A s \in Source : \E r \in sink.rows : s = BatchRow(r)  BY DEF Source
<1>5. \A r \in sink.rows : BatchRow(r) \in Source  BY DEF Source
<1>6. \A r \in sink.rows :
        BatchRow(r).at = sink.ts /\ BatchRow(r).by = Stream /\ BatchRow(r).user = r[1]
  BY DEF BatchRow
<1> QED  BY <1>1, <1>3, <1>4, <1>5, <1>6

LEMMA BackfilledRows ==
    ASSUME DeltaAssumption, NEW a \in 1..Attempts,
           NEW windows \in SUBSET (Users \X {t \in Range : t <= now})
    PROVE  /\ Backfilled(a, windows) \subseteq Row
           /\ \A r \in Backfilled(a, windows) : r.by # Stream
<1> DEFINE AsRow(p) == [by |-> a, user |-> p[1], window |-> 0, at |-> p[2]]
<1>1. \A p \in windows : p[1] \in Users /\ p[2] \in Range  OBVIOUS
<1>2. \A p \in windows : AsRow(p) \in Row  BY <1>1 DEF DeltaAssumption, Row, Time
<1>3. \A r \in Backfilled(a, windows) : \E p \in windows : r = AsRow(p)
  BY DEF Backfilled
<1>4. a # Stream  BY DEF DeltaAssumption, Stream
<1> QED  BY <1>2, <1>3, <1>4

\* The rows a MERGE leaves: all of the batch, and of those it saw the ones that no row
\* of the batch matches.
LEMMA MergedRows ==
    ASSUME NEW T \in SUBSET Row, NEW S \in SUBSET Row, ~Ambiguous(T, S)
    PROVE  /\ Merged(T, S) \subseteq Row
           /\ S \subseteq Merged(T, S)
           /\ \A t \in T : t \in Merged(T, S) \/ \E s \in S : Matches(t, s)
<1>1. \A t \in T : /\ Updated(t, S) \in Row
                   /\ (\E s \in S : Matches(t, s)) =>
                          Updated(t, S) \in S /\ Matches(t, Updated(t, S))
                   /\ ~(\E s \in S : Matches(t, s)) => Updated(t, S) = t
  BY UpdatedRow
<1>2. Merged(T, S) \subseteq Row  BY <1>1 DEF Merged, Unmatched
<1>3. \A t \in T : t \in Merged(T, S) \/ \E s \in S : Matches(t, s)
  BY <1>1 DEF Merged
<1>4. ASSUME NEW s \in S
      PROVE  s \in Merged(T, S)
  <2>1. CASE \E t \in T : Matches(t, s)
    <3>1. PICK t \in T : Matches(t, s)  BY <2>1
    <3>2. Updated(t, S) = s  BY <1>1, <3>1 DEF Ambiguous
    <3>3. Updated(t, S) \in Merged(T, S)  BY DEF Merged
    <3> QED  BY <3>2, <3>3
  <2>2. CASE ~\E t \in T : Matches(t, s)
    BY <2>2 DEF Merged, Unmatched
  <2> QED  BY <2>1, <2>2
<1> QED  BY <1>2, <1>3, <1>4

\* A MERGE keeps the sink's rows of a user and date together.
LEMMA MergedOneBatch ==
    ASSUME NEW T \in SUBSET Row, NEW S \in SUBSET Row, NEW ts \in Time,
           \A s \in S : s.at = ts,
           \A r, q \in T : r.by = Stream /\ q.by = Stream /\ r.user = q.user
                              /\ Day(r.at) = Day(q.at) => r.at = q.at,
           NEW x \in Merged(T, S), NEW y \in Merged(T, S),
           x.by = Stream, y.by = Stream, x.user = y.user, Day(x.at) = Day(y.at)
    PROVE  x.at = y.at
<1> DEFINE Hit(t) == \E s \in S : Matches(t, s)
           Old(t) == /\ Updated(t, S).user = t.user
                     /\ Day(Updated(t, S).at) = Day(t.at)
                     /\ Hit(t) => Updated(t, S).at = ts
                     /\ ~Hit(t) => Updated(t, S) = t
<1>1. \A t \in T : Old(t)  BY UpdatedRow
<1>2. ASSUME NEW t \in T, NEW s \in Unmatched(T, S),
             Updated(t, S).user = s.user, Day(Updated(t, S).at) = Day(s.at)
      PROVE  FALSE
  BY <1>1, <1>2 DEF Unmatched, Matches
<1>3. ASSUME NEW t \in T, NEW u \in T, x = Updated(t, S), y = Updated(u, S)
      PROVE  x.at = y.at
  <2>1. t.user = u.user /\ Day(t.at) = Day(u.at)
    BY <1>1, <1>3
  <2>2. Hit(t) <=> Hit(u)
    BY <2>1 DEF Matches
  <2>3. CASE Hit(t)
    BY <1>1, <1>3, <2>2, <2>3
  <2>4. CASE ~Hit(t)
    <3>1. x = t /\ y = u  BY <1>1, <1>3, <2>2, <2>4
    <3> QED  BY <3>1
  <2> QED  BY <2>3, <2>4
<1>4. CASE x \in Unmatched(T, S) /\ y \in Unmatched(T, S)
  BY <1>4 DEF Unmatched
<1> QED  BY <1>1, <1>2, <1>3, <1>4 DEF Merged

-----------------------------------------------------------------------------

LEMMA InitInv == DeltaAssumption /\ Init => DeltaInv
BY DEF DeltaAssumption, Init, DeltaInv, TypeOK, Snapshot, TriesLeft, OneBatchPerDay,
       WrittenIsStored, NoBatch, Row, Batches, SinkPhases, JobPhases, Time

\* Steps that leave the rows alone and do not end a batch.
LEMMA QuietSink ==
    ASSUME DeltaInv, TypeOK', UNCHANGED <<exists, table, fallback, task>>,
           \/ sink' = sink
           \/ sink'.phase \notin {"begun", "written"}
    PROVE  DeltaInv'
BY DEF DeltaInv, Snapshot, TriesLeft, OneBatchPerDay, WrittenIsStored, BatchRow

LEMMA WriteInv ==
    ASSUME DeltaAssumption, DeltaInv, StreamWrite
    PROVE  DeltaInv'
<1> DEFINE S == Source
           T == sink.seen
<1>1. /\ S \subseteq Row /\ sink.ts \in Time
      /\ \A s \in S : s.at = sink.ts /\ s.by = Stream
      /\ \A r \in sink.rows : BatchRow(r) \in S
  BY SourceRows DEF DeltaInv
<1>2. /\ T \subseteq table /\ T \subseteq Row /\ table \subseteq Row
      /\ \A r \in table : r.by = Stream => r \in T
  BY DEF DeltaInv, TypeOK, Snapshot, StreamWrite
<1>3. \A r, q \in T : r.by = Stream /\ q.by = Stream /\ r.user = q.user
                         /\ Day(r.at) = Day(q.at) => r.at = q.at
  BY <1>2 DEF DeltaInv, OneBatchPerDay
<1> DEFINE R == IF sink.mode = "merge" THEN Merged(T, S) ELSE S
<1>4. table' = (table \ T) \cup R  BY DEF StreamWrite, Replacing
<1>5. R \subseteq Row /\ S \subseteq R
  <2>1. CASE sink.mode = "merge"
    <3>1. ~Ambiguous(T, S)  BY <2>1 DEF StreamWrite, Rejected
    <3>2. Merged(T, S) \subseteq Row /\ S \subseteq Merged(T, S)
      <4> HIDE DEF S, T
      <4> QED  BY <1>1, <1>2, <3>1, MergedRows
    <3> QED  BY <2>1, <3>2
  <2>2. CASE sink.mode # "merge"
    BY <1>1, <2>2
  <2> QED  BY <2>1, <2>2
<1>6. \A x, y \in R : x.by = Stream /\ y.by = Stream /\ x.user = y.user
                         /\ Day(x.at) = Day(y.at) => x.at = y.at
  <2>1. ASSUME NEW x \in Merged(T, S), NEW y \in Merged(T, S), x.by = Stream, y.by = Stream,
               x.user = y.user, Day(x.at) = Day(y.at)
        PROVE  x.at = y.at
    <3> HIDE DEF S, T
    <3> QED  BY <1>1, <1>2, <1>3, <2>1, MergedOneBatch
  <2> QED  BY <2>1, <1>1
<1> HIDE DEF R, S, T
<1>7. sink'.phase \in {"written", "failed"} /\ sink'.ts = sink.ts /\ sink'.rows = sink.rows
      /\ sink'.seen = {} /\ sink'.mode = sink.mode /\ sink'.saw = sink.saw
  BY DEF StreamWrite, DeltaInv, TypeOK
<1>8. TypeOK'
  <2>1. sink' \in [phase : SinkPhases, rows : Batches, ts : Time,
                 mode : {"merge", "create"}, saw : BOOLEAN, seen : SUBSET Row]
    BY DEF StreamWrite, DeltaInv, TypeOK, SinkPhases
  <2>2. table' \subseteq Row  BY <1>2, <1>4, <1>5
  <2> QED  BY <2>1, <2>2 DEF StreamWrite, DeltaInv, TypeOK, airflow
<1>9. OneBatchPerDay'
  BY <1>2, <1>4, <1>6 DEF OneBatchPerDay
<1>10. WrittenIsStored'
  <2>1. \A r \in sink.rows : BatchRow(r)' = BatchRow(r)  BY <1>7 DEF BatchRow
  <2> QED  BY <1>1, <1>4, <1>5, <1>7, <2>1 DEF WrittenIsStored
<1> QED  BY <1>7, <1>8, <1>9, <1>10 DEF DeltaInv, Snapshot, TriesLeft, StreamWrite, airflow

LEMMA CommitInv ==
    ASSUME DeltaAssumption, DeltaInv, NEW a \in 1..Attempts, BackfillCommit(a)
    PROVE  DeltaInv'
<1>1. PICK windows \in SUBSET (Users \X {t \in Range : t <= now}) :
          table' = table \cup Backfilled(a, windows)
  BY DEF BackfillCommit
<1>2. /\ Backfilled(a, windows) \subseteq Row
      /\ \A r \in Backfilled(a, windows) : r.by # Stream
  BY BackfilledRows
<1>3. TypeOK'  BY <1>1, <1>2 DEF BackfillCommit, DeltaInv, TypeOK, JobPhases
<1>4. OneBatchPerDay'  BY <1>1, <1>2 DEF DeltaInv, OneBatchPerDay
<1>5. Snapshot'  BY <1>1, <1>2 DEF DeltaInv, Snapshot, BackfillCommit
<1>6. WrittenIsStored'
  BY <1>1 DEF DeltaInv, WrittenIsStored, BatchRow, BackfillCommit
<1> QED  BY <1>3, <1>4, <1>5, <1>6 DEF DeltaInv, TriesLeft, BackfillCommit

LEMMA NextInv == DeltaAssumption /\ DeltaInv /\ [Next]_vars => DeltaInv'
<1> SUFFICES ASSUME DeltaAssumption, DeltaInv, [Next]_vars PROVE DeltaInv'
  OBVIOUS
<1> USE DEF store, airflow
<1>1. CASE StreamCollect
  <2>1. PICK rows \in Batches :
            sink' = [NoBatch EXCEPT !.phase = "collected", !.rows = rows, !.ts = now]
    BY <1>1 DEF StreamCollect
  <2>2. TypeOK'
    BY <1>1, <2>1 DEF StreamCollect, DeltaInv, TypeOK, NoBatch, SinkPhases, Batches
  <2> QED  BY <1>1, <2>1, <2>2, QuietSink DEF StreamCollect, NoBatch
<1>2. CASE StreamCheck
  BY <1>2, QuietSink DEF StreamCheck, DeltaInv, TypeOK, SinkPhases
<1>3. CASE StreamBegin
  <2>1. TypeOK'  BY <1>3 DEF StreamBegin, DeltaInv, TypeOK, SinkPhases
  <2>2. Snapshot' /\ OneBatchPerDay' /\ WrittenIsStored'
    BY <1>3 DEF StreamBegin, DeltaInv, TypeOK, Snapshot, OneBatchPerDay, WrittenIsStored
  <2> QED  BY <1>3, <2>1, <2>2 DEF StreamBegin, DeltaInv, TriesLeft
<1>4. CASE StreamWrite  BY <1>4, WriteInv
<1>5. CASE StreamError
  BY <1>5, QuietSink DEF StreamError, DeltaInv, TypeOK, SinkPhases
<1>6. CASE StreamFallback
  <2>0. Source \subseteq Row /\ \A r \in sink.rows : BatchRow(r) \in Source
    BY SourceRows DEF DeltaInv
  <2>1. TypeOK'
    BY <1>6, <2>0 DEF StreamFallback, DeltaInv, TypeOK, SinkPhases, Batches
  <2>2. WrittenIsStored'
    <3>1. sink'.rows = sink.rows /\ sink'.ts = sink.ts
      BY <1>6 DEF StreamFallback, DeltaInv, TypeOK
    <3>2. \A r \in sink.rows : BatchRow(r)' = BatchRow(r)  BY <3>1 DEF BatchRow
    <3> QED  BY <1>6, <2>0, <3>1, <3>2 DEF StreamFallback, WrittenIsStored
  <2> QED
    BY <1>6, <2>1, <2>2 DEF StreamFallback, DeltaInv, TypeOK, Snapshot, OneBatchPerDay, TriesLeft
<1>7. CASE StreamCommit
  BY <1>7, QuietSink DEF StreamCommit, DeltaInv, TypeOK, SinkPhases, NoBatch, Batches, Time
<1>8. CASE StreamCrash
  <2>1. crashes' \in 0..MaxCrashes
    BY <1>8 DEF StreamCrash, DeltaAssumption, DeltaInv, TypeOK
  <2>2. TypeOK'  BY <1>8, <2>1 DEF StreamCrash, DeltaInv, TypeOK, SinkPhases
  <2>3. sink'.phase = "down"  BY <1>8 DEF StreamCrash, DeltaInv, TypeOK
  <2> QED  BY <1>8, <2>2, <2>3, QuietSink DEF StreamCrash
<1>9. CASE StreamReplay
  <2>1. sink' = [phase |-> "collected", rows |-> sink.rows, ts |-> sink.ts,
                 mode |-> "merge", saw |-> FALSE, seen |-> {}]
    BY <1>9 DEF StreamReplay, NoBatch
  <2>2. UNCHANGED <<now, exists, table, fallback, crashes, task, jobs>>
    BY <1>9 DEF StreamReplay
  <2>3. TypeOK'  BY <2>1, <2>2 DEF DeltaInv, TypeOK, SinkPhases
  <2> QED  BY <2>1, <2>2, <2>3, QuietSink
<1>10. CASE BackfillStart
  <2>1. task.tries \in Nat /\ task.tries < Attempts
    BY <1>10 DEF BackfillStart, DeltaAssumption, DeltaInv, TypeOK, TriesLeft
  <2>2. task' = [phase |-> "running", tries |-> task.tries + 1] /\ task.tries + 1 \in 0..Attempts
    BY <1>10, <2>1 DEF BackfillStart, DeltaAssumption
  <2>3. jobs' \in [1..Attempts -> [phase : JobPhases, saw : BOOLEAN]]
    BY <1>10, <2>1 DEF BackfillStart, DeltaInv, TypeOK, JobPhases
  <2>4. TypeOK'  BY <1>10, <2>2, <2>3 DEF BackfillStart, DeltaInv, TypeOK
  <2> QED  BY <1>10, <2>2, <2>4 DEF BackfillStart, DeltaInv, Snapshot, TriesLeft,
               OneBatchPerDay, WrittenIsStored, BatchRow
<1>11. CASE TaskSucceed \/ TaskFail
  BY <1>11 DEF TaskSucceed, TaskFail, DeltaInv, TypeOK, Snapshot, TriesLeft,
               OneBatchPerDay, WrittenIsStored, BatchRow
<1>12. ASSUME NEW a \in 1..Attempts, BackfillBegin(a) \/ BackfillDie(a) PROVE DeltaInv'
  <2>1. UNCHANGED <<now, exists, table, fallback, sink, crashes, task>>
    BY <1>12 DEF BackfillBegin, BackfillDie
  <2>2. jobs' \in [1..Attempts -> [phase : JobPhases, saw : BOOLEAN]]
    <3>1. jobs \in [1..Attempts -> [phase : JobPhases, saw : BOOLEAN]] /\ exists \in BOOLEAN
      BY DEF DeltaInv, TypeOK
    <3>2. \E j \in [phase : JobPhases, saw : BOOLEAN] : jobs' = [jobs EXCEPT ![a] = j]
      <4>1. CASE BackfillBegin(a)
        BY <3>1, <4>1 DEF BackfillBegin, JobPhases
      <4>2. CASE BackfillDie(a)
        <5>1. [jobs[a] EXCEPT !.phase = "dead"] \in [phase : JobPhases, saw : BOOLEAN]
          BY <3>1 DEF JobPhases
        <5> QED  BY <4>2, <5>1 DEF BackfillDie
      <4> QED  BY <1>12, <4>1, <4>2
    <3> QED  BY <3>1, <3>2
  <2>3. TypeOK'  BY <2>1, <2>2 DEF DeltaInv, TypeOK
  <2> QED  BY <2>1, <2>3, QuietSink
<1>13. ASSUME NEW a \in 1..Attempts, BackfillCommit(a) PROVE DeltaInv'
  BY <1>13, CommitInv
<1>14. CASE Tick
  BY <1>14, QuietSink DEF Tick, DeltaInv, TypeOK, Time
<1>15. CASE UNCHANGED vars
  BY <1>15, QuietSink DEF vars, DeltaInv, TypeOK
<1> QED
  BY <1>1, <1>2, <1>3, <1>4, <1>5, <1>6, <1>7, <1>8, <1>9, <1>10, <1>11, <1>12, <1>13,
     <1>14, <1>15 DEF Next, StreamStep, Backfill

\* The inductive invariant holds: what a transaction under way has seen is still
\* there, and it has seen every row the sink ever wrote.
THEOREM DeltaSafe == ASSUME DeltaAssumption PROVE Spec => []DeltaInv
<1>1. Init => DeltaInv  BY InitInv
<1>2. DeltaInv /\ [Next]_vars => DeltaInv'  BY NextInv
<1> QED  BY <1>1, <1>2, PTL DEF Spec

\* The type invariant; among others the backfill task never starts more attempts
\* than Airflow grants it.
THEOREM DeltaTypeCorrect == ASSUME DeltaAssumption PROVE Spec => []TypeOK
<1>1. DeltaInv => TypeOK  BY DEF DeltaInv
<1>2. Spec => []DeltaInv  BY DeltaSafe
<1> QED  BY <1>1, <1>2, PTL

\* A batch reported as written is in the table or in the fallback.
THEOREM BatchesAreStored == ASSUME DeltaAssumption PROVE Spec => []WrittenIsStored
<1>1. DeltaInv => WrittenIsStored  BY DEF DeltaInv
<1>2. Spec => []DeltaInv  BY DeltaSafe
<1> QED  BY <1>1, <1>2, PTL

\* The sink's rows of a user and date come from one batch.
THEOREM DaysAreWhole == ASSUME DeltaAssumption PROVE Spec => []OneBatchPerDay
<1>1. DeltaInv => OneBatchPerDay  BY DEF DeltaInv
<1>2. Spec => []DeltaInv  BY DeltaSafe
<1> QED  BY <1>1, <1>2, PTL

-----------------------------------------------------------------------------

\* A MERGE of a batch that the table holds gives the table back.
LEMMA MergeAgain ==
    ASSUME DeltaAssumption, TypeOK, sink.seen = table, Held
    PROVE  Merged(sink.seen, Source) = table
<1>1. /\ Source \subseteq Row /\ sink.ts \in Time
      /\ \A s \in Source : s.at = sink.ts
      /\ \A s \in Source : \E r \in sink.rows : s = BatchRow(r) /\ s.user = r[1]
  BY SourceRows
<1>2. table \subseteq Row  BY DEF TypeOK
<1>3. \A t \in table, s \in Source : Matches(t, s) => t = s
  BY <1>1 DEF Matches, Held
<1>4. ASSUME NEW t \in table PROVE Updated(t, Source) = t
  <2>1. /\ (\E s \in Source : Matches(t, s)) =>
              Updated(t, Source) \in Source /\ Matches(t, Updated(t, Source))
        /\ ~(\E s \in Source : Matches(t, s)) => Updated(t, Source) = t
    BY <1>1, <1>2, UpdatedRow
  <2> QED  BY <1>3, <2>1
<1>5. Source \subseteq table  BY <1>1 DEF Held
<1>6. Unmatched(table, Source) = {}
  BY <1>5 DEF Unmatched, Matches
<1> QED  BY <1>4, <1>6 DEF Merged

\* Running a batch again that the table holds changes nothing.
THEOREM ReplaysAreHarmless == ASSUME DeltaAssumption PROVE Spec => ReplayChangesNothing
<1>1. ASSUME TypeOK, StreamWrite, sink.mode = "merge", sink.seen = table, Held
      PROVE  table' = table
  <2>1. Merged(sink.seen, Source) = table  BY <1>1, MergeAgain
  <2> QED  BY <1>1, <2>1 DEF StreamWrite, Replacing
<1>2. TypeOK /\ [Next]_vars =>
        [StreamWrite /\ sink.mode = "merge" /\ sink.seen = table /\ Held => table' = table]_vars
  BY <1>1
<1>3. Spec => []TypeOK  BY DeltaTypeCorrect
<1> QED  BY <1>2, <1>3, PTL DEF Spec, ReplayChangesNothing

\* A committed row goes only when the creating overwrite saw it, or when a MERGE that
\* saw it puts a row of its batch for the same user and date in its place.
THEOREM RowsGoForBatches == ASSUME DeltaAssumption PROVE Spec => RowsGoOnlyForABatch
<1> DEFINE Replaced(r) == \E b \in sink.rows : /\ b[1] = r.user /\ Day(sink.ts) = Day(r.at)
                                              /\ BatchRow(b) \in table'
           Gone == \A r \in table \ table' :
          /\ sink.phase = "begun" /\ r \in sink.seen
          /\ \/ sink.mode = "create" /\ sink.saw
             \/ \E b \in sink.rows :
                   /\ b[1] = r.user /\ Day(sink.ts) = Day(r.at)
                   /\ BatchRow(b) \in table'
<1>1. ASSUME DeltaInv, StreamWrite, NEW r \in table \ table'
      PROVE  /\ sink.phase = "begun" /\ r \in sink.seen
             /\ (sink.mode = "create" /\ sink.saw) \/ Replaced(r)
  <2>1. sink.phase = "begun" /\ r \in sink.seen
    BY <1>1 DEF StreamWrite, Replacing
  <2>2. sink.saw /\ sink.mode \in {"merge", "create"} /\ sink.seen \subseteq Row
    BY <1>1, <2>1 DEF DeltaInv, TypeOK, Snapshot
  <2>3. ASSUME sink.mode = "merge" PROVE Replaced(r)
    <3>1. /\ Source \subseteq Row
          /\ \A s \in Source : s.at = sink.ts
          /\ \A s \in Source : \E b \in sink.rows : s = BatchRow(b) /\ s.user = b[1]
      BY <1>1, SourceRows DEF DeltaInv
    <3>2. table' = (table \ sink.seen) \cup Merged(sink.seen, Source)
      BY <1>1, <2>3 DEF StreamWrite, Replacing
    <3>3. /\ Source \subseteq Merged(sink.seen, Source)
          /\ \E s \in Source : Matches(r, s)
      <4>1. ~Ambiguous(sink.seen, Source)
        BY <1>1, <2>3 DEF StreamWrite, Rejected
      <4> QED  BY <1>1, <2>1, <2>2, <3>1, <3>2, <4>1, MergedRows
    <3>4. PICK s \in Source : Matches(r, s)  BY <3>3
    <3>5. PICK b \in sink.rows : s = BatchRow(b) /\ s.user = b[1]  BY <3>1
    <3>6. b[1] = r.user /\ Day(sink.ts) = Day(r.at)
      BY <3>1, <3>4, <3>5 DEF Matches
    <3> QED  BY <3>2, <3>3, <3>5, <3>6
  <2> QED  BY <2>1, <2>2, <2>3
<1>2. ASSUME [Next]_vars, ~StreamWrite PROVE table \subseteq table'
  BY <1>2 DEF Next, StreamStep, Backfill, StreamCollect, StreamCheck, StreamBegin, StreamError,
      StreamFallback, StreamCommit, StreamCrash, StreamReplay, BackfillStart, BackfillBegin,
      BackfillCommit, BackfillDie, TaskSucceed, TaskFail, Tick, vars, store
<1>3. DeltaInv /\ [Next]_vars => [Gone]_vars
  BY <1>1, <1>2
<1>4. Spec => []DeltaInv  BY DeltaSafe
<1> QED  BY <1>3, <1>4, PTL DEF Spec, RowsGoOnlyForABatch

-----------------------------------------------------------------------------
(* When batches are merged *)

\* A batch that a MERGE can take whatever the table holds: one row per user.
Mergeable == \A r, q \in sink.rows : r[1] = q[1] => r = q

\* The sink alone creates the table, or it is there; so nothing rejects such a batch.
Undisturbed ==
    /\ Preexisting => exists
    /\ ~WithBackfill => \A a \in 1..Attempts : jobs[a].phase = "none"
    /\ sink.phase \in {"checked", "begun"} /\ sink.mode = "create" => ~exists
    /\ Mergeable => sink.phase # "failed"
    /\ Mergeable /\ sink.phase = "written" => \A r \in sink.rows : BatchRow(r) \in table

LEMMA MergeableIsAccepted ==
    ASSUME DeltaAssumption, DeltaInv, Undisturbed, Mergeable, sink.phase = "begun"
    PROVE  ~Rejected
<1>1. \A s, q \in Source : s.user = q.user => s = q
  BY DEF Source, BatchRow, Mergeable
<1>2. ~Ambiguous(sink.seen, Source)  BY <1>1 DEF Ambiguous, Matches
<1>3. sink.mode = "create" => ~CreatedMeanwhile  BY DEF Undisturbed, CreatedMeanwhile
<1>4. sink.mode \in {"merge", "create"}  BY DEF DeltaInv, TypeOK
<1> QED  BY <1>2, <1>3, <1>4 DEF Rejected

\* What a commit of the sink writes holds its batch.
LEMMA WriteHoldsBatch ==
    ASSUME DeltaAssumption, DeltaInv, StreamWrite
    PROVE  \A r \in sink.rows : BatchRow(r) \in table'
<1>1. /\ Source \subseteq Row /\ sink.seen \subseteq Row
      /\ \A r \in sink.rows : BatchRow(r) \in Source
  BY SourceRows DEF DeltaInv, TypeOK
<1>2. CASE sink.mode = "merge"
  <2>1. ~Ambiguous(sink.seen, Source)  BY <1>2 DEF StreamWrite, Rejected
  <2>2. Source \subseteq Merged(sink.seen, Source)  BY <1>1, <2>1, MergedRows
  <2> QED  BY <1>1, <1>2, <2>2 DEF StreamWrite, Replacing
<1>3. CASE sink.mode # "merge"
  BY <1>1, <1>3 DEF StreamWrite, Replacing
<1> QED  BY <1>2, <1>3

LEMMA UndisturbedStays ==
    ASSUME DeltaAssumption, ~WithFailures, Preexisting \/ ~WithBackfill,
           DeltaInv, Undisturbed, [Next]_vars
    PROVE  Undisturbed'
<1> USE DEF store, airflow
<1>1. CASE StreamWrite
  <2>1. sink'.phase = "written" /\ sink'.rows = sink.rows /\ sink'.ts = sink.ts
    BY <1>1 DEF StreamWrite, DeltaInv, TypeOK
  <2>2. \A r \in sink.rows : BatchRow(r) \in table'
    BY <1>1, WriteHoldsBatch
  <2> QED  BY <1>1, <2>1, <2>2 DEF StreamWrite, Undisturbed, BatchRow
<1>2. CASE StreamError
  <2>1. sink'.phase = "failed" /\ sink'.rows = sink.rows
    BY <1>2 DEF StreamError, DeltaInv, TypeOK
  <2>2. ~Mergeable  BY <1>2, MergeableIsAccepted DEF StreamError
  <2> QED  BY <1>2, <2>1, <2>2 DEF StreamError, Undisturbed, Mergeable
<1>3. CASE StreamCollect
  BY <1>3 DEF StreamCollect, Undisturbed, NoBatch
<1>4. CASE StreamCheck
  <2>1. sink'.phase = "checked" /\ sink'.mode = IF exists THEN "merge" ELSE "create"
    BY <1>4 DEF StreamCheck, DeltaInv, TypeOK
  <2> QED  BY <1>4, <2>1 DEF StreamCheck, Undisturbed
<1>5. CASE StreamBegin
  <2>1. sink'.phase = "begun" /\ sink'.mode = sink.mode
    BY <1>5 DEF StreamBegin, DeltaInv, TypeOK
  <2> QED  BY <1>5, <2>1 DEF StreamBegin, Undisturbed
<1>6. CASE StreamFallback
  <2>1. sink'.phase = "written" /\ sink'.rows = sink.rows
    BY <1>6 DEF StreamFallback, DeltaInv, TypeOK
  <2> QED  BY <1>6, <2>1 DEF StreamFallback, Undisturbed, Mergeable
<1>7. CASE StreamCommit \/ StreamReplay
  <2>1. sink'.phase \in {"idle", "collected"}
    <3>1. CASE StreamCommit
      BY <3>1 DEF StreamCommit, NoBatch
    <3>2. CASE StreamReplay
      BY <3>2 DEF StreamReplay, NoBatch
    <3> QED  BY <1>7, <3>1, <3>2
  <2>2. UNCHANGED <<exists, jobs>>
    BY <1>7 DEF StreamCommit, StreamReplay
  <2> QED  BY <2>1, <2>2 DEF Undisturbed
<1>8. CASE StreamCrash
  <2>1. sink'.phase = "down"
    BY <1>8 DEF StreamCrash, DeltaInv, TypeOK
  <2> QED  BY <1>8, <2>1 DEF StreamCrash, Undisturbed
<1>9. CASE Backfill
  <2>1. UNCHANGED sink /\ table \subseteq table' /\ (Preexisting => exists')
    BY <1>9 DEF Backfill, BackfillStart, BackfillBegin, BackfillCommit, BackfillDie,
                TaskSucceed, TaskFail, Undisturbed
  <2>2. CASE WithBackfill
    BY <2>1, <2>2 DEF Undisturbed, Mergeable, BatchRow
  <2>3. CASE ~WithBackfill
    <3>1. UNCHANGED <<exists, jobs>>
      BY <1>9, <2>3 DEF Backfill, BackfillStart, BackfillBegin, BackfillCommit, BackfillDie,
                        TaskSucceed, TaskFail, Undisturbed
    <3> QED  BY <2>1, <2>3, <3>1 DEF Undisturbed, Mergeable, BatchRow
  <2> QED  BY <2>2, <2>3
<1>10. CASE Tick \/ UNCHANGED vars
  BY <1>10 DEF Tick, vars, Undisturbed, Mergeable, BatchRow
<1> QED
  BY <1>1, <1>2, <1>3, <1>4, <1>5, <1>6, <1>7, <1>8, <1>9, <1>10 DEF Next, StreamStep

\* Where nothing fails of itself and nobody else creates the table, batches that have one
\* row per user are merged, as "Merges feature rows into Delta Lake" (delta_sink.py:19)
\* says: what sends rows to the fallback is that the joins give users several.
THEOREM MergeableBatchesAreMerged ==
    ASSUME DeltaAssumption, ~WithFailures, Preexisting \/ ~WithBackfill
    PROVE  Spec => [](Mergeable => RowsAreMerged)
<1>1. Init => Undisturbed
  BY DEF Init, Undisturbed, NoBatch
<1>2. DeltaInv /\ Undisturbed /\ [Next]_vars => Undisturbed'
  BY UndisturbedStays
<1>3. Undisturbed => (Mergeable => RowsAreMerged)
  BY DEF Undisturbed, RowsAreMerged
<1>4. Spec => []DeltaInv  BY DeltaSafe
<1> QED  BY <1>1, <1>2, <1>3, <1>4, PTL DEF Spec

=============================================================================
