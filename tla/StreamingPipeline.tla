-------------------------- MODULE StreamingPipeline -------------------------
(***************************************************************************)
(* streaming/feature_processor.py behind the generator: one process with two   *)
(* queries over the topic, redis_sink and delta_sink, each with a checkpoint of  *)
(* its own.                                                                   *)
(*                                                                          *)
(* Spark is external: the first offset of a query and the end of a batch are in  *)
(* its checkpoint before the batch is run, the batch's commit after it, and a     *)
(* batch without its commit is run again over the same offsets.  A sink has a      *)
(* batch once it returns: OnlineStore and DeltaTable say how.  An exception of     *)
(* either query ends the process (awaitAnyTermination), and docker restarts it.    *)
(* What the windows make of an event, and which are too late, is left out.        *)
(***************************************************************************)
EXTENDS Ingestion

CONSTANTS
    Queries,        \* redis_sink and delta_sink
    MaxPerTrigger,  \* maxOffsetsPerTrigger
    MaxRetired      \* bound: how many offsets pass the topic's retention

ASSUME PipelineAssumption ==
    /\ MaxPerTrigger \in Nat \ {0}
    /\ MaxRetired \in Nat

VARIABLES
    low,        \* offsets up to here have passed the retention
    query,      \* per query: phase; in its checkpoint: opened, start, done, planned
    landed      \* the offsets whose events its sink has

stream == <<low, query, landed>>
vars == <<producer, topic, stream>>

Checkpoint == [phase : {"idle", "planned", "ran"}, opened : BOOLEAN,
               start : Nat, done : Nat, planned : Nat]

TypeOK ==
    /\ IngestionTypeOK
    /\ low \in 0..end
    /\ query \in [Queries -> Checkpoint]
    /\ landed \in [Queries -> SUBSET (1..end)]

Init ==
    /\ IngestionInit
    /\ low = 0
    /\ query = [q \in Queries |-> [phase |-> "idle", opened |-> FALSE,
                                   start |-> 0, done |-> 0, planned |-> 0]]
    /\ landed = [q \in Queries |-> {}]

-----------------------------------------------------------------------------

Idle(q) == query[q].opened /\ query[q].phase = "idle"
Writes(q, entry) ==
    /\ query' = [query EXCEPT ![q] = entry]
    /\ UNCHANGED <<producer, topic, low, landed>>

\* startingOffsets latest, without a checkpoint.
Open(q) ==
    /\ ~query[q].opened
    /\ Writes(q, [phase |-> "idle", opened |-> TRUE, start |-> end,
                  done |-> end, planned |-> end])

Least(a, b) == IF a < b THEN a ELSE b

\* Variants: only a full batch is planned, and a batch that was not committed is given up.
PlanFull(q) ==
    /\ Idle(q) /\ query[q].planned = query[q].done
    /\ end >= query[q].done + MaxPerTrigger
    /\ Writes(q, [query[q] EXCEPT !.phase = "planned", !.planned = @ + MaxPerTrigger])
PlanAnew(q) ==
    /\ Idle(q)
    /\ end > query[q].planned
    /\ Writes(q, [query[q] EXCEPT !.phase = "planned", !.done = query[q].planned,
                      !.planned = Least(end, @ + MaxPerTrigger)])

\* The next batch, if there is something to read.
Plan(q) ==
    /\ Idle(q) /\ query[q].planned = query[q].done
    /\ end > query[q].done
    /\ Writes(q, [query[q] EXCEPT !.phase = "planned",
                      !.planned = Least(end, @ + MaxPerTrigger)])

\* The batch without a commit, again.
Replan(q) ==
    /\ Idle(q) /\ query[q].planned > query[q].done
    /\ Writes(q, [query[q] EXCEPT !.phase = "planned"])

\* failOnDataLoss false: what has passed the retention is not in the batch.
Batch(q) == {o \in (query[q].done + 1)..query[q].planned : o > low}

\* foreachBatch: the sink takes the batch.
Run(q) ==
    /\ query[q].phase = "planned"
    /\ landed' = [landed EXCEPT ![q] = @ \cup Batch(q)]
    /\ query' = [query EXCEPT ![q].phase = "ran"]
    /\ UNCHANGED <<producer, topic, low>>

\* Variant: the commit does not wait for the sink.
CommitEarly(q) ==
    /\ query[q].phase \in {"planned", "ran"}
    /\ Writes(q, [query[q] EXCEPT !.phase = "idle", !.done = query[q].planned])

Commit(q) ==
    /\ query[q].phase = "ran"
    /\ Writes(q, [query[q] EXCEPT !.phase = "idle", !.done = query[q].planned])

\* A sink raises, before or after it has written, or the process dies: both queries
\* stop where they are, and are idle when docker has started it again.
Terminate ==
    /\ query' = [q \in Queries |-> [query[q] EXCEPT !.phase = "idle"]]
    /\ UNCHANGED <<producer, topic, low, landed>>

\* retention.ms and KAFKA_LOG_RETENTION_HOURS
Retire ==
    /\ low < end /\ low < MaxRetired
    /\ low' = low + 1
    /\ UNCHANGED <<producer, topic, query, landed>>

Advance(q) == Open(q) \/ Plan(q) \/ Replan(q) \/ Run(q) \/ Commit(q)
Stream == Terminate \/ Retire \/ \E q \in Queries : Advance(q)
Next == (Ingest /\ UNCHANGED stream) \/ Stream
Spec == Init /\ [][Next]_vars

\* Spark goes on with each query, also after docker's restart (restart: unless-stopped),
\* and a flush returns.
FairSpec ==
    /\ Spec
    /\ \A q \in Queries : WF_vars(Advance(q))
    /\ WF_vars(Flushed /\ UNCHANGED stream)

-----------------------------------------------------------------------------
(* What must hold *)

\* Online and offline store follow the topic alike, each from where its query started:
\* of what a query has committed, all has landed that was not past the retention, and
\* nothing lands that is not planned in its checkpoint.  To land is to be in a batch from
\* which the sink returned, a fallback included.  An event that only one sink was given is
\* thus before the other's start, not committed there yet, or retired
\* (feature_processor.py:60-62).
StoresFollowTopic ==
    \A q \in Queries :
        /\ \A o \in (query[q].start + 1)..query[q].done : o > low => o \in landed[q]
        /\ landed[q] \subseteq (query[q].start + 1)..query[q].planned

\* Both queries reach the end of the topic (the generator falls silent after MaxEvents),
\* however often the process was ended, provided that it is not ended for ever: a sink
\* that raises at every replay (redis_sink.py:41-47, for every batch with rows) ends both
\* through awaitAnyTermination (feature_processor.py:130) again and again, and neither
\* catches up.
QueriesCatchUp ==
    \/ []<><<Terminate>>_vars
    \/ \A q \in Queries : query[q].opened ~> query[q].done = end

\* Each store is an at-least-once consumer of one log (LogConsumers): batches that die
\* between plan, run and commit are taken again, and neither the end of the process by the
\* other query's sink nor a start from the checkpoint skips or takes back an offset.
Log == INSTANCE LogConsumers WITH
    Consumers <- Queries,
    attached <- {q \in Queries : query[q].opened},
    done <- [q \in Queries |-> query[q].done],
    held <- landed
ImplementsLog == Log!LogSpec

\* The strengthening: offsets of a checkpoint are in order, a batch that ran has landed.
Ordered(q) ==
    /\ query[q].start <= query[q].done
    /\ query[q].done <= query[q].planned
    /\ query[q].planned <= end
    /\ ~query[q].opened => query[q].phase = "idle" /\ query[q].planned = 0 /\ landed[q] = {}
    /\ query[q].phase = "ran" => Batch(q) \subseteq landed[q]
PipelineInv ==
    /\ TypeOK /\ IngestionInv
    /\ \A q \in Queries : Ordered(q)
    /\ StoresFollowTopic

=============================================================================
