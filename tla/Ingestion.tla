----------------------------- MODULE Ingestion ------------------------------
(***************************************************************************)
(* The event generator (ingestion/event_generator.py), its producer           *)
(* (ingestion/kafka_producer.py) and the topic ecommerce.events.raw.           *)
(*                                                                          *)
(* librdkafka and Kafka are external.  An event stays in the producer's queue  *)
(* until a poll or a flush has served its delivery report, and a full queue    *)
(* refuses.  A thread sends in the background; the broker appends an event or  *)
(* not, and its acknowledgement (acks=1) arrives or not; what is not            *)
(* acknowledged is sent again, in any order, up to the configured retries.      *)
(* The topic is one partition of one broker that keeps what it appended, and    *)
(* librdkafka's own five minutes for a delivery are not modelled.               *)
(***************************************************************************)
EXTENDS Integers, FiniteSets

CONSTANTS
    MaxEvents,      \* bound: events generated
    BatchSize,      \* events between two polls
    Capacity,       \* queue.buffering.max.messages
    Calls,          \* stop_after_attempt of produce
    Sends,          \* 1 + the producer's retries
    MaxTopic        \* bound: what the broker appends

ASSUME IngestionAssumption ==
    /\ MaxEvents \in Nat /\ MaxTopic \in Nat
    /\ BatchSize \in Nat \ {0} /\ Capacity \in Nat \ {0}
    /\ Calls \in Nat \ {0} /\ Sends \in Nat \ {0}

VARIABLES
    generator,  \* phase, place in the batch, refused calls of produce
    made,       \* how many events were generated; an event is its number
    born,       \* how many of them before this process started
    queue,      \* per event in the producer's queue: sends so far, and what came of it
    logged,     \* events whose delivery was logged as failed
    appended,   \* how often the broker has appended an event
    end         \* the topic's end offset

producer == <<generator, made, born, queue, logged>>
topic == <<appended, end>>

Events == 1..MaxEvents
Queued == [sends : 0..Sends, state : {"waiting", "acked", "failed"}]
Fresh == [sends |-> 0, state |-> "waiting"]
NoEvents == [e \in {} |-> Fresh]

IngestionTypeOK ==
    /\ generator \in [phase : {"run", "flush", "down"}, place : 0..BatchSize,
                      calls : 0..(Calls - 1)]
    /\ made \in 0..MaxEvents
    /\ born \in 0..made
    /\ DOMAIN queue \subseteq Events /\ queue \in [DOMAIN queue -> Queued]
    /\ Cardinality(DOMAIN queue) <= Capacity
    /\ logged \subseteq Events
    /\ appended \in [Events -> Nat]
    /\ end \in 0..MaxTopic

IngestionInit ==
    /\ generator = [phase |-> "down", place |-> 0, calls |-> 0]
    /\ made = 0 /\ born = 0
    /\ queue = NoEvents
    /\ logged = {}
    /\ appended = [e \in Events |-> 0] /\ end = 0

In(state) == {e \in DOMAIN queue : queue[e].state = state}

-----------------------------------------------------------------------------
(* ingestion/event_generator.py *)

Start ==
    /\ generator.phase = "down"
    /\ generator' = [generator EXCEPT !.phase = "run"]
    /\ UNCHANGED <<made, born, queue, logged, topic>>

Producing == generator.phase = "run" /\ generator.place < BatchSize /\ made < MaxEvents
\* Variant: one too many.
FullLate == Cardinality(DOMAIN queue) > Capacity
Full == Cardinality(DOMAIN queue) >= Capacity

\* produce takes the next event of the batch into the queue.
Produce ==
    /\ Producing /\ ~Full
    /\ made' = made + 1
    /\ queue' = [e \in DOMAIN queue \cup {made + 1} |->
                    IF e \in DOMAIN queue THEN queue[e] ELSE Fresh]
    /\ generator' = [generator EXCEPT !.place = @ + 1, !.calls = 0]
    /\ UNCHANGED <<born, logged, topic>>

\* The process ends, and its queue and its log with it.
Gone ==
    /\ generator' = [phase |-> "down", place |-> 0, calls |-> 0]
    /\ born' = made
    /\ queue' = NoEvents
    /\ logged' = {}
    /\ UNCHANGED <<made, topic>>

\* BufferError: produce is called again without a poll, and the last refusal ends
\* the generator.
Refuse ==
    /\ Producing /\ Full
    /\ \/ /\ generator.calls + 1 < Calls
          /\ generator' = [generator EXCEPT !.calls = @ + 1]
          /\ UNCHANGED <<made, born, queue, logged, topic>>
       \/ /\ generator.calls + 1 = Calls
          /\ Gone

\* Variant: the failed ones are dropped without their report.
ServedQuietly == logged' = logged
\* _delivery_report of every finished event.
Served == logged' = logged \cup In("failed")

\* poll, when the batch is through.
Poll ==
    /\ generator.phase = "run" /\ generator.place = BatchSize
    /\ Served
    /\ queue' = [e \in In("waiting") |-> queue[e]]
    /\ generator' = [generator EXCEPT !.place = 0]
    /\ UNCHANGED <<made, born, topic>>

\* SIGINT or SIGTERM: _shutdown begins to flush.
Shutdown ==
    /\ generator.phase = "run"
    /\ generator' = [generator EXCEPT !.phase = "flush"]
    /\ UNCHANGED <<made, born, queue, logged, topic>>

\* Variant: without a timeout.
FlushedAll == generator.phase = "flush" /\ In("waiting") = {} /\ Gone
\* flush returns, with nothing left to wait for or after its timeout; sys.exit.
Flushed == generator.phase = "flush" /\ Gone

\* The process is killed or loses an exception.
Killed == generator.phase \in {"run", "flush"} /\ Gone

-----------------------------------------------------------------------------
(* ingestion/kafka_producer.py:19-29: the producer's own thread *)

Waits(e) == generator.phase # "down" /\ e \in In("waiting")
Becomes(e, sends, state) ==
    queue' = [queue EXCEPT ![e] = [sends |-> sends, state |-> state]]

Appends(e) ==
    /\ end < MaxTopic
    /\ end' = end + 1
    /\ appended' = [appended EXCEPT ![e] = @ + 1]

\* Variant: there is no end to the retries.
ForgetsToCount(e) == Becomes(e, queue[e].sends, "waiting")
\* A send that was not acknowledged: again, or not any more.
Unacknowledged(e) ==
    Becomes(e, queue[e].sends + 1, IF queue[e].sends + 1 < Sends THEN "waiting" ELSE "failed")

Deliver(e) ==
    /\ Waits(e)
    /\ Appends(e)
    /\ Becomes(e, queue[e].sends + 1, "acked")
    /\ UNCHANGED <<generator, made, born, logged>>

LoseAck(e) ==
    /\ Waits(e)
    /\ Appends(e)
    /\ Unacknowledged(e)
    /\ UNCHANGED <<generator, made, born, logged>>

FailToSend(e) ==
    /\ Waits(e)
    /\ Unacknowledged(e)
    /\ UNCHANGED <<generator, made, born, logged, topic>>

Generate ==
    Start \/ Produce \/ Refuse \/ Poll \/ Shutdown \/ Flushed \/ Killed
Send == \E e \in Events : Deliver(e) \/ LoseAck(e) \/ FailToSend(e)
Ingest == Generate \/ Send

-----------------------------------------------------------------------------
(* What must hold *)

\* Every event a running generator has counted as sent (total_sent) is in the topic,
\* still in the queue, or logged as failed: a refused produce, retries that run
\* out and a poll between them lose nothing silently.
NothingVanishes ==
    generator.phase # "down" =>
        \A e \in (born + 1)..made : e \in DOMAIN queue \cup logged \/ appended[e] > 0

\* Without idempotence an event may be appended once per send and no more, however
\* acknowledgements get lost (retries, kafka_producer.py:27).
CopiesAreSends ==
    \A e \in Events :
        /\ appended[e] <= Sends
        /\ e \in DOMAIN queue => appended[e] <= queue[e].sends

\* A generator told to stop stops although Kafka may be out of reach: the flush of
\* _shutdown has a timeout (event_generator.py:128).
StopsWhenTold == generator.phase = "flush" ~> generator.phase = "down"

\* The strengthening: whoever waits has a send left, what was acknowledged is in the
\* topic, an event that was not generated yet is nowhere, and all events of a process
\* that ended are from before the next one.
SendsLeft == \A e \in In("waiting") : queue[e].sends < Sends
AckedIsThere == \A e \in In("acked") : appended[e] > 0
FutureIsNowhere == \A e \in Events : e > made => e \notin DOMAIN queue /\ appended[e] = 0
StartsAfresh == generator.phase = "down" => born = made
IngestionInv ==
    /\ IngestionTypeOK /\ NothingVanishes /\ CopiesAreSends
    /\ SendsLeft /\ AckedIsThere /\ FutureIsNowhere /\ StartsAfresh

=============================================================================
