----------------------- MODULE StreamingPipelineProofs ----------------------
(***************************************************************************)
(* Ingestion and StreamingPipeline for any number of events and queries, any   *)
(* queue, batch and retry limit, any retention and any number of deaths: the    *)
(* type invariant, that no event vanishes from a running generator, that there   *)
(* are no more copies than sends, and that both stores follow the topic.         *)
(* PipelineInv is inductive.                                                    *)
(***************************************************************************)
EXTENDS StreamingPipeline, FiniteSetTheorems, TLAPS

\* The events, and so the producer's queue, are finite.
LEMMA FiniteQueue ==
    ASSUME IngestionTypeOK
    PROVE  /\ IsFiniteSet(DOMAIN queue)
           /\ Cardinality(DOMAIN queue) \in Nat
  <1>1. IsFiniteSet(Events)
    BY IngestionAssumption, FS_Interval DEF Events
  <1>2. IsFiniteSet(DOMAIN queue)
    BY <1>1, FS_Subset DEF IngestionTypeOK
  <1> QED  BY <1>2, FS_CardinalityType

\* Ending the process keeps the ingestion's invariant.
LEMMA GoneKeeps ==
    ASSUME IngestionInv, Gone
    PROVE  IngestionInv'
  <1> USE DEF IngestionInv, Gone, topic
  <1>1. DOMAIN queue' = {} /\ queue' \in [DOMAIN queue' -> Queued]
    BY DEF NoEvents
  <1>2. Cardinality(DOMAIN queue') <= Capacity
    BY <1>1, FS_EmptySet, IngestionAssumption
  <1>3. IngestionTypeOK'
    BY <1>1, <1>2, IngestionAssumption DEF IngestionTypeOK
  <1>4. NothingVanishes' /\ CopiesAreSends' /\ SendsLeft' /\ AckedIsThere' /\ FutureIsNowhere'
        /\ StartsAfresh'
    BY <1>1 DEF NothingVanishes, CopiesAreSends, SendsLeft, AckedIsThere, In, FutureIsNowhere,
                StartsAfresh
  <1> QED  BY <1>3, <1>4

LEMMA ProduceKeeps ==
    ASSUME IngestionInv, Produce
    PROVE  IngestionInv'
  <1> USE DEF IngestionInv, topic
  <1> DEFINE new == made + 1
  <1>1. new \in Events /\ new \notin DOMAIN queue /\ appended[new] = 0
    BY IngestionAssumption DEF Produce, Producing, IngestionTypeOK, FutureIsNowhere, Events
  <1>2. /\ DOMAIN queue' = DOMAIN queue \cup {new}
        /\ queue'[new] = Fresh
        /\ \A e \in DOMAIN queue : queue'[e] = queue[e]
        /\ queue' = [e \in DOMAIN queue' |-> queue'[e]]
    BY <1>1 DEF Produce
  <1> HIDE DEF new
  <1>3. Fresh \in Queued
    BY IngestionAssumption DEF Fresh, Queued
  <1>4. queue' \in [DOMAIN queue' -> Queued]
    BY <1>2, <1>3 DEF IngestionTypeOK
  <1>5. Cardinality(DOMAIN queue') <= Capacity
    <2>1. Cardinality(DOMAIN queue') = Cardinality(DOMAIN queue) + 1
      BY <1>1, <1>2, FiniteQueue, FS_AddElement
    <2> QED  BY <2>1, FiniteQueue, IngestionAssumption DEF Produce, Full
  <1>6. IngestionTypeOK'
    <2>1. generator' \in [phase : {"run", "flush", "down"}, place : 0..BatchSize,
                          calls : 0..(Calls - 1)]
      <3>1. generator' = [phase |-> generator.phase, place |-> generator.place + 1, calls |-> 0]
        BY DEF IngestionTypeOK, Produce
      <3>2. generator.place + 1 \in 0..BatchSize /\ 0 \in 0..(Calls - 1)
        BY IngestionAssumption DEF IngestionTypeOK, Produce, Producing
      <3> QED  BY <3>1, <3>2 DEF IngestionTypeOK
    <2>2. made' \in 0..MaxEvents /\ born' \in 0..made'
      BY IngestionAssumption DEF IngestionTypeOK, Produce, Producing
    <2>3. DOMAIN queue' \subseteq Events
      BY <1>1, <1>2 DEF IngestionTypeOK
    <2> QED  BY <2>1, <2>2, <2>3, <1>4, <1>5 DEF IngestionTypeOK, Produce
  <1>7. NothingVanishes'
    BY <1>2 DEF NothingVanishes, Produce, Producing, new, IngestionTypeOK
  <1>8. CopiesAreSends' /\ SendsLeft' /\ AckedIsThere' /\ StartsAfresh'
    BY <1>1, <1>2, IngestionAssumption
       DEF StartsAfresh, Producing, IngestionTypeOK, CopiesAreSends, SendsLeft, AckedIsThere, In, Produce, Fresh
  <1>9. FutureIsNowhere'
    BY <1>2 DEF FutureIsNowhere, Produce, new, IngestionTypeOK, Events
  <1> QED  BY <1>6, <1>7, <1>8, <1>9

LEMMA PollKeeps ==
    ASSUME IngestionInv, Poll
    PROVE  IngestionInv'
  <1> USE DEF IngestionInv, topic
  <1>1. /\ DOMAIN queue' = In("waiting")
        /\ \A e \in In("waiting") : queue'[e] = queue[e]
        /\ queue' = [e \in DOMAIN queue' |-> queue'[e]]
        /\ In("waiting") \subseteq DOMAIN queue
    BY DEF Poll, In
  <1>2. Cardinality(DOMAIN queue') <= Capacity
    <2>1. Cardinality(DOMAIN queue') <= Cardinality(DOMAIN queue)
      BY <1>1, FiniteQueue, FS_Subset
    <2>2. Cardinality(DOMAIN queue') \in Nat
      BY <1>1, FiniteQueue, FS_Subset, FS_CardinalityType
    <2> QED  BY <2>1, <2>2, FiniteQueue, IngestionAssumption DEF IngestionTypeOK
  <1>3. IngestionTypeOK'
    <2>1. generator' \in [phase : {"run", "flush", "down"}, place : 0..BatchSize,
                          calls : 0..(Calls - 1)]
      BY IngestionAssumption DEF IngestionTypeOK, Poll
    <2>2. DOMAIN queue' \subseteq Events /\ queue' \in [DOMAIN queue' -> Queued]
      BY <1>1 DEF IngestionTypeOK
    <2>3. logged' \subseteq Events
      BY DEF IngestionTypeOK, Poll, Served, In
    <2> QED  BY <2>1, <2>2, <2>3, <1>2 DEF IngestionTypeOK, Poll
  <1>4. NothingVanishes'
    <2> SUFFICES ASSUME generator'.phase # "down", NEW e \in (born' + 1)..made'
                 PROVE  e \in DOMAIN queue' \cup logged' \/ appended'[e] > 0
      BY DEF NothingVanishes
    <2>1. generator.phase # "down" /\ e \in (born + 1)..made
      BY DEF Poll
    <2>2. CASE e \in DOMAIN queue
      <3>1. queue[e].state \in {"waiting", "acked", "failed"}
        BY <2>2 DEF IngestionTypeOK, Queued
      <3> QED  BY <3>1, <2>2, <1>1 DEF Poll, Served, In, AckedIsThere
    <2> QED  BY <2>1, <2>2 DEF NothingVanishes, Poll, Served
  <1>5. CopiesAreSends' /\ SendsLeft' /\ AckedIsThere' /\ FutureIsNowhere' /\ StartsAfresh'
    BY <1>1 DEF StartsAfresh, IngestionTypeOK, CopiesAreSends, SendsLeft, AckedIsThere, FutureIsNowhere, In, Poll
  <1> QED  BY <1>3, <1>4, <1>5

\* One more send of a waiting event keeps it, whether the event was appended and
\* whether the producer learned of it.
LEMMA SendKeeps ==
    ASSUME IngestionInv, NEW e \in Events, Waits(e),
           NEW s \in {"waiting", "acked", "failed"}, Becomes(e, queue[e].sends + 1, s),
           s = "waiting" => queue[e].sends + 1 < Sends,
           s = "acked" => Appends(e),
           Appends(e) \/ UNCHANGED topic,
           UNCHANGED <<generator, made, born, logged>>
    PROVE  IngestionInv' /\ end' \in Nat /\ end' >= end
  <1> USE DEF IngestionInv, topic
  <1> DEFINE n == queue[e].sends + 1
  <1>1. e \in DOMAIN queue /\ queue[e].state = "waiting" /\ n \in 0..Sends /\ n > 0
    BY IngestionAssumption DEF Waits, In, SendsLeft, IngestionTypeOK, Queued
  <1>2. /\ DOMAIN queue' = DOMAIN queue
        /\ queue' \in [DOMAIN queue -> Queued]
        /\ queue'[e].sends = n /\ queue'[e].state = s
        /\ \A d \in DOMAIN queue \ {e} : queue'[d] = queue[d]
    <2>1. queue' = [queue EXCEPT ![e] = [sends |-> n, state |-> s]]
      BY DEF Becomes
    <2> HIDE DEF n
    <2>2. [sends |-> n, state |-> s] \in Queued
      BY <1>1 DEF Queued
    <2> QED  BY <2>1, <2>2, <1>1 DEF IngestionTypeOK
  <1>3. /\ appended' \in [Events -> Nat]
        /\ end' \in 0..MaxTopic /\ end' >= end
        /\ \A d \in Events \ {e} : appended'[d] = appended[d]
        /\ appended'[e] \in appended[e]..(appended[e] + 1)
        /\ s = "acked" => appended'[e] > 0
    <2>1. CASE Appends(e)
      BY <2>1, IngestionAssumption DEF Appends, IngestionTypeOK
    <2>2. CASE UNCHANGED topic
      <3>1. s # "acked" \/ Appends(e)
        OBVIOUS
      <3> QED  BY <3>1, <2>1, <2>2, IngestionAssumption DEF topic, IngestionTypeOK
    <2> QED  BY <2>1, <2>2
  <1>4. IngestionTypeOK'
    BY <1>2, <1>3 DEF IngestionTypeOK
  <1>5. appended[e] <= queue[e].sends /\ appended'[e] <= n
    BY <1>1, <1>3 DEF CopiesAreSends, IngestionTypeOK, Queued
  <1> HIDE DEF n
  <1>6. NothingVanishes'
    <2> SUFFICES ASSUME generator.phase # "down", NEW d \in (born + 1)..made
                 PROVE  d \in DOMAIN queue' \cup logged' \/ appended'[d] > 0
      BY DEF NothingVanishes
    <2>1. d \in Events
      BY IngestionAssumption DEF IngestionTypeOK, Events
    <2> QED  BY <2>1, <1>1, <1>2, <1>3 DEF NothingVanishes
  <1>7. CopiesAreSends'
    BY <1>1, <1>2, <1>3, <1>5, IngestionAssumption DEF CopiesAreSends, IngestionTypeOK
  <1>8. SendsLeft' /\ AckedIsThere'
    <2> DEFINE Fine(d) == /\ queue'[d].state = "waiting" => queue'[d].sends < Sends
                          /\ queue'[d].state = "acked" => appended'[d] > 0
    <2>1. Fine(e)
      BY <1>2, <1>3 DEF n
    <2>2. \A d \in DOMAIN queue \ {e} : Fine(d)
      BY <1>2, <1>3 DEF SendsLeft, AckedIsThere, In, IngestionTypeOK
    <2>3. \A d \in DOMAIN queue : Fine(d)
      BY <2>1, <2>2
    <2> QED  BY <2>3, <1>2 DEF SendsLeft, AckedIsThere, In
  <1>9. FutureIsNowhere' /\ StartsAfresh'
    BY <1>1, <1>2, <1>3 DEF FutureIsNowhere, StartsAfresh
  <1> QED  BY <1>3, <1>4, <1>6, <1>7, <1>8, <1>9

\* A step of the generator that leaves queue, log and topic alone.
LEMMA PhaseKeeps ==
    ASSUME IngestionInv,
           generator' \in [phase : {"run", "flush", "down"}, place : 0..BatchSize,
                           calls : 0..(Calls - 1)],
           generator'.phase = "down" => generator.phase = "down",
           UNCHANGED <<made, born, queue, logged, topic>>
    PROVE  IngestionInv' /\ end' = end
  <1> USE DEF IngestionInv, topic
  <1>1. IngestionTypeOK'
    BY DEF IngestionTypeOK
  <1>2. NothingVanishes'
    BY DEF NothingVanishes, IngestionTypeOK, StartsAfresh
  <1>3. CopiesAreSends' /\ SendsLeft' /\ AckedIsThere' /\ FutureIsNowhere' /\ StartsAfresh'
    BY DEF StartsAfresh, CopiesAreSends, SendsLeft, AckedIsThere, FutureIsNowhere, In
  <1> QED  BY <1>1, <1>2, <1>3

\* Every step of generator, producer and broker keeps the ingestion's invariant, and
\* the topic only grows.
LEMMA IngestKeeps ==
    ASSUME IngestionInv, Ingest
    PROVE  IngestionInv' /\ end' \in Nat /\ end' >= end
  <1>0. end \in Nat /\ IngestionTypeOK
    BY DEF IngestionInv, IngestionTypeOK
  <1>1. CASE Start
    BY <1>1, <1>0, PhaseKeeps DEF Start, IngestionTypeOK
  <1>2. CASE Produce
    BY <1>2, <1>0, ProduceKeeps DEF Produce, topic
  <1>3. CASE Refuse
    <2>1. CASE Gone
      BY <2>1, <1>0, GoneKeeps DEF Gone, topic
    <2>2. CASE /\ generator.calls + 1 < Calls
               /\ generator' = [generator EXCEPT !.calls = @ + 1]
               /\ UNCHANGED <<made, born, queue, logged, topic>>
      <3>1. generator' = [phase |-> generator.phase, place |-> generator.place,
                          calls |-> generator.calls + 1]
        BY <2>2, <1>0 DEF IngestionTypeOK
      <3>2. generator.calls + 1 \in 0..(Calls - 1)
        BY <2>2, <1>0, IngestionAssumption DEF IngestionTypeOK
      <3> QED  BY <2>2, <3>1, <3>2, <1>0, PhaseKeeps DEF IngestionTypeOK
    <2> QED  BY <1>3, <2>1, <2>2 DEF Refuse
  <1>4. CASE Poll
    BY <1>4, <1>0, PollKeeps DEF Poll, topic
  <1>5. CASE Shutdown
    BY <1>5, <1>0, PhaseKeeps DEF Shutdown, IngestionTypeOK
  <1>6. CASE Flushed \/ Killed
    BY <1>6, <1>0, GoneKeeps DEF Flushed, Killed, Gone, topic
  <1>7. CASE Send
    <2>1. PICK e \in Events : Deliver(e) \/ LoseAck(e) \/ FailToSend(e)
      BY <1>7 DEF Send
    <2>2. e \in DOMAIN queue /\ queue[e].sends \in Nat /\ Waits(e)
      BY <2>1, <1>0 DEF Deliver, LoseAck, FailToSend, Waits, In, IngestionTypeOK, Queued
    <2>3. CASE Deliver(e)
      BY <2>2, <2>3, SendKeeps DEF Deliver
    <2>4. CASE LoseAck(e) \/ FailToSend(e)
      <3> DEFINE s == IF queue[e].sends + 1 < Sends THEN "waiting" ELSE "failed"
      <3>1. /\ Becomes(e, queue[e].sends + 1, s)
            /\ Appends(e) \/ UNCHANGED topic
            /\ UNCHANGED <<generator, made, born, logged>>
        BY <2>4 DEF LoseAck, FailToSend, Unacknowledged
      <3>2. /\ s \in {"waiting", "acked", "failed"} /\ s # "acked"
            /\ s = "waiting" => queue[e].sends + 1 < Sends
        OBVIOUS
      <3> HIDE DEF s
      <3> QED  BY <3>1, <3>2, <2>2, SendKeeps
    <2> QED  BY <2>1, <2>3, <2>4
  <1> QED  BY <1>1, <1>2, <1>3, <1>4, <1>5, <1>6, <1>7 DEF Ingest, Generate

-----------------------------------------------------------------------------
(* The streaming queries *)

\* The two parts of PipelineInv that change with low, end, query and landed.
Followed(q) ==
    /\ \A o \in (query[q].start + 1)..query[q].done : o > low => o \in landed[q]
    /\ landed[q] \subseteq (query[q].start + 1)..query[q].planned

LEMMA Parts ==
    ASSUME PipelineInv
    PROVE  /\ end \in Nat /\ low \in Nat /\ low <= end
           /\ \A q \in Queries : /\ query[q] \in Checkpoint /\ landed[q] \subseteq 1..end
                                /\ Ordered(q) /\ Followed(q)
  BY IngestionAssumption
     DEF PipelineInv, TypeOK, IngestionTypeOK, StoresFollowTopic, Followed

\* A step of one query leaves generator, topic and the other query alone, so what it does to
\* its own entry decides.
LEMMA OneQuery ==
    ASSUME PipelineInv, NEW q \in Queries,
           NEW entry \in Checkpoint, NEW offsets \in SUBSET (1..end),
           query' = [query EXCEPT ![q] = entry],
           landed' = [landed EXCEPT ![q] = offsets],
           UNCHANGED <<producer, topic, low>>,
           entry.start <= entry.done, entry.done <= entry.planned, entry.planned <= end,
           ~entry.opened => entry.phase = "idle" /\ entry.planned = 0 /\ offsets = {},
           entry.phase = "ran" =>
               \A o \in (entry.done + 1)..entry.planned : o > low => o \in offsets,
           \A o \in (entry.start + 1)..entry.done : o > low => o \in offsets,
           offsets \subseteq (entry.start + 1)..entry.planned
    PROVE  PipelineInv'
  <1>1. query' \in [Queries -> Checkpoint] /\ landed' \in [Queries -> SUBSET (1..end)]
    BY DEF PipelineInv, TypeOK
  <1>2. query'[q] = entry /\ landed'[q] = offsets
    BY DEF PipelineInv, TypeOK
  <1>3. \A r \in Queries \ {q} : query'[r] = query[r] /\ landed'[r] = landed[r]
    BY DEF PipelineInv, TypeOK
  <1>4. end' = end /\ low' = low
    BY DEF topic
  <1>5. IngestionInv'
    BY DEF PipelineInv, IngestionInv, IngestionTypeOK, NothingVanishes, CopiesAreSends,
           SendsLeft, AckedIsThere, FutureIsNowhere, StartsAfresh, In, producer, topic
  <1>6. TypeOK'
    BY <1>1, <1>4, <1>5 DEF PipelineInv, IngestionInv, TypeOK
  <1>7. Ordered(q)' /\ Followed(q)'
    BY <1>2, <1>4 DEF Ordered, Followed, Batch
  <1>8. ASSUME NEW r \in Queries \ {q}
        PROVE  Ordered(r)' /\ Followed(r)'
    BY <1>3, <1>4, Parts DEF Ordered, Followed, Batch
  <1> QED  BY <1>5, <1>6, <1>7, <1>8 DEF PipelineInv, StoresFollowTopic, Followed

\* Generator, producer and broker only let the topic grow.
LEMMA TopicGrows ==
    ASSUME PipelineInv, Ingest, UNCHANGED stream
    PROVE  PipelineInv'
  <1>1. IngestionInv' /\ end' \in Nat /\ end' >= end
    BY IngestKeeps DEF PipelineInv
  <1>2. TypeOK'
    <2>1. low' \in 0..end'
      BY <1>1, Parts DEF stream
    <2>2. 1..end \subseteq 1..end'
      BY <1>1, Parts
    <2> QED  BY <1>1, <2>1, <2>2 DEF PipelineInv, IngestionInv, TypeOK, stream
  <1>3. \A q \in Queries : Ordered(q)' /\ Followed(q)'
    BY <1>1, Parts DEF Ordered, Followed, Batch, stream, Checkpoint
  <1> QED  BY <1>1, <1>2, <1>3 DEF PipelineInv, StoresFollowTopic, Followed

\* Each step of a query keeps PipelineInv.
LEMMA AdvanceKeeps ==
    ASSUME PipelineInv, NEW q \in Queries, Advance(q)
    PROVE  PipelineInv'
  <1> DEFINE e == query[q]
  <1>0. /\ e \in Checkpoint /\ landed[q] \subseteq 1..end /\ end \in Nat /\ low \in Nat
        /\ Ordered(q) /\ Followed(q)
        /\ query \in [Queries -> Checkpoint]
        /\ landed = [landed EXCEPT ![q] = landed[q]]
    BY Parts DEF PipelineInv, TypeOK
  <1>1. CASE Open(q)
    <2> DEFINE entry == [phase |-> "idle", opened |-> TRUE, start |-> end,
                         done |-> end, planned |-> end]
    <2>1. landed[q] = {}
      BY <1>1, <1>0 DEF Open, Ordered
    <2>2. entry \in Checkpoint
      BY <1>0 DEF Checkpoint
    <2>3. query' = [query EXCEPT ![q] = entry] /\ landed' = [landed EXCEPT ![q] = {}]
          /\ UNCHANGED <<producer, topic, low>>
      BY <1>1, <1>0, <2>1 DEF Open, Writes
    <2>4. /\ entry.start = end /\ entry.done = end /\ entry.planned = end
          /\ entry.opened /\ entry.phase = "idle"
      OBVIOUS
    <2>5. /\ \A o \in (entry.start + 1)..entry.done : o > low => o \in {}
          /\ {} \in SUBSET (1..end) /\ end <= end
      BY <1>0, <2>4
    <2> HIDE DEF entry
    <2> QED  BY <2>2, <2>3, <2>4, <2>5, <1>0, OneQuery
  <1>2. CASE Plan(q)
    <2> DEFINE last == Least(end, e.planned + MaxPerTrigger)
               entry == [e EXCEPT !.phase = "planned", !.planned = last]
    <2>1. last \in Nat /\ last <= end /\ e.planned <= last
      BY <1>0, PipelineAssumption DEF Least, Checkpoint, Ordered
    <2>2. /\ query' = [query EXCEPT ![q] = entry] /\ landed' = [landed EXCEPT ![q] = landed[q]]
          /\ UNCHANGED <<producer, topic, low>> /\ e.opened
      BY <1>2, <1>0 DEF Plan, Idle, Writes
    <2> HIDE DEF last
    <2>3. /\ entry.start = e.start /\ entry.done = e.done /\ entry.planned = last
          /\ entry.phase = "planned" /\ entry \in Checkpoint
      BY <1>0, <2>1 DEF Checkpoint
    <2>4. entry.opened
      <3>1. entry.opened = e.opened
        BY <1>0 DEF Checkpoint
      <3> QED  BY <3>1, <2>2
    <2>5. /\ e.start <= e.done /\ e.done <= last /\ landed[q] \subseteq (e.start + 1)..last
          /\ \A o \in (e.start + 1)..e.done : o > low => o \in landed[q]
      BY <1>0, <2>1 DEF Ordered, Followed, Checkpoint
    <2> HIDE DEF entry
    <2> QED  BY <2>1, <2>2, <2>3, <2>4, <2>5, <1>0, OneQuery
  <1>3. CASE Replan(q)
    <2> DEFINE entry == [phase |-> "planned", opened |-> e.opened, start |-> e.start,
                         done |-> e.done, planned |-> e.planned]
    <2>1. /\ query' = [query EXCEPT ![q] = entry] /\ landed' = [landed EXCEPT ![q] = landed[q]]
          /\ UNCHANGED <<producer, topic, low>> /\ e.opened
      <3>1. query' = [query EXCEPT ![q] = [e EXCEPT !.phase = "planned"]]
        BY <1>3, <1>0 DEF Replan, Writes
      <3>2. [e EXCEPT !.phase = "planned"] = entry
        BY <1>0 DEF Checkpoint
      <3> QED  BY <3>1, <3>2, <1>3, <1>0 DEF Replan, Idle, Writes
    <2>2. entry \in Checkpoint
      BY <1>0 DEF Checkpoint
    <2> QED  BY <2>1, <2>2, <1>0, OneQuery DEF Ordered, Followed, Checkpoint
  <1>4. CASE Run(q)
    <2> DEFINE entry == [phase |-> "ran", opened |-> e.opened, start |-> e.start,
                         done |-> e.done, planned |-> e.planned]
               offsets == landed[q] \cup Batch(q)
    <2>1. /\ query' = [query EXCEPT ![q] = entry] /\ landed' = [landed EXCEPT ![q] = offsets]
          /\ UNCHANGED <<producer, topic, low>> /\ e.opened
      <3>1. query' = [query EXCEPT ![q] = [e EXCEPT !.phase = "ran"]]
        BY <1>4, <1>0 DEF Run
      <3>2. [e EXCEPT !.phase = "ran"] = entry
        BY <1>0 DEF Checkpoint
      <3> QED  BY <3>1, <3>2, <1>4, <1>0 DEF Run, Ordered
    <2>2. entry \in Checkpoint
      BY <1>0 DEF Checkpoint
    <2>3. Batch(q) \subseteq (e.start + 1)..e.planned /\ Batch(q) \subseteq 1..end
      BY <1>0 DEF Batch, Ordered, Checkpoint
    <2>4. \A o \in (e.done + 1)..e.planned : o > low => o \in offsets
      BY DEF Batch
    <2>5. /\ offsets \subseteq (e.start + 1)..e.planned /\ offsets \in SUBSET (1..end)
          /\ \A o \in (e.start + 1)..e.done : o > low => o \in offsets
      BY <1>0, <2>3 DEF Followed
    <2> HIDE DEF offsets
    <2> QED  BY <2>1, <2>2, <2>4, <2>5, <1>0, OneQuery DEF Ordered
  <1>5. CASE Commit(q)
    <2> DEFINE entry == [e EXCEPT !.phase = "idle", !.done = e.planned]
    <2>1. /\ query' = [query EXCEPT ![q] = entry] /\ landed' = [landed EXCEPT ![q] = landed[q]]
          /\ UNCHANGED <<producer, topic, low>> /\ e.opened /\ e.phase = "ran"
      BY <1>5, <1>0 DEF Commit, Writes, Ordered
    <2>2. /\ entry.start = e.start /\ entry.done = e.planned /\ entry.planned = e.planned
          /\ entry.phase = "idle" /\ entry \in Checkpoint
      BY <1>0 DEF Checkpoint
    <2>3. entry.opened
      <3>1. entry.opened = e.opened
        BY <1>0 DEF Checkpoint
      <3> QED  BY <3>1, <2>1
    <2>4. \A o \in (e.start + 1)..e.planned : o > low => o \in landed[q]
      BY <1>0, <2>1 DEF Followed, Ordered, Batch, Checkpoint
    <2>5. /\ e.start <= e.planned /\ e.planned <= e.planned /\ e.planned <= end
          /\ landed[q] \subseteq (e.start + 1)..e.planned
      BY <1>0 DEF Ordered, Followed, Checkpoint
    <2> HIDE DEF entry
    <2> QED  BY <2>1, <2>2, <2>3, <2>4, <2>5, <1>0, OneQuery
  <1> QED  BY <1>1, <1>2, <1>3, <1>4, <1>5 DEF Advance

\* No step of the system breaks PipelineInv.
LEMMA NextKeeps ==
    ASSUME PipelineInv, [Next]_vars
    PROVE  PipelineInv'
  <1>1. CASE Ingest /\ UNCHANGED stream
    BY <1>1, TopicGrows
  <1>2. CASE \E q \in Queries : Advance(q)
    BY <1>2, AdvanceKeeps
  <1>3. CASE Terminate
    <2>1. /\ query' \in [Queries -> Checkpoint]
          /\ \A q \in Queries :
                query'[q] = [phase |-> "idle", opened |-> query[q].opened,
                             start |-> query[q].start, done |-> query[q].done,
                             planned |-> query[q].planned]
      BY <1>3, Parts DEF Terminate, Checkpoint
    <2>2. IngestionInv'
      BY <1>3 DEF Terminate, PipelineInv, IngestionInv, IngestionTypeOK, NothingVanishes,
             CopiesAreSends, SendsLeft, AckedIsThere, FutureIsNowhere, StartsAfresh, In,
             producer, topic
    <2>3. TypeOK'
      BY <1>3, <2>1, <2>2, PipelineAssumption
         DEF Terminate, PipelineInv, IngestionInv, TypeOK, topic
    <2>4. \A q \in Queries : Ordered(q)' /\ Followed(q)'
      <3>1. end' = end /\ low' = low /\ landed' = landed
        BY <1>3 DEF Terminate, topic
      <3>2. ASSUME NEW q \in Queries
            PROVE  /\ query'[q].phase = "idle" /\ query'[q].opened = query[q].opened
                   /\ query'[q].start = query[q].start /\ query'[q].done = query[q].done
                   /\ query'[q].planned = query[q].planned
        BY <2>1
      <3> QED  BY <3>1, <3>2, Parts DEF Ordered, Followed
    <2> QED  BY <2>2, <2>3, <2>4 DEF PipelineInv, StoresFollowTopic, Followed
  <1>4. CASE Retire
    <2>1. IngestionInv'
      BY <1>4 DEF Retire, PipelineInv, IngestionInv, IngestionTypeOK, NothingVanishes,
             CopiesAreSends, SendsLeft, AckedIsThere, FutureIsNowhere, StartsAfresh, In,
             producer, topic
    <2>2. TypeOK'
      <3>1. low' \in 0..end'
        BY <1>4, Parts DEF Retire, topic
      <3> QED  BY <1>4, <2>1, <3>1 DEF Retire, PipelineInv, IngestionInv, TypeOK, topic
    <2>3. \A q \in Queries : Ordered(q)' /\ Followed(q)'
      BY <1>4, Parts DEF Ordered, Followed, Batch, Retire, topic, Checkpoint
    <2> QED  BY <2>1, <2>2, <2>3 DEF PipelineInv, StoresFollowTopic, Followed
  <1>5. CASE UNCHANGED vars
    BY <1>5 DEF vars, stream, producer, topic, PipelineInv, TypeOK, IngestionInv,
           IngestionTypeOK, NothingVanishes, CopiesAreSends, SendsLeft, AckedIsThere,
           FutureIsNowhere, StartsAfresh, In, Ordered, Batch, StoresFollowTopic
  <1> QED  BY <1>1, <1>2, <1>3, <1>4, <1>5 DEF Next, Stream

\* The initial states: nothing generated, an empty topic, no checkpoint.
LEMMA InitHolds ==
    ASSUME Init
    PROVE  PipelineInv
  <1>1. IngestionTypeOK
    BY IngestionAssumption, FS_EmptySet DEF Init, IngestionInit, IngestionTypeOK, NoEvents
  <1>2. IngestionInv
    BY <1>1, IngestionAssumption
       DEF Init, IngestionInit, IngestionInv, NothingVanishes, CopiesAreSends, SendsLeft,
           AckedIsThere, FutureIsNowhere, StartsAfresh, In, NoEvents
  <1>3. TypeOK
    BY <1>1, PipelineAssumption DEF Init, IngestionInit, TypeOK, Checkpoint
  <1>4. \A q \in Queries : Ordered(q) /\ Followed(q)
    BY DEF Init, IngestionInit, Ordered, Followed
  <1> QED  BY <1>2, <1>3, <1>4 DEF PipelineInv, StoresFollowTopic, Followed

\* The generator, its producer and both queries keep their invariant, for every choice of
\* the constants.
THEOREM PipelineSafe == Spec => []PipelineInv
  <1>1. Init => PipelineInv
    BY InitHolds
  <1>2. PipelineInv /\ [Next]_vars => PipelineInv'
    BY NextKeeps
  <1> QED  BY <1>1, <1>2, PTL DEF Spec

\* Type correctness; with it, the producer's queue never outgrows its limit.
THEOREM PipelineTypeCorrect == Spec => []TypeOK
  <1>1. PipelineInv => TypeOK
    BY DEF PipelineInv
  <1>2. Spec => []PipelineInv
    BY PipelineSafe
  <1> QED  BY <1>1, <1>2, PTL

\* Every event a running generator counts as sent is in the topic, queued, or logged as
\* failed (kafka_producer.py:14-47).
THEOREM EventsDoNotVanish == Spec => []NothingVanishes
  <1>1. PipelineInv => NothingVanishes
    BY DEF PipelineInv, IngestionInv
  <1>2. Spec => []PipelineInv
    BY PipelineSafe
  <1> QED  BY <1>1, <1>2, PTL

\* No event has more copies in the topic than the producer may send it
\* (kafka_producer.py:27).
THEOREM CopiesAreBounded == Spec => []CopiesAreSends
  <1>1. PipelineInv => CopiesAreSends
    BY DEF PipelineInv, IngestionInv
  <1>2. Spec => []PipelineInv
    BY PipelineSafe
  <1> QED  BY <1>1, <1>2, PTL

\* Each store has what its query has committed and has not passed the retention, and
\* nothing beyond what its checkpoint plans, whichever way the process dies
\* (feature_processor.py:60-63, 107-130).
THEOREM StoresFollow == Spec => []StoresFollowTopic
  <1>1. PipelineInv => StoresFollowTopic
    BY DEF PipelineInv
  <1>2. Spec => []PipelineInv
    BY PipelineSafe
  <1> QED  BY <1>1, <1>2, PTL

-----------------------------------------------------------------------------
(* The refinement of LogConsumers *)

\* What generator, producer and broker do to the topic is at most one append.
LEMMA IngestAppends ==
    ASSUME Ingest
    PROVE  end' = end \/ end' = end + 1
  BY DEF Ingest, Generate, Send, Start, Produce, Refuse, Poll, Shutdown, Flushed, Killed, Gone,
         Deliver, LoseAck, FailToSend, Appends, topic

\* A step of one query changes no other one's view.
LEMMA OneView ==
    ASSUME PipelineInv, NEW q \in Queries, NEW entry, query' = [query EXCEPT ![q] = entry]
    PROVE  /\ {r \in Queries : query'[r].opened}
                = IF entry.opened THEN {r \in Queries : query[r].opened} \cup {q}
                  ELSE {r \in Queries : query[r].opened} \ {q}
           /\ [r \in Queries |-> query'[r].done]
                = [[r \in Queries |-> query[r].done] EXCEPT ![q] = entry.done]
  <1>1. query'[q] = entry /\ \A r \in Queries \ {q} : query'[r] = query[r]
    BY DEF PipelineInv, TypeOK
  <1>2. \A r \in Queries : query'[r].opened <=>
            IF r = q THEN entry.opened ELSE query[r].opened
    BY <1>1
  <1>3. \A r \in Queries : query'[r].done = IF r = q THEN entry.done ELSE query[r].done
    BY <1>1
  <1> QED  BY <1>2, <1>3

LEMMA SameView ==
    ASSUME PipelineInv, NEW q \in Queries, NEW entry, query' = [query EXCEPT ![q] = entry],
           entry.opened = query[q].opened, entry.done = query[q].done
    PROVE  /\ {r \in Queries : query'[r].opened} = {r \in Queries : query[r].opened}
           /\ [r \in Queries |-> query'[r].done] = [r \in Queries |-> query[r].done]
  <1>1. query'[q] = entry /\ \A r \in Queries \ {q} : query'[r] = query[r]
    BY DEF PipelineInv, TypeOK
  <1>2. \A r \in Queries : query'[r].opened = query[r].opened /\ query'[r].done = query[r].done
    BY <1>1
  <1> QED  BY <1>2

\* What a step of a query is to the log: attaching, taking, confirming or nothing.
LEMMA AdvanceConsumes ==
    ASSUME PipelineInv, NEW q \in Queries, Advance(q)
    PROVE  [Log!LogNext]_(Log!logVars)
  <1> DEFINE e == query[q]
             opened == {r \in Queries : query[r].opened}
             done == [r \in Queries |-> query[r].done]
  <1>0. /\ e \in Checkpoint /\ end \in Nat /\ low \in Nat /\ Ordered(q)
        /\ query \in [Queries -> Checkpoint]
        /\ e.done \in Nat /\ e.planned \in e.done..end
        /\ end' = end /\ low' = low
    BY Parts DEF PipelineInv, TypeOK, Ordered, Checkpoint,
                 Advance, Open, Plan, Replan, Run, Commit, Writes, topic
  <1>1. CASE Open(q)
    <2> DEFINE entry == [phase |-> "idle", opened |-> TRUE, start |-> end,
                         done |-> end, planned |-> end]
    <2>1. query' = [query EXCEPT ![q] = entry] /\ landed' = landed /\ ~e.opened
      BY <1>1 DEF Open, Writes
    <2>2. entry.opened /\ entry.done = end
      OBVIOUS
    <2> HIDE DEF entry
    <2>3. Log!Attach(q)
      BY <1>0, <2>1, <2>2, OneView DEF Log!Attach
    <2> QED  BY <2>3 DEF Log!LogNext
  <1>2. CASE Run(q)
    <2> DEFINE entry == [e EXCEPT !.phase = "ran"]
    <2>1. /\ query' = [query EXCEPT ![q] = entry]
          /\ landed' = [landed EXCEPT ![q] = @ \cup Batch(q)]
          /\ e.opened
      BY <1>2, <1>0 DEF Run, Ordered
    <2>2. entry.opened = e.opened /\ entry.done = e.done
      BY <1>0 DEF Checkpoint
    <2> HIDE DEF entry
    <2>3. {r \in Queries : query'[r].opened} = opened /\ [r \in Queries |-> query'[r].done] = done
      BY <2>1, <2>2, SameView
    <2>4. Batch(q) = Log!Left(done[q], e.planned)
      BY DEF Batch, Log!Left
    <2>5. Log!Take(q, e.planned)
      BY <1>0, <2>1, <2>3, <2>4 DEF Log!Take
    <2> QED  BY <1>0, <2>5 DEF Log!LogNext
  <1>3. CASE Commit(q)
    <2> DEFINE entry == [e EXCEPT !.phase = "idle", !.done = e.planned]
    <2>1. query' = [query EXCEPT ![q] = entry] /\ landed' = landed /\ e.opened /\ e.phase = "ran"
      BY <1>3, <1>0 DEF Commit, Writes, Ordered
    <2>2. entry.opened = e.opened /\ entry.done = e.planned
      BY <1>0 DEF Checkpoint
    <2> HIDE DEF entry
    <2>3. /\ {r \in Queries : query'[r].opened} = opened
          /\ [r \in Queries |-> query'[r].done] = [done EXCEPT ![q] = e.planned]
      BY <2>1, <2>2, OneView
    <2>4. Log!Left(done[q], e.planned) \subseteq landed[q]
      BY <1>0, <2>1 DEF Batch, Ordered, Log!Left
    <2>5. Log!Confirm(q, e.planned)
      BY <1>0, <2>1, <2>3, <2>4 DEF Log!Confirm
    <2>6. e.planned \in done[q]..end
      BY <1>0
    <2>7. \E k \in done[q]..end : Log!Confirm(q, k)
      BY <2>5, <2>6, Zenon DEF Log!Confirm
    <2> QED  BY <2>7 DEF Log!LogNext
  <1>4. ASSUME NEW planned, Writes(q, [e EXCEPT !.phase = "planned", !.planned = planned])
        PROVE  UNCHANGED Log!logVars
    <2> DEFINE entry == [e EXCEPT !.phase = "planned", !.planned = planned]
    <2>1. query' = [query EXCEPT ![q] = entry] /\ landed' = landed
      BY <1>4 DEF Writes
    <2>2. entry.opened = e.opened /\ entry.done = e.done
      BY <1>0 DEF Checkpoint
    <2> HIDE DEF entry
    <2>3. {r \in Queries : query'[r].opened} = opened /\ [r \in Queries |-> query'[r].done] = done
      BY <2>1, <2>2, SameView
    <2> QED  BY <1>0, <2>1, <2>3 DEF Log!logVars, Log!consumers
  <1>5. CASE Plan(q)
    BY <1>4, <1>5 DEF Plan
  <1>6. CASE Replan(q)
    <2>1. [e EXCEPT !.phase = "planned"] = [e EXCEPT !.phase = "planned", !.planned = e.planned]
      BY <1>0 DEF Checkpoint
    <2>2. Writes(q, [e EXCEPT !.phase = "planned", !.planned = e.planned])
      BY <1>6, <2>1 DEF Replan
    <2> QED  BY <1>4, <2>2
  <1> QED  BY <1>1, <1>2, <1>3, <1>5, <1>6 DEF Advance

\* Every store is an at-least-once consumer of the topic, for any number of queries, any
\* retention, and wherever the process ends between plan, run and commit
\* (feature_processor.py:60-63, 107-133).
THEOREM StoresConsumeTheLog == Spec => ImplementsLog
  <1>1. Init => Log!LogInit
    BY DEF Init, IngestionInit, Log!LogInit
  <1>2. PipelineInv /\ [Next]_vars => [Log!LogNext]_(Log!logVars)
    <2> SUFFICES ASSUME PipelineInv, [Next]_vars
                 PROVE  [Log!LogNext]_(Log!logVars)
      OBVIOUS
    <2>1. CASE Ingest /\ UNCHANGED stream
      <3>1. low' = low /\ query' = query /\ landed' = landed
        BY <2>1 DEF stream
      <3>2. UNCHANGED Log!consumers
        BY <3>1 DEF Log!consumers
      <3> QED  BY <2>1, <3>1, <3>2, IngestAppends DEF Log!LogNext, Log!Append, Log!logVars
    <2>2. CASE \E q \in Queries : Advance(q)
      BY <2>2, AdvanceConsumes
    <2>3. CASE Terminate
      <3>1. end' = end /\ low' = low /\ landed' = landed
        BY <2>3 DEF Terminate, topic
      <3>2. \A q \in Queries : query'[q].opened = query[q].opened /\ query'[q].done = query[q].done
        BY <2>3, Parts DEF Terminate, Checkpoint
      <3> QED  BY <3>1, <3>2 DEF Log!logVars, Log!consumers
    <2>4. CASE Retire
      <3>1. Log!Trim
        BY <2>4 DEF Retire, Log!Trim, Log!consumers, topic
      <3> QED  BY <3>1 DEF Log!LogNext
    <2>5. CASE UNCHANGED vars
      BY <2>5 DEF vars, stream, topic, Log!logVars, Log!consumers
    <2> QED  BY <2>1, <2>2, <2>3, <2>4, <2>5 DEF Next, Stream
  <1> QED  BY <1>1, <1>2, PipelineSafe, PTL DEF Spec, ImplementsLog, Log!LogSpec

=============================================================================
