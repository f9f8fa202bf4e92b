--------------------------- MODULE RegistryProofs ---------------------------
(***************************************************************************)
(* Registry for any number of workers and seeds: the type invariant, that a   *)
(* definition is seeded once or not at all, and that whoever serves has them   *)
(* all.  The invariant RegistryInv is inductive.                               *)
(***************************************************************************)
EXTENDS Registry, FiniteSetTheorems, TLAPS

\* What a worker's state may be.
Job == [phase : Phases, next : 1..(Len(Seeds) + 1), added : SUBSET Names]

\* That worker w may hold j without breaking the invariant.
Fits(w, j) ==
    /\ j \in Job
    /\ j.phase # "ready"
    /\ \A f \in j.added :
          rows[f] = 0 /\ \A v \in Workers \ {w} : f \notin worker[v].added
    /\ j.phase \in {"look", "insert"} =>
          \A i \in 1..(j.next - 1) : rows[Seeds[i]] > 0 \/ Seeds[i] \in j.added
    /\ j.phase = "insert" => j.next <= Len(Seeds)
    /\ j.phase \notin {"look", "insert"} => j.added = {} /\ j.next = 1

\* The seeds are names, and every name is a seed.
LEMMA SeedNames ==
    /\ Len(Seeds) \in Nat
    /\ \A i \in 1..Len(Seeds) : Seeds[i] \in Names
    /\ \A f \in Names : \E i \in 1..Len(Seeds) : f = Seeds[i]
  BY RegistryAssumption DEF Names

\* A worker at rest fits always.
LEMMA DownFits ==
    ASSUME NEW w \in Workers
    PROVE  Fits(w, Down)
  BY SeedNames DEF Fits, Down, Job, Phases

\* A step that changes one worker, to something that fits, and nothing that is
\* committed, keeps the invariant.
LEMMA OneWorkerMoves ==
    ASSUME RegistryInv, NEW w \in Workers, NEW j, Fits(w, j),
           worker' = [worker EXCEPT ![w] = j],
           created' \in BOOLEAN, crashes' \in 0..MaxCrashes,
           rows' = rows, lineage' = lineage
    PROVE  RegistryInv'
  <1> USE DEF RegistryInv
  <1>1. /\ worker \in [Workers -> Job]
        /\ worker'[w] = j
        /\ \A v \in Workers \ {w} : worker'[v] = worker[v]
    BY DEF TypeOK, Job
  <1>2. TypeOK'
    <2>1. worker' \in [Workers -> Job]
      BY <1>1 DEF Fits
    <2> QED  BY <2>1 DEF TypeOK, Job
  <1>3. SeededOnce' /\ ServingIsSeeded'
    BY <1>1 DEF SeededOnce, ServingIsSeeded, Fits
  <1>4. Exclusive'
    <2> SUFFICES ASSUME NEW u \in Workers, NEW f \in worker'[u].added
                 PROVE  /\ rows[f] = 0
                        /\ \A v \in Workers \ {u} : f \notin worker'[v].added
      BY DEF Exclusive
    <2>1. CASE u = w
      BY <2>1, <1>1 DEF Fits
    <2>2. CASE u # w
      <3>1. f \notin j.added
        BY <2>2, <1>1 DEF Fits
      <3> QED  BY <2>2, <3>1, <1>1 DEF Exclusive
    <2> QED  BY <2>1, <2>2
  <1>5. Passed'
    BY <1>1 DEF Passed, Fits
  <1>6. AddsInTime'
    BY <1>1 DEF AddsInTime, Fits
  <1> QED  BY <1>2, <1>3, <1>4, <1>5, <1>6

\* A commit completes the registry: what the worker adds nobody else has added or
\* committed, and what it does not add is there.
LEMMA CommitCompletes ==
    ASSUME RegistryInv, NEW w \in Workers, Commit(w)
    PROVE  \A f \in Names :
              /\ f \in worker[w].added => rows[f] = 0
              /\ rows'[f] = 1 /\ lineage'[f] = Steps
  <1> USE DEF RegistryInv
  <1> DEFINE mine == worker[w].added
  <1>1. worker \in [Workers -> Job]
    BY DEF TypeOK, Job
  <1>2. \A f \in Names :
           /\ f \in mine => rows[f] = 0 /\ lineage[f] = 0
           /\ f \notin mine => rows[f] = 1 /\ lineage[f] = Steps
    <2> SUFFICES ASSUME NEW f \in Names
                 PROVE  /\ f \in mine => rows[f] = 0 /\ lineage[f] = 0
                        /\ f \notin mine => rows[f] = 1 /\ lineage[f] = Steps
      OBVIOUS
    <2>1. <<rows[f], lineage[f]>> \in {<<0, 0>>, <<1, Steps>>}
      BY DEF SeededOnce
    <2>2. f \in mine => rows[f] = 0
      BY DEF Exclusive
    <2>3. f \notin mine => rows[f] > 0
      <3>1. PICK i \in 1..Len(Seeds) : f = Seeds[i]
        BY SeedNames
      <3>2. i \in 1..(worker[w].next - 1)
        BY <1>1, SeedNames DEF Commit, Job
      <3> QED  BY <3>1, <3>2 DEF Passed, Commit
    <2>4. \/ rows[f] = 0 /\ lineage[f] = 0
          \/ rows[f] = 1 /\ lineage[f] = Steps
      BY <2>1
    <2> QED  BY <2>2, <2>3, <2>4
  <1>3. \A f \in Names : rows'[f] = 1 /\ lineage'[f] = Steps
    BY <1>2, RegistryAssumption DEF Commit
  <1> QED  BY <1>2, <1>3

\* So it keeps the invariant.
LEMMA CommitKeeps ==
    ASSUME RegistryInv, NEW w \in Workers, Commit(w)
    PROVE  RegistryInv'
  <1> USE DEF RegistryInv
  <1> DEFINE j == [Down EXCEPT !.phase = "ready"]
             mine == worker[w].added
  <1>1. j = [phase |-> "ready", next |-> 1, added |-> {}]
    BY DEF Down
  <1>2. j \in Job
    BY <1>1, SeedNames DEF Job, Phases
  <1> HIDE DEF j
  <1>3. /\ worker \in [Workers -> Job]
        /\ worker'[w] = j
        /\ \A v \in Workers \ {w} : worker'[v] = worker[v]
        /\ worker' \in [Workers -> Job]
    BY <1>2 DEF TypeOK, Job, Commit, j
  <1>4. mine \subseteq Names
    BY <1>3 DEF Job
  <1>5. \A f \in Names :
           /\ f \in mine => rows[f] = 0
           /\ rows'[f] = 1 /\ lineage'[f] = Steps
    BY CommitCompletes
  <1>7. TypeOK'
    <2>1. rows' \in [Names -> Nat] /\ lineage' \in [Names -> Nat]
      BY <1>5, RegistryAssumption DEF Commit
    <2> QED  BY <2>1, <1>3 DEF TypeOK, Job, Commit
  <1>8. SeededOnce' /\ ServingIsSeeded'
    BY <1>5 DEF SeededOnce, ServingIsSeeded
  <1>9. Exclusive'
    <2> SUFFICES ASSUME NEW u \in Workers, NEW f \in worker'[u].added
                 PROVE  /\ rows'[f] = 0
                        /\ \A v \in Workers \ {u} : f \notin worker'[v].added
      BY DEF Exclusive
    <2>1. u # w /\ f \in worker[u].added
      BY <1>1, <1>3 DEF j
    <2>2. f \in Names /\ rows[f] = 0 /\ f \notin mine
      BY <2>1, <1>3 DEF Exclusive, Job
    <2>3. rows'[f] = 0
      BY <2>2 DEF Commit, TypeOK
    <2> QED  BY <2>2, <2>3, <1>5
  <1>10. Passed'
    BY <1>1, <1>3, <1>5, SeedNames DEF Passed, j, Job
  <1>11. AddsInTime'
    BY <1>1, <1>3 DEF AddsInTime, j
  <1> QED  BY <1>7, <1>8, <1>9, <1>10, <1>11

LEMMA InitInv == Init => RegistryInv
  <1> SUFFICES ASSUME Init  PROVE RegistryInv
    OBVIOUS
  <1>1. \A w \in Workers : worker[w] = Down
    BY DEF Init
  <1>2. Down = [phase |-> "down", next |-> 1, added |-> {}] /\ Down \in Job
    BY SeedNames DEF Down, Job, Phases
  <1>3. \A f \in Names : <<rows[f], lineage[f]>> \in {<<0, 0>>, <<1, Steps>>}
    BY DEF Init
  <1>4. TypeOK
    <2>1. rows \in [Names -> Nat] /\ lineage \in [Names -> Nat]
      BY RegistryAssumption DEF Init
    <2> QED  BY <2>1, <1>2, RegistryAssumption DEF Init, TypeOK, Job
  <1> QED
    BY <1>1, <1>2, <1>3, <1>4
    DEF RegistryInv, SeededOnce, ServingIsSeeded, Exclusive, Passed, AddsInTime

\* Looking a seed up: a hit has it behind the worker, a miss leaves it to insert.
LEMMA LookKeeps ==
    ASSUME RegistryInv, NEW w \in Workers, Look(w)
    PROVE  RegistryInv'
  <1>1. worker \in [Workers -> Job] /\ worker[w].phase = "look"
    BY DEF RegistryInv, TypeOK, Job, Look
  <1>2. \A f \in worker[w].added :
           rows[f] = 0 /\ \A v \in Workers \ {w} : f \notin worker[v].added
    BY DEF RegistryInv, Exclusive
  <1>3. \A i \in 1..(worker[w].next - 1) :
           rows[Seeds[i]] > 0 \/ Seeds[i] \in worker[w].added
    BY <1>1 DEF RegistryInv, Passed
  <1>4. created' \in BOOLEAN /\ crashes' \in 0..MaxCrashes /\ rows' = rows /\ lineage' = lineage
    BY DEF Look, database, RegistryInv, TypeOK
  <1>5. CASE Found(w) /\ worker' = Skipped(w)
    <2> DEFINE j == [worker[w] EXCEPT !.next = @ + 1]
    <2>1. worker' = [worker EXCEPT ![w] = j]
      BY <1>1, <1>5 DEF Skipped
    <2>2. j \in Job /\ j.phase = "look" /\ j.added = worker[w].added
                    /\ j.next = worker[w].next + 1
      BY <1>1, SeedNames DEF Job, Look
    <2>3. \A i \in 1..(j.next - 1) : rows[Seeds[i]] > 0 \/ Seeds[i] \in j.added
      BY <2>2, <1>1, <1>3, <1>5, SeedNames DEF Found, Current, Job
    <2> HIDE DEF j
    <2>4. Fits(w, j)
      BY <2>2, <2>3, <1>2 DEF Fits
    <2> QED  BY <2>1, <2>4, <1>4, OneWorkerMoves
  <1>6. CASE Goes(w, "insert")
    <2> DEFINE j == [worker[w] EXCEPT !.phase = "insert"]
    <2>1. worker' = [worker EXCEPT ![w] = j]
      BY <1>1, <1>6 DEF Goes
    <2>2. j \in Job /\ j.phase = "insert" /\ j.added = worker[w].added
                    /\ j.next = worker[w].next /\ j.next <= Len(Seeds)
      BY <1>1 DEF Job, Look, Phases
    <2> HIDE DEF j
    <2>4. Fits(w, j)
      BY <2>2, <1>2, <1>3 DEF Fits
    <2> QED  BY <2>1, <2>4, <1>4, OneWorkerMoves
  <1> QED  BY <1>5, <1>6 DEF Look

\* Inserting a name nobody has, committed or under way, keeps names exclusive.
LEMMA InsertKeeps ==
    ASSUME RegistryInv, NEW w \in Workers, Insert(w)
    PROVE  RegistryInv'
  <1> DEFINE j == [phase |-> "look", next |-> worker[w].next + 1,
                   added |-> worker[w].added \cup {Current(w)}]
  <1>1. worker \in [Workers -> Job] /\ worker[w].next <= Len(Seeds)
    BY DEF RegistryInv, TypeOK, Job, Insert, AddsInTime
  <1>2. Current(w) \in Names /\ rows[Current(w)] = 0
    <2>1. Current(w) \in Names
      BY <1>1, SeedNames DEF Current, Job
    <2>2. rows[Current(w)] \in Nat /\ ~(rows[Current(w)] > 0)
      BY <2>1 DEF Insert, Taken, RegistryInv, TypeOK
    <2> QED  BY <2>1, <2>2
  <1>3. worker' = [worker EXCEPT ![w] = j]
    BY DEF Insert
  <1>4. j \in Job
    BY <1>1, <1>2, SeedNames DEF Job, Phases
  <1>5. \A f \in j.added :
           rows[f] = 0 /\ \A v \in Workers \ {w} : f \notin worker[v].added
    BY <1>2 DEF RegistryInv, Exclusive, Insert, Contended
  <1>6. \A i \in 1..(j.next - 1) : rows[Seeds[i]] > 0 \/ Seeds[i] \in j.added
    <2>1. \A i \in 1..(worker[w].next - 1) :
             rows[Seeds[i]] > 0 \/ Seeds[i] \in worker[w].added
      BY DEF RegistryInv, Passed, Insert
    <2>2. worker[w].next \in Nat /\ j.next = worker[w].next + 1
      BY <1>1 DEF Job
    <2>3. Seeds[worker[w].next] \in j.added /\ worker[w].added \subseteq j.added
      BY DEF Current
    <2> HIDE DEF j
    <2> SUFFICES ASSUME NEW i \in 1..(j.next - 1)
                 PROVE  rows[Seeds[i]] > 0 \/ Seeds[i] \in j.added
      OBVIOUS
    <2>4. i = worker[w].next \/ i \in 1..(worker[w].next - 1)
      BY <2>2
    <2> QED  BY <2>1, <2>3, <2>4
  <1>7. Fits(w, j)
    BY <1>4, <1>5, <1>6 DEF Fits
  <1> HIDE DEF j
  <1> QED
    BY <1>3, <1>7, OneWorkerMoves DEF Insert, database, RegistryInv, TypeOK

\* The other steps give one worker a phase before the first seed, or take it down.
LEMMA OtherStepsKeep ==
    ASSUME RegistryInv, NEW w \in Workers,
           \/ Start(w) \/ CheckTables(w) \/ CreateTables(w)
           \/ Fail(w) \/ Crash(w) \/ Stop(w)
    PROVE  RegistryInv'
  <1>1. worker \in [Workers -> Job]
    BY DEF RegistryInv, TypeOK, Job
  <1>2. /\ rows' = rows /\ lineage' = lineage
        /\ created' \in BOOLEAN /\ crashes' \in 0..MaxCrashes
    <2>1. rows' = rows /\ lineage' = lineage
      BY DEF Start, CheckTables, CreateTables, Fail, Crash, Stop, database
    <2>2. created' \in BOOLEAN
      <3>1. created' = created \/ created' = TRUE
        BY DEF Start, CheckTables, CreateTables, Fail, Crash, Stop, database
      <3>2. created \in BOOLEAN
        BY DEF RegistryInv, TypeOK
      <3> QED  BY <3>1, <3>2, Zenon
    <2>3. crashes' \in 0..MaxCrashes
      <3>1. crashes' = crashes \/ (crashes < MaxCrashes /\ crashes' = crashes + 1)
        BY DEF Start, CheckTables, CreateTables, Fail, Crash, Stop
      <3>2. crashes \in 0..MaxCrashes
        BY DEF RegistryInv, TypeOK
      <3> QED  BY <3>1, <3>2, RegistryAssumption
    <2> QED  BY <2>1, <2>2, <2>3
  <1>3. CASE worker' = [worker EXCEPT ![w] = Down]
    BY <1>2, <1>3, DownFits, OneWorkerMoves
  <1>4. ASSUME worker[w].phase \in {"down", "tables", "create"},
               NEW phase \in {"tables", "create", "look"}, Goes(w, phase)
        PROVE  RegistryInv'
    <2> DEFINE j == [worker[w] EXCEPT !.phase = phase]
    <2>1. worker' = [worker EXCEPT ![w] = j]
      BY <1>1, <1>4 DEF Goes
    <2>2. worker[w].added = {} /\ worker[w].next = 1
      BY <1>4 DEF RegistryInv, AddsInTime
    <2>3. j \in Job /\ j.phase = phase /\ j.added = {} /\ j.next = 1
      BY <1>1, <1>4, <2>2 DEF Job, Phases
    <2> HIDE DEF j
    <2>4. Fits(w, j)
      BY <1>4, <2>3 DEF Fits
    <2> QED  BY <1>2, <2>1, <2>4, OneWorkerMoves
  <1>5. \/ worker' = [worker EXCEPT ![w] = Down]
        \/ /\ worker[w].phase \in {"down", "tables", "create"}
           /\ \E phase \in {"tables", "create", "look"} : Goes(w, phase)
    BY DEF Start, CheckTables, CreateTables, Fail, Crash, Stop
  <1> QED  BY <1>3, <1>4, <1>5

LEMMA NextInv == RegistryInv /\ [Next]_vars => RegistryInv'
  <1> SUFFICES ASSUME RegistryInv, [Next]_vars  PROVE RegistryInv'
    OBVIOUS
  <1>1. CASE UNCHANGED vars
    BY <1>1 DEF vars, database, RegistryInv, TypeOK, SeededOnce, ServingIsSeeded,
                Exclusive, Passed, AddsInTime
  <1>2. ASSUME NEW w \in Workers, Lifespan(w) \/ Crash(w) \/ Stop(w)
        PROVE  RegistryInv'
    BY <1>2, LookKeeps, InsertKeeps, CommitKeeps, OtherStepsKeep DEF Lifespan
  <1> QED  BY <1>1, <1>2 DEF Next

-----------------------------------------------------------------------------

\* For any number of workers and seeds, and through any crashes: names under way in
\* one transaction are in no other and not committed, and a worker passes only names
\* that are there or that it adds (seed_data.py:102-122).
THEOREM RegistrySafe == Spec => []RegistryInv
  BY InitInv, NextInv, PTL DEF Spec

\* The type invariant: a worker's loop over FEATURE_SEEDS never runs past its end.
THEOREM RegistryTypeCorrect == Spec => []TypeOK
  <1>1. RegistryInv => TypeOK
    BY DEF RegistryInv
  <1> QED  BY <1>1, RegistrySafe, PTL

\* However many workers race to seed_features, a definition is committed once, with
\* its whole lineage, or not at all.
THEOREM DefinitionsAreSeededOnce == Spec => []SeededOnce
  <1>1. RegistryInv => SeededOnce
    BY DEF RegistryInv
  <1> QED  BY <1>1, RegistrySafe, PTL

\* A worker whose lifespan is through finds every definition, whether it seeded them
\* or another worker did (api/main.py:28-44).
THEOREM ServersAreSeeded == Spec => []ServingIsSeeded
  <1>1. RegistryInv => ServingIsSeeded
    BY DEF RegistryInv
  <1> QED  BY <1>1, RegistrySafe, PTL

-----------------------------------------------------------------------------
(* The refinement of FeatureCatalog *)

\* A commit completes the catalogue, and its worker serves from then on.
LEMMA CommitPublishes ==
    ASSUME RegistryInv, NEW w \in Workers, Commit(w)
    PROVE  Promise!Publish(w)
  <1>1. worker \in [Workers -> Job]
    BY DEF RegistryInv, TypeOK, Job
  <1>2. \A f \in Names : rows'[f] = 1 /\ lineage'[f] = Steps
    BY CommitCompletes
  <1>3. [f \in Names |-> <<rows'[f], lineage'[f]>>] = [f \in Names |-> <<1, Steps>>]
    BY <1>2
  <1>4. worker'[w].phase = "ready" /\ \A v \in Workers \ {w} : worker'[v] = worker[v]
    BY <1>1 DEF Commit, Down
  <1>5. {v \in Workers : worker'[v].phase = "ready"}
          = {v \in Workers : worker[v].phase = "ready"} \cup {w}
    BY <1>4
  <1>6. worker[w].phase # "ready"
    BY DEF Commit
  <1> QED  BY <1>3, <1>5, <1>6 DEF Promise!Publish

\* A server that stops leaves the catalogue as it is.
LEMMA StopLeaves ==
    ASSUME RegistryInv, NEW w \in Workers, Stop(w)
    PROVE  Promise!Leave(w)
  <1>1. worker \in [Workers -> Job]
    BY DEF RegistryInv, TypeOK, Job
  <1>2. worker'[w].phase = "down" /\ \A v \in Workers \ {w} : worker'[v] = worker[v]
    BY <1>1 DEF Stop, Down
  <1>3. {v \in Workers : worker'[v].phase = "ready"}
          = {v \in Workers : worker[v].phase = "ready"} \ {w}
    BY <1>2
  <1> QED  BY <1>3 DEF Stop, database, Promise!Leave

\* All other steps are those of one worker that neither served nor serves after it.
LEMMA OthersShowNothing ==
    ASSUME RegistryInv, NEW w \in Workers,
           \/ Start(w) \/ CheckTables(w) \/ CreateTables(w)
           \/ Look(w) \/ Insert(w) \/ Fail(w) \/ Crash(w)
    PROVE  UNCHANGED Promise!catalogVars
  <1>1. worker \in [Workers -> Job]
    BY DEF RegistryInv, TypeOK, Job
  <1>2. rows' = rows /\ lineage' = lineage
    BY DEF Start, CheckTables, CreateTables, Look, Insert, Fail, Crash, database
  <1>3. worker[w].phase # "ready"
    BY DEF Start, CheckTables, CreateTables, Look, Insert, Fail, Refused, Crash
  <1>4. worker'[w].phase # "ready" /\ \A v \in Workers \ {w} : worker'[v] = worker[v]
    <2>1. CASE \E phase \in Phases \ {"ready"} : Goes(w, phase)
      BY <1>1, <2>1 DEF Goes, Job
    <2>2. CASE worker' = [worker EXCEPT ![w] = Down]
      BY <1>1, <2>2 DEF Down
    <2>3. CASE worker' = Skipped(w)
      BY <1>1, <1>3, <2>3 DEF Skipped, Job
    <2>4. CASE Insert(w)
      BY <1>1, <2>4 DEF Insert
    <2> QED
      BY <2>1, <2>2, <2>3, <2>4
      DEF Start, CheckTables, CreateTables, Look, Fail, Crash, Phases
  <1>5. {v \in Workers : worker'[v].phase = "ready"} = {v \in Workers : worker[v].phase = "ready"}
    BY <1>3, <1>4
  <1> QED  BY <1>2, <1>5 DEF Promise!catalogVars

\* What clients see of any number of workers that start, race, fail, die and stop is a
\* catalogue that is completed at once, before anybody serves, and never changes after
\* (api/main.py:28-44, seed_data.py:102-122).
THEOREM RegistryIsCatalog == Spec => ImplementsCatalog
  <1>1. Init => Promise!CatalogInit
    <2> SUFFICES ASSUME Init  PROVE Promise!CatalogInit
      OBVIOUS
    <2>1. \A w \in Workers : worker[w].phase = "down"
      BY DEF Init, Down
    <2>2. \A f \in Names : <<rows[f], lineage[f]>> \in {<<0, 0>>, <<1, Steps>>}
      BY DEF Init
    <2> QED  BY <2>1, <2>2 DEF Promise!CatalogInit
  <1>2. RegistryInv /\ [Next]_vars => [Promise!CatalogNext]_(Promise!catalogVars)
    <2> SUFFICES ASSUME RegistryInv, [Next]_vars
                 PROVE  [Promise!CatalogNext]_(Promise!catalogVars)
      OBVIOUS
    <2>1. CASE UNCHANGED vars
      BY <2>1 DEF vars, database, Promise!catalogVars
    <2>2. ASSUME NEW w \in Workers, Lifespan(w) \/ Crash(w) \/ Stop(w)
          PROVE  [Promise!CatalogNext]_(Promise!catalogVars)
      <3>1. CASE Commit(w)
        BY <3>1, CommitPublishes DEF Promise!CatalogNext
      <3>2. CASE Stop(w)
        BY <3>2, StopLeaves DEF Promise!CatalogNext
      <3>3. CASE \/ Start(w) \/ CheckTables(w) \/ CreateTables(w)
                 \/ Look(w) \/ Insert(w) \/ Fail(w) \/ Crash(w)
        BY <3>3, OthersShowNothing
      <3> QED  BY <2>2, <3>1, <3>2, <3>3 DEF Lifespan
    <2> QED  BY <2>1, <2>2 DEF Next
  <1> QED  BY <1>1, <1>2, RegistrySafe, PTL DEF Spec, ImplementsCatalog, Promise!CatalogSpec

-----------------------------------------------------------------------------
(* No two workers wait for one another *)

\* Worker w's INSERT waits for the transaction of worker v.
WaitsFor(w, v) ==
    worker[w].phase = "insert" /\ v # w /\ Current(w) \in worker[v].added

\* What a worker has added lies behind it in FEATURE_SEEDS.
AddedBehind ==
    \A w \in Workers : \A f \in worker[w].added :
        \E i \in 1..(worker[w].next - 1) : f = Seeds[i]

\* Who is waited for is further down FEATURE_SEEDS, since all workers insert in its
\* order (seed_data.py:102), so waits form no circle; and behind them is a worker with
\* an open transaction that waits for nobody.
WaitsLookForward ==
    \A w, v \in Workers : WaitsFor(w, v) => worker[w].next < worker[v].next
SomebodyGoesOn ==
    (\E w, v \in Workers : WaitsFor(w, v)) =>
        \E u \in Workers : worker[u].added # {} /\ \A v \in Workers : ~WaitsFor(u, v)

\* A set of numbers up to n has a greatest one.
LEMMA Greatest ==
    ASSUME NEW n \in Nat, NEW T \in SUBSET (1..n), T # {}
    PROVE  \E m \in T : \A i \in T : i <= m
  <1> DEFINE From(k) == {i \in T : i >= k}
             Tails == {From(k) : k \in T}
             R == StrictSubsetOrdering(1..n)
  <1>1. IsFiniteSet(1..n)
    BY FS_Interval
  <1>2. IsWellFoundedOn(R, FiniteSubsetsOf(1..n))
    BY <1>1, FS_StrictSubsetOrderingWellFounded
  <1>3. Tails \subseteq FiniteSubsetsOf(1..n) /\ Tails # {}
    <2>1. \A k \in T : From(k) \in SUBSET (1..n)
      OBVIOUS
    <2>2. \A U \in SUBSET (1..n) : U \in FiniteSubsetsOf(1..n)
      BY <1>1, FS_Subset DEF FiniteSubsetsOf
    <2> HIDE DEF From
    <2> QED  BY <2>1, <2>2
  <1>4. PICK U \in Tails : \A V \in Tails : ~(<<V, U>> \in R)
    <2> HIDE DEF Tails, R
    <2> QED  BY <1>2, <1>3, WFMin
  <1>5. PICK m \in T : U = From(m)
    OBVIOUS
  <1>6. ASSUME NEW i \in T, i > m  PROVE FALSE
    <2>1. From(i) \in Tails
      OBVIOUS
    <2>2. From(i) \subseteq From(m) /\ From(i) # From(m)
      <3>1. i \in Int /\ m \in Int /\ \A k \in T : k \in Int
        OBVIOUS
      <3>2. m \in From(m) /\ m \notin From(i)
        BY <1>6, <3>1
      <3>3. \A k \in T : k >= i => k >= m
        BY <1>6, <3>1
      <3>4. From(i) \subseteq From(m)
        BY <3>3
      <3> QED  BY <3>2, <3>4
    <2>3. <<From(i), U>> \in R
      BY <2>2, <1>5 DEF StrictSubsetOrdering
    <2> QED  BY <2>1, <2>3, <1>4
  <1> QED  BY <1>6

\* A worker's insertions move up with it.
LEMMA AddedStaysBehind == RegistryInv /\ AddedBehind /\ [Next]_vars => AddedBehind'
  <1> SUFFICES ASSUME RegistryInv, AddedBehind, [Next]_vars  PROVE AddedBehind'
    OBVIOUS
  <1>1. worker \in [Workers -> Job]
    BY DEF RegistryInv, TypeOK, Job
  <1>2. CASE UNCHANGED vars
    BY <1>2 DEF vars, AddedBehind
  <1>3. ASSUME NEW w \in Workers, Lifespan(w) \/ Crash(w) \/ Stop(w)
        PROVE  AddedBehind'
    <2> DEFINE Behind(j) == \A f \in j.added : \E i \in 1..(j.next - 1) : f = Seeds[i]
    <2>1. worker[w].next \in Nat /\ Behind(worker[w])
      BY <1>1 DEF AddedBehind, Job
    <2>2. ASSUME NEW j, worker' = [worker EXCEPT ![w] = j], Behind(j)
          PROVE  AddedBehind'
      <3>1. worker'[w] = j /\ \A v \in Workers \ {w} : worker'[v] = worker[v]
        BY <1>1, <2>2
      <3> QED  BY <3>1, <2>2 DEF AddedBehind
    <2>3. CASE \E phase \in Phases : Goes(w, phase)
      <3>1. PICK phase \in Phases : Goes(w, phase)
        BY <2>3
      <3> DEFINE j == [worker[w] EXCEPT !.phase = phase]
      <3>2. worker' = [worker EXCEPT ![w] = j]
        BY <1>1, <3>1 DEF Goes
      <3>3. j.added = worker[w].added /\ j.next = worker[w].next
        BY <1>1 DEF Job
      <3> HIDE DEF j
      <3>4. Behind(j)
        BY <2>1, <3>3
      <3> HIDE DEF Behind
      <3> QED  BY <2>2, <3>2, <3>4
    <2>4. CASE worker' = Skipped(w)
      <3> DEFINE j == [worker[w] EXCEPT !.next = @ + 1]
      <3>1. worker' = [worker EXCEPT ![w] = j]
        BY <1>1, <2>4 DEF Skipped
      <3>2. j.added = worker[w].added /\ j.next = worker[w].next + 1
        BY <1>1 DEF Job
      <3> HIDE DEF j
      <3>3. 1..(worker[w].next - 1) \subseteq 1..(j.next - 1)
        BY <2>1, <3>2
      <3>4. Behind(j)
        BY <2>1, <3>2, <3>3
      <3> HIDE DEF Behind
      <3> QED  BY <2>2, <3>1, <3>4
    <2>5. CASE Insert(w)
      <3> DEFINE j == [phase |-> "look", next |-> worker[w].next + 1,
                       added |-> worker[w].added \cup {Current(w)}]
      <3>1. worker' = [worker EXCEPT ![w] = j]
        BY <2>5 DEF Insert
      <3>2. j.next = worker[w].next + 1 /\ j.added = worker[w].added \cup {Current(w)}
        OBVIOUS
      <3> HIDE DEF j
      <3>3. worker[w].next \in 1..(j.next - 1)
        BY <1>1, <3>2 DEF Job
      <3>4. 1..(worker[w].next - 1) \subseteq 1..(j.next - 1)
        BY <2>1, <3>2
      <3>5. Behind(j)
        BY <2>1, <3>2, <3>3, <3>4 DEF Current
      <3> QED  BY <2>2, <3>1, <3>5
    <2>6. CASE worker' = [worker EXCEPT ![w] = Down]
      <3>1. Behind(Down)
        BY DEF Down
      <3> HIDE DEF Behind
      <3> QED  BY <2>2, <2>6, <3>1
    <2>7. CASE Commit(w)
      <3> DEFINE j == [Down EXCEPT !.phase = "ready"]
      <3>1. worker' = [worker EXCEPT ![w] = j] /\ j.added = {}
        BY <2>7 DEF Commit, Down
      <3> HIDE DEF j
      <3> QED  BY <2>2, <3>1
    <2> QED
      BY <1>3, <2>3, <2>4, <2>5, <2>6, <2>7
      DEF Lifespan, Start, CheckTables, CreateTables, Look, Fail, Crash, Stop, Phases
  <1> QED  BY <1>2, <1>3 DEF Next

\* The waits point up FEATURE_SEEDS, whose names are different.
LEMMA WaitsPointUp == RegistryInv /\ AddedBehind => WaitsLookForward
  <1> SUFFICES ASSUME RegistryInv, AddedBehind, NEW w \in Workers, NEW v \in Workers,
                      WaitsFor(w, v)
               PROVE  worker[w].next < worker[v].next
    BY DEF WaitsLookForward
  <1>1. worker \in [Workers -> Job] /\ worker[w].next \in 1..Len(Seeds)
    BY SeedNames DEF RegistryInv, TypeOK, AddsInTime, WaitsFor, Job
  <1>2. PICK i \in 1..(worker[v].next - 1) : Seeds[worker[w].next] = Seeds[i]
    BY DEF AddedBehind, WaitsFor, Current
  <1>3. worker[v].next \in 1..(Len(Seeds) + 1)
    BY <1>1 DEF Job
  <1>4. worker[w].next = i
    <2>1. i \in 1..Len(Seeds)
      BY <1>3, SeedNames
    <2> QED  BY <1>1, <1>2, <2>1, RegistryAssumption
  <1> QED  BY <1>3, <1>4, SeedNames

\* The last of those that are waited for waits for nobody.
LEMMA TheLastGoesOn == RegistryInv /\ WaitsLookForward => SomebodyGoesOn
  <1> SUFFICES ASSUME RegistryInv, WaitsLookForward, NEW a \in Workers, NEW b \in Workers,
                      WaitsFor(a, b)
               PROVE  \E u \in Workers :
                         worker[u].added # {} /\ \A v \in Workers : ~WaitsFor(u, v)
    BY DEF SomebodyGoesOn
  <1> DEFINE Holders == {u \in Workers : worker[u].added # {}}
             At == {worker[u].next : u \in Holders}
  <1>1. \A u \in Workers : worker[u].next \in 1..(Len(Seeds) + 1)
    BY DEF RegistryInv, TypeOK
  <1>2. b \in Holders
    BY DEF WaitsFor
  <1>3. PICK m \in At : \A i \in At : i <= m
    <2>1. At \in SUBSET (1..(Len(Seeds) + 1)) /\ At # {} /\ Len(Seeds) + 1 \in Nat
      BY <1>1, <1>2, SeedNames
    <2> HIDE DEF At
    <2> QED  BY <2>1, Greatest
  <1>4. PICK u \in Holders : worker[u].next = m
    OBVIOUS
  <1>5. ASSUME NEW v \in Workers, WaitsFor(u, v)  PROVE FALSE
    <2>1. v \in Holders
      BY <1>5 DEF WaitsFor
    <2>2. worker[v].next <= worker[u].next
      BY <2>1, <1>3, <1>4
    <2>3. worker[u].next < worker[v].next
      BY <1>5 DEF WaitsLookForward
    <2> QED  BY <2>2, <2>3, <1>1, SeedNames
  <1> QED  BY <1>4, <1>5

\* Seeding cannot deadlock, however many workers insert at once (seed_data.py:102-121):
\* a wait is always for a worker further on, and somebody with an open transaction
\* waits for nobody.  This is what EveryWorkerServes rests on.
THEOREM SeedingNeverDeadlocks == Spec => [](WaitsLookForward /\ SomebodyGoesOn)
  <1>1. Init => AddedBehind
    BY DEF Init, Down, AddedBehind
  <1>2. Spec => []AddedBehind
    BY <1>1, AddedStaysBehind, RegistrySafe, PTL DEF Spec
  <1>3. RegistryInv /\ AddedBehind => WaitsLookForward /\ SomebodyGoesOn
    BY WaitsPointUp, TheLastGoesOn
  <1> QED  BY <1>2, <1>3, RegistrySafe, PTL
=============================================================================
