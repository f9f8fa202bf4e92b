------------------------------ MODULE Registry ------------------------------
(***************************************************************************)
(* The start of the API against an empty, partly seeded or seeded registry:  *)
(* every uvicorn worker (docker/Dockerfile.api starts two) runs the lifespan  *)
(* of api/main.py, which creates the tables and seeds the feature definitions *)
(* with their lineage in one transaction.                                     *)
(*                                                                          *)
(* PostgreSQL is external: READ COMMITTED, a unique index that makes a second  *)
(* inserter of a name wait for the first one's transaction, and CREATE TABLE   *)
(* that fails when the table is there.  uvicorn and docker start a dead worker  *)
(* again.                                                                     *)
(***************************************************************************)
EXTENDS Integers, Sequences

CONSTANTS
    Workers,        \* the worker processes of all API containers
    Seeds,          \* the feature_names of FEATURE_SEEDS, in order
    Steps,          \* how many lineage steps each seed has
    MaxCrashes      \* bound: how often workers die while starting

\* The names of the registry.
Names == {Seeds[i] : i \in 1..Len(Seeds)}

ASSUME RegistryAssumption ==
    /\ Seeds \in Seq(Names)
    /\ \A i, j \in 1..Len(Seeds) : Seeds[i] = Seeds[j] => i = j
    /\ Steps \in Nat \ {0}
    /\ MaxCrashes \in Nat

VARIABLES
    created,    \* whether the tables are there
    rows,       \* how many committed feature_definitions a name has
    lineage,    \* how many committed feature_lineage rows it has
    worker,     \* what each worker does: phase, next seed, names added and not committed
    crashes     \* deaths of starting workers so far

database == <<created, rows, lineage>>
vars == <<database, worker, crashes>>

-----------------------------------------------------------------------------

Phases == {"down", "tables", "create", "look", "insert", "ready"}
Down == [phase |-> "down", next |-> 1, added |-> {}]

TypeOK ==
    /\ created \in BOOLEAN
    /\ rows \in [Names -> Nat]
    /\ lineage \in [Names -> Nat]
    /\ worker \in [Workers ->
            [phase : Phases, next : 1..(Len(Seeds) + 1), added : SUBSET Names]]
    /\ crashes \in 0..MaxCrashes

\* A database that is empty, or that earlier versions of FEATURE_SEEDS filled.
Init ==
    /\ created \in BOOLEAN
    /\ \E old \in SUBSET Names :
          /\ old # {} => created
          /\ rows = [f \in Names |-> IF f \in old THEN 1 ELSE 0]
          /\ lineage = [f \in Names |-> IF f \in old THEN Steps ELSE 0]
    /\ worker = [w \in Workers |-> Down]
    /\ crashes = 0

\* The seed a worker is at.
Current(w) == Seeds[worker[w].next]

Goes(w, phase) == worker' = [worker EXCEPT ![w].phase = phase]

-----------------------------------------------------------------------------
(* api/main.py and registry/database.py *)

\* uvicorn starts the worker, the lifespan begins.
Start(w) ==
    /\ worker[w].phase = "down"
    /\ Goes(w, "tables")
    /\ UNCHANGED <<database, crashes>>

\* create_all looks which tables are there.
CheckTables(w) ==
    /\ worker[w].phase = "tables"
    /\ Goes(w, IF created THEN "look" ELSE "create")
    /\ UNCHANGED <<database, crashes>>

\* It creates those it missed, unless another worker has by now.
CreateTables(w) ==
    /\ worker[w].phase = "create"
    /\ ~created
    /\ created' = TRUE
    /\ Goes(w, "look")
    /\ UNCHANGED <<rows, lineage, crashes>>

-----------------------------------------------------------------------------
(* registry/seed_data.py *)

\* Variants: no look before the insert, no look after the first hit, and a hit
\* that also skips the seed after it.
LookedUpNever(w) == FALSE
SkippedAll(w) == [worker EXCEPT ![w].next = Len(Seeds) + 1]
SkippedTwo(w) == [worker EXCEPT ![w].next = @ + 2]

\* What SELECT ... WHERE feature_name finds: committed rows and the own ones.
Found(w) == rows[Current(w)] > 0 \/ Current(w) \in worker[w].added
Skipped(w) == [worker EXCEPT ![w].next = @ + 1]

\* One turn of the loop, up to the flush.
Look(w) ==
    /\ worker[w].phase = "look"
    /\ worker[w].next <= Len(Seeds)
    /\ \/ Found(w) /\ worker' = Skipped(w)
       \/ ~Found(w) /\ Goes(w, "insert")
    /\ UNCHANGED <<database, crashes>>

\* Variant: the column is not unique.
TakenNever(w) == FALSE

\* unique=True: a committed definition has the name, or another transaction may
\* come to have it.
Taken(w) == rows[Current(w)] > 0
Contended(w) == \E v \in Workers \ {w} : Current(w) \in worker[v].added

\* Variant: db.commit within the loop, a seed at a time.
InsertAlone(w) ==
    /\ worker[w].phase = "insert" /\ ~Contended(w) /\ ~Taken(w)
    /\ rows' = [rows EXCEPT ![Current(w)] = 1]
    /\ lineage' = [lineage EXCEPT ![Current(w)] = Steps]
    /\ worker' = [worker EXCEPT ![w].phase = "look", ![w].next = @ + 1]
    /\ UNCHANGED <<created, crashes>>

\* db.flush: INSERT INTO feature_definitions.  The lineage follows it into the
\* transaction before the next SELECT.
Insert(w) ==
    /\ worker[w].phase = "insert"
    /\ ~Contended(w)
    /\ ~Taken(w)
    /\ worker' = [worker EXCEPT ![w] = [phase |-> "look", next |-> @.next + 1,
                                        added |-> @.added \cup {Current(w)}]]
    /\ UNCHANGED <<database, crashes>>

\* db.commit; the application is up.
Commit(w) ==
    /\ worker[w].phase = "look"
    /\ worker[w].next > Len(Seeds)
    /\ rows' = [f \in Names |-> rows[f] + (IF f \in worker[w].added THEN 1 ELSE 0)]
    /\ lineage' = [f \in Names |-> lineage[f] + (IF f \in worker[w].added THEN Steps ELSE 0)]
    /\ worker' = [worker EXCEPT ![w] = [Down EXCEPT !.phase = "ready"]]
    /\ UNCHANGED <<created, crashes>>

\* ProgrammingError or IntegrityError: the lifespan fails, the transaction is
\* rolled back and the worker exits.
Refused(w) ==
    \/ worker[w].phase = "create" /\ created
    \/ worker[w].phase = "insert" /\ ~Contended(w) /\ Taken(w)
Fail(w) ==
    /\ Refused(w)
    /\ worker' = [worker EXCEPT ![w] = Down]
    /\ UNCHANGED <<database, crashes>>

\* The process dies or loses the database while it starts.
Crash(w) ==
    /\ worker[w].phase \notin {"down", "ready"}
    /\ crashes < MaxCrashes
    /\ worker' = [worker EXCEPT ![w] = Down]
    /\ crashes' = crashes + 1
    /\ UNCHANGED database

\* A serving worker stops: a deployment, a crash.
Stop(w) ==
    /\ worker[w].phase = "ready"
    /\ worker' = [worker EXCEPT ![w] = Down]
    /\ UNCHANGED <<database, crashes>>

Lifespan(w) ==
    \/ Start(w) \/ CheckTables(w) \/ CreateTables(w)
    \/ Look(w) \/ Insert(w) \/ Commit(w) \/ Fail(w)
Next == \E w \in Workers : Lifespan(w) \/ Crash(w) \/ Stop(w)
Spec == Init /\ [][Next]_vars

\* Dead workers are started again (uvicorn's supervisor, restart: unless-stopped),
\* and a worker that can go on does.
FairSpec == Spec /\ \A w \in Workers : WF_vars(Lifespan(w))

-----------------------------------------------------------------------------
(* What must hold *)

\* However many workers seed at once, and whichever of them fails on what another
\* one committed (seed_data.py:103-121), a definition is there once with all of its
\* lineage, or not at all.
SeededOnce ==
    \A f \in Names : <<rows[f], lineage[f]>> \in {<<0, 0>>, <<1, Steps>>}

\* A worker that serves has the whole registry under it, although others may have
\* been seeding, failing and rolling back next to it (api/main.py:40-44).
ServingIsSeeded ==
    \A w \in Workers : worker[w].phase = "ready" => \A f \in Names : rows[f] = 1

\* Every worker comes up: a start that lost the race is followed by one that does
\* not, and no two workers wait for one another.
EveryWorkerServes ==
    \A w \in Workers : worker[w].phase = "down" ~> worker[w].phase = "ready"

\* All that the other workers and the clients see of the seeding is the catalogue of
\* FeatureCatalog: each lifespan that comes through (api/main.py:40-44) completes all of it
\* at once, and lookups, waits, failures, rollbacks and deaths on the way show nothing.
Promise == INSTANCE FeatureCatalog WITH
    Servers <- Workers, Absent <- <<0, 0>>, Whole <- <<1, Steps>>,
    entries <- [f \in Names |-> <<rows[f], lineage[f]>>],
    serving <- {w \in Workers : worker[w].phase = "ready"}
ImplementsCatalog == Promise!CatalogSpec

\* The strengthening: names under way belong to one worker and are not committed,
\* and a worker has passed only names that are there or that it adds itself.
Exclusive ==
    \A w \in Workers : \A f \in worker[w].added :
        /\ rows[f] = 0
        /\ \A v \in Workers \ {w} : f \notin worker[v].added
Passed ==
    \A w \in Workers :
        worker[w].phase \in {"look", "insert"} =>
            \A i \in 1..(worker[w].next - 1) :
                rows[Seeds[i]] > 0 \/ Seeds[i] \in worker[w].added
AddsInTime ==
    \A w \in Workers :
        /\ worker[w].phase = "insert" => worker[w].next <= Len(Seeds)
        /\ worker[w].phase \notin {"look", "insert"} =>
              worker[w].added = {} /\ worker[w].next = 1
RegistryInv ==
    /\ TypeOK
    /\ SeededOnce
    /\ ServingIsSeeded
    /\ Exclusive
    /\ Passed
    /\ AddsInTime

=============================================================================
