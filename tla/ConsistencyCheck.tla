-------------------------- MODULE ConsistencyCheck --------------------------
(***************************************************************************)
(* The two checks of offline against online features: the DAG                 *)
(* feature_store_consistency_validation (airflow) and the button on page 04 of   *)
(* the dashboard.  Both sample the index, read the users' hashes one by one        *)
(* while others write and evict them, make up the offline side from what they        *)
(* read, and hand both to validate_consistency.                                  *)
(*                                                                          *)
(* A feature value is an integer in millionths, a perturbation one in              *)
(* thousandths; floats are taken as exact.  OnlineStore says who writes a hash,     *)
(* who removes it, and why the index names users that have none: here any user    *)
(* may be sampled.  What the offline store has for them (DeltaTable) does not      *)
(* change here and no step reads it; the properties compare with it.  The           *)
(* features that deviate most are only printed.                                  *)
(***************************************************************************)
EXTENDS Integers, FiniteSets

CONSTANTS
    Users, Features,
    Values,         \* feature values in the store, in millionths
    Delta,          \* the hash that the offline store would give for every user
    SampleSize,     \* the 200 of srandmember
    DagNoise,       \* what uniform(-0.005, 0.005) may give, in thousandths
    PageNoise,      \* what gauss(0, 0.003) may give, in thousandths
    Attempts,       \* 1 + the DAG's retries
    MaxDeaths       \* bound: tries of a task that die

ASSUME CheckAssumption ==
    /\ IsFiniteSet(Users) /\ Features # {} /\ Values \subseteq Int
    /\ SampleSize \in Nat \ {0} /\ Attempts \in Nat \ {0} /\ MaxDeaths \in Nat
    /\ DagNoise \subseteq -5..5 /\ PageNoise \subseteq Int

VARIABLES
    store,      \* the hash of every user
    check,      \* per check: phase, users still to read, hashes it has read
    report,     \* per check: inconsistent and compared users; the DAG's XCom, the page's text
    tries,      \* tries of the DAG's current task that died
    deaths,     \* tries that died in all runs
    outcome     \* of the DAG's last run

vars == <<store, check, report, tries, deaths, outcome>>

Absent == [f \in {} |-> 0]
Hashes == [Features -> Values] \cup {Absent}
NothingRead == [u \in Users |-> Absent]
ASSUME OfflineAssumption == Delta \in [Users -> Hashes]
NoRate == [bad |-> 0, n |-> 0]

TypeOK ==
    /\ store \in [Users -> Hashes]
    /\ check \in [{"dag", "page"} ->
                    [phase : {"rest", "due", "read", "metric", "branch"},
                     todo : SUBSET Users, read : [Users -> Hashes]]]
    /\ report \in [{"dag", "page"} -> [bad : 0..SampleSize, n : 0..SampleSize]]
    /\ \A c \in {"dag", "page"} : report[c].bad <= report[c].n
    /\ tries \in 0..(Attempts - 1) /\ deaths \in 0..MaxDeaths
    /\ outcome \in {"none", "consistency_ok", "trigger_rca", "failed"}

Init ==
    /\ store = [u \in Users |-> Absent]
    /\ check = [c \in {"dag", "page"} |-> [phase |-> "rest", todo |-> {}, read |-> NothingRead]]
    /\ report = [c \in {"dag", "page"} |-> NoRate]
    /\ tries = 0 /\ deaths = 0 /\ outcome = "none"

\* Sink, refreshers and bulk writes; TTL, eviction and restart of Redis.
Change(u) ==
    /\ \E h \in Hashes : store' = [store EXCEPT ![u] = h]
    /\ UNCHANGED <<check, report, tries, deaths, outcome>>

-----------------------------------------------------------------------------
(* validation/consistency_validator.py and skew_detector.py *)

Magnitude(x) == IF x < 0 THEN -x ELSE x

\* _relative_deviation > 0.01, both sides in billionths.
Deviates(offline, online) ==
    100 * Magnitude(offline - online) > Magnitude(offline) + 1000

\* Of n users: is_healthy, the DAG's 5 %, and the severity of a skew.
Healthy(bad, n) == 100 * bad <= n
Alarming(bad, n) == 20 * bad > n
SkewSeverity(bad, n) ==
    CASE 10 * bad > n -> "critical"
      [] 10 * bad <= n /\ 20 * bad > n -> "high"
      [] 20 * bad <= n /\ 50 * bad > n -> "medium"
      [] 50 * bad <= n /\ bad > 0 -> "low"
      [] bad = 0 -> "none"

Found(c) == {u \in Users : check[c].read[u] # Absent}
Noise(c) == IF c = "dag" THEN DagNoise ELSE PageNoise
\* The simulated offline side.
Offline(c, u, f, noise) == check[c].read[u][f] * (1000 + noise[u][f])

\* The users validate_consistency finds inconsistent.
Inconsistent(c, noise) ==
    {u \in Found(c) : \E f \in Features :
        Deviates(Offline(c, u, f, noise), 1000 * check[c].read[u][f])}

-----------------------------------------------------------------------------
(* The steps of both checks *)

Goes(c, phase, todo, read) ==
    check' = [check EXCEPT ![c] = [phase |-> phase, todo |-> todo, read |-> read]]
Enters(c, phase) == Goes(c, phase, {}, NothingRead)

\* Every 15 minutes, one run at a time; or the button.
Begin(c) ==
    /\ check[c].phase = "rest"
    /\ Enters(c, "due")
    /\ report' = [report EXCEPT ![c] = NoRate]
    /\ UNCHANGED <<store, tries, deaths, outcome>>

\* srandmember; with nobody to compare the DAG pushes the rate 0 and returns.
Sample(c) ==
    /\ check[c].phase = "due"
    /\ \E S \in SUBSET Users :
        /\ Cardinality(S) <= SampleSize
        /\ IF S = {} /\ c = "dag" THEN Enters(c, "branch") /\ tries' = 0
           ELSE /\ Goes(c, "read", S, NothingRead)
                /\ UNCHANGED tries
    /\ UNCHANGED <<store, report, deaths, outcome>>

\* Variant: a user without a hash is asked for again.
ReadPresent(c, u) ==
    /\ check[c].phase = "read" /\ u \in check[c].todo /\ store[u] # Absent
    /\ Goes(c, "read", check[c].todo \ {u}, [check[c].read EXCEPT ![u] = store[u]])
    /\ UNCHANGED <<store, report, tries, deaths, outcome>>
\* hgetall of the next user: one whose hash is gone is left out.
Read(c, u) ==
    /\ check[c].phase = "read" /\ u \in check[c].todo
    /\ Goes(c, "read", check[c].todo \ {u}, [check[c].read EXCEPT ![u] = store[u]])
    /\ UNCHANGED <<store, report, tries, deaths, outcome>>

\* The simulated offline side and the comparison; the DAG's task goes on to its metric.
Compare(c) ==
    /\ check[c].phase = "read" /\ check[c].todo = {}
    /\ \E noise \in [Users -> [Features -> Noise(c)]] :
        report' = [report EXCEPT ![c] = [bad |-> Cardinality(Inconsistent(c, noise)),
                                         n |-> Cardinality(Found(c))]]
    /\ Enters(c, IF c = "dag" THEN "metric" ELSE "rest")
    /\ UNCHANGED <<store, tries, deaths, outcome>>

\* The end of a run; the next one starts without its tries.
Ends(result) ==
    /\ Enters("dag", "rest")
    /\ tries' = 0 /\ outcome' = result
    /\ UNCHANGED <<store, report>>

\* Variant: what the database refuses fails the run.
WriteMetricOrFail ==
    /\ check["dag"].phase = "metric"
    /\ Ends("failed") /\ UNCHANGED deaths
\* _write_metric: the database takes the row or refuses it, and the task is done.
WriteMetric ==
    /\ check["dag"].phase = "metric"
    /\ Enters("dag", "branch")
    /\ tries' = 0
    /\ UNCHANGED <<store, report, deaths, outcome>>

\* branch_on_consistency and the task it chooses, which only prints.
Branch ==
    /\ check["dag"].phase = "branch"
    /\ Ends(IF Alarming(report["dag"].bad, report["dag"].n)
             THEN "trigger_rca" ELSE "consistency_ok")
    /\ UNCHANGED deaths

\* Variant: one more.
IsLastLate == tries = Attempts
IsLast == tries + 1 = Attempts

\* Redis, the database or the worker fails the DAG's current task; it is tried again
\* from its start, without the XComs of the try before.
Dies ==
    /\ check["dag"].phase # "rest" /\ deaths < MaxDeaths
    /\ deaths' = deaths + 1
    /\ \/ /\ IsLast
          /\ Ends("failed")
       \/ /\ ~IsLast /\ check["dag"].phase = "branch"
          /\ tries' = tries + 1
          /\ UNCHANGED <<store, check, report, outcome>>
       \/ /\ ~IsLast /\ check["dag"].phase # "branch"
          /\ Enters("dag", "due")
          /\ tries' = tries + 1
          /\ report' = [report EXCEPT !["dag"] = NoRate]
          /\ UNCHANGED <<store, outcome>>

\* The page shows the exception instead.
Breaks ==
    /\ check["page"].phase # "rest"
    /\ Enters("page", "rest")
    /\ UNCHANGED <<store, report, tries, deaths, outcome>>

Proceeds(c) ==
    \/ Sample(c) \/ Compare(c) \/ \E u \in Users : Read(c, u)
    \/ c = "dag" /\ (WriteMetric \/ Branch)
Next ==
    \/ \E u \in Users : Change(u)
    \/ \E c \in {"dag", "page"} : Begin(c) \/ Proceeds(c)
    \/ Dies \/ Breaks
Spec == Init /\ [][Next]_vars

\* Airflow and Streamlit carry on with what they have begun.
FairSpec == Spec /\ \A c \in {"dag", "page"} : WF_vars(Proceeds(c))

-----------------------------------------------------------------------------
(* What must hold *)

\* Only tries that died fail a run, never a metric that the database refuses
\* (consistency_validation_dag.py:65-87).
OnlyDeathsFail == outcome = "failed" => deaths >= Attempts

\* Every check ends, also when the hashes it sampled are gone for good
\* (consistency_validation_dag.py:43-46).
ChecksEnd ==
    \A c \in {"dag", "page"} : check[c].phase = "due" ~> check[c].phase = "rest"

\* "Compare offline/online", "Alert on: >5% skew" (docs/architecture.md:67, 69),
\* "Consistency failure | inconsistency_rate > 5%" (docs/runbook.md:64), "fetch offline
\* (Delta) + online (Redis) features, compute consistency"
\* (consistency_validation_dag.py:24): of the users that both stores have, more than 5 %
\* with a feature that is off by more than 1 % make the DAG alarm.
InBoth(c) == {u \in Found(c) : Delta[u] # Absent}
Skewed(c) ==
    {u \in InBoth(c) : \E f \in Features :
        Deviates(1000 * Delta[u][f], 1000 * check[c].read[u][f])}
SkewAlarms ==
    [][Compare("dag") /\ Alarming(Cardinality(Skewed("dag")), Cardinality(InBoth("dag")))
          => Alarming(report'["dag"].bad, report'["dag"].n)]_vars

\* The strengthening: a try that died has been counted, no check reads more users than it
\* sampled, and the DAG, whose offline side is what it read give or take 0.5 %, finds
\* nobody inconsistent.
ReadsAreSampled ==
    \A c \in {"dag", "page"} : Cardinality(check[c].todo \cup Found(c)) <= SampleSize
NothingFound == report["dag"].bad = 0 /\ outcome # "trigger_rca"
CheckInv ==
    /\ TypeOK /\ NothingFound /\ OnlyDeathsFail
    /\ tries <= deaths /\ ReadsAreSampled

=============================================================================
