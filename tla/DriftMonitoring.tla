-------------------------- MODULE DriftMonitoring ---------------------------
(***************************************************************************)
(* airflow/dags/drift_monitoring_dag.py with drift_detection/ and the RCA      *)
(* engine it calls: a run loads feature values, detects drift, branches and    *)
(* has a feature analysed.  Tasks hand their results on through XCom, one key   *)
(* at a time, die, raise and are retried.  POST /diagnostics/rca asks the same   *)
(* engine beside it.                                                          *)
(*                                                                          *)
(* Airflow is external: one run at a time (max_active_runs), a retry clears     *)
(* the task's XCom, a task out of retries fails the run.  So are the           *)
(* statistics: with a baseline, a feature's PSI and the KS test may come out    *)
(* as anything; without one, current values are compared with themselves and    *)
(* come out equal.                                                            *)
(*                                                                          *)
(* A feature is known by its position in FEATURE_NAMES, a list of features in    *)
(* that order by the set of its positions.                                     *)
(***************************************************************************)
EXTENDS RcaEngine, FiniteSets

CONSTANTS
    Dag,            \* the caller that is the DAG's task
    Features,       \* the number of features
    Known,          \* the positions of those the registry has
    Attempts,       \* 1 + retries
    Warn, Alert,    \* psi_warn_threshold, psi_alert_threshold, in hundredths
    Placeholder,    \* the PSI that the DAG reports, 0.25, in hundredths
    Measured,       \* bound: the PSI values that are computed or posted
    MaxRuns         \* bound: how often the DAG is scheduled

Positions == 1..Features

ASSUME DriftAssumption ==
    /\ Dag \in Callers
    /\ Features \in Nat \ {0}
    /\ Known \subseteq Positions
    /\ Attempts \in Nat \ {0}
    /\ Warn \in Nat \ {0} /\ Alert \in Nat /\ Warn <= Alert
    /\ Moderate < Alert
    /\ Measured \subseteq Scores /\ 0 \in Measured /\ Placeholder \in Scores
    /\ MaxRuns \in Nat

VARIABLES
    baselines,      \* the features that have a baseline in Redis
    run,            \* the DAG run: its task, the try it is at, how far the try got
    runs,           \* runs so far
    xcom,           \* what its tasks have pushed
    report,         \* the results of the last detect_drift of the run
    metrics,        \* rows of this run in feature_metrics, per feature and type
    about           \* the feature of the run's analysis; 0 is none

dagVars == <<run, runs, xcom, report, metrics, about>>
vars == <<analysis, baselines, dagVars>>

-----------------------------------------------------------------------------

Types == {"psi_score", "ks_statistic"}
Result == [psi : Measured, ks : BOOLEAN]
Nothing == [i \in Positions |-> [psi |-> 0, ks |-> FALSE]]
NoRows == [i \in Positions |-> [t \in Types |-> 0]]
Unpushed == [data |-> FALSE, hasDrift |-> FALSE, drifting |-> {}]

\* In detect: results first, then two keys, then two rows per feature.
LastStep == 3 + 2 * Features

TypeOK ==
    /\ RcaTypeOK
    /\ baselines \subseteq Positions
    /\ run \in [phase : {"none", "running", "success", "failed"},
                task : {"load", "detect", "branch", "rca"},
                state : {"queued", "running"},
                try : 1..Attempts,
                step : 0..LastStep]
    /\ runs \in 0..MaxRuns
    /\ xcom \in [data : BOOLEAN, hasDrift : BOOLEAN, drifting : SUBSET Positions]
    /\ report \in [Positions -> Result]
    /\ metrics \in [Positions -> [Types -> 0..Attempts]]
    /\ about \in 0..Features

Init ==
    /\ analysis = [c \in Callers |-> NoAnalysis]
    /\ baselines = {}
    /\ run = [phase |-> "none", task |-> "load", state |-> "queued", try |-> 1, step |-> 0]
    /\ runs = 0
    /\ xcom = Unpushed
    /\ report = Nothing
    /\ metrics = NoRows
    /\ about = 0

-----------------------------------------------------------------------------
(* drift_detection/ *)

\* psi_severity, and the escalation that detect_drift adds.
PsiSeverity(psi) == IF psi < Warn THEN "ok" ELSE IF psi < Alert THEN "warn" ELSE "alert"
Severity(r) == IF PsiSeverity(r.psi) = "ok" /\ r.ks THEN "warn" ELSE PsiSeverity(r.psi)

\* has_critical_drift and drifting_features, and a variant that leaves alerts out.
Critical(results) == \E i \in Positions : Severity(results[i]) = "alert"
DriftingNoAlert(results) == {i \in Positions : Severity(results[i]) = "warn"}
Drifting(results) == {i \in Positions : Severity(results[i]) # "ok"}

\* load_baseline; without one, the current values stand in for it.
Found(i) == i \in baselines

\* What compute_psi and ks_test may make of a feature, and detect_drift of all.
PsiOf(i) == IF Found(i) THEN Measured ELSE {0}
KsOf(i) == IF Found(i) THEN BOOLEAN ELSE {FALSE}
Detected ==
    {results \in [Positions -> Result] :
        \A i \in Positions : results[i].psi \in PsiOf(i) /\ results[i].ks \in KsOf(i)}

\* save_baseline, for whoever calls it, and the end of its week.
SaveBaseline(i) == baselines' = baselines \cup {i} /\ UNCHANGED <<analysis, dagVars>>
BaselineExpires(i) ==
    /\ i \in baselines
    /\ baselines' = baselines \ {i}
    /\ UNCHANGED <<analysis, dagVars>>

-----------------------------------------------------------------------------
(* Airflow *)

\* The scheduler starts a run when none is active.
Schedule ==
    /\ run.phase # "running"
    /\ runs < MaxRuns
    /\ run' = [phase |-> "running", task |-> "load", state |-> "queued", try |-> 1, step |-> 0]
    /\ runs' = runs + 1
    /\ xcom' = Unpushed
    /\ report' = Nothing
    /\ metrics' = NoRows
    /\ about' = 0
    /\ analysis' = [analysis EXCEPT ![Dag] = NoAnalysis]
    /\ UNCHANGED baselines

Runs(task) == run.phase = "running" /\ run.state = "running" /\ run.task = task
At(task, step) == Runs(task) /\ run.step = step
Advance == run' = [run EXCEPT !.step = @ + 1]
Then(task) == run' = [run EXCEPT !.task = task, !.state = "queued", !.try = 1, !.step = 0]

\* A worker takes the task; what an earlier try pushed is cleared.
Cleared ==
    CASE run.task = "load" -> [xcom EXCEPT !.data = FALSE]
      [] run.task = "detect" -> [xcom EXCEPT !.hasDrift = FALSE, !.drifting = {}]
      [] OTHER -> xcom
StartTask ==
    /\ run.phase = "running" /\ run.state = "queued"
    /\ run' = [run EXCEPT !.state = "running", !.step = 0]
    /\ xcom' = Cleared
    /\ UNCHANGED <<analysis, baselines, runs, report, metrics, about>>

\* Variant: the tries are not counted.
TaskFailsUncounted ==
    /\ run.phase = "running" /\ run.state = "running"
    /\ run' = [run EXCEPT !.state = "queued"]
    /\ analysis' = [analysis EXCEPT ![Dag] = NoAnalysis]
    /\ UNCHANGED <<baselines, runs, xcom, report, metrics, about>>

\* The task raises or its process dies, at any point: a retry or the end.
TaskFails ==
    /\ run.phase = "running" /\ run.state = "running"
    /\ run' = IF run.try < Attempts
              THEN [run EXCEPT !.state = "queued", !.try = @ + 1]
              ELSE [run EXCEPT !.phase = "failed"]
    /\ analysis' = [analysis EXCEPT ![Dag] = NoAnalysis]
    /\ UNCHANGED <<baselines, runs, xcom, report, metrics, about>>

-----------------------------------------------------------------------------
(* airflow/dags/drift_monitoring_dag.py *)

\* load_current_distributions: there are values or there are none.
Load ==
    /\ Runs("load")
    /\ \E some \in BOOLEAN : xcom' = [xcom EXCEPT !.data = some]
    /\ Then("detect")
    /\ UNCHANGED <<analysis, baselines, runs, report, metrics, about>>

\* run_drift_detection without values: has_drift False, and done.
DetectNothing ==
    /\ At("detect", 0) /\ ~xcom.data
    /\ xcom' = [xcom EXCEPT !.hasDrift = FALSE]
    /\ report' = Nothing
    /\ Then("branch")
    /\ UNCHANGED <<analysis, baselines, runs, metrics, about>>

Detect ==
    /\ At("detect", 0) /\ xcom.data
    /\ report' \in Detected
    /\ Advance
    /\ UNCHANGED <<analysis, baselines, runs, xcom, metrics, about>>

\* Variant: any drift counts.
AnyDrift == Drifting(report) # {}

\* The first key.
HasDrift == Critical(report)
PushHasDrift ==
    /\ At("detect", 1)
    /\ xcom' = [xcom EXCEPT !.hasDrift = HasDrift]
    /\ Advance
    /\ UNCHANGED <<analysis, baselines, runs, report, metrics, about>>

\* The second.
PushDrifting ==
    /\ At("detect", 2)
    /\ xcom' = [xcom EXCEPT !.drifting = Drifting(report)]
    /\ Advance
    /\ UNCHANGED <<analysis, baselines, runs, report, metrics, about>>

\* _write_metric, for one feature and type after the other: a row, or an error that
\* is printed, always when the registry does not know the feature.
Position == 1 + (run.step - 3) \div 2
MetricType == IF (run.step - 3) % 2 = 0 THEN "psi_score" ELSE "ks_statistic"
Inserted == [metrics EXCEPT ![Position][MetricType] = @ + 1]
WriteMetric ==
    /\ Runs("detect") /\ run.step \in 3..(LastStep - 1)
    /\ \/ Position \in Known /\ metrics' = Inserted
       \/ UNCHANGED metrics
    /\ Advance
    /\ UNCHANGED <<analysis, baselines, runs, xcom, report, about>>
DetectDone ==
    /\ At("detect", LastStep)
    /\ Then("branch")
    /\ UNCHANGED <<analysis, baselines, runs, xcom, report, metrics, about>>

\* branch_on_drift; drift_ok does nothing.
Branch ==
    /\ Runs("branch")
    /\ IF xcom.hasDrift THEN Then("rca") ELSE run' = [run EXCEPT !.phase = "success"]
    /\ UNCHANGED <<analysis, baselines, runs, xcom, report, metrics, about>>

\* run_rca_analysis: drifting[0], under fixed metrics.
First(S) == {i \in S : \A j \in S : i <= j}
PlaceholderReport == [psi |-> Placeholder, z |-> TRUE, ks |-> TRUE]
RunRca ==
    /\ At("rca", 0)
    /\ IF xcom.drifting = {}
       THEN /\ run' = [run EXCEPT !.phase = "success"]
            /\ UNCHANGED <<analysis, about>>
       ELSE /\ about' \in First(xcom.drifting)
            /\ Analyze(Dag, PlaceholderReport)
            /\ Advance
    /\ UNCHANGED <<baselines, runs, xcom, report, metrics>>
RcaDone ==
    /\ At("rca", 1) /\ analysis[Dag].phase \in Answered
    /\ run' = [run EXCEPT !.phase = "success"]
    /\ UNCHANGED <<analysis, baselines, runs, xcom, report, metrics, about>>

DagStep ==
    \/ StartTask \/ Load \/ DetectNothing \/ Detect \/ PushHasDrift \/ PushDrifting
    \/ WriteMetric \/ DetectDone \/ Branch \/ RunRca \/ RcaDone

-----------------------------------------------------------------------------
(* The engine, for the DAG and for requests *)

EngineStep(c) == Analysis(c) /\ UNCHANGED <<baselines, dagVars>>

\* POST /diagnostics/rca: any metrics, and ks_p_value is the literal 0.0.
PostRca(c) ==
    /\ \E psi \in Measured, z \in BOOLEAN : Analyze(c, [psi |-> psi, z |-> z, ks |-> TRUE])
    /\ UNCHANGED <<baselines, dagVars>>
ApiDies(c) ==
    /\ analysis[c].phase \in {"ask", "call"}
    /\ Abandoned(c)
    /\ UNCHANGED <<baselines, dagVars>>

Next ==
    \/ Schedule \/ DagStep \/ TaskFails
    \/ \E i \in Positions : SaveBaseline(i) \/ BaselineExpires(i)
    \/ \E c \in Callers : EngineStep(c)
    \/ \E c \in Callers \ {Dag} : PostRca(c) \/ ApiDies(c)

Spec == Init /\ [][Next]_vars

\* Airflow's workers go on with a task that can, and an analysis under way does:
\* every call to the model ends, if only by its timeout.
FairSpec ==
    /\ Spec
    /\ WF_vars(DagStep)
    /\ \A c \in Callers : WF_vars(EngineStep(c))

-----------------------------------------------------------------------------
(* What must hold *)

\* An analysis is run only on this run's own drift: has_drift and drifting_features,
\* pushed one after the other (drift_monitoring_dag.py:71-72) by whichever try of the
\* task got through, agree with each other and with the last results.
RcaIsDue ==
    run.phase = "running" /\ run.task = "rca" =>
        Critical(report) /\ xcom.drifting = Drifting(report)

\* No alert is lost: a run that ends well has a diagnosis of a drifting feature if
\* its last results hold an alert, whatever was retried on the way.
AlertIsAnalysed ==
    run.phase = "success" /\ Critical(report) =>
        about \in Drifting(report) /\ analysis[Dag].phase \in Answered

\* The strengthening of the first two: what a try of run_drift_detection has pushed is
\* of its own results, and each try writes each row at most once.
Handed ==
    run.phase = "running" =>
        /\ run.task = "detect" /\ run.state = "running" =>
              /\ run.step = 0 => ~xcom.hasDrift /\ xcom.drifting = {}
              /\ run.step >= 2 => (xcom.hasDrift <=> Critical(report))
              /\ run.step >= 3 => xcom.drifting = Drifting(report)
        /\ run.task = "branch" =>
              (xcom.hasDrift <=> Critical(report)) /\ xcom.drifting = Drifting(report)
        /\ run.task = "rca" /\ run.step = 1 => about \in Drifting(report)
StepOf(i, t) == 3 + 2 * (i - 1) + (IF t = "psi_score" THEN 0 ELSE 1)
Tries(i, t) ==
    CASE run.task = "load" -> 0
      [] run.task = "detect" ->
            IF run.state = "running" /\ StepOf(i, t) < run.step THEN run.try ELSE run.try - 1
      [] OTHER -> Attempts
RowsOfTries ==
    run.phase = "running" => \A i \in Positions, t \in Types : metrics[i][t] <= Tries(i, t)
DriftInv == TypeOK /\ CallsLeft /\ Handed /\ RcaIsDue /\ RowsOfTries /\ AlertIsAnalysed

\* What psi_severity calls an alert (psi_calculator.py:51-56) the rules of the engine,
\* with thresholds of their own (rca_engine.py:116-162), do not call low.
AlertsAreUrgent ==
    \A c \in Callers :
        analysis[c].phase = "rules" /\ PsiSeverity(analysis[c].report.psi) = "alert" =>
            Urgency(analysis[c].report) # "low"

\* Every run ends, and every analysis is answered, unless its process dies: the
\* model may be out of reach for ever.
EveryRunEnds == run.phase = "running" ~> run.phase \in {"success", "failed"}
EveryAnalysisAnswers ==
    \A c \in Callers :
        analysis[c].phase = "ask" ~> analysis[c].phase \in Answered \cup {"none"}

\* "Trigger LLM RCA for the most severely drifting feature" (drift_monitoring_dag.py:108).
MostSevereIsAnalysed ==
    At("rca", 1) =>
        \A i \in Positions : Severity(report[i]) = "alert" => Severity(report[about]) = "alert"

=============================================================================
