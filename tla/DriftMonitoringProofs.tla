------------------------ MODULE DriftMonitoringProofs -----------------------
(***************************************************************************)
(* DriftMonitoring for any number of features, callers, tries and calls and    *)
(* any thresholds: the type invariant, that an analysis is run only when it is  *)
(* due, that no alert of a run that ends well goes without a diagnosis, and      *)
(* that an alert is never of low urgency.  DriftInv is inductive.              *)
(***************************************************************************)
EXTENDS DriftMonitoring, TLAPS

\* The state of one analysis.
Entry == [phase : AnalysisPhases, report : Report, calls : 0..MaxCalls]

\* What run and xcom may be.
RunState ==
    [phase : {"none", "running", "success", "failed"},
     task : {"load", "detect", "branch", "rca"},
     state : {"queued", "running"},
     try : 1..Attempts,
     step : 0..LastStep]
XCom == [data : BOOLEAN, hasDrift : BOOLEAN, drifting : SUBSET Positions]

\* psi 0 without a KS rejection is no drift.
LEMMA NothingDrifts == Severity([psi |-> 0, ks |-> FALSE]) = "ok"
  BY DriftAssumption DEF Severity, PsiSeverity

LEMMA CriticalDrifts ==
    ASSUME NEW results, Critical(results)
    PROVE  Drifting(results) # {}
  BY DEF Critical, Drifting

\* The initial reports have a score.
LEMMA IdleEntry == NoAnalysis \in Entry /\ NoAnalysis.phase = "none"
  <1>1. (CHOOSE s \in Scores : TRUE) \in Scores
    BY DriftAssumption
  <1> QED  BY <1>1, RcaAssumption DEF NoAnalysis, Entry, Report, AnalysisPhases

\* Giving one caller a well-typed analysis keeps the engine's invariant.
LEMMA EntryMoves ==
    ASSUME RcaInv, NEW c \in Callers, NEW j \in Entry,
           j.phase = "ask" => j.calls < MaxCalls,
           analysis' = [analysis EXCEPT ![c] = j]
    PROVE  RcaInv' /\ analysis'[c] = j
                   /\ \A d \in Callers \ {c} : analysis'[d] = analysis[d]
  <1>1. analysis \in [Callers -> Entry]
    BY DEF RcaInv, RcaTypeOK, Entry
  <1>2. analysis' \in [Callers -> Entry]
    BY <1>1
  <1>3. /\ analysis'[c] = j
        /\ \A d \in Callers \ {c} : analysis'[d] = analysis[d]
    BY <1>1
  <1> QED  BY <1>2, <1>3 DEF RcaInv, RcaTypeOK, CallsLeft, Entry

\* A step of the engine keeps it, and finished analyses as they are.
LEMMA EngineKeeps ==
    ASSUME RcaInv, NEW c \in Callers, Analysis(c)
    PROVE  /\ RcaInv'
           /\ \A d \in Callers : analysis[d].phase \in Answered => analysis'[d] = analysis[d]
  <1>1. analysis[c] \in Entry /\ analysis \in [Callers -> Entry]
    BY DEF RcaInv, RcaTypeOK, Entry
  <1>2. analysis[c].phase \notin Answered
    BY DEF Analysis, Call, NoKey, Answer, Useless, Unreachable, Answered
  <1>3. ASSUME NEW j \in Entry, analysis' = [analysis EXCEPT ![c] = j],
               j.phase = "ask" => j.calls < MaxCalls
        PROVE  /\ RcaInv'
               /\ \A d \in Callers : analysis[d].phase \in Answered => analysis'[d] = analysis[d]
    BY <1>2, <1>3, EntryMoves
  <1>4. CASE Call(c)
    <2> DEFINE j == [phase |-> "call", report |-> analysis[c].report,
                     calls |-> analysis[c].calls + 1]
    <2>1. analysis' = [analysis EXCEPT ![c] = j]
      BY <1>1, <1>4 DEF Call, Entry
    <2>2. analysis[c].calls \in 0..MaxCalls /\ analysis[c].calls < MaxCalls
      BY <1>1, <1>4 DEF Call, Entry, RcaInv, CallsLeft
    <2>3. j.phase = "call"
      OBVIOUS
    <2>4. j \in Entry
      BY <1>1, <2>2, RcaAssumption DEF Entry, AnalysisPhases
    <2> HIDE DEF j
    <2> QED  BY <1>3, <2>1, <2>3, <2>4
  <1>5. ASSUME NEW phase \in {"model", "rules", "ask"}, Becomes(c, phase),
               phase = "ask" => analysis[c].calls < MaxCalls
        PROVE  /\ RcaInv'
               /\ \A d \in Callers : analysis[d].phase \in Answered => analysis'[d] = analysis[d]
    <2> DEFINE j == [analysis[c] EXCEPT !.phase = phase]
    <2>1. analysis' = [analysis EXCEPT ![c] = j]
      BY <1>1, <1>5 DEF Becomes
    <2>2. j \in Entry /\ j.phase = phase /\ j.calls = analysis[c].calls
      BY <1>1 DEF Entry, AnalysisPhases
    <2> HIDE DEF j
    <2> QED  BY <1>3, <1>5, <2>1, <2>2
  <1>6. CASE NoKey(c) \/ Answer(c) \/ Useless(c)
    BY <1>5, <1>6 DEF NoKey, Answer, Useless
  <1>7. CASE Unreachable(c)
    BY <1>5, <1>7 DEF Unreachable
  <1> QED  BY <1>4, <1>6, <1>7 DEF Analysis

\* Asking anew, and giving up.
LEMMA AskKeeps ==
    ASSUME RcaInv, NEW c \in Callers, NEW r \in Report, Analyze(c, r)
    PROVE  RcaInv' /\ \A d \in Callers \ {c} : analysis'[d] = analysis[d]
  <1> DEFINE j == [phase |-> "ask", report |-> r, calls |-> 0]
  <1>1. j \in Entry /\ j.calls < MaxCalls
    BY RcaAssumption DEF Entry, AnalysisPhases
  <1>2. analysis' = [analysis EXCEPT ![c] = j]
    BY DEF Analyze
  <1> HIDE DEF j
  <1> QED  BY <1>1, <1>2, EntryMoves

LEMMA AbandonKeeps ==
    ASSUME RcaInv, NEW c \in Callers, Abandoned(c)
    PROVE  RcaInv' /\ \A d \in Callers \ {c} : analysis'[d] = analysis[d]
  BY IdleEntry, EntryMoves DEF Abandoned

-----------------------------------------------------------------------------

\* What the operators on run do.
LEMMA Advanced ==
    ASSUME run \in RunState, run.step < LastStep, Advance
    PROVE  /\ run' \in RunState
           /\ run'.phase = run.phase /\ run'.task = run.task /\ run'.state = run.state
           /\ run'.try = run.try /\ run'.step = run.step + 1
  <1>1. Features \in Nat \ {0}
    BY DriftAssumption
  <1> QED  BY <1>1 DEF RunState, Advance, LastStep

LEMMA Handover ==
    ASSUME run \in RunState, NEW task \in {"detect", "branch", "rca"}, Then(task)
    PROVE  /\ run' \in RunState
           /\ run'.phase = run.phase /\ run'.task = task /\ run'.state = "queued"
           /\ run'.try = 1 /\ run'.step = 0
  <1>1. run' = [phase |-> run.phase, task |-> task, state |-> "queued", try |-> 1, step |-> 0]
    BY DEF RunState, Then
  <1>2. 1 \in 1..Attempts /\ 0 \in 0..LastStep
    BY DriftAssumption DEF LastStep
  <1> QED  BY <1>1, <1>2 DEF RunState

LEMMA Ended ==
    ASSUME run \in RunState, NEW phase \in {"success", "failed"},
           run' = [run EXCEPT !.phase = phase]
    PROVE  run' \in RunState /\ run'.phase = phase /\ run'.task = run.task
  BY DEF RunState

\* The parts of the type invariant that the steps of the DAG can disturb.
LEMMA DagTypes ==
    TypeOK <=> /\ RcaTypeOK
               /\ baselines \subseteq Positions
               /\ run \in RunState
               /\ runs \in 0..MaxRuns
               /\ xcom \in XCom
               /\ report \in [Positions -> Result]
               /\ metrics \in [Positions -> [Types -> 0..Attempts]]
               /\ about \in 0..Features
  BY DEF TypeOK, RunState, XCom

LEMMA InitInv == Init => DriftInv
  <1> SUFFICES ASSUME Init  PROVE DriftInv
    OBVIOUS
  <1>1. RcaTypeOK /\ CallsLeft
    BY IdleEntry DEF Init, RcaTypeOK, CallsLeft, Entry
  <1>2. run \in RunState /\ runs \in 0..MaxRuns /\ about \in 0..Features
    BY DriftAssumption DEF Init, RunState, LastStep
  <1>3. xcom \in XCom /\ baselines \subseteq Positions
    BY DEF Init, XCom, Unpushed
  <1>4. report \in [Positions -> Result] /\ metrics \in [Positions -> [Types -> 0..Attempts]]
    BY DriftAssumption DEF Init, Nothing, NoRows, Result
  <1>5. TypeOK
    BY <1>1, <1>2, <1>3, <1>4, DagTypes
  <1> QED
    BY <1>1, <1>5 DEF Init, DriftInv, Handed, RcaIsDue, RowsOfTries, AlertIsAnalysed

LEMMA ScheduleKeeps == DriftInv /\ Schedule => DriftInv'
  <1> SUFFICES ASSUME DriftInv, Schedule  PROVE DriftInv'
    OBVIOUS
  <1>1. RcaTypeOK' /\ CallsLeft'
    <2>1. RcaInv /\ Abandoned(Dag) /\ Dag \in Callers
      BY DriftAssumption DEF DriftInv, TypeOK, RcaInv, Schedule, Abandoned
    <2> QED  BY <2>1, AbandonKeeps DEF RcaInv
  <1>2. run' \in RunState /\ runs' \in 0..MaxRuns /\ about' \in 0..Features
    BY DriftAssumption DEF Schedule, RunState, LastStep, DriftInv, TypeOK
  <1>3. xcom' \in XCom /\ baselines' \subseteq Positions
    BY DEF Schedule, XCom, Unpushed, DriftInv, TypeOK
  <1>4. report' \in [Positions -> Result] /\ metrics' \in [Positions -> [Types -> 0..Attempts]]
    BY DriftAssumption DEF Schedule, Nothing, NoRows, Result
  <1>5. TypeOK'
    BY <1>1, <1>2, <1>3, <1>4 DEF TypeOK, RunState, XCom
  <1>6. Handed' /\ RcaIsDue' /\ AlertIsAnalysed'
    BY DEF Schedule, Handed, RcaIsDue, AlertIsAnalysed
  <1>7. RowsOfTries'
    BY DEF Schedule, RowsOfTries, Tries, NoRows
  <1> QED  BY <1>1, <1>5, <1>6, <1>7 DEF DriftInv

LEMMA StartKeeps == DriftInv /\ StartTask => DriftInv'
  <1> SUFFICES ASSUME DriftInv, StartTask  PROVE DriftInv'
    OBVIOUS
  <1>0. TypeOK /\ run \in RunState /\ xcom \in XCom
    BY DagTypes DEF DriftInv
  <1>1. run' = [phase |-> "running", task |-> run.task, state |-> "running",
                try |-> run.try, step |-> 0]
    BY <1>0 DEF StartTask, RunState
  <1>2. run' \in RunState
    BY <1>0, <1>1, DriftAssumption DEF RunState, LastStep
  <1>3. /\ xcom' \in XCom
        /\ run.task = "detect" => ~xcom'.hasDrift /\ xcom'.drifting = {}
        /\ run.task \in {"branch", "rca"} => xcom' = xcom
    <2>1. CASE run.task = "load"
      BY <2>1, <1>0 DEF StartTask, Cleared, XCom
    <2>2. CASE run.task = "detect"
      <3>1. xcom' = [data |-> xcom.data, hasDrift |-> FALSE, drifting |-> {}]
        BY <2>2, <1>0 DEF StartTask, Cleared, XCom
      <3> QED  BY <2>2, <3>1, <1>0 DEF XCom
    <2>3. CASE run.task \in {"branch", "rca"}
      BY <2>3, <1>0 DEF StartTask, Cleared
    <2> QED  BY <2>1, <2>2, <2>3, <1>0 DEF RunState
  <1>4. TypeOK'
    BY <1>0, <1>2, <1>3 DEF TypeOK, RunState, XCom, StartTask, RcaTypeOK
  <1>5. Handed' /\ RcaIsDue'
    BY <1>0, <1>1, <1>3 DEF DriftInv, Handed, RcaIsDue, StartTask
  <1>6. RowsOfTries'
    <2> SUFFICES ASSUME NEW i \in Positions, NEW t \in Types
                 PROVE  metrics[i][t] <= Tries(i, t)'
      BY DEF RowsOfTries, StartTask
    <2>1. Tries(i, t)' = Tries(i, t)
      BY <1>0, <1>1 DEF Tries, StartTask, StepOf, Positions, RunState
    <2> QED  BY <2>1 DEF DriftInv, RowsOfTries, StartTask
  <1> QED
    BY <1>1, <1>4, <1>5, <1>6 DEF DriftInv, AlertIsAnalysed, CallsLeft, StartTask

LEMMA FailKeeps == DriftInv /\ TaskFails => DriftInv'
  <1> SUFFICES ASSUME DriftInv, TaskFails  PROVE DriftInv'
    OBVIOUS
  <1>0. TypeOK /\ run \in RunState
    BY DagTypes DEF DriftInv
  <1>1. RcaTypeOK' /\ CallsLeft'
    <2>1. RcaInv /\ Abandoned(Dag) /\ Dag \in Callers
      BY DriftAssumption DEF DriftInv, TypeOK, RcaInv, TaskFails, Abandoned
    <2> QED  BY <2>1, AbandonKeeps DEF RcaInv
  <1>2. CASE run.try < Attempts
    <2>1. run' = [phase |-> "running", task |-> run.task, state |-> "queued",
                  try |-> run.try + 1, step |-> run.step]
      BY <1>0, <1>2 DEF TaskFails, RunState
    <2>2. run' \in RunState
      BY <1>0, <1>2, <2>1, DriftAssumption DEF RunState
    <2>3. TypeOK'
      BY <1>0, <1>1, <2>2 DEF TypeOK, RunState, TaskFails
    <2>4. Handed' /\ RcaIsDue'
      BY <1>0, <2>1 DEF DriftInv, Handed, RcaIsDue, TaskFails
    <2>5. RowsOfTries'
      <3> SUFFICES ASSUME NEW i \in Positions, NEW t \in Types
                   PROVE  metrics[i][t] <= Tries(i, t)'
        BY DEF RowsOfTries, TaskFails
      <3>1. metrics[i][t] <= Tries(i, t)
        BY DEF DriftInv, RowsOfTries, TaskFails
      <3>2. metrics[i][t] \in 0..Attempts
        BY <1>0 DEF TypeOK
      <3>3. Tries(i, t) <= Tries(i, t)'
        BY <1>0, <2>1, DriftAssumption DEF Tries, TaskFails, RunState
      <3>4. Tries(i, t) \in Int /\ Tries(i, t)' \in Int
        BY <1>0, <2>1, DriftAssumption DEF Tries, RunState
      <3> QED  BY <3>1, <3>2, <3>3, <3>4
    <2> QED  BY <1>1, <2>1, <2>3, <2>4, <2>5 DEF DriftInv, AlertIsAnalysed
  <1>3. CASE ~(run.try < Attempts)
    <2>1. run' = [run EXCEPT !.phase = "failed"]
      BY <1>3 DEF TaskFails
    <2>2. run' \in RunState /\ run'.phase = "failed"
      BY <1>0, <2>1, Ended
    <2>3. TypeOK'
      BY <1>0, <1>1, <2>2 DEF TypeOK, RunState, TaskFails
    <2> QED
      BY <1>1, <2>2, <2>3 DEF DriftInv, Handed, RcaIsDue, RowsOfTries, AlertIsAnalysed
  <1> QED  BY <1>2, <1>3

\* The tasks before the analysis leave the engine alone and do not end the run.
LEMMA LoadKeeps == DriftInv /\ Load => DriftInv'
  <1> SUFFICES ASSUME DriftInv, Load  PROVE DriftInv'
    OBVIOUS
  <1>0. TypeOK /\ run \in RunState /\ xcom \in XCom
    BY DagTypes DEF DriftInv
  <1>1. /\ run' \in RunState
        /\ run'.phase = "running" /\ run'.task = "detect" /\ run'.state = "queued"
        /\ run'.try = 1
    BY <1>0, Handover DEF Load, Runs
  <1>2. xcom' \in XCom
    BY <1>0 DEF Load, XCom
  <1>3. TypeOK'
    BY <1>0, <1>1, <1>2 DEF TypeOK, RunState, XCom, Load, RcaTypeOK
  <1>4. RowsOfTries'
    <2> SUFFICES ASSUME NEW i \in Positions, NEW t \in Types
                 PROVE  metrics[i][t] <= Tries(i, t)'
      BY DEF RowsOfTries, Load
    <2>1. metrics[i][t] <= 0
      BY DEF DriftInv, RowsOfTries, Load, Runs, Tries
    <2>2. Tries(i, t)' = 0
      BY <1>1 DEF Tries
    <2> QED  BY <2>1, <2>2
  <1> QED
    BY <1>1, <1>3, <1>4
    DEF DriftInv, Handed, RcaIsDue, AlertIsAnalysed, CallsLeft, Load

LEMMA DetectNothingKeeps == DriftInv /\ DetectNothing => DriftInv'
  <1> SUFFICES ASSUME DriftInv, DetectNothing  PROVE DriftInv'
    OBVIOUS
  <1>0. TypeOK /\ run \in RunState /\ xcom \in XCom
    BY DagTypes DEF DriftInv
  <1>1. /\ run' \in RunState
        /\ run'.phase = "running" /\ run'.task = "branch"
    BY <1>0, Handover DEF DetectNothing, At, Runs
  <1>2. ~xcom.hasDrift /\ xcom.drifting = {}
    BY DEF DriftInv, Handed, DetectNothing, At, Runs
  <1>3. xcom' \in XCom /\ ~xcom'.hasDrift /\ xcom'.drifting = {}
    BY <1>0, <1>2 DEF DetectNothing, XCom
  <1>4. report' \in [Positions -> Result]
    BY DriftAssumption DEF DetectNothing, Nothing, Result
  <1>5. TypeOK'
    BY <1>0, <1>1, <1>3, <1>4 DEF TypeOK, RunState, XCom, DetectNothing, RcaTypeOK
  <1>6. \A i \in Positions : Severity(report'[i]) = "ok"
    BY NothingDrifts DEF DetectNothing, Nothing
  <1>7. ~Critical(report') /\ Drifting(report') = {}
    BY <1>6 DEF Critical, Drifting
  <1>8. Handed' /\ RcaIsDue'
    BY <1>1, <1>3, <1>7 DEF Handed, RcaIsDue
  <1>9. RowsOfTries'
    BY <1>0, <1>1, DriftAssumption DEF RowsOfTries, Tries, DetectNothing, TypeOK
  <1> QED
    BY <1>1, <1>5, <1>8, <1>9 DEF DriftInv, AlertIsAnalysed, CallsLeft, DetectNothing

\* One step further in run_drift_detection without a row written.
LEMMA FurtherKeepsRows ==
    ASSUME DriftInv, Runs("detect"), run.step < LastStep, Advance, UNCHANGED metrics
    PROVE  RowsOfTries'
  <1>0. TypeOK /\ run \in RunState
    BY DagTypes DEF DriftInv
  <1> SUFFICES ASSUME NEW i \in Positions, NEW t \in Types
               PROVE  metrics[i][t] <= Tries(i, t)'
    BY DEF RowsOfTries
  <1>1. metrics[i][t] <= Tries(i, t)
    BY DEF DriftInv, RowsOfTries, Runs
  <1>2. metrics[i][t] \in 0..Attempts
    BY <1>0 DEF TypeOK
  <1>3. Tries(i, t) = IF StepOf(i, t) < run.step THEN run.try ELSE run.try - 1
    BY DEF Tries, Runs
  <1>4. Tries(i, t)' = IF StepOf(i, t) < run.step + 1 THEN run.try ELSE run.try - 1
    BY <1>0, Advanced DEF Tries, Runs, StepOf
  <1>5. run.try \in 1..Attempts /\ run.step \in 0..LastStep /\ StepOf(i, t) \in Int
    BY <1>0 DEF RunState, StepOf, Positions
  <1> QED  BY <1>1, <1>2, <1>3, <1>4, <1>5, DriftAssumption DEF LastStep

LEMMA DetectKeeps == DriftInv /\ Detect => DriftInv'
  <1> SUFFICES ASSUME DriftInv, Detect  PROVE DriftInv'
    OBVIOUS
  <1>0. TypeOK /\ run \in RunState
    BY DagTypes DEF DriftInv
  <1>1. Runs("detect") /\ run.step = 0 /\ run.step < LastStep /\ Advance /\ UNCHANGED metrics
    BY DriftAssumption DEF Detect, At, LastStep
  <1>2. /\ run' \in RunState
        /\ run'.phase = "running" /\ run'.task = "detect" /\ run'.step = 1
    BY <1>0, <1>1, Advanced DEF Runs
  <1>3. report' \in [Positions -> Result]
    BY DEF Detect, Detected
  <1>4. TypeOK'
    BY <1>0, <1>2, <1>3 DEF TypeOK, RunState, Detect, RcaTypeOK
  <1>5. RowsOfTries'
    BY <1>1, FurtherKeepsRows
  <1> QED
    BY <1>2, <1>4, <1>5
    DEF DriftInv, Handed, RcaIsDue, AlertIsAnalysed, CallsLeft, Detect

LEMMA PushHasDriftKeeps == DriftInv /\ PushHasDrift => DriftInv'
  <1> SUFFICES ASSUME DriftInv, PushHasDrift  PROVE DriftInv'
    OBVIOUS
  <1>0. TypeOK /\ run \in RunState /\ xcom \in XCom
    BY DagTypes DEF DriftInv
  <1>1. Runs("detect") /\ run.step = 1 /\ run.step < LastStep /\ Advance /\ UNCHANGED metrics
    BY DriftAssumption DEF PushHasDrift, At, LastStep
  <1>2. /\ run' \in RunState
        /\ run'.phase = "running" /\ run'.task = "detect" /\ run'.step = 2
    BY <1>0, <1>1, Advanced DEF Runs
  <1>3. HasDrift \in BOOLEAN
    BY DEF HasDrift, Critical
  <1>4. xcom' = [data |-> xcom.data, hasDrift |-> HasDrift, drifting |-> xcom.drifting]
    BY <1>0 DEF PushHasDrift, XCom
  <1>5. xcom' \in XCom
    BY <1>0, <1>3, <1>4 DEF XCom
  <1>6. xcom'.hasDrift <=> Critical(report')
    <2>1. xcom'.hasDrift = HasDrift
      BY <1>4, Zenon
    <2>2. report' = report
      BY DEF PushHasDrift
    <2> QED  BY <2>1, <2>2, Zenon DEF HasDrift
  <1>7. TypeOK'
    BY <1>0, <1>2, <1>5 DEF TypeOK, RunState, XCom, PushHasDrift, RcaTypeOK
  <1>8. RowsOfTries'
    BY <1>1, FurtherKeepsRows
  <1> QED
    BY <1>2, <1>6, <1>7, <1>8
    DEF DriftInv, Handed, RcaIsDue, AlertIsAnalysed, CallsLeft, PushHasDrift

LEMMA PushDriftingKeeps == DriftInv /\ PushDrifting => DriftInv'
  <1> SUFFICES ASSUME DriftInv, PushDrifting  PROVE DriftInv'
    OBVIOUS
  <1>0. TypeOK /\ run \in RunState /\ xcom \in XCom
    BY DagTypes DEF DriftInv
  <1>1. Runs("detect") /\ run.step = 2 /\ run.step < LastStep /\ Advance /\ UNCHANGED metrics
    BY DriftAssumption DEF PushDrifting, At, LastStep
  <1>2. /\ run' \in RunState
        /\ run'.phase = "running" /\ run'.task = "detect" /\ run'.step = 3
    BY <1>0, <1>1, Advanced DEF Runs
  <1>3. xcom' \in XCom /\ xcom'.hasDrift = xcom.hasDrift /\ xcom'.drifting = Drifting(report)
    BY <1>0 DEF PushDrifting, XCom, Drifting
  <1>4. xcom.hasDrift <=> Critical(report)
    BY <1>1 DEF DriftInv, Handed, Runs
  <1>5. TypeOK'
    BY <1>0, <1>2, <1>3 DEF TypeOK, RunState, XCom, PushDrifting, RcaTypeOK
  <1>6. RowsOfTries'
    BY <1>1, FurtherKeepsRows
  <1> QED
    BY <1>2, <1>3, <1>4, <1>5, <1>6
    DEF DriftInv, Handed, RcaIsDue, AlertIsAnalysed, CallsLeft, PushDrifting

LEMMA Halves ==
    ASSUME NEW n \in Nat
    PROVE  n \div 2 \in Int /\ n % 2 \in {0, 1} /\ n = 2 * (n \div 2) + (n % 2)
  OBVIOUS

\* The row that a step writes is the one of this step.
LEMMA RowOfStep ==
    ASSUME run.step \in 3..(LastStep - 1)
    PROVE  /\ Position \in Positions /\ MetricType \in Types
           /\ StepOf(Position, MetricType) = run.step
           /\ \A i \in Positions, t \in Types :
                 StepOf(i, t) = run.step => i = Position /\ t = MetricType
  <1> DEFINE n == run.step - 3
             q == n \div 2
             r == n % 2
  <1>1. Features \in Nat /\ run.step \in Nat
    BY DriftAssumption DEF LastStep
  <1>2. n \in 0..(2 * Features - 1)
    BY <1>1 DEF LastStep
  <1>3. q \in Int /\ r \in {0, 1} /\ n = 2 * q + r
    <2>1. n \in Nat
      BY <1>1, <1>2
    <2> HIDE DEF n
    <2> QED  BY <2>1, Halves DEF q, r
  <1> HIDE DEF q, r
  <1>4. q \in 0..(Features - 1)
    BY <1>1, <1>2, <1>3
  <1>5. Position = 1 + q /\ MetricType = IF r = 0 THEN "psi_score" ELSE "ks_statistic"
    BY DEF Position, MetricType, q, r
  <1>6. Position \in Positions /\ MetricType \in Types
    BY <1>1, <1>4, <1>5 DEF Positions, Types
  <1>7. StepOf(Position, MetricType) = run.step
    BY <1>1, <1>3, <1>4, <1>5 DEF StepOf
  <1>8. ASSUME NEW i \in Positions, NEW t \in Types, StepOf(i, t) = run.step
        PROVE  i = Position /\ t = MetricType
    <2>1. i \in Int /\ (t = "psi_score" \/ t = "ks_statistic")
      BY DEF Positions, Types
    <2>2. CASE t = "psi_score"
      <3>1. 3 + 2 * (i - 1) = run.step
        BY <1>8, <2>1, <2>2 DEF StepOf
      <3>2. r = 0 /\ i = 1 + q
        BY <1>1, <1>3, <2>1, <3>1
      <3> QED  BY <1>5, <2>2, <3>2
    <2>3. CASE t = "ks_statistic"
      <3>1. 4 + 2 * (i - 1) = run.step
        BY <1>8, <2>1, <2>3 DEF StepOf
      <3>2. r = 1 /\ i = 1 + q
        BY <1>1, <1>3, <2>1, <3>1
      <3> QED  BY <1>5, <2>3, <3>2
    <2> QED  BY <2>1, <2>2, <2>3
  <1> QED  BY <1>6, <1>7, <1>8

LEMMA WriteMetricKeeps == DriftInv /\ WriteMetric => DriftInv'
  <1> SUFFICES ASSUME DriftInv, WriteMetric  PROVE DriftInv'
    OBVIOUS
  <1>0. TypeOK /\ run \in RunState
    BY DagTypes DEF DriftInv
  <1>1. Runs("detect") /\ run.step \in 3..(LastStep - 1) /\ run.step < LastStep /\ Advance
    BY DriftAssumption DEF WriteMetric, LastStep
  <1>2. /\ run' \in RunState
        /\ run'.phase = "running" /\ run'.task = "detect" /\ run'.state = "running"
        /\ run'.step = run.step + 1 /\ run'.try = run.try
    BY <1>0, <1>1, Advanced DEF Runs
  <1>3. ASSUME metrics' \in [Positions -> [Types -> 0..Attempts]], RowsOfTries'
        PROVE  DriftInv'
    <2>1. TypeOK'
      BY <1>0, <1>2, <1>3 DEF TypeOK, RunState, WriteMetric, RcaTypeOK
    <2>2. Handed'
      BY <1>1, <1>2 DEF DriftInv, Handed, WriteMetric, Runs
    <2> QED
      BY <1>2, <1>3, <2>1, <2>2
      DEF DriftInv, RcaIsDue, AlertIsAnalysed, CallsLeft, WriteMetric
  <1>4. CASE UNCHANGED metrics
    BY <1>0, <1>1, <1>3, <1>4, FurtherKeepsRows DEF TypeOK
  <1>5. CASE metrics' = Inserted
    <2>1. metrics \in [Positions -> [Types -> 0..Attempts]]
      BY <1>0 DEF TypeOK
    <2>2. metrics[Position][MetricType] <= run.try - 1
      BY <1>1, RowOfStep DEF DriftInv, RowsOfTries, Tries, Runs
    <2>3. run.try \in 1..Attempts
      BY <1>0 DEF RunState
    <2>4. metrics[Position][MetricType] + 1 \in 0..Attempts
      BY <2>1, <2>2, <2>3, <1>1, RowOfStep, DriftAssumption
    <2>5. metrics' = [metrics EXCEPT ![Position] =
                        [metrics[Position] EXCEPT ![MetricType] = metrics[Position][MetricType] + 1]]
      BY <1>5 DEF Inserted
    <2>6. metrics' \in [Positions -> [Types -> 0..Attempts]]
      BY <2>1, <2>4, <2>5, <1>1, RowOfStep
    <2>7. ASSUME NEW i \in Positions, NEW t \in Types
          PROVE  metrics'[i][t] <= Tries(i, t)'
      <3>1. Tries(i, t)' = IF StepOf(i, t) < run.step + 1 THEN run.try ELSE run.try - 1
        BY <1>2 DEF Tries, StepOf
      <3>2. metrics[i][t] <= IF StepOf(i, t) < run.step THEN run.try ELSE run.try - 1
        BY <1>1 DEF DriftInv, RowsOfTries, Tries, Runs
      <3>3. metrics[i][t] \in 0..Attempts /\ StepOf(i, t) \in Int /\ run.step \in Int
        BY <2>1, <1>1, DriftAssumption DEF StepOf, Positions, LastStep
      <3>4. CASE i = Position /\ t = MetricType
        <4>1. metrics'[i][t] = metrics[i][t] + 1
          BY <2>1, <2>5, <3>4, <1>1, RowOfStep
        <4>2. StepOf(i, t) = run.step
          BY <3>4, <1>1, RowOfStep
        <4> QED  BY <3>1, <3>3, <3>4, <2>2, <2>3, <4>1, <4>2
      <3>5. CASE ~(i = Position /\ t = MetricType)
        <4>1. metrics'[i][t] = metrics[i][t]
          BY <2>1, <2>5, <3>5, <1>1, RowOfStep
        <4>2. StepOf(i, t) # run.step
          BY <3>5, <1>1, RowOfStep
        <4> QED  BY <3>1, <3>2, <3>3, <2>3, <4>1, <4>2
      <3> QED  BY <3>4, <3>5
    <2>8. RowsOfTries'
      BY <2>7 DEF RowsOfTries
    <2> QED  BY <1>3, <2>6, <2>8
  <1> QED  BY <1>4, <1>5 DEF WriteMetric

LEMMA DetectDoneKeeps == DriftInv /\ DetectDone => DriftInv'
  <1> SUFFICES ASSUME DriftInv, DetectDone  PROVE DriftInv'
    OBVIOUS
  <1>0. TypeOK /\ run \in RunState
    BY DagTypes DEF DriftInv
  <1>1. /\ run' \in RunState
        /\ run'.phase = "running" /\ run'.task = "branch"
    BY <1>0, Handover DEF DetectDone, At, Runs
  <1>2. (xcom.hasDrift <=> Critical(report)) /\ xcom.drifting = Drifting(report)
    BY <1>0, DriftAssumption DEF DriftInv, Handed, DetectDone, At, Runs, LastStep
  <1>3. TypeOK'
    BY <1>0, <1>1 DEF TypeOK, RunState, DetectDone, RcaTypeOK
  <1>4. RowsOfTries'
    BY <1>0, <1>1, DriftAssumption DEF RowsOfTries, Tries, DetectDone, TypeOK
  <1> QED
    BY <1>1, <1>2, <1>3, <1>4
    DEF DriftInv, Handed, RcaIsDue, AlertIsAnalysed, CallsLeft, DetectDone

\* The end of a run: only the properties of the end are left to show.
LEMMA EndKeeps ==
    ASSUME DriftInv, NEW phase \in {"success", "failed"},
           run' = [run EXCEPT !.phase = phase],
           UNCHANGED <<analysis, baselines, runs, xcom, report, metrics, about>>,
           phase = "success" /\ Critical(report) =>
               about \in Drifting(report) /\ analysis[Dag].phase \in Answered
    PROVE  DriftInv'
  <1>0. TypeOK /\ run \in RunState
    BY DagTypes DEF DriftInv
  <1>1. run' \in RunState /\ run'.phase = phase
    BY <1>0, Ended
  <1>2. TypeOK'
    BY <1>0, <1>1 DEF TypeOK, RunState, RcaTypeOK
  <1> QED
    BY <1>1, <1>2
    DEF DriftInv, Handed, RcaIsDue, RowsOfTries, AlertIsAnalysed, CallsLeft

LEMMA BranchKeeps == DriftInv /\ Branch => DriftInv'
  <1> SUFFICES ASSUME DriftInv, Branch  PROVE DriftInv'
    OBVIOUS
  <1>0. TypeOK /\ run \in RunState
    BY DagTypes DEF DriftInv
  <1>1. (xcom.hasDrift <=> Critical(report)) /\ xcom.drifting = Drifting(report)
    BY DEF DriftInv, Handed, Branch, Runs
  <1>2. CASE xcom.hasDrift
    <2>1. /\ run' \in RunState
          /\ run'.phase = "running" /\ run'.task = "rca" /\ run'.step = 0
      BY <1>0, <1>2, Handover DEF Branch, Runs
    <2>2. TypeOK'
      BY <1>0, <2>1 DEF TypeOK, RunState, Branch, RcaTypeOK
    <2>3. RowsOfTries'
      BY <1>0, <2>1, DriftAssumption DEF RowsOfTries, Tries, Branch, TypeOK
    <2> QED
      BY <1>1, <1>2, <2>1, <2>2, <2>3
      DEF DriftInv, Handed, RcaIsDue, AlertIsAnalysed, CallsLeft, Branch
  <1>3. CASE ~xcom.hasDrift
    BY <1>1, <1>3, EndKeeps DEF Branch
  <1> QED  BY <1>2, <1>3

LEMMA RunRcaKeeps == DriftInv /\ RunRca => DriftInv'
  <1> SUFFICES ASSUME DriftInv, RunRca  PROVE DriftInv'
    OBVIOUS
  <1>0. TypeOK /\ run \in RunState
    BY DagTypes DEF DriftInv
  <1>1. /\ Critical(report) /\ xcom.drifting = Drifting(report)
        /\ xcom.drifting # {}
    BY CriticalDrifts DEF DriftInv, RcaIsDue, RunRca, At, Runs
  <1>2. /\ about' \in Drifting(report) /\ Analyze(Dag, PlaceholderReport) /\ Advance
    BY <1>1 DEF RunRca, First
  <1>3. PlaceholderReport \in Report /\ RcaInv /\ Dag \in Callers
    BY DriftAssumption DEF PlaceholderReport, Report, RcaInv, DriftInv, TypeOK
  <1>4. RcaInv'
    BY <1>2, <1>3, AskKeeps
  <1>5. /\ run' \in RunState
        /\ run'.phase = "running" /\ run'.task = "rca" /\ run'.step = 1
    BY <1>0, <1>2, Advanced, DriftAssumption DEF RunRca, At, Runs, LastStep
  <1>6. TypeOK'
    <2>1. about' \in 0..Features
      BY <1>2 DEF Drifting, Positions
    <2> QED  BY <1>0, <1>4, <1>5, <2>1 DEF TypeOK, RunState, RunRca, RcaInv
  <1>7. Handed' /\ RcaIsDue'
    BY <1>1, <1>2, <1>5 DEF Handed, RcaIsDue, RunRca
  <1>8. RowsOfTries'
    BY <1>0, <1>5, DriftAssumption DEF RowsOfTries, Tries, RunRca, TypeOK
  <1> QED  BY <1>4, <1>5, <1>6, <1>7, <1>8 DEF DriftInv, AlertIsAnalysed, RcaInv

LEMMA RcaDoneKeeps == DriftInv /\ RcaDone => DriftInv'
  <1> SUFFICES ASSUME DriftInv, RcaDone  PROVE DriftInv'
    OBVIOUS
  <1>1. about \in Drifting(report) /\ analysis[Dag].phase \in Answered
    BY DEF DriftInv, Handed, RcaDone, At, Runs
  <1> QED  BY <1>1, EndKeeps DEF RcaDone

\* What leaves the run alone and a finished analysis of the DAG as it is keeps the
\* invariant.
LEMMA BesideKeeps ==
    ASSUME DriftInv, RcaInv', baselines' \subseteq Positions, UNCHANGED dagVars,
           analysis[Dag].phase \in Answered => analysis'[Dag] = analysis[Dag]
    PROVE  DriftInv'
  <1>1. TypeOK'
    BY DEF DriftInv, TypeOK, RcaInv, dagVars
  <1>2. Handed' /\ RcaIsDue' /\ AlertIsAnalysed'
    BY DEF DriftInv, Handed, RcaIsDue, AlertIsAnalysed, dagVars
  <1>3. RowsOfTries'
    BY DEF DriftInv, RowsOfTries, Tries, dagVars
  <1> QED  BY <1>1, <1>2, <1>3 DEF DriftInv, RcaInv

LEMMA EngineStepsKeep ==
    ASSUME DriftInv, NEW c \in Callers,
           \/ EngineStep(c)
           \/ c # Dag /\ (PostRca(c) \/ ApiDies(c))
    PROVE  DriftInv'
  <1>1. RcaInv /\ Dag \in Callers /\ baselines \subseteq Positions
    BY DriftAssumption DEF DriftInv, TypeOK, RcaInv
  <1>2. CASE EngineStep(c)
    BY <1>1, <1>2, EngineKeeps, BesideKeeps DEF EngineStep
  <1>3. CASE c # Dag /\ PostRca(c)
    <2>1. PICK psi \in Measured, z \in BOOLEAN :
             Analyze(c, [psi |-> psi, z |-> z, ks |-> TRUE])
      BY <1>3 DEF PostRca
    <2>2. [psi |-> psi, z |-> z, ks |-> TRUE] \in Report
      BY DriftAssumption DEF Report
    <2> QED  BY <1>1, <1>3, <2>1, <2>2, AskKeeps, BesideKeeps DEF PostRca
  <1>4. CASE c # Dag /\ ApiDies(c)
    BY <1>1, <1>4, AbandonKeeps, BesideKeeps DEF ApiDies
  <1> QED  BY <1>2, <1>3, <1>4

LEMMA BaselinesKeep ==
    ASSUME DriftInv, NEW i \in Positions, SaveBaseline(i) \/ BaselineExpires(i)
    PROVE  DriftInv'
  <1>1. RcaInv' /\ baselines' \subseteq Positions
    BY DEF DriftInv, TypeOK, RcaInv, SaveBaseline, BaselineExpires, RcaTypeOK, CallsLeft
  <1> QED  BY <1>1, BesideKeeps DEF SaveBaseline, BaselineExpires

LEMMA NextInv == DriftInv /\ [Next]_vars => DriftInv'
  <1> SUFFICES ASSUME DriftInv, [Next]_vars  PROVE DriftInv'
    OBVIOUS
  <1>1. CASE UNCHANGED vars
    <2>1. RcaInv' /\ baselines' \subseteq Positions /\ UNCHANGED dagVars
      BY <1>1 DEF vars, DriftInv, TypeOK, RcaInv, RcaTypeOK, CallsLeft
    <2> QED  BY <1>1, <2>1, BesideKeeps DEF vars
  <1>2. CASE DagStep
    BY <1>2, StartKeeps, LoadKeeps, DetectNothingKeeps, DetectKeeps, PushHasDriftKeeps,
       PushDriftingKeeps, WriteMetricKeeps, DetectDoneKeeps, BranchKeeps, RunRcaKeeps,
       RcaDoneKeeps
    DEF DagStep
  <1>3. CASE Schedule \/ TaskFails
    BY <1>3, ScheduleKeeps, FailKeeps
  <1>4. CASE \/ \E c \in Callers : EngineStep(c)
             \/ \E c \in Callers \ {Dag} : PostRca(c) \/ ApiDies(c)
    BY <1>4, EngineStepsKeep
  <1>5. CASE \E i \in Positions : SaveBaseline(i) \/ BaselineExpires(i)
    BY <1>5, BaselinesKeep
  <1> QED  BY <1>1, <1>2, <1>3, <1>4, <1>5 DEF Next

-----------------------------------------------------------------------------

\* For any number of features, tries, calls and requests: what a try of
\* run_drift_detection has pushed is of its own results (drift_monitoring_dag.py:71-72),
\* each try writes each row at most once, and whoever is about to call the model has a
\* call left.
THEOREM DriftSafe == Spec => []DriftInv
  BY InitInv, NextInv, PTL DEF Spec

\* The type invariant: an analysis makes at most MaxCalls calls (rca_engine.py:50), and a
\* run writes at most Attempts rows per feature and type.
THEOREM DriftTypeCorrect == Spec => []TypeOK
  <1>1. DriftInv => TypeOK
    BY DEF DriftInv
  <1> QED  BY <1>1, DriftSafe, PTL

\* The task run_rca runs only for an alert among the results of the run's last
\* detection, and finds the features of just these results in XCom, whichever tries
\* died between the two pushes.
THEOREM AnalysesAreDue == Spec => []RcaIsDue
  <1>1. DriftInv => RcaIsDue
    BY DEF DriftInv
  <1> QED  BY <1>1, DriftSafe, PTL

\* A run that ends well with an alert has had a drifting feature diagnosed.
THEOREM AlertsAreAnalysed == Spec => []AlertIsAnalysed
  <1>1. DriftInv => AlertIsAnalysed
    BY DEF DriftInv
  <1> QED  BY <1>1, DriftSafe, PTL

\* With any thresholds whose alert is above the engine's literal 0.1, the fallback never
\* calls an alert's urgency low.
THEOREM AlertsNeverLow == Spec => []AlertsAreUrgent
  <1>1. DriftInv => AlertsAreUrgent
    <2> SUFFICES ASSUME DriftInv, NEW c \in Callers,
                        PsiSeverity(analysis[c].report.psi) = "alert"
                 PROVE  Urgency(analysis[c].report) # "low"
      BY DEF AlertsAreUrgent
    <2>1. analysis[c].report.psi \in Nat
      BY RcaAssumption DEF DriftInv, TypeOK, RcaTypeOK, Report
    <2>2. analysis[c].report.psi > Moderate
      BY <2>1, DriftAssumption, RcaAssumption DEF PsiSeverity
    <2> QED  BY <2>2 DEF Urgency
  <1> QED  BY <1>1, DriftSafe, PTL
-----------------------------------------------------------------------------
(* Which feature is analysed *)

\* run_rca_analysis takes drifting[0]: of the features that drift in the run's last
\* results, the first in the order of FEATURE_NAMES.
FirstIsAnalysed == At("rca", 1) => about \in First(Drifting(report))

\* No feature that merely warns comes before one at alert.
AlertsComeFirst ==
    \A i, j \in Positions :
        i < j /\ Severity(report[j]) = "alert" => Severity(report[i]) # "warn"

LEMMA FirstStays == DriftInv /\ FirstIsAnalysed /\ [Next]_vars => FirstIsAnalysed'
  <1> SUFFICES ASSUME DriftInv, FirstIsAnalysed, [Next]_vars,
                      run'.phase = "running", run'.state = "running",
                      run'.task = "rca", run'.step = 1
               PROVE  about' \in First(Drifting(report'))
    BY DEF FirstIsAnalysed, At, Runs, First, Drifting
  <1>0. TypeOK /\ run \in RunState
    BY DagTypes DEF DriftInv
  <1>1. CASE RunRca
    <2>1. xcom.drifting = Drifting(report) /\ report' = report
      BY <1>1 DEF DriftInv, RcaIsDue, RunRca, At, Runs
    <2>2. xcom.drifting # {}
      BY <1>0, <1>1 DEF RunRca, RunState
    <2> QED  BY <1>1, <2>1, <2>2 DEF RunRca, First, Drifting
  <1>2. CASE UNCHANGED <<run, report, about>>
    BY <1>2 DEF FirstIsAnalysed, At, Runs, First, Drifting
  <1>3. CASE Detect \/ PushHasDrift \/ PushDrifting \/ WriteMetric
    BY <1>0, <1>3 DEF Detect, PushHasDrift, PushDrifting, WriteMetric, At, Runs, Advance, RunState
  <1>4. CASE Load \/ DetectNothing \/ DetectDone
    BY <1>0, <1>4 DEF Load, DetectNothing, DetectDone, Then, RunState
  <1>5. CASE StartTask \/ Schedule
    <2>1. run'.step = 0
      <3>1. CASE StartTask
        BY <1>0, <3>1 DEF StartTask, RunState
      <3>2. CASE Schedule
        BY <3>2 DEF Schedule
      <3> QED  BY <1>5, <3>1, <3>2
    <2> QED  BY <2>1
  <1>6. CASE Branch
    BY <1>0, <1>6 DEF Branch, Then, RunState
  <1>7. CASE TaskFails \/ RcaDone
    BY <1>0, <1>7 DEF TaskFails, RcaDone, RunState
  <1>8. CASE \/ \E i \in Positions : SaveBaseline(i) \/ BaselineExpires(i)
             \/ \E c \in Callers : EngineStep(c)
             \/ \E c \in Callers \ {Dag} : PostRca(c) \/ ApiDies(c)
    BY <1>2, <1>8 DEF SaveBaseline, BaselineExpires, EngineStep, PostRca, ApiDies, dagVars
  <1>9. CASE UNCHANGED vars
    BY <1>2, <1>9 DEF vars, dagVars
  <1> QED
    BY <1>1, <1>3, <1>4, <1>5, <1>6, <1>7, <1>8, <1>9 DEF Next, DagStep

\* Whatever was retried, it is the first one; so the docstring's "most severely drifting
\* feature" (drift_monitoring_dag.py:108) is analysed as long as no warning precedes an
\* alert in the order of FEATURE_NAMES.
THEOREM FirstDrifterIsAnalysed ==
    Spec => /\ []FirstIsAnalysed
            /\ [](AlertsComeFirst => MostSevereIsAnalysed)
  <1>1. Init => FirstIsAnalysed
    BY DEF Init, FirstIsAnalysed, At, Runs
  <1>2. FirstIsAnalysed => (AlertsComeFirst => MostSevereIsAnalysed)
    <2> SUFFICES ASSUME FirstIsAnalysed, AlertsComeFirst, At("rca", 1),
                        NEW i \in Positions, Severity(report[i]) = "alert"
                 PROVE  Severity(report[about]) = "alert"
      BY DEF MostSevereIsAnalysed
    <2>1. /\ about \in Positions /\ Severity(report[about]) # "ok"
          /\ i \in Drifting(report)
          /\ about <= i
      BY DEF FirstIsAnalysed, First, Drifting
    <2>2. about < i \/ about = i
      BY <2>1, DriftAssumption DEF Positions
    <2>3. Severity(report[about]) \in {"ok", "warn", "alert"}
      BY DEF Severity, PsiSeverity
    <2> QED  BY <2>1, <2>2, <2>3 DEF AlertsComeFirst
  <1> QED  BY <1>1, <1>2, FirstStays, DriftSafe, PTL DEF Spec
=============================================================================
