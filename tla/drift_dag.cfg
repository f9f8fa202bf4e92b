SPECIFICATION FairSpec
CONSTANTS
    Callers = {dag, req}
    Keyed = {dag}
    MaxCalls = 3
    Scores = {0, 20, 25}
    Moderate = 10
    Major = 20
    Dag = dag
    Features = 2
    Known = {1}
    Attempts = 2
    Warn = 10
    Alert = 20
    Placeholder = 25
    Measured = {0, 20}
    MaxRuns = 2
INVARIANTS TypeOK RcaIsDue AlertIsAnalysed AlertsAreUrgent
PROPERTIES EveryRunEnds EveryAnalysisAnswers
