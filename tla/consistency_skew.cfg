SPECIFICATION Spec
CONSTANTS
    Users = {u1, u2}
    Features = {spend}
    Values <- MCValues
    Delta <- MCDelta
    SampleSize = 2
    DagNoise <- MCDagNoise
    PageNoise <- MCPageNoise
    Attempts = 2
    MaxDeaths = 2
PROPERTY SkewAlarms
