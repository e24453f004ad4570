\* Sources that compile and sources that do not, run under two limits and printed.
CONSTANTS
    Sources <- MCSources
    Names <- MCNames
    RepeatMax = 2
    RunLimits <- MCRunLimits
    Programs = {}
    Limits = {}
    SensorValues <- MCSensorValues
    MaxInt = 7
    SpeedMax = 2
    DurationMax = 2
    TurnMax = 2
SPECIFICATION RunnerSpec
INVARIANTS
    ErrorsDoNotStart
    LiteralsNeverFail
    CallsNeverFail
    PrintedUnderIssuer
