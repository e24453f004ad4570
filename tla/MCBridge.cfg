\* Three messages of any kind, two of them possibly in flight, a hang-up at any moment.
CONSTANTS
    Names <- MCNames
    Programs <- MCPrograms
    Limits <- MCLimits
    SensorValues <- MCSensorValues
    Compiled <- MCCompiled
    Requests <- MCRequests
    Defaults <- MCDefaults
    PowerOn <- MCPowerOn
    WordSize = 4
    MaxRequests = 3
    MaxInbox = 2
    MaxInt = 5
    SpeedMax = 2
    DurationMax = 2
    TurnMax = 2
SPECIFICATION BridgeSpec
INVARIANTS
    CancelIsForThisRun
    JoinIsShort
PROPERTIES
    CancelNotLost
    ImplementsHost
    Answered
    TearDown
