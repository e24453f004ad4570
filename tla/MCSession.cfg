\* An edit, two clicks and two connections, in any order.
CONSTANTS
    Names = {x}
    MaxInt = 5
    SpeedMax = 2
    DurationMax = 2
    TurnMax = 2
    Compiled <- MCCompiled
    Requests <- MCRequests
    Cards <- MCCards
    Span <- MCSpan
    Texts <- MCTexts
    MaxEdits = 1
    MaxClicks = 2
    MaxConnects = 2
    MaxSteps = 2
    MaxQueue = 1
SPECIFICATION SessionSpec
INVARIANTS
    RunShown
    ConnectedSettles
PROPERTIES
    DiagnosticsArrive
    RunEnds
