\* What the README says of arithmetic errors.
CONSTANTS
    Names <- MCNames
    Programs <- MCPrograms
    Limits <- MCLimits
    SensorValues <- MCSensorValues
    MaxInt = 7
    SpeedMax = 2
    DurationMax = 3
    TurnMax = 3
SPECIFICATION Spec
INVARIANT EveryErrorStopsRobot
