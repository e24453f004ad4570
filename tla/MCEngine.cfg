\* Every program, either set of limits, a cancel at any moment.
CONSTANTS
    Names <- MCNames
    Programs <- MCPrograms
    Limits <- MCLimits
    SensorValues <- MCSensorValues
    MaxInt = 7
    SpeedMax = 2
    DurationMax = 3
    TurnMax = 3
SPECIFICATION Spec
INVARIANTS
    TypeOK
    IInv
    CommandsSafe
    LateCommandBound
    StackBound
PROPERTIES
    ImplementsStream
    ScopeIsolation
    Termination
