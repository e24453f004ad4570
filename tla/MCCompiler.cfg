\* Every form of the language with a few operands, and larger programs.
CONSTANTS
    Sources <- MCSources
    Names <- MCNames
    RepeatMax = 5
    MaxInt = 9
    SpeedMax = 5
    DurationMax = 5
    TurnMax = 5
SPECIFICATION Spec
INVARIANTS
    IInv
    OutputWellFormed
    NothingLost
