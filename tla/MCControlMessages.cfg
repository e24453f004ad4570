\* Every message and many values, written in six ways each; 16 unsigned and 8 signed numbers.
CONSTANTS
    IntMax = 100
    Values <- MCValues
    Encoded <- MCEncoded
    Garbage <- MCGarbage
    Reports <- MCReports
    UintSize = 16
    IntSize = 8
SPECIFICATION MessageSpec
INVARIANTS
    ReadsWhatWasWritten
    RepliesAreLines
    LimitsAsAsked
