\* Short texts of every shape and whole programs; the largest integer is 155.
CONSTANTS
    Texts <- MCTexts
    Letters <- MCLetters
    MaxInt = 155
    Spelling <- MCSpelling
    Names <- MCLetters
    RepeatMax = 5
    SpeedMax = 5
    DurationMax = 5
    TurnMax = 5
SPECIFICATION TextSpec
INVARIANTS
    TokensExact
    TreeExact
    SourceIsLegal
    NodesFollowText
    PageAgrees
PROPERTY Compiled
