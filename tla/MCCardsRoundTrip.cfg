\* Programs over the language the page has cards for.
CONSTANTS
    DefaultProgram <- MCDefault
    Programs <- MCLanguage
    Numerals <- MCNumerals
    Inputs <- MCInputs
    MaxEdits = 1
SPECIFICATION Spec
INVARIANT RoundTrips
