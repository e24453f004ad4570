\* One-statement programs of every form and two edits.
CONSTANTS
    DefaultProgram <- MCDefault
    Programs <- MCPrograms
    Numerals <- MCNumerals
    Inputs <- MCInputs
    MaxEdits = 2
SPECIFICATION Spec
INVARIANT KeptExactly
PROPERTY EditIsLocal
