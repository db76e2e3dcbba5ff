SPECIFICATION Spec
CONSTANTS
    Inputs <- MCInputs
    Length <- MCLength
    Seeds <- MCSeeds
    Count = 2
    NoBinary = NoBinary
    MaxLate = 1
    NoInput = NoInput
INVARIANTS
    HitsAreReal
    AnswerFits
CHECK_DEADLOCK FALSE
