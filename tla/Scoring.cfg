SPECIFICATION Spec
CONSTANTS
    alice = alice
    bob = bob
    carol = carol
    i1 = i1
    i2 = i2
    big = big
    Translators <- MCTranslators
    Breakers <- MCBreakers
    Inputs <- MCInputs
    Oversize <- MCOversize
    HiddenTests = 2
    Scale = 104
    Penalty = 5
    Parts = 4
INVARIANTS
    BountiesAreHalf
    CollusionNeverPays
    PaidForCleanInputs
    NotOurFault
CHECK_DEADLOCK FALSE
