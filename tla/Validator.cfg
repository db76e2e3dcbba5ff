CONSTANTS
    t1 = t1
    t2 = t2
    b1 = b1
    Meta <- MCMeta
    Translators <- MCTranslators
    Breakers <- MCBreakers
    Probing = FALSE
    MaxRounds = 3
    Torn = Torn
SPECIFICATION FairSpec
INVARIANTS
    PageIsTruthful
    RecordsWereWeighed
    RowsNameTheirRecord
PROPERTIES
    PaidAsEarned
    LoopSurvives
CHECK_DEADLOCK FALSE
