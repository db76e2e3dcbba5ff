CONSTANTS
    t1 = t1
    t2 = t2
    b1 = b1
    Meta <- MCMeta
    Translators <- MCTranslators
    Breakers <- MCBreakers
    Probing = TRUE
    MaxRounds = 3
    Torn = Torn
SPECIFICATION Spec
PROPERTY PaidAsEarned
CHECK_DEADLOCK FALSE
