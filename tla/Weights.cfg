SPECIFICATION EmaFairSpec
CONSTANTS
    h1 = h1
    h2 = h2
    h3 = h3
    Neurons <- MCNeurons
    Scores <- MCScores
    MaxScore = 8
    Scale = 100
INVARIANTS
    WeightsAddUp
    WeightsInOrder
PROPERTIES
    NoOvershoot
    Forgets
