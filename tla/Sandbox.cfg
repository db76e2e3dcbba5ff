CONSTANTS
    i1 = i1
    i2 = i2
    Inputs <- MCInputs
    Outputs <- MCOutputs
    Capped <- MCCapped
    Count = 1
    ByteBits = 2
    WordBits = 4
    Payload = 2
    BufSize = 2
    Basis = 5
    Prime = 3
    Polys = {9, 12}
    ChunkSizes = {2, 3}
    MaxRuns = {2, 3}
    WrapColumns = {4, 8}
    MaxLines = {4}
    MaxBits = {3, 5}
    MaxPoints = {1, 2}
    Samples <- MCSamples
SPECIFICATION Spec
INVARIANTS
    ScreenIsExact
    BrokenMeansDiffers
    PassedMeansAgrees
    TasksAreSound
    WeakIsCatchable
SYMMETRY MCSymmetry
CHECK_DEADLOCK FALSE
