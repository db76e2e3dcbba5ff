SPECIFICATION EditFairSpec
CONSTANTS
    c1 = c1
    m1 = m1
    m2 = m2
    t1 = t1
    v1 = v1
    w1 = w1
    w2 = w2
    none = none
    Committers <- MCCommitters
    Blobs <- MCBlobs
    HashedFields <- MCHashedFields
    Metas <- MCMetas
    Root <- MCRoot
    Artifacts <- MCArtifacts
    Contents <- MCContents
    MaxHeight = 3
    Faults = FALSE
    NoFile = NoFile
    Cut = Cut
    Genesis = Genesis
INVARIANTS
    EditDetected
PROPERTIES
    CommitLands
CHECK_DEADLOCK FALSE
