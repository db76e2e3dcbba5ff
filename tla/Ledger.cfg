SPECIFICATION Spec
CONSTANTS
    c1 = c1
    b1 = b1
    b2 = b2
    m1 = m1
    Committers <- MCCommitters
    Blobs <- MCBlobs
    HashedFields <- MCHashedFields
    Root <- MCRoot
    Artifacts <- MCArtifacts
    Metas <- MCMetas
    Contents <- MCContents
    MaxHeight = 3
    Faults = TRUE
    NoFile = NoFile
    Cut = Cut
    Genesis = Genesis
INVARIANTS
    TypeOK
    ChainLinked
    RecordBacked
    ObjectsBacked
    VerifyExact
    VerifyErrorMeansCut
PROPERTIES
    CommittedForGood
    RefinesAuditLog
CHECK_DEADLOCK FALSE
