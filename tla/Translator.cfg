SPECIFICATION Spec
CONSTANTS
    Inputs <- MCInputs
    CPrograms <- MCCPrograms
    Programs <- MCPrograms
    FixtureCode <- MCFixture
    Clients <- MCClients
    Axons <- MCAxons
    MaxRepairs = 1
    MaxRequests = 2
    NoBinary = NoBinary
    MaxLate = 1
    NoText = NoText
    Unreadable = Unreadable
INVARIANTS
    TypeOK
    BestOfDrafts
    EvidenceIsOwn
    GenuineReplay
PROPERTY
    QueryAnswered
