SPECIFICATION FairSpec
CONSTANTS
    ManualOwners = {alice}
    AutomaticOwners = {}
    MaxEpoch = 4
    MaxDispatch = 3
    MaxLease = 2
    MaxTtl = 2
    None = None
    Physical = TRUE
    Evidence = "Readback"
    MaxQueued = 1
    RequestLen = 1
    ResponseLen = 1
    RecoveryTimeout = 1
    QueueTtl = 1
    Timeout = 1
    LeaseLifetime = 2
    MaxTickGap = 1
    ProposalTtl = 1
    ProgressAge = 2
    Required = FALSE
    AcquiresReads = TRUE
    MaxTransaction = 3
    MaxGeneration = 2
    MaxInstance = 2
    MaxTime = 1
INVARIANTS
    WorkIsCarried
PROPERTIES
    SafeIsServed
