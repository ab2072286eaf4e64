\* Credit, references, applies, history, a crash and the next boot.
CONSTANTS
    OrdinaryGroups = 2
    ProtectedPairs = 1
    RecordCredit = 2
    Envelope = 2
    MaxBatchGroups = 2
    MaxHistoryJobs = 1
    ControlSlots = 6
    Policy = "required"
    Ops = {1, 2}
    c1 = c1
    Connections = {c1}
    MaxPending = 2
    MaxOutbox = 1
    MaxFacts = 1
    MaxTurns = 2
    MaxTicks = 1
    MaxFaults = 0
    MaxBoots = 2
    Allowed = {"start", "reference", "rebind", "annotate", "history", "apply", "shutdown"}
SPECIFICATION FairSpec
CHECK_DEADLOCK FALSE
INVARIANTS
    NothingLeaks
    PastIsHonest
PROPERTIES
    ImplementsDurableLog
    CreditReturns
    LifecyclesEnd
