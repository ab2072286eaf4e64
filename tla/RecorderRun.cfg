\* One Required recorder and its client: starts, stops, pauses, writes, a storage fault.
CONSTANTS
    OrdinaryGroups = 3
    ProtectedPairs = 1
    RecordCredit = 4
    Envelope = 2
    MaxBatchGroups = 2
    MaxHistoryJobs = 1
    ControlSlots = 6
    Policy = "required"
    Ops = {1, 2}
    Connections = {}
    MaxPending = 1
    MaxOutbox = 1
    MaxFacts = 2
    MaxTurns = 3
    MaxTicks = 0
    MaxFaults = 1
    MaxBoots = 1
    Allowed = {"start", "stop", "controller_pause", "write", "shutdown"}
SPECIFICATION Spec
CHECK_DEADLOCK FALSE
INVARIANTS
    SealedIsComplete
    GapIsFirstLoss
    OperationsArePaired
    StopIsDurable
PROPERTIES
    PauseKeepsCoverage
