SPECIFICATION Spec
CONSTANTS
    command = command
    candidate = candidate
    Connections = {c1, c2}
    Payloads <- MCPayloads
    Outcomes = {completed, failed}
    Charge <- MCCharge
    MaxScopes = 2
    MaxPending = 2
    MaxPendingScope = 1
    MaxTerminal = 1
    MaxTerminalScope = 1
    Credit = 1
    TerminalTtl = 1
    IdleScopeTtl = 2
    MaxScopeId = 3
    MaxSeq = 2
    MaxTime = 3
    None = None
SYMMETRY Symmetry
INVARIANTS
    ExecutedOnce
    PendingIsKept
    CreditIsExact
