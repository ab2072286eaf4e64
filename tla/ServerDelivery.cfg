SPECIFICATION Spec
CHECK_DEADLOCK FALSE
SYMMETRY Symmetry
CONSTANTS
    MaxConnection = 2
    MaxClients = 1
    Queue = 2
    ClientIn = 2
    ClientOut = 2
    ClientEvents = 1
    Batch = 1
    MaxOperations = 1
    MsgIds = {a, b, c}
    Scenarios <- MCScenarios
    None = None
INVARIANTS
    RequestsAreAnswered
    ClientsAreConnected
