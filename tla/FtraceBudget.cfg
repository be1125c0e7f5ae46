SPECIFICATION Spec
CONSTANTS
    g1 = g1
    g2 = g2
    Goroutines <- TwoGoroutines
    Pids = {1, 2}
    PidOf <- OwnProcess
    Functions = {"A", "B"}
    Wanted = {"A"}
    Configs <- Sampling
    Unprobed = "X"
    Callable = {"A", "B"}
    Uprobes <- AThenB
    Disturbances = {}
    MaxSampleEvents = 2
    QueueCap = 1
    MaxTracked = 2
    Denominators = {1}
    MaxDepth = 2
    MaxMoves = 0
    MaxFaults = 0
    MaxFires = 3
    Drilldown = "0"
    MaxPending = 2
    MaxPids = 1
    MaxSuppressed = 1
CHECK_DEADLOCK FALSE
INVARIANTS
    TypeOK
    PendingExact
    SuppressedHoldNothing
    MemoryBounded
PROPERTIES
    InterruptCompletes
