SPECIFICATION Spec
CONSTANTS
    g1 = g1
    g2 = g2
    Goroutines <- OneGoroutine
    Pids = {1}
    PidOf <- SameProcess
    Functions = {"A", "B"}
    Wanted = {"A"}
    Configs <- Sampling
    Unprobed = "X"
    Callable = {"A", "B"}
    Uprobes <- AThenB
    Disturbances = {"detach"}
    MaxSampleEvents = 6
    QueueCap = 7
    MaxTracked = 2
    Denominators = {1}
    MaxDepth = 3
    MaxMoves = 0
    MaxFaults = 0
    MaxFires = 6
    Drilldown = "0"
    MaxPending = 6
    MaxPids = 1
    MaxSuppressed = 1
CHECK_DEADLOCK FALSE
INVARIANTS
    AggregatedAreComplete
