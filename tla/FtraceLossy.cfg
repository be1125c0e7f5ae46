SPECIFICATION Spec
CONSTANTS
    g1 = g1
    g2 = g2
    Goroutines <- OneGoroutine
    Pids = {1}
    PidOf <- SameProcess
    Functions = {"A", "B"}
    Wanted = {"A"}
    Configs <- Sampling
    Unprobed = "X"
    Callable = {"A", "B"}
    Uprobes <- AThenB
    Disturbances = {"attach", "detach"}
    MaxSampleEvents = 4
    QueueCap = 1
    MaxTracked = 2
    Denominators = {1}
    MaxDepth = 2
    MaxMoves = 0
    MaxFaults = 0
    MaxFires = 5
    Drilldown = "0"
    MaxPending = 4
    MaxPids = 1
    MaxSuppressed = 1
CHECK_DEADLOCK FALSE
INVARIANTS
    ObservedStackConsistent
    NothingCountedTwice
