SPECIFICATION Spec
CONSTANTS
    g1 = g1
    g2 = g2
    Goroutines <- OneGoroutine
    Pids = {1}
    PidOf <- SameProcess
    Functions = {"A", "B"}
    Wanted = {"A"}
    Configs <- AllModes
    Unprobed = "X"
    Callable = {"A", "B"}
    Uprobes <- AThenB
    Disturbances = {"restart"}
    MaxSampleEvents = 4
    QueueCap = 6
    MaxTracked = 2
    Denominators = {1, 2}
    MaxDepth = 3
    MaxMoves = 1
    MaxFaults = 1
    MaxFires = 5
    Drilldown = "0"
    MaxPending = 6
    MaxPids = 1
    MaxSuppressed = 1
CHECK_DEADLOCK FALSE
INVARIANTS
    ReportedAreRealCalls
    CompletedAreReported
