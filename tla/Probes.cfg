SPECIFICATION ProbesSpec
CONSTANTS
    Goroutines = {g1}
    Pids = {1}
    PidOf <- SameProcess
    Functions = {"A", "B"}
    Wanted = {"A"}
    Configs <- Sampling
    Unprobed = "X"
    Callable = {"A", "B", "X"}
    Uprobes <- AThenB
    Disturbances = {"restart", "insert"}
    MaxSampleEvents = 4
    QueueCap = 1
    MaxTracked = 1
    Denominators = {1, 2}
    MaxDepth = 3
    MaxMoves = 1
    MaxFaults = 1
    MaxFires = 5
CHECK_DEADLOCK FALSE
INVARIANTS
    ProbesTypeOK
    RootDepthExact
    StateReleased
    RootsAccounted
