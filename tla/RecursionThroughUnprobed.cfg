SPECIFICATION ProbesSpec
CONSTANTS
    Goroutines = {g1}
    Pids = {1}
    PidOf <- SameProcess
    Functions = {"A", "B"}
    Wanted = {"A"}
    Configs <- Sampling
    Unprobed = "X"
    Callable = {"A", "X"}
    Uprobes <- AThenB
    Disturbances = {}
    MaxSampleEvents = 5
    QueueCap = 1
    MaxTracked = 1
    Denominators = {1, 2}
    MaxDepth = 3
    MaxMoves = 1
    MaxFaults = 0
    MaxFires = 6
CHECK_DEADLOCK FALSE
PROPERTY SampleEndsWithRoot
