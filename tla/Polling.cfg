SPECIFICATION Spec
CONSTANTS
    Links = {l1, l2, l3}
    QueueCap = 2
    MaxEvents = 5
CHECK_DEADLOCK FALSE
INVARIANTS
    PollingTypeOK
    PipeIsFIFO
    SummaryIsComplete
    MapsOutlivePoller
    NothingLeftBehind
PROPERTIES
    InterruptEnds
    EventsAreHandled
    ImplementsPipe
