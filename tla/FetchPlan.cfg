SPECIFICATION Spec
CONSTANTS
    Signatures <- Lists
    MaxFetchArgs = 8
    MaxRules = 8
CHECK_DEADLOCK FALSE
INVARIANTS
    PlanFollowsABI
    SnapshotHonest
    NilExactly
