SPECIFICATION SamplerSpec
CONSTANTS
    MaxSampleDenominator = 32
    Target70 = 4
    Target85 = 8
    RecoverStableWindows = 5
    UnlockStableWindows = 15
    MemoryLimit = 100
    HeapSizes <- MCHeapSizes
    WindowCounts <- MCWindowCounts
    Uint32Mod = 256
INVARIANTS
    SamplerTypeOK
    KernelFollowsSampler
    FloorCoversLoss
PROPERTIES
    NeverRecoverIntoLoss
    RecoversToFullCollection
