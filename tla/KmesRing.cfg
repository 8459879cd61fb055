SPECIFICATION Spec
CONSTANTS
    MaxGeneration = 2
    MaxSequence = 4
    Capacities = {2, 4}
    FirstCapacity = 4
    KernelEvents = {0, 1}
    KernelBatches <- MCKernelBatches
    StagedBatches <- MCStagedBatches
    ConcurrentAttach = FALSE
INVARIANTS WindowIsNewest CleanReadsIntact NoResync DropsAccounted RefsExact SleeperWillWake
