SPECIFICATION Spec
CONSTANTS
    MaxGeneration = 1
    MaxSequence = 6
    Capacities = {4}
    FirstCapacity = 4
    KernelEvents = {1}
    KernelBatches <- MCKernelBatches
    StagedBatches <- MCStagedBatches
    ConcurrentAttach = TRUE
PROPERTY TailMonotone
