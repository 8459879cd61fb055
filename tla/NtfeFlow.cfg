SPECIFICATION Spec
CONSTANTS
    Cpus = {c1, c2}
    Owners = {o1, o2}
    None = None
    Miss = Miss
    Candidates <- MCCandidates
    Drops <- MCDrops
    Rejects <- MCRejects
    Timed <- MCTimed
    Forestless <- MCForestless
    MaxPackets = 3
    MaxEvents = 2
SYMMETRY Symmetry
INVARIANTS AppliedVerdictIsFresh OwnerRefsExact JudgedByRecordedOwner
PROPERTY LookupIsAtomic
CHECK_DEADLOCK FALSE
