\* Two sources, two writers, one restore and one reader over a counter that
\* overflows after four sequences.
SPECIFICATION FairGateSpec
CONSTANTS
    Sources = {s1, s2}
    Mutators = {w1, w2}
    Restorers = {r1}
    Readers = {d1}
    U64_MAX = 3
    Backups = {{0}, {0, 1}}
    Nil = Nil
INVARIANTS
    InFlightSequencesDistinct
    ReleaseNeverOverflows
PROPERTIES
    AllocationOutranksPersisted
    FutureOnlyIfConcurrent
    GateReleased
