SPECIFICATION Spec
CONSTANTS
    Txns = {t1}
    Procs = {p1, p2, p3}
    Layers = {base, overlay}
    Base = base
    Ops = {"mutate", "touch", "commit", "close", "down", "delete_layer"}
    Faults = {"effects", "recover"}
    Cap = 1
    LogCapacity = 1
    Slots = {q1, q2}
    MaxSession = 2
    None = None
SYMMETRY Symmetry
CHECK_DEADLOCK FALSE
INVARIANTS PublishedOnce RetainedOwned RegistryIntegrity AuditAtMostOnce
PROPERTY TerminalStable
