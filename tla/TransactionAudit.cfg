SPECIFICATION Spec
CONSTANTS
    Txns = {t1}
    Procs = {p1, p2}
    Layers = {base}
    Base = base
    Ops = {"mutate", "commit", "close", "down"}
    Faults = {}
    Cap = 1
    LogCapacity = 1
    Slots = {q1}
    MaxSession = 1
    None = None
CHECK_DEADLOCK FALSE
INVARIANT AuditExactlyOnce
