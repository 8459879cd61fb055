SPECIFICATION Spec
CONSTANTS
    Sources = {s1}
    Files = {f1, f2}
    Callers = {c1}
    Threads = {t1}
    Ops = {"LOOKUP", "READ_KEY", "ENUM_CHILDREN", "QUERY_VALUES", "FLUSH", "WRITE_KEY", "CREATE_ENTRY", "HIDE_ENTRY", "CREATE_KEY", "DROP_KEY", "SET_VALUE", "DELETE_VALUE_ENTRY", "SET_BLANKET_TOMBSTONE", "DELETE_LAYER", "BEGIN", "COMMIT"}
    Limit = 1
    MaxRequestId = 1
    None = None
SYMMETRY Symmetry
INVARIANTS WaiterIntegrity WaiterReachable AppliedSettled EffectsOnce ClosingFileIsEmpty
