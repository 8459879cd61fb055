SPECIFICATION FairSpec
CONSTANTS
    Sources = {s1}
    Files = {f1}
    Callers = {c1, c2}
    Threads = {t1}
    Ops = {"SET_VALUE", "BEGIN"}
    Limit = 1
    MaxRequestId = 2
    None = None
INVARIANTS TypeOK InFlightBounded NoLostSlotWakeup

PROPERTY RoundTripEnds
