SPECIFICATION Spec
CONSTANTS
    registry = registry
    network = network
    events = events
    Keys = {registry, network, events}
    Order <- MCOrder
    Deferred = {network, events}
    Debounced = {network}
    Counted = {network}
    Defaulting = {events}
    Strict = {registry}
    Refused <- MCRefused
    Seeded = {{registry, network}}
    Writers = {w1}
    Boot = Boot
    None = None
    MaxContent <- MCMaxContent
    MaxWrites = 2
    MaxFaults = 1
INVARIANT WalkedMeansRead
PROPERTIES RefreshNeverGoesBack StreamCannotPostpone WalkCatchesUp
CHECK_DEADLOCK FALSE
