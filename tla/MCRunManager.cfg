\* Two runs, of one kind or of two; one has the lower priority and may ask for
\* approvals, and the store may run out of room at any change.
CONSTANTS
    a = a
    b = b
    Runs = {a, b}
    Planted = {a}
    Mixes <- AllMixes
    Asks = {a}
    MaxLive = 2
    StorageTight = TRUE
SPECIFICATION RunSafety
INVARIANTS
    RunsHold
PROPERTIES
    HistoryIsFinal
