\* Queue: three requests in front of one slot.  Manager: two images, an agent that asks, or a
\* chat; nothing is assumed of consumers and stop hooks.
CONSTANTS
    a = a
    b = b
    Requests = {a, b, c}
    Streaming = {a}
    MaxSlots = 1
    Runs = {a, b}
    Planted = {a}
    Mixes <- LiveMixes
    Asks = {a}
    MaxLive = 2
    StorageTight = FALSE
SPECIFICATION LinesSpec
PROPERTIES
    LineMoves
    RunsProgress
