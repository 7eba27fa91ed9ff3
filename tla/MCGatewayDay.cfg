\* A streaming and a plain chat of one key over a midnight, with kills and
\* shutdowns; the two reservations, of one unit each, do not both fit the day,
\* the recorder's channel holds one event, a kill may tear a line, a write may
\* fail, and the engine may resize.
CONSTANTS
    Requests = {a, b}
    Streaming = {a}
    Lists = {}
    MaxSlots = 1
    MaxTime = 1
    MaxConcurrent = 2
    RPM = 2
    TPM = 0
    DailyTokens = 1
    Prompts = {1}
    Outs = {0}
    MinOutput = 1
    Overrun = 0
    Window = 1
    Day = 1
    BufferedEvents = 1
    DiskFaults = TRUE
SPECIFICATION GatewaySpec
INVARIANTS
    DayIsKept
PROPERTIES
    ShutdownKeepsTheDay
    EveryRequestEnds
