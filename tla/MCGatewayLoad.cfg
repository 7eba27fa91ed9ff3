\* A streaming chat, a plain chat and a model list of one key that allows two
\* requests at a time, in front of an engine that reports no slot count.
CONSTANTS
    Requests = {a, b, c}
    Streaming = {a}
    Lists = {c}
    MaxSlots = 0
    MaxTime = 0
    MaxConcurrent = 2
    RPM = 2
    TPM = 0
    DailyTokens = 4
    Prompts = {1}
    Outs = {1}
    MinOutput = 1
    Overrun = 0
    Window = 1
    Day = 1
    BufferedEvents = 1
    DiskFaults = FALSE
SPECIFICATION GatewaySafety
INVARIANTS
    ResourcesCovered
    UnsentIsFree
