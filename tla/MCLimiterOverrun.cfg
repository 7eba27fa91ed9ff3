\* The engine reports one token more than was reserved (an image part, or an
\* estimate that fell short): the minute then holds more than its ceiling.
CONSTANTS
    Calls = {a, b, c}
    Detached = {c}
    MaxConcurrent = 1
    RPM = 2
    TPM = 4
    DailyTokens = 5
    Prompts = {1}
    Outs <- SomeOuts
    MinOutput = 2
    Overrun = 1
    Window = 2
    Day = 3
    MaxTime = 4
SPECIFICATION LimiterSpec
SYMMETRY Symmetric
INVARIANTS
    TokenCeiling
