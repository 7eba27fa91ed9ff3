CONSTANTS
    Commands = {c1, c2}
    Keys = {k1, k2}
    FirstKey = k1
    First = f
    Host = h
    MaxStarts = 1
SPECIFICATION KeySpec
CHECK_DEADLOCK FALSE
INVARIANTS
    NoLiveSecretRefused
