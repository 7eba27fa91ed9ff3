\* One request over two connections.
CONSTANTS
    Jobs = {j1}
    Capacity = 1
    LineCap = 1
    MaxData = 1
    MaxConns = 2
SPECIFICATION BridgeSpec
CHECK_DEADLOCK FALSE
INVARIANTS
    FailClosed
