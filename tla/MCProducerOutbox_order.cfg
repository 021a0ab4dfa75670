SPECIFICATION Spec
CONSTANTS
    e1 = e1
    e2 = e2
    o1 = o1
    EventIds <- TwoEvents
    OrderOf <- TwoOrderOf
    Window = 1
    BatchLimit = 2
    ConnectAttempts = 2
    MaxTime = 1
    MaxFaults = 0
    MaxRestarts = 0
CHECK_DEADLOCK FALSE
INVARIANT
    OrderKept
