SPECIFICATION Spec
CONSTANTS
    a = a
    b = b
    c = c
    Fds = {a, b, c}
    MAX_EVENTS = 2
    TicksPerMs = 2
    CheckDelay = 1
    ProgressDelay = 2
    OtherDelay = 0
    MaxLate = 1
    MaxIds = 3
INVARIANTS
    NoStaleDispatch
    SleepsNoLonger
PROPERTIES
    TimersInOrder
    Stops
    Served
CHECK_DEADLOCK FALSE
