\* The server's main: SIGINT, Close, and the process ends.
CONSTANTS
    c1 = c1
    c2 = c2
    Conns = {c1}
    Harness = FALSE
    ServeFaults = FALSE
SPECIFICATION LifeSpec
INVARIANT HandlersDrained
CHECK_DEADLOCK FALSE
