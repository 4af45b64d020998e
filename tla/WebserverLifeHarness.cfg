\* A caller that goes on after Close (the client tests), with Serve
\* failures possible.  Every run ends with the caller idle and the routine
\* gone, or with a fatal error at start: no deadlock check.
CONSTANTS
    c1 = c1
    c2 = c2
    Conns = {c1, c2}
    Harness = TRUE
    ServeFaults = TRUE
SPECIFICATION LifeSpec
PROPERTY RoutineStops
CHECK_DEADLOCK FALSE
