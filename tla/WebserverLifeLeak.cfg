\* Close called by a caller that goes on, right after Run.
CONSTANTS
    c1 = c1
    c2 = c2
    Conns = {c1}
    Harness = TRUE
    ServeFaults = FALSE
SPECIFICATION LifeSpec
INVARIANT ListenerReleased
CHECK_DEADLOCK FALSE
