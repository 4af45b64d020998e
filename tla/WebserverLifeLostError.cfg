\* The server's main with Serve failures possible.
CONSTANTS
    c1 = c1
    c2 = c2
    Conns = {c1}
    Harness = FALSE
    ServeFaults = TRUE
SPECIFICATION LifeSpec
INVARIANT CloseReportsServeError
CHECK_DEADLOCK FALSE
