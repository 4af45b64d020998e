\* More pushes of b than the collision loop has candidates.
CONSTANTS
    b = b
    Reqs <- ReqsExhaust
    MaxSuffix = 2
    Crashes = FALSE
SPECIFICATION StoreSpec
PROPERTY NoOverwrite
\* The finite set of requests is served and every handler returns.
CHECK_DEADLOCK FALSE
