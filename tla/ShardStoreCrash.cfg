\* The server restarts in the middle of a push.
CONSTANTS
    b = b
    Reqs <- ReqsCrash
    MaxSuffix = 4
    Crashes = TRUE
SPECIFICATION StoreSpec
INVARIANT NoTornShard
\* The finite set of requests is served and every handler returns.
CHECK_DEADLOCK FALSE
