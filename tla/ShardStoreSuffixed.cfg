\* A push of b falls back to b.1 while another request pushes b.1 itself.
CONSTANTS
    b = b
    Reqs <- ReqsSuffixed
    MaxSuffix = 4
    Crashes = FALSE
SPECIFICATION StoreSpec
INVARIANT ExclusiveDir
\* The finite set of requests is served and every handler returns.
CHECK_DEADLOCK FALSE
