\* Transfers of one shard name across process restarts: the tracker still keeps transfers apart and drains, and a stored shard is never rewritten.
CONSTANTS
    b = b
    Reqs <- ReqsSerial
    MaxSuffix = 4
    Crashes = TRUE
SPECIFICATION StoreSpec
INVARIANT ExclusiveDir
PROPERTIES NoOverwrite TrackerDrains
\* The finite set of requests is served and every handler returns.
CHECK_DEADLOCK FALSE
