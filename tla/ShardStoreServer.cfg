\* Serial transfers of one shard name: exclusivity, no overwrite, the tracker drains.
CONSTANTS
    b = b
    Reqs <- ReqsSerial
    MaxSuffix = 4
    Crashes = FALSE
SPECIFICATION StoreSpec
INVARIANTS ExclusiveDir NoTornShard
PROPERTIES NoOverwrite TrackerDrains
\* The finite set of requests is served and every handler returns.
CHECK_DEADLOCK FALSE
