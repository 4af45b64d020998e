\* The writer's idle timer against the end of the pull handler.
CONSTANTS
    ShardId = sid
    OtherId = oid
    sid = sid
    oid = oid
    SendTags = FALSE
    RawClient = FALSE
    MergeFaults = FALSE
    PipeCap = 1
    MaxRaw = 0
SPECIFICATION PullSpec
INVARIANT PullNoLateHijack
\* A pull ends: both processes stop once the transfer is over.
CHECK_DEADLOCK FALSE
