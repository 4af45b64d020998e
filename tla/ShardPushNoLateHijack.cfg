\* One push: the idle timer fires as the handler returns.
CONSTANTS
    ShardId = sid
    OtherId = oid
    sid = sid
    oid = oid
    SendTags = TRUE
    RawClient = FALSE
    MergeFaults = TRUE
    PipeCap = 1
    MaxRaw = 0
SPECIFICATION PushSpec
INVARIANT NoLateHijack
CHECK_DEADLOCK FALSE
