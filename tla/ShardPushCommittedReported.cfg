\* One push: the server keeps the shard, the client hears of a failure.
CONSTANTS
    ShardId = sid
    OtherId = oid
    sid = sid
    oid = oid
    SendTags = TRUE
    RawClient = FALSE
    MergeFaults = TRUE
    PipeCap = 1
    MaxRaw = 0
SPECIFICATION PushSpec
INVARIANT CommittedReported
CHECK_DEADLOCK FALSE
