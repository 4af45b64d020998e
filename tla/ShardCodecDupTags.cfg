\* An arbitrary client sends the tags update twice.
CONSTANTS
    ShardId = sid
    OtherId = oid
    sid = sid
    oid = oid
    SendTags = FALSE
    RawClient = TRUE
    MergeFaults = FALSE
    PipeCap = 1
    MaxRaw = 4
SPECIFICATION CodecSpec
INVARIANT AtMostOneTagUpdate
CHECK_DEADLOCK FALSE
