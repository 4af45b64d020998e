\* An arbitrary client: up to four entries of any name, regular or not,
\* then Close or CloseWithError.
CONSTANTS
    ShardId = sid
    OtherId = oid
    sid = sid
    oid = oid
    SendTags = FALSE
    RawClient = TRUE
    MergeFaults = FALSE
    PipeCap = 1
    MaxRaw = 4
SPECIFICATION CodecSpec
INVARIANT UnpackValid
CHECK_DEADLOCK FALSE
