\* A client push through the codec: every disk state with at most one
\* faulty file, tag merges that may fail.
CONSTANTS
    ShardId = sid
    OtherId = oid
    sid = sid
    oid = oid
    SendTags = TRUE
    RawClient = FALSE
    MergeFaults = TRUE
    PipeCap = 1
    MaxRaw = 0
SPECIFICATION CodecSpec
INVARIANTS CodecTypeOK RoundTrip
PROPERTIES Terminates
CHECK_DEADLOCK FALSE
