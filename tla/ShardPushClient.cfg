\* One push: every source directory with at most one faulty file, tag
\* merges that may fail, both idle timers, a client that may vanish.
CONSTANTS
    ShardId = sid
    OtherId = oid
    sid = sid
    oid = oid
    SendTags = TRUE
    RawClient = FALSE
    MergeFaults = TRUE
    PipeCap = 1
    MaxRaw = 0
SPECIFICATION PushSpec
INVARIANTS PushTypeOK PushAgree
PROPERTIES TransferEnds
CHECK_DEADLOCK FALSE
