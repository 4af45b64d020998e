\* One pull of a shard whose files may be missing, unreadable or short, with both idle timers, a cancelling or vanishing client and every error path of the two server goroutines.
CONSTANTS
    ShardId = sid
    OtherId = oid
    sid = sid
    oid = oid
    SendTags = FALSE
    RawClient = FALSE
    MergeFaults = FALSE
    PipeCap = 1
    MaxRaw = 0
SPECIFICATION PullSpec
INVARIANTS PullTypeOK PullAgree
PROPERTY PullEnds
\* A pull ends: both processes stop once the transfer is over.
CHECK_DEADLOCK FALSE
