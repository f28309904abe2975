SPECIFICATION FairSpec
CONSTANTS
    Platforms = {"bluesky", "facebook", "instagram", "linkedin", "pinterest", "threads", "tiktok", "x", "youtube"}
    AssetLimit <- MCAssetLimit
    MaxAssets = 3
    MaxReplies = 2
    maxPolls = 2
    Faults = {"refused", "lostReply", "process", "delete", "database", "crash"}
\* A publication that has ended asks for nothing more.
CHECK_DEADLOCK FALSE
INVARIANTS
    DoneIsPublic
    FailedForCause
    TempsCleaned
PROPERTIES
    PublisherEnds
