SPECIFICATION FairSpec
CONSTANTS
    Kinds = {"text", "usage", "named", "garbled", "comment", "done",
        "huge"}
    MaxEvents = 2
    Guards = {TRUE, FALSE}
    Dialects = {"openai", "cloudcode"}
    None = None
    PreGates = 2
    WantsBody = TRUE
    ChunkDecisions = {"pass", "replace", "drop", "fail"}
INVARIANTS AccountedOnce EndToldTruly BlamesTheCause
    NothingLeaks ChainOnce EditsReachUpstream
PROPERTY Ended
CHECK_DEADLOCK FALSE
