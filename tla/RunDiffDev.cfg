SPECIFICATION MCSpec
CONSTANTS
    Events <- MCEvents
    Calls <- MCCalls
    Replays <- MCReplays
    Packs = {"dev"}
    MaxPosts = 2
    MaxResets = 1
INVARIANTS AddedIsComplete
CHECK_DEADLOCK FALSE
