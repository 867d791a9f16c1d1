SPECIFICATION MCSpec
CONSTANTS
    Events <- MCEvents
    Calls <- MCCalls
    Replays <- MCReplays
    Packs = {"checkout", "dev"}
    MaxPosts = 2
    MaxResets = 1
INVARIANTS
    DiffOK RespectsHardEdges WithinTolerance CyclesAreReported OneTimeline
    DiffCoversEvidence AlignsByRank DivergenceIsEarliest DeltaMatchesAlignment
    FailsOnlyUnderReset
PROPERTIES ImplementsLinearExtension
CHECK_DEADLOCK FALSE
