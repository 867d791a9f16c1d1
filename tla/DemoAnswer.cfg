SPECIFICATION FairSpec
CONSTANTS
    xGolden = xGolden
    xControl = xControl
    Requests = {golden}
    Executions = {xGolden}
    ExecutionOf <- Separate
    Healthy = {}
    Prompt = FALSE
    LossyNetwork = TRUE
    MaxDisturbances = 3
INVARIANTS ReplyMeansDetected ReplyCountsEffects
PROPERTIES AlwaysAnswered
CHECK_DEADLOCK FALSE
