SPECIFICATION Spec
CONSTANTS
    xGolden = xGolden
    xControl = xControl
    Requests = {control}
    Executions = {xControl}
    ExecutionOf <- Separate
    Healthy = {control}
    Prompt = TRUE
    LossyNetwork = FALSE
    MaxDisturbances = 1
INVARIANT GoldenRestored
CHECK_DEADLOCK FALSE
