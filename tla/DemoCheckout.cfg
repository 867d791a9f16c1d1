SPECIFICATION Spec
CONSTANTS
    xGolden = xGolden
    xControl = xControl
    Requests = {golden, control}
    Executions = {xGolden, xControl}
    ExecutionOf <- Separate
    Healthy = {control}
    Prompt = TRUE
    LossyNetwork = TRUE
    MaxDisturbances = 1
INVARIANTS TypeOK IncidentIsEarned ControlIsSilent GraphIsTheScenario
PROPERTIES ImplementsDetection
CHECK_DEADLOCK FALSE
