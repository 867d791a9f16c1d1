SPECIFICATION Spec
CONSTANTS
    Incidents = {i1}
    MaxFlows = 2
    MaxGenerations = 4
    MaxEpochs = 1
INVARIANTS ResetClears
CHECK_DEADLOCK FALSE
