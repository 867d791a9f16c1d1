SPECIFICATION FairSpec
CONSTANTS
    Incidents = {i1}
    MaxFlows = 4
    MaxGenerations = 4
    MaxEpochs = 1
INVARIANTS TypeOK NothingStale ChainMatches WhatIfUnlocked
PROPERTIES LoadingEnds
CHECK_DEADLOCK FALSE
