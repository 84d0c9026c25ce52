SPECIFICATION FairSpec
CONSTANTS
    a = a
    b = b
    c = c
    Lists <- MCLists
    MaxEntries = 2
    MaxPolls = 2
    Paginations = {"cursor", "pages", "both"}
    FaultKinds = {"refused", "lost", "poll", "failed", "crash", "drift", "delete", "overlap"}
    MaxFaults = 2
    MaxListID = 4
INVARIANTS TypeOK SuccessMeansEnforced
PROPERTIES OthersPreserved NoEnforcementGap RefinesEdgeList SyncReturns SinkHeals
