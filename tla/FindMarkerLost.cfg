SPECIFICATION FairSpec
CONSTANTS
    full = full
    short = short
    NoCIDRs = NoCIDRs
    Lists <- MCLists
    Size <- MCSize
    SlotsPerMinute = 1
    MaxAge = 1
    Envs <- MCOneEnv
    FaultKinds = {"crash"}
    MaxFaults = 1
PROPERTY NotEnforcedIndefinitelyAtEdge
