SPECIFICATION FairSpec
CONSTANTS
    full = full
    short = short
    NoCIDRs = NoCIDRs
    Lists <- MCLists
    Size <- MCSize
    SlotsPerMinute = 1
    MaxAge = 2
    Envs <- MCSmallEnvs
    FaultKinds = {"refused", "late"}
    MaxFaults = 4
PROPERTIES OnlyStaleIsClearedAtEdge NotEnforcedIndefinitelyAtEdge
