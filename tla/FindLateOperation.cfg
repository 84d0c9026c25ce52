SPECIFICATION Spec
CONSTANTS
    full = full
    short = short
    NoCIDRs = NoCIDRs
    Lists <- MCLists
    Size <- MCSize
    SlotsPerMinute = 1
    MaxAge = 1
    Envs <- MCOneEnv
    FaultKinds = {"late"}
    MaxFaults = 1
INVARIANT SuccessCoversAllSinks
