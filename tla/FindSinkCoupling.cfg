SPECIFICATION Spec
CONSTANTS
    full = full
    short = short
    NoCIDRs = NoCIDRs
    Lists <- MCLists
    Size <- MCSize
    SlotsPerMinute = 1
    MaxAge = 1
    Envs <- MCOneEnv
    FaultKinds = {"refused"}
    MaxFaults = 1
PROPERTY CiliumFailureSparesCloudflare
