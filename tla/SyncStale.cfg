SPECIFICATION FairSpec
CONSTANTS
    full = full
    short = short
    NoCIDRs = NoCIDRs
    Lists <- MCLists
    Size <- MCSize
    SlotsPerMinute = 1
    MaxAge = 2
    Envs <- MCEditedEnvs
    FaultKinds = {"refused", "crash"}
    MaxFaults = 3
INVARIANTS ClearedStaysCleared SuccessCoversAllSinks
PROPERTIES OnlyStaleIsCleared NotEnforcedIndefinitely Recovers
