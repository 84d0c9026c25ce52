SPECIFICATION Spec
CONSTANTS
    full = full
    short = short
    NoCIDRs = NoCIDRs
    Lists <- MCLists
    Size <- MCSize
    SlotsPerMinute = 1
    MaxAge = 1
    Envs <- MCFaultyEnvs
    FaultKinds = {"refused", "lost", "late", "torn", "crash", "boot", "outside", "takeover"}
    MaxFaults = 3
INVARIANTS TypeOK ListCarriesItsAge
PROPERTY NoSurpriseShrink
