SPECIFICATION Spec
CONSTANTS
    p1 = p1
    p2 = p2
    full = full
    NoCIDRs = NoCIDRs
    Clients <- TwoPods
    Lists <- MCLists
    Feeds <- MCFeeds
    MaxAttempts = 2
    MaxTime = 1
    MaxVersion = 3
    MaxAdmin = 2
    MaxWire = 1
INVARIANTS TypeOK ClearedMeansEmpty VersionsGuardWrites
PROPERTIES ForeignUntouched SinksDoNotClobber ClearKeepsLastSuccess RefinesAtomicGroup
SYMMETRY Symmetry
