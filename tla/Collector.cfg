SPECIFICATION Spec
CONSTANTS
    Keys = {1, 2}
    Client <- MCClient
    Samples = {"a", "b"}
    SlotsPerMinute = 2
    Envs <- MCEnvs
    BatchLimit = 1
    SlotRows <- MCRows
    MaxSlot = 6
    MaxFaults = 2
INVARIANTS TypeOK NeverOvercounts CompleteUnlessSaid OnTimeKeepsAll
