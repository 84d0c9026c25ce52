SPECIFICATION Spec
CONSTANTS
    Keys = {1}
    Client <- MCClient
    Samples = {"a"}
    SlotsPerMinute = 2
    Envs <- MCTwoRows
    BatchLimit = 100
    SlotRows <- MCOneKeyRows
    MaxSlot = 6
    MaxFaults = 1
INVARIANT ReplayDeduplicated
