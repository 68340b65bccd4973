SPECIFICATION FairSpec
CONSTANTS
    Controllers = {c1, c2}
    MaxFaults = 1
INVARIANTS
    EndedIsQuiet
    CompletedIsBuilt
    IInv
PROPERTIES
    PostedOnce
    ContractSpec
    NothingForgotten
    StartedEnds
CHECK_DEADLOCK FALSE
