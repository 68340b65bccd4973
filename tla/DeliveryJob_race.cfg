SPECIFICATION FairSpec
CONSTANTS
    Controllers = {c1, c2}
    MaxFaults = 2
INVARIANTS
    EndedIsQuiet
    CompletedRan
    IInv
PROPERTIES
    ClosedStartsNothing
    ContractSpec
    DispatchedEnds
CHECK_DEADLOCK FALSE
