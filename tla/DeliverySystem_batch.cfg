SPECIFICATION SystemSpec
CONSTANTS
    Nodes <- BuildNodes
    Edges <- BuildEdges
    Stage <- BuildStage
    Last <- BuildLast
    Workers = {w1, w2}
    Owner <- OneProcess
    Owners = {"p1"}
    Tokens = {1, 2, 3}
    MaxConcurrency = 1
    StopOnFailure = FALSE
    MaxFaults = 1
SYMMETRY Interchangeable
INVARIANTS
    FinishedRunIsIdle
    WorkIsLicensed
    CurrentCopyIsFaithful
    SystemInv
    PrerequisitesFirst
    WithinConcurrency
PROPERTIES
    TaskContracts
    SettlesOnce
    ContractSpec
CHECK_DEADLOCK FALSE
