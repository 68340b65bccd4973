SPECIFICATION FairSpec
CONSTANTS
    Nodes <- ChainNodes
    Edges <- ChainEdges
    Stage <- ChainStage
    Last <- ChainLast
    Workers = {w1, w2}
    Owner <- OneProcess
    Owners = {"p1"}
    Tokens = {1, 2, 3}
    MaxConcurrency = 2
    StopOnFailure = TRUE
    MaxFaults = 1
PROPERTIES
    StopConverges
CHECK_DEADLOCK FALSE
