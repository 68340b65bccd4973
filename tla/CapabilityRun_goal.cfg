SPECIFICATION FairSpec
CONSTANTS
    w1 = w1
    w2 = w2
    Nodes = {1, 2, 3}
    FirstPlan = {1, 3}
    Deps <- GoalDeps
    Async = {1, 2}
    Guarded = {1}
    HardToCancel = {1}
    NoCancel = {2}
    Verifies = {3}
    Workers = {w1, w2}
    MaxPlan = 2
    MaxFaults = 1
INVARIANTS
    NothingForgotten
    CompletedIsVerified
    IInv
PROPERTIES
    StoppedStartsNothing
    PrerequisitesFirst
    StopEnds
CHECK_DEADLOCK FALSE
