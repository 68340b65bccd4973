SPECIFICATION FairSpec
CONSTANTS
    Ops = {1}
    Delivery = {}
    Retryable = {1}
    Revocable = {1}
    Workers = {w1, w2}
    TokenWorkers = {w1}
    Handlers = {h1, h2}
    DefaultRetries = 1
    MaxFaults = 1
PROPERTIES
    CancelEnds
CHECK_DEADLOCK FALSE
