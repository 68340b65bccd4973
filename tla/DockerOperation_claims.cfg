SPECIFICATION Spec
CONSTANTS
    Ops = {1, 2}
    Delivery = {2}
    Retryable = {1, 2}
    Revocable = {1}
    Workers = {w1, w2}
    TokenWorkers = {w1}
    Handlers = {h1, h2}
    DefaultRetries = 1
    MaxFaults = 1
SYMMETRY Interchangeable
INVARIANTS
    EndedIsQuiet
    EndedIsEarned
    IInv
PROPERTIES
    ContractSpec
CHECK_DEADLOCK FALSE
