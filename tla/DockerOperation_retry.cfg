SPECIFICATION Spec
CONSTANTS
    Ops = {1}
    Delivery = {1}
    Retryable = {1}
    Revocable = {}
    Workers = {w1}
    TokenWorkers = {w1}
    Handlers = {h1, h2}
    DefaultRetries = 1
    MaxFaults = 0
PROPERTIES
    DeliveryEndsOnce
CHECK_DEADLOCK FALSE
