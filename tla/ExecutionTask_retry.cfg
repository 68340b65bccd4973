SPECIFICATION Spec
CONSTANTS
    Kinds = {"build"}
    Handlers = {h1, h2}
    MaxTokens = 2
    MaxFaults = 0
SYMMETRY Interchangeable
PROPERTIES
    RetryIsolates
CHECK_DEADLOCK FALSE
