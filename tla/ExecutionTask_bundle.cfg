SPECIFICATION Spec
CONSTANTS
    Kinds = {"build"}
    Handlers = {h1}
    MaxTokens = 1
    MaxFaults = 1
SYMMETRY Interchangeable
INVARIANTS
    BundleInStep
CHECK_DEADLOCK FALSE
