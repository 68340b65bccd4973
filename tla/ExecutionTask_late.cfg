SPECIFICATION Spec
CONSTANTS
    Kinds = {"build"}
    Handlers = {h1, h2}
    MaxTokens = 1
    MaxFaults = 0
SYMMETRY Interchangeable
PROPERTIES
    TerminalIsFinal
CHECK_DEADLOCK FALSE
