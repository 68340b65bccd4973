SPECIFICATION Spec
CONSTANTS
    Kinds = {"build", "vm_ssh_command", "helm_apply", "delivery_batch"}
    Handlers = {h1, h2, h3}
    MaxTokens = 2
    MaxFaults = 2
SYMMETRY Interchangeable
INVARIANTS
    CompletedIsEarned
    FailedIsHonest
    IInv
PROPERTIES
    AttemptRunsOnce
    GuardedIsFinal
    ContractSpec
CHECK_DEADLOCK FALSE
