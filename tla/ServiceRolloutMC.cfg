SPECIFICATION Spec
CONSTANTS
    s1 = s1
    s2 = s2
    Slots <- MCSlots
    Definitions <- MCDefinitions
    Deployed <- MCDeployed
    Replaced <- MCReplaced
    MaxRequests = 2
    MaxAttempts = 2
    MaxFaults = 1
    UpdateTries = 2
SYMMETRY SlotSymmetry
INVARIANTS
    RolloutInvariant
    NoUnrequestedExecution
PROPERTIES
    SuccessMeansRolledOut
    FailureIsOwn
    ExecutionsUndisturbed
CHECK_DEADLOCK FALSE
