SPECIFICATION Spec
CONSTANTS
    s1 = s1
    r1 = r1
    r2 = r2
    n1 = n1
    Stacks <- MCStacks
    Repositories <- MCRepositories
    Nodes = {n1}
    Threshold = 2
    MaxEvents = 4
    MaxRestarts = 1
SYMMETRY SwapRepositories
INVARIANTS
    AlertInvariant
    DisconnectedIsOpen
    GitIncidentIsCurrent
    NoIncidentOfRemovedStack
CHECK_DEADLOCK FALSE
