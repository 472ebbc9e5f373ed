SPECIFICATION Spec
CONSTANTS
    p1 = p1
    p2 = p2
    x = x
    y = y
    None = None
    Processes = {p1, p2}
    Definitions = {x, y}
    ServicesOf <- MCServicesOf
    MaxDeployments = 2
    MaxAttempts = 2
    MaxCrashes = 1
    MaxLost = 1
SYMMETRY Symmetry
INVARIANTS
    LifecycleInvariant
    ObligationsKept
    OneTerminalEvent
    BaselineIsLastSuccess
    RunningIsDriven
PROPERTIES
    LiveAttemptUndisturbed
CHECK_DEADLOCK FALSE
