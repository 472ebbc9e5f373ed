SPECIFICATION ControlSpec
CONSTANTS
    s1 = s1
    s2 = s2
    w1 = w1
    Stacks <- MCStacks
    Workers <- MCWorkers
    Revisions <- MCRevisions
    ConfigOf <- MCConfig
    Touched <- MCTouched
    PathRank <- MCRank
    PollEnabled = TRUE
    CleanupEnabled = TRUE
    Requests = {"manual", "webhook"}
    MaxPushes = 2
    MaxRestarts = 1
INVARIANTS
    ControlInvariant
PROPERTIES
    WaitingMarksKept
    RecordedRevisionIsDispatched
CHECK_DEADLOCK FALSE
