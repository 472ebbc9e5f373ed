SPECIFICATION FairSpec
CONSTANTS
    s1 = s1
    s2 = s2
    w1 = w1
    Stacks <- MCStacks
    Workers <- MCWorkers
    Revisions <- MCRevisions
    ConfigOf <- MCConfig
    Touched <- MCTouched
    PathRank <- MCRank
    PollEnabled = TRUE
    CleanupEnabled = FALSE
    Requests = {}
    MaxPushes = 1
    MaxRestarts = 1
PROPERTIES
    LastPushIsApplied
    NoStarvation
    ShutdownEnds
CHECK_DEADLOCK FALSE
