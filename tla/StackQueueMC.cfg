SPECIFICATION Spec
CONSTANTS
    s1 = s1
    s2 = s2
    s3 = s3
    w1 = w1
    w2 = w2
    Stacks <- MCStacks
    Workers <- MCWorkers
    Revisions <- MCRevisions
SYMMETRY Symmetry
INVARIANTS
    OneOperationPerStack
    ChangedFirst
    NoLostWakeup
PROPERTIES
    FifoWithinGroup
