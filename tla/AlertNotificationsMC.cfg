SPECIFICATION Spec
CONSTANTS
    chat = chat
    topic = topic
    w1 = w1
    w2 = w2
    None = None
    Recipients <- MCRecipients
    Workers <- MCWorkers
    MaxRestarts = 1
    MaxFaults = 1
    MaxReplays = 1
    MaxSlips = 1
SYMMETRY Symmetry
INVARIANTS
    NotificationInvariant
    ToldOfResolution
PROPERTIES
    RecordedIsNotRepeated
CHECK_DEADLOCK FALSE
