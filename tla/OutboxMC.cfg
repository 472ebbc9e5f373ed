SPECIFICATION Spec
CONSTANTS
    db = db
    ext = ext
    w1 = w1
    w2 = w2
    None = None
    Subscriptions <- MCSubscriptions
    External = {ext}
    Relays = {db}
    Poison = {}
    Workers <- MCWorkers
    MaxAttempts = 2
    MaxEvents = 2
    MaxSlips = 1
    MaxCrashes = 0
    MaxReplays = 1
SYMMETRY Symmetry
PROPERTIES
    ImplementsLedger
    StaleWorkerCannotSettle
CHECK_DEADLOCK FALSE
