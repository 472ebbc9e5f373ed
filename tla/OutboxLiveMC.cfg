SPECIFICATION FairSpec
CONSTANTS
    db = db
    ext = ext
    w1 = w1
    w2 = w2
    None = None
    Subscriptions = {db, ext}
    External = {ext}
    Relays = {}
    Poison = {2}
    Workers = {w1}
    MaxAttempts = 2
    MaxEvents = 2
    MaxSlips = 1
    MaxCrashes = 1
    MaxReplays = 0
PROPERTIES
    EveryDeliverySettles
CHECK_DEADLOCK FALSE
