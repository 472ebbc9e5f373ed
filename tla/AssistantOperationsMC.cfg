SPECIFICATION Spec
CONSTANTS
  r1 = r1
  r2 = r2
  r3 = r3
  k1 = k1
  k2 = k2
  RequestIDs <- MCRequests
  Slots <- MCSlots
  Conversations = {"c1"}
  Services = {"api", "web"}
  AllowLists = {{"restart", "scale"}, {"sync"}}
  MaxRetainedRuns = 2
  MaxToolIterations = 2
  InitialReplicas = 1
  ScaleTargets = {0, 2}
  MaxRuns = 4
  MaxAsked = 2
  MaxFaults = 1
SYMMETRY MCSymmetry
INVARIANTS
    AssistantInvariant
    ExecutedAsConfirmed
    ReplicasAccounted
CHECK_DEADLOCK FALSE
