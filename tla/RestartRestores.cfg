SPECIFICATION Spec
CONSTANTS
  r1 = r1
  r2 = r2
  r3 = r3
  k1 = k1
  k2 = k2
  RequestIDs <- MCRequests
  Slots <- MCSlots
  Conversations = {"c1"}
  Services = {"api"}
  AllowLists = {{"restart"}}
  MaxRetainedRuns = 2
  MaxToolIterations = 1
  InitialReplicas = 1
  ScaleTargets = {2}
  MaxRuns = 4
  MaxAsked = 2
  MaxFaults = 0
SYMMETRY MCSymmetry
INVARIANT RestartRestores
CHECK_DEADLOCK FALSE
