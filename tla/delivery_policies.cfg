SPECIFICATION Spec
CONSTANTS
  e1 = e1
  m1 = m1
  Events = {e1}
  Tries = 1
  Manuals = {}
  Policies <- AllPolicies
  Dests <- TwoTargets
  MaxAttempts = 2
  Concurrency = 4
  BatchLimit = 100
  MaxStalls = 1
  FailedHandlerRuns = FALSE
  MaxRows = 4
  MaxCrashes = 0
  MaxFaults = 0
  MaxPatches = 0
  MaxEvictions = 0
INVARIANTS
  DestinationExclusive
PROPERTIES
  KeepsPromise
CHECK_DEADLOCK FALSE
