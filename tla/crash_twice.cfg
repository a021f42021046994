SPECIFICATION FairSpec
CONSTANTS
  e1 = e1
  m1 = m1
  Events = {e1}
  Tries = 1
  Manuals = {}
  Policies <- OnlySingle
  Dests <- TwoTargets
  MaxAttempts = 1
  Concurrency = 4
  BatchLimit = 100
  MaxStalls = 1
  FailedHandlerRuns = FALSE
  MaxRows = 4
  MaxCrashes = 2
  MaxFaults = 0
  MaxPatches = 0
  MaxEvictions = 0
PROPERTIES
  AcceptedSettles
CHECK_DEADLOCK FALSE
