SPECIFICATION FairSpec
CONSTANTS
  e1 = e1
  m1 = m1
  Events = {e1}
  Tries = 1
  Manuals = {}
  Policies <- OnlySingle
  Dests <- TwoTargets
  MaxAttempts = 2
  Concurrency = 4
  BatchLimit = 100
  MaxStalls = 1
  FailedHandlerRuns = FALSE
  MaxRows = 6
  MaxCrashes = 1
  MaxFaults = 0
  MaxPatches = 0
  MaxEvictions = 1
INVARIANTS
  Carried
PROPERTIES
  EndedIsFinal
  AcceptedSettles
CHECK_DEADLOCK FALSE
