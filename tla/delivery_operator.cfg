SPECIFICATION Spec
CONSTANTS
  e1 = e1
  m1 = m1
  Events = {e1}
  Tries = 1
  Manuals = {m1}
  Policies <- Replaceable
  Dests <- TwoTargets
  MaxAttempts = 2
  Concurrency = 1
  BatchLimit = 1
  MaxStalls = 1
  FailedHandlerRuns = FALSE
  MaxRows = 2
  MaxCrashes = 2
  MaxFaults = 1
  MaxPatches = 1
  MaxEvictions = 0
INVARIANTS
  KeyStable
  GivenUpAfterBudget
CHECK_DEADLOCK FALSE
