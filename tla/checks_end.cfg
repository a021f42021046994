SPECIFICATION FairSpec
CONSTANTS
  m1 = m1
  m2 = m2
  u1 = u1
  r1 = r1
  r2 = r2
  p1 = p1
  p2 = p2
  Monitors = {m1}
  Users = {u1}
  Owner <- OneOwner
  UserSlots = {1}
  Runs = {r1, r2}
  Passes = {p1}
  Cause = {"slo_budget"}
  FailuresToOpen = 2
  MaxStalls = 1
  MaxJobs = 2
  MaxManual = 1
  MaxChanges = 0
  MaxCrashes = 1
  MaxBlocked = 0
  MaxFaults = 1
  MaxExpiries = 0
PROPERTIES
  JobsEnd
  OpeningIsTold
CHECK_DEADLOCK FALSE
