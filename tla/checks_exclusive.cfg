SPECIFICATION Spec
CONSTANTS
  m1 = m1
  m2 = m2
  u1 = u1
  r1 = r1
  r2 = r2
  p1 = p1
  p2 = p2
  Monitors = {m1}
  Users = {u1}
  Owner <- OneOwner
  UserSlots = {1, 2}
  Runs = {r1, r2}
  Passes = {p1, p2}
  Cause = {"availability"}
  FailuresToOpen = 2
  MaxStalls = 1
  MaxJobs = 2
  MaxManual = 0
  MaxChanges = 2
  MaxCrashes = 0
  MaxBlocked = 2
  MaxFaults = 0
  MaxExpiries = 0
INVARIANTS
  MonitorExclusive
  DownAfterThreshold
  IncidentMatchesState
  OneJobPerInterval
PROPERTIES
  ToldInOrder
SYMMETRY Symmetry
CHECK_DEADLOCK FALSE
