SPECIFICATION Spec
CONSTANTS
  t1 = t1
  t2 = t2
  w1 = w1
  w2 = w2
  s1 = s1
  s2 = s2
  Targets = {t1}
  Writers = {w1, w2}
  Slots = {s1, s2}
  MaxStalls = 1
  MaxIncidents = 1
  MaxOutcomes = 2
  MaxDeaths = 1
  MaxCrashes = 1
  MaxBlocked = 1
  MaxFaults = 1
  MaxChannels = 2
  MaxPatches = 1
  MaxEvictions = 1
INVARIANTS
  NotifiedOnce
  RecoveryIsReal
  NoticeIsAudited
CHECK_DEADLOCK FALSE
SYMMETRY Symmetry
