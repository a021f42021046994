SPECIFICATION FairSpec
CONSTANTS
  t1 = t1
  t2 = t2
  w1 = w1
  w2 = w2
  s1 = s1
  s2 = s2
  Targets = {t1, t2}
  Writers = {w1, w2}
  Slots = {s1, s2}
  MaxStalls = 1
  MaxIncidents = 2
  MaxOutcomes = 2
  MaxDeaths = 0
  MaxCrashes = 1
  MaxBlocked = 0
  MaxFaults = 0
  MaxChannels = 1
  MaxPatches = 0
  MaxEvictions = 0
PROPERTIES
  OpeningIsAudited
CHECK_DEADLOCK FALSE
