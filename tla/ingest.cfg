\* Two requests at once, an analysis and that of the delivery worker, and one of: a
\* retry by hand, a change of mode, the end of a day, a crash.
CONSTANTS
  Keys = {k1}
  Modes = {"trial", "observe", "protect"}
  Requests = {r1, r2}
  Messages = {"plain", "forged"}
  Analysts = {a1}
  Strategies = {"single", "failover"}
  DailyLimit = 1
  Steps <- OutageThenOk
  RepeatLastStep = FALSE
  MaxRequests = 3
  MaxDeliveries = 2
  MaxUpsets = 1
SPECIFICATION Spec
INVARIANTS Gapless WithinQuota ReportFresh ReplayAgrees
SYMMETRY Interchangeable
CHECK_DEADLOCK FALSE
