\* Accounts and Catalogue: bounds that let two handlers interleave.  The slots of
\* both share names.
CONSTANTS
  ua = ua
  ub = ub
  mailA = mailA
  mailB = mailB
  mailC = mailC
  Users = {ua, ub}
  Emails = {mailA, mailB, mailC}
  Home <- MCHome
  Required = TRUE
  Requests = {c1, c2}
  MaxRequests = 3

  Owner = owner
  Members = {member}
  Runs = {d0, d1, d2}
  Brought = {d0}
  OwnScenarios = {s1}
  OwnEndpoints = {e1, e2, e3}
  OwnMonitors = {m1}
  OwnPages = {p1}
  Limit = 1
  Calls = {c1, c2}
  MaxCalls = 4
  MaxChannels = 1
  MaxFaults = 1
SPECIFICATION MCSpec
SYMMETRY Interchangeable
INVARIANTS
  OwnerRole
  SessionsFollowPassword
  OneRun
  NothingLeft
PROPERTIES
  EmailByLink
CHECK_DEADLOCK FALSE
