CONSTANTS
  r1 = r1
  r2 = r2
  j1 = j1
  j2 = j2
  u1 = u1
  u2 = u2
  u3 = u3
  u4 = u4
  Runs = {r1, r2}
  Judges = {j1}
  Uuids = {u1,u2,u3,u4}
  Verdicts = {"OK", "CE"}
  Reportless = {"CE"}
  Routes <- MCRoutesOne
  ExtUser = FALSE
  Progress = FALSE
  Patient = TRUE
  MaxSubmitRetries = 0
  MaxCheckRetries = 0
  MaxLoadRetries = 1
  MaxUpdRetries = 1
  MaxRejudges = 1
  MaxFaults = 0
  MaxLostReplies = 0
  MaxDrops = 0
  MaxReevals = 0
SPECIFICATION LiveSpec
CHECK_DEADLOCK FALSE
INVARIANTS
  VerdictIsGenuine
PROPERTIES
  EventuallySettled
