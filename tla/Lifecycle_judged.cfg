CONSTANTS
  r1 = r1
  r2 = r2
  j1 = j1
  j2 = j2
  u1 = u1
  u2 = u2
  u3 = u3
  u4 = u4
  Runs = {r1, r2}
  Judges = {j1}
  Uuids = {u1, u2}
  Verdicts = {"OK", "WA"}
  Reportless = {}
  Routes <- MCRoutesSome
  ExtUser = TRUE
  Progress = FALSE
  Patient = FALSE
  MaxSubmitRetries = 1
  MaxCheckRetries = 1
  MaxLoadRetries = 1
  MaxUpdRetries = 1
  MaxRejudges = 0
  MaxFaults = 1
  MaxLostReplies = 1
  MaxDrops = 0
  MaxReevals = 1
SPECIFICATION LiveSpec
CHECK_DEADLOCK FALSE
PROPERTIES
  EventuallyJudged
