CONSTANTS
  r1 = r1
  r2 = r2
  j1 = j1
  j2 = j2
  u1 = u1
  u2 = u2
  u3 = u3
  u4 = u4
  Runs = {r1}
  Judges = {j1}
  Uuids = {u1, u2}
  Verdicts = {"OK", "CE"}
  Reportless = {"CE"}
  Routes <- MCRoutesOne
  ExtUser = TRUE
  Progress = TRUE
  Patient = FALSE
  MaxSubmitRetries = 0
  MaxCheckRetries = 0
  MaxLoadRetries = 0
  MaxUpdRetries = 0
  MaxRejudges = 1
  MaxFaults = 0
  MaxLostReplies = 1
  MaxDrops = 1
  MaxReevals = 0
SPECIFICATION Spec
CHECK_DEADLOCK FALSE
SYMMETRY UuidSymmetry
INVARIANTS
  TypeOK
  TaskFindsRunAndSource
  VerdictHasProtocol
  SubmissionsBounded
PROPERTIES
  WithdrawnOnlyByRejudge
  ImplementsService
