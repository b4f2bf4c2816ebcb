CONSTANTS
  a = a
  b = b
  kA = kA
  kAll = kAll
  kTimed = kTimed
  q1 = q1
  q2 = q2
  q3 = q3
  c1 = c1
  c2 = c2
  None = None
  Users = {a, b}
  Keys = {kA, kTimed}
  Covers <- MCCovers
  Named <- MCNamed
  Timed <- MCTimed
  Requests = {q1, q2, q3}
  KeyOf <- MCKeyOfTimed
  ProcessOf <- MCProcesses
  Changes = {c1, c2}
  UserOf <- MCUserOf
  KindOf <- MCKindQuiet
  MaxSlow = 0
  MaxCrashes = 1
SPECIFICATION LiveSpec
CHECK_DEADLOCK FALSE
INVARIANTS
  OneFillPerKey
PROPERTIES
  EventuallyFresh
