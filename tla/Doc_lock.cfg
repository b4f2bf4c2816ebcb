CONSTANTS
  a = a
  b = b
  kA = kA
  kAll = kAll
  kTimed = kTimed
  q1 = q1
  q2 = q2
  q3 = q3
  c1 = c1
  c2 = c2
  None = None
  Users = {a, b}
  Keys = {kA}
  Covers <- MCCovers
  Named <- MCNamed
  Timed <- MCTimed
  Requests = {q1, q2}
  KeyOf <- MCKeyOfOne
  ProcessOf <- MCOneProcess
  Changes = {c1}
  UserOf <- MCUserOf
  KindOf <- MCKindTask
  MaxSlow = 1
  MaxCrashes = 0
SPECIFICATION Spec
CHECK_DEADLOCK FALSE
INVARIANTS
  OneFillPerKey
