CONSTANTS
  a = a
  b = b
  kA = kA
  kAll = kAll
  kTimed = kTimed
  q1 = q1
  q2 = q2
  q3 = q3
  c1 = c1
  c2 = c2
  None = None
  Users = {a, b}
  Keys = {kA, kAll}
  Covers <- MCCovers
  Named <- MCNamed
  Timed <- MCTimed
  Requests = {q1, q2, q3}
  KeyOf <- MCKeyOfMixed
  ProcessOf <- MCProcesses
  Changes = {c1, c2}
  UserOf <- MCUserOf
  KindOf <- MCKindPut
  MaxSlow = 0
  MaxCrashes = 0
SPECIFICATION Spec
CHECK_DEADLOCK FALSE
INVARIANTS
  TypeOK
  CachedTableHasMeta
  InvalidationReachesTables
