CONSTANTS
  q1 = q1
  q2 = q2
  q3 = q3
  Requests = {q1, q2, q3}
  Asks <- MCAsks
  Problems = {"p", "out"}
  OutputOnly = {"out"}
  Size <- MCSize
  MaxIds = 3
  MaxFaults = 1
  MaxRestarts = 1
SPECIFICATION Spec
CHECK_DEADLOCK FALSE
SYMMETRY RequestSymmetry
INVARIANTS
  TypeOK
  DuplicateRefused
  SourceIsOwn
