CONSTANTS
  r1 = r1
  r2 = r2
  j1 = j1
  j2 = j2
  c1 = c1
  c2 = c2
  h1 = h1
  h2 = h2
  s1 = s1
  s2 = s2
  n1 = n1
  n2 = n2
  Numbers = {n1, n2}
  None = None
  Runs = {r1, r2}
  Judges = {j1, j2}
  Contests = {c1, c2}
  Sessions = {h1, h2}
  Subs = {s1, s2}
  Newer = {j2}
  ContestOf <- MCContestOf
  Routes <- MCRoutes
  Verdicts <- MCVerdicts
  Reportless <- MCReportless
  Puts <- MCPuts
  Askers <- MCAskers
  UserOf <- MCUserOf
  ContextOf <- MCContextOf
  MaxEvents = 2
SPECIFICATION Spec
CHECK_DEADLOCK FALSE
SYMMETRY Symmetric
INVARIANTS
  TypeOK
  RowIsOneVerdict
  VerdictIsOwn
  ShownVerdictHasProtocol
