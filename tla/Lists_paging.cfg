CONSTANTS
  MaxId = 4
  Runs <- MCRuns
  Statuses = {0, 377}
  Queries <- MCQueries
  Counts = {1, 3}
  MaxPerPage = 2
  Members <- MCMembers
  Instance <- MCInstance
  Correlations <- MCCorrelations
  MaxChanges = 2
SPECIFICATION Spec
CHECK_DEADLOCK FALSE
INVARIANTS
  TypeOK
  MissesBounded
  RepeatsBounded
