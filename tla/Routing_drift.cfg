CONSTANTS
  Judges = {"1", "2"}
  Token <- MCToken
  Wrong = "t0"
  Files <- MCFiles
  Entries <- MCEntries
  Settings <- MCSettings
  Langs = {27}
  Users = {7, 8}
  MaxEdits = 1
SPECIFICATION Spec
CHECK_DEADLOCK FALSE
INVARIANTS
  TypeOK
  EntryIsBest
PROPERTIES
  LossNeedsDrift
