CONSTANTS
  None = None
  Unparsable = Unparsable
  MaxTests = 2
  MaxLines = 3
  MaxFiles = 4
  MaxKeyLen = 22
  MaxRuns = 2
  MaxAsked = 2
  Size = 3
  MaxEdits = 2
  Errors <- MCErrors
  Tests <- MCTests
  Outputs <- MCOutputs
  Packings <- MCPackings
  Older <- MCOlder
  Lines <- MCLines
  Number <- MCNumber
  Amount <- MCAmount
  Beginnings <- MCBeginnings
  Files <- MCFiles
  Texts <- MCTexts
  Infos <- MCInfos
  Modules <- MCModules
  Contests <- MCContests
  Groups <- MCGroups
  Arriving <- MCArriving
  Statuses <- MCStatuses
  Requests <- MCRequests
  Digits <- MCDigits
  Code <- MCCode
  Written <- MCWritten
  Rows <- MCRows
  Settings <- MCSettings
SPECIFICATION MCSpec
CHECK_DEADLOCK FALSE
INVARIANTS
  ShownIsReported
  RefusalIsShown
  LegacyReadsTheSame
  PrintReadsBack
  ProblemsAreFound
  InheritedIsOwn
  FilesAreFound
  CutsAreMarked
  StoredIsFresh
  ContestsAreWhole
  FilesAreRead
  SourceIsText
  PageIsOfItsTime
