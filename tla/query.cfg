SPECIFICATION MCSpec
CONSTANTS
  Brokers <- ThreeBrokers
  POSITION = 2
  maxReads = 2
  MaxErrors = 5
  MaxEnd = 3
  MaxFaults = 1
  NoLeader = NoLeader
  Storages = {"kafka", "zookeeper"}
  tableName = "own"
  Tables = {"own", "another"}
  NoTable = NoTable
  OtherRows = OtherRows
  Digits = {"1"}
  Letters = {"a", "s", "e"}
  WordStyle <- PlainWords
  Keywords <- SomeKeywords
  KeyChars <- HintKeys
  MaxLength = 3
  Sqls = {"q", "r"}
  MaxRuns = 4
  FirstText <- TwoLines
  Keys = {"x"}
  MaxInput = 2
  MaxEvents = 4
INVARIANTS MCTypeOK Ascending GapsOnlyByReset AnswerIsOneFetch PageTakesQueries
PROPERTY QueriesEnd
CHECK_DEADLOCK FALSE
