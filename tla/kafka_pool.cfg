SPECIFICATION MCSpec
CONSTANTS
  Clusters = {c1}
  PoolSize = 2
  MaxClients = 4
  CreateFails = TRUE
  AccessFails = TRUE
  NoClient = NoClient
  NoFrame = NoFrame
  Threads = {t1, t2}
  Methods <- AllMethods
  Trees <- SomeTrees
  Unit = 12
  Durations = {2, 3}
  MaxClicks = 3
  Subjects = {"a", "b"}
  Tokens = {"k", "l"}
  MaxTables = 3
  MaxDraws = 2
  Digits = {"1"}
  Letters = {"a"}
  WordStyle <- PlainWords
  FirstTexts <- FirstViewed
  ViewTexts <- PutIn
  Window = 1
  Margin = 1
  Keep = 2
  Ahead = 1
  SaveEvery = 2
  Lookback = 2
  WidthAt = 5
  MaxLinesShown = 5
  MaxChanges = 1
  ChunkLines = 2
  ChunkNodes = 1
  Inserted <- SomeTexts
  MaxLines = 5
  MaxChars = 1
SYMMETRY ThreadSymmetry
INVARIANTS MCTypeOK PoolBounded HomePool OneOwner
INVARIANTS TreesAreRight PagesShowTheLastClick EditorIsRight
