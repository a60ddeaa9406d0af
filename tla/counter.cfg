SPECIFICATION MCSpec
CONSTANTS
  g1 = g1
  g2 = g2
  t1 = t1
  t2 = t2
  Keys <- OneTopicEach
  MaxSize = 2
  MaxFailures = 1
  ReadFails = TRUE
  NoRow = NoRow
  Days = {1, 2, 3, 4}
  MonthLength = 2
  Options <- AllOptions
  Today = 4
  Charts = {1, 2}
  Requests = {1, 2}
  Typed <- TypedTexts
  MaxText = 2
  MaxSteps = 4
INVARIANTS MCTypeOK GrowthIsAccounted RangeIsAllowed UndoRestores
PROPERTIES SinceLastRecord PageSettles
