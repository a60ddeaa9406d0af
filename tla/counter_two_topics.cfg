SPECIFICATION Spec
CONSTANTS
  g1 = g1
  g2 = g2
  t1 = t1
  t2 = t2
  Keys <- TwoTopics
  MaxSize = 2
  MaxFailures = 0
  ReadFails = FALSE
  NoRow = NoRow
PROPERTY SinceLastRecord
