SPECIFICATION PageSpec
CONSTANTS
  Topics = {t1}
  Partitions = {p1, p2}
  Storages = {"zookeeper", "kafka"}
  Thresholds = {0}
  NoAlarm = NoAlarm
  NoTopic = NoTopic
  MaxEnd = 2
  Moving = TRUE
  ReadFails = TRUE
  SendFails = TRUE
  TopicsVanish = TRUE
  ConsumersStop = TRUE
SYMMETRY Symmetry
INVARIANTS PageTypeOK JobLagIsRight PageLagIsBetween
