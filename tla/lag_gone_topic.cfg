SPECIFICATION Spec
CONSTANTS
  Topics = {t1, t2}
  Partitions = {p1}
  Storages = {"zookeeper"}
  Thresholds = {0}
  NoAlarm = NoAlarm
  NoTopic = NoTopic
  MaxEnd = 1
  Moving = FALSE
  ReadFails = FALSE
  SendFails = FALSE
  TopicsVanish = TRUE
  ConsumersStop = FALSE
INVARIANT NoAlarmLost
