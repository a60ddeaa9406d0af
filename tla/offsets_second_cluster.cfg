SPECIFICATION LiveSpec
CONSTANTS
  c1 = c1
  c2 = c2
  Aliases <- TwoClusters
  k1 = k1
  k2 = k2
  own = own
  Keys <- AllKeys
  OwnKeys = {own}
  AsText <- KeyText
  Records <- OneRecord
  MaxRecords = 1
  MaxFaults = 0
  ListenerDies = FALSE
  NoCluster = NoCluster
  Dead = Dead
PROPERTY EveryClusterIsHeard
