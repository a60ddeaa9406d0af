SPECIFICATION ZkSpec
CONSTANTS
  Clusters = {c1, c2}
  PoolSize = 1
  MaxClients = 2
  CreateFails = TRUE
  AccessFails = TRUE
  NoClient = NoClient
  NoFrame = NoFrame
  Threads = {t1}
  Methods <- Commands
  Instances = {o1, o2}
  Users = {u1, u2}
  Sharings <- AllSharings
  FieldAccessFails = TRUE
SYMMETRY Symmetry
INVARIANTS PoolsHoldClients UnsharedIsRight OneOwnerOverall
