SPECIFICATION ZkSpec
CONSTANTS
  Clusters = {c1, c2}
  PoolSize = 1
  MaxClients = 3
  CreateFails = FALSE
  AccessFails = FALSE
  NoClient = NoClient
  NoFrame = NoFrame
  Threads = {}
  Methods = {}
  Instances = {o1}
  Users = {u1, u2}
  Sharings <- AllSharings
  FieldAccessFails = FALSE
SYMMETRY Symmetry
INVARIANT RightCluster
