SPECIFICATION MCSpec
CONSTANTS
  c1 = c1
  c2 = c2
  Aliases <- OneCluster
  k1 = k1
  k2 = k2
  own = own
  Keys <- AllKeys
  OwnKeys = {own}
  AsText <- KeyText
  Records <- AllRecords
  MaxRecords = 3
  MaxFaults = 2
  ListenerDies = TRUE
  NoCluster = NoCluster
  Dead = Dead
  Blank = Blank
  TypedPieces <- OneAddress
  PastedPieces <- TwoAddresses
  NoToken = NoToken
  MaxTokens = 3
INVARIANTS TypeOK EntriesAreCommits NotBehind OwnersAreTheTokens
PROPERTY CommitsAreCached
CHECK_DEADLOCK FALSE
