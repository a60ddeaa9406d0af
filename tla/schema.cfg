SPECIFICATION MCSpec
CONSTANTS
  TBLS <- AllTables
  WithRows <- AllWithRows
  Loaders = {l1, l2}
  MaxFaults = 2
  Users = {u1, u2}
  Visitors = {u1}
  Roles = {r1, r2}
  Homes = {h1, h2}
  Children = {c1, c2}
  None = None
  Root = Root
  Free = Free
  Gone = Gone
  MaxClicks = 3
SYMMETRY Symmetry
INVARIANTS MCTypeOK StartCompletes LossIsBounded AccountsAreRight
PROPERTY StartEventuallyCompletes
CHECK_DEADLOCK FALSE
