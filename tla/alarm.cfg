SPECIFICATION MCSpec
CONSTANTS
  Users = {u1, u2}
  Groups = {g1}
  Topics = {t1, t2}
  Configs = {a, b}
  NoNode = NoNode
  Empty = Empty
  NoRequest = NoRequest
  Server <- TwoGroups
  Inputs <- SomeInputs
  NoInput = NoInput
  NoField = NoField
  CtrlFields = {"topic"}
SYMMETRY Symmetry
INVARIANTS TypeOK SuccessIsStored ListIsRight FormFits
PROPERTY ImplementsRegister
