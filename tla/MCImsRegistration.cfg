SPECIFICATION Spec
CONSTANTS
  Networks = {n1, n2}
  NoNetwork = NoNetwork
  NoRequest = NoRequest
  Kinds <- AllKinds
  MaxInputs = 4
SYMMETRY NetworkSymmetry
INVARIANTS
  BearerRequested
PROPERTIES
  DropIsReported
  SuspensionSparesBearer
CHECK_DEADLOCK FALSE
