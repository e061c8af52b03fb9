SPECIFICATION FairSpec
CONSTANTS
  Networks = {n1, n2}
  NoNetwork = NoNetwork
  NoRequest = NoRequest
  Kinds <- AllKinds
  MaxInputs = 3
PROPERTIES
  Recovers
  DeadTransportNoticed
CHECK_DEADLOCK FALSE
