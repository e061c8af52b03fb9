SPECIFICATION RestarterFairSpec
CONSTANTS
  Requesters = {c1, c2}
  Restarters = {r1, r2}
  MaxEvents = 5
INVARIANTS FlagHasOwner
PROPERTIES FlagReleased
CHECK_DEADLOCK FALSE
