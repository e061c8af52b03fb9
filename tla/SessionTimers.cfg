SPECIFICATION FairSpec
CONSTANTS
  c1 = c1
  Calls = {c1}
  MaxInputs = 2
INVARIANTS ArmedHasTimer NoUnwatchedCall
PROPERTIES SilentPeerEndsCall EndedIsForgotten
CHECK_DEADLOCK FALSE
