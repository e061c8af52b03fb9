SPECIFICATION Spec
CONSTANTS
  NoSdp = NoSdp
  MaxCalls = 1
  Codecs = {a, b}
  MaxInputs = 3
INVARIANT ConfirmedIsStarted
CHECK_DEADLOCK FALSE
