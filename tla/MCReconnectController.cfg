SPECIFICATION FairSpec
CONSTANTS
  Callers = {c1, c2}
  Workers = {w1, w2}
  Retriers = {r1, r2}
  Networks = {n1}
  NoNetwork = NoNetwork
  NoRequest = NoRequest
  MaxInputs = 2
INVARIANTS SingleWorker NoStrandedRequest
PROPERTIES SingleFlightSpec
PROPERTIES StoredRequestAttempted ValidRetryReconnects
CHECK_DEADLOCK FALSE
