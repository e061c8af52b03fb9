SPECIFICATION FairSpec
CONSTANTS
  m1 = m1  m2 = m2  d1 = d1  d2 = d2  Nobody = Nobody
  Messages = {m1, m2}
  Refs = {1, 2}
  Deliveries = {d1, d2}
  MaxInputs = 3
INVARIANTS OneResult  AckMeansAccepted
PROPERTY EverySendAnswered
CHECK_DEADLOCK FALSE
