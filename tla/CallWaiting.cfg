CONSTANTS
  Calls = {c1, c2, c3}
  First = c1
  NoCall = NoCall
  MaxInputs = 5
SPECIFICATION FairSpec
PROPERTY RequestAnswered
CHECK_DEADLOCK FALSE
