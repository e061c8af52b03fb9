SPECIFICATION FairSpec
CONSTANTS
  NoSdp = NoSdp
  MaxCalls = 2
  Codecs = {a, b}
  MaxInputs = 3
INVARIANT ConnectedIsAnswered
PROPERTIES EndedIsGone AnswerSettles
CHECK_DEADLOCK FALSE
