CONSTANTS
  Calls = {c1, c2, c3}
  First = c1
  NoCall = NoCall
  MaxInputs = 7
SYMMETRY Arriving
SPECIFICATION Spec
INVARIANTS HeldNotPlaying SlotsDistinct HeldIsSilent OneTalks AnswerIsOwed
CHECK_DEADLOCK FALSE
