CONSTANTS
  c1 = c1
  c2 = c2
  Calls = {c1, c2}
  NoCall = NoCall
  Kinds = {"duplicate", "drop", "access", "writeFails", "resendFails", "update"}
  MaxInputs = 1
SYMMETRY Callers
SPECIFICATION Spec
CHECK_DEADLOCK FALSE
INVARIANTS NoRevival
PROPERTIES LateCancelSparesAnswered AckTimerSparesConfirmed NoAnswerAfterRefusal
