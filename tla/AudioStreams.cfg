SPECIFICATION FairSpec
CONSTANTS
  Streams = {s1}
  MaxSize = 2
  MaxCommands = 3
INVARIANTS
  NobodyOutlivesStream
  HalUsedWhileOpen
  IdleMeansDrained
  DeviceClosedLast
PROPERTIES
  CommandAnswered
  EverythingReleased
  CommandsSpec
CHECK_DEADLOCK FALSE
