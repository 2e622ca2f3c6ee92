CONSTANTS
  connection = connection
  None = None
  MaxList = 2
  Command <- MCCommand
  Handle <- MCHandle
  Refused <- RefusedCalls
  Size = 3
  Buffer = 2
  Lengths = {0, 2, 3, 4}
SPECIFICATION ExamplesSpec
INVARIANTS EverythingIsReleased FailuresAreReported NoneOutlivesItsParent CallsArePermitted TransfersAreWhole TransfersEndBeforeFree
PROPERTIES CommandsEnd
CHECK_DEADLOCK FALSE
