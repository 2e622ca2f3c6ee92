CONSTANTS
  connection = connection
  None = None
  MaxList = 2
  Command <- MCSecretsGet
  Handle <- MCHandle
  Refused <- RefusedCalls
  Size = 3
  Buffer = 2
  Lengths = {0, 2, 3, 4}
SPECIFICATION ExamplesSpec
INVARIANT CallsArePermitted
CHECK_DEADLOCK FALSE
