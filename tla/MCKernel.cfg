SPECIFICATION SpecMC
CONSTANTS
  Task <- Spid
  NumTasks = 4
  MaxProcesses = 4
  CycleBits = 4
  Fd = {3, 4}
  CACHE = 2
  MaxSize = 4
  MaxOpens = 2
  NULL = NULL
INVARIANTS
  FdsAccounted
  BytesReported
PROPERTIES
  DescriptorsFixed
  TasksAreEntered
CHECK_DEADLOCK FALSE
