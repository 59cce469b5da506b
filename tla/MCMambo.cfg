SPECIFICATION SpecMC
CONSTANTS
  Flag <- MCFlag
  Polls <- MCPolls
  NUM_BASE_REG = 3
  FAKE_HEAP_SIZE = 16
  WORD = 2
  BUF_LENGTH = 64
  MaxConnections = 3
  NULL = NULL
INVARIANTS
  KeysInStep
  MirrorsAgree
  VerdictTrue
  FreshKeys
  OneLate
PROPERTY PollEnds
CHECK_DEADLOCK FALSE
