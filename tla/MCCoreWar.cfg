SPECIFICATION SpecMC
CONSTANTS
  CORE_SIZE = 8
  Margin = 2
  Behind = 2
  ByteBits = 5
  FieldBits = 4
  AddrBits = 6
  SizeBits = 7
  NumPlayers = 2
  MAX_PROCESSES = 6
  ProcMax = 3
  NULL = NULL
  Loads <- AllLoads
  Offsets = {0, 2, 3}
  MAX_CYCLE = 6
INVARIANTS ProcIdsSound ResultRight
PROPERTIES StaysInArea WritesNearArea EveryProcessRuns
