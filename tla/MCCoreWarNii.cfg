SPECIFICATION Spec
CONSTANTS
  CORE_SIZE = 48
  NB = 3
  NumPlayers = 2
  MAX_CYCLE = 5
  Loads <- AllLoads
  Offsets = {21}
  FlagWords <- OneWord
  Leftovers <- AnyOld
  Unset <- CpuKinds
INVARIANTS ResultSound ComparesRight SumsRight LeftoversUnused
CHECK_DEADLOCK FALSE
