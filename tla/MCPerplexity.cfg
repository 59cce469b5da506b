SPECIFICATION Spec
CONSTANTS
  Sizes <- SmallSizes
  Worlds <- FourWorlds
  Symbols = 3
  Constant <- Rotated
  MaxCopies = 2
INVARIANTS
  ExitsDistinct
  ReachedUpToKeys
  InOnePlace
  HintsRight
  CodesLeadBack
