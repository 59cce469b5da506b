SPECIFICATION Spec
CONSTANTS
  Thread = {t1, t2}
  Mm = {m1, m2}
  Val = {0, 1}
  Image = 1
  NULL = NULL
  NumRegions = 1
  RegionLen = 2
  NIVISOR_PAGE_SIZE = 1
  MaxPma = 3
  Launched = FALSE
  Patches = {}
  Settings <- Plain
SYMMETRY Symmetry
INVARIANTS GuestSeesRegion
CHECK_DEADLOCK FALSE
