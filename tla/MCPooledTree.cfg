\* Pooled, five blocks in steps of three, the last one short, until the add that finds no
\* block.  Alone, seven nodes and equal keys: every case of fixDB that removal of the
\* leftmost node can meet, and its climb.
SPECIFICATION SpecMC
CONSTANTS
  NumBlocks = 5
  InitStep = 3
  DATA = DATA
  NULL = NULL
  NIL = NULL
  Node <- AllNodes
  Key = {1, 2}
  InitSize = {1}
INVARIANTS FreeListSound RedBlackRules LinksConsistent PooledNodesAreHeld
PROPERTIES ImplementsAllocator ImplementsRunQueue
CHECK_DEADLOCK FALSE
