\* As in pool.h, the pool is smaller than the limit sys_setsid tests.
\* No symmetry, since the run checks liveness.
SPECIFICATION LiveSpec
CONSTANTS
  Task = {1, 2, 3, 4}
  SE = {1, 2, 3, 4}
  NULL = NULL
  MaxTasks = 4
  PoolBlocks = 3
  Calls = {"other", "split", "setsid"}
  InitVruntime = {0}
  InitSize = {0, 1}
  MaxVruntime = 4
ACTION_CONSTRAINT Canonical
INVARIANT SurvivorsAreRunning
PROPERTY QueuedTaskRuns
