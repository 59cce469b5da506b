\* A guest that calls setsid for ever.
SPECIFICATION FairSpec
CONSTANTS
  Task = {t1, t2, t3}
  SE = {s1, s2, s3, s4}
  NULL = NULL
  MaxTasks = 3
  PoolBlocks = 4
  Calls = {"other", "split", "setsid"}
  InitVruntime = {0}
  InitSize = {0}
  MaxVruntime = 3
PROPERTY EveryTaskRuns
