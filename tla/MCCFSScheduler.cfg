\* Four tasks at most; a fifth task and a fifth entity object show what a
\* missing limit test would let in.
SPECIFICATION Spec
CONSTANTS
  Task = {t1, t2, t3, t4, t5}
  SE = {s1, s2, s3, s4, s5}
  NULL = NULL
  MaxTasks = 4
  PoolBlocks = 5
  Calls = {"other", "split", "setsid", "fault", "error"}
  InitVruntime = {0, 1}
  InitSize = {0}
  MaxVruntime = 5
SYMMETRY Symmetry
INVARIANTS TaskInOnePlace EntityInOnePlace NodesBounded
PROPERTY LeastVruntimeFirst
