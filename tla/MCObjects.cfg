\* Each kernel object with three threads; every wait list gets to hold two.
\* Three timers, whose callbacks leave them alone, but that a periodic timer among
\* periodic ones may start and stop itself.
CONSTANTS
  Thread = {a, b, c}
  Objects = {"sem", "workq", "msgq", "event", "pool", "pipe", "timer"}
  MaxCounts = {0, 1, 2}
  CountLimit = 3
  MaxTimeout = 1
  Work = {w, x, d}
  DWork = {d}
  Worker = a
  Managers = {b}
  NoWork = NoWork
  Msg = {m, n}
  max_msgs = 2
  Flag = {f, g}
  CONFIG_TLS = TRUE
  num_blocks = 3
  NoBlock = 0
  Byte = {0, 1}
  size = 2
  MaxLen = 3
  PipeUses <- PairAndMore
  NULL = NULL
  Timer = {s, t, u}
  UINT32 = 3
  HZ = 1000
  MaxMs = 3
  Modes = {"ONE_SHOT", "PERIODIC"}
  Uses = {"among_periodic"}
SPECIFICATION FairSpec
INVARIANTS ThreadsOK NobodyStranded SemConserved PoolPartition ListSound
PROPERTIES DeliversInOrder EventExact WorkRuns WorkKept TimersKeepTime TimersProgress
