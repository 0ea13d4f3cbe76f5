\* Threads that wait for a semaphore with a timeout.
CONSTANTS
  Thread = {a, b, c}
  Objects = {"sem"}
  MaxCounts = {0, 1, 2}
  CountLimit = 3
  MaxTimeout = 1
  Work = {w, x, d}
  DWork = {d}
  Worker = a
  Managers = {b}
  NoWork = NoWork
  Msg = {m, n}
  max_msgs = 2
  Flag = {f, g}
  CONFIG_TLS = TRUE
  num_blocks = 3
  NoBlock = 0
  Byte = {0, 1}
  size = 2
  MaxLen = 3
  PipeUses <- PairAndMore
  NULL = NULL
  Timer = {s, t, u}
  UINT32 = 3
  HZ = 1000
  MaxMs = 3
  Modes = {"ONE_SHOT", "PERIODIC"}
  Uses = {"among_periodic"}
SPECIFICATION FairSpec
PROPERTY TimedWaitEnds
