\* Threads lock the scheduler, sleep and exit; the clock stops before it wraps.
CONSTANTS
  NULL = NULL
  Thread = {i, a, b}
  Idle = i
  PrioMax = 1
  UINT32 = 8
  HZ = 1000
  TimesliceMs = 1
  MaxSleepMs = 2
  TickLimit = 5
  MaxLock = 2
  Uses = {"exit", "suspend", "resume", "sleep", "sched_lock"}
SPECIFICATION Spec
SYMMETRY Symmetry
INVARIANTS TypeOK
PROPERTIES LockPreventsPreemption NoEarlyWake
CHECK_DEADLOCK FALSE
