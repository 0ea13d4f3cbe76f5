\* Progress under the fairness of the hardware, with a clock that wraps at once.
CONSTANTS
  NULL = NULL
  Thread = {i, a, b}
  Idle = i
  PrioMax = 2
  UINT32 = 2
  HZ = 1000
  TimesliceMs = 1
  MaxSleepMs = 1
  TickLimit = 2
  MaxLock = 1
  Uses = {"create", "suspend", "resume", "sched_lock", "sleep"}
SPECIFICATION FairSpec
PROPERTIES HighestRuns SleeperWakes
