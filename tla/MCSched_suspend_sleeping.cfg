\* A thread suspends one that sleeps.
CONSTANTS
  NULL = NULL
  Thread = {i, a, b}
  Idle = i
  PrioMax = 1
  UINT32 = 4
  HZ = 1000
  TimesliceMs = 1
  MaxSleepMs = 1
  TickLimit = 4
  MaxLock = 1
  Uses = {"suspend", "sleep", "suspend_sleeping"}
SPECIFICATION Spec
PROPERTY StaysStopped
