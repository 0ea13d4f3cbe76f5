\* Round robin among threads that neither yield nor sleep.
CONSTANTS
  NULL = NULL
  Thread = {i, a, b}
  Idle = i
  PrioMax = 1
  UINT32 = 4
  HZ = 1000
  TimesliceMs = 2
  MaxSleepMs = 0
  TickLimit = 4
  MaxLock = 1
  Uses = {"create", "delete", "suspend", "resume"}
SPECIFICATION FairSpec
PROPERTY RoundRobin
