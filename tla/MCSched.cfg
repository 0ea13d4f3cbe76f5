\* Every disciplined way to create, stop and move threads; the clock wraps.
CONSTANTS
  NULL = NULL
  Thread = {i, a, b}
  Idle = i
  PrioMax = 1
  UINT32 = 3
  HZ = 1000
  TimesliceMs = 1
  MaxSleepMs = 1
  TickLimit = 3
  MaxLock = 1
  Uses = {"create", "delete", "suspend", "resume", "sleep", "yield",
          "restart", "set_priority"}
SPECIFICATION Spec
SYMMETRY Symmetry
INVARIANTS SwitchCoherent CurrentAccounted SelectsHighest WakesAllExpired ListsSound
PROPERTIES StaysStopped
