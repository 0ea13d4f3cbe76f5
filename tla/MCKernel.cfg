\* Two devices; four threads at one mutex, none of which waits for a less urgent
\* owner; two locks and two interrupt levels.
CONSTANTS
  Parts = {"boot", "mutex", "spinlock"}
  Registry <- TwoDevices
  NULL = NULL
  UINT32 = 8
  i = i
  a = a
  b = b
  c = c
  d = d
  Idle = i
  Thread = {i, a, b, c, d}
  BasePriority <- Levels4
  MaxDepth = 2
  Inherit = FALSE
  Lock = {l, m}
  NoLock = NoLock
  IrqLevel = {1, 2}
  MaxHeld = 2
SPECIFICATION FairSpec
INVARIANTS MutexSound
PROPERTIES BootSound HandsToHighest LockGranted SectionsSafe
