\* A thread waits for a mutex whose owner is less urgent.
CONSTANTS
  Parts = {"mutex"}
  Registry <- TwoDevices
  NULL = NULL
  UINT32 = 8
  i = i
  a = a
  b = b
  c = c
  d = d
  Idle = i
  Thread = {i, a, b}
  BasePriority <- Levels2
  MaxDepth = 1
  Inherit = TRUE
  Lock = {l, m}
  NoLock = NoLock
  IrqLevel = {1, 2}
  MaxHeld = 2
SPECIFICATION Spec
INVARIANT MutexRunQueues
