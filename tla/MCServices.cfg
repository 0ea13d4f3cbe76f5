\* Two threads with their stacks apart; a ring of two bytes with indices that
\* wrap at 4; heaps that hold up to three or four blocks; two jobs; six-bit
\* numbers; rings of three slots; lines of three characters; three captures.
CONSTANTS
  Parts = {"context", "mpu", "ring", "rb_stats", "fit", "tlsf", "jobs", "printk", "log", "rtt_up", "rtt_down", "shell", "coredump"}
  ThreadId = {c1, c2}
  NoThread = NoThread
  StackBase <- ApartBase
  StackSize <- ApartSize
  MemTop = 44
  MaxPhase = 1
  CONFIG_TLS = TRUE
  NumRegions = 2
  MpuMemory <- Bounds
  MpuConfigs <- FourRegions
  Off = Off
  MpuCallers = {k}
  InPlace = FALSE
  RbByte = {0, 1}
  rb_size = 2
  SizeMod = 4
  MaxChunk = 2
  HEAP_ALIGN = 8
  HDR_SIZE = 16
  pool_size = 120
  Request = {1, 20, 24, 40}
  Callocs <- TwoCallocs
  HeapMod = 256
  FL_INDEX_SHIFT = 3
  FL_INDEX_COUNT = 4
  SL_INDEX_COUNT_LOG2 = 3
  BLOCK_HDR_OFFSET = 8
  BLOCK_PAYLOAD_MIN = 8
  TlsfAlign = 8
  TlsfPool = 128
  TlsfRequest = {1, 20, 66, 120}
  TlsfCallocs <- TwoCallocs
  TlsfBits = 8
  capacity = 2
  JobPrio = {0, 1}
  Bodies <- TwoBodies
  ChildBody <- WaitThenYield
  SelfCancel = FALSE
  WordMod = 64
  NumBuf = 3
  Formats <- SomeFormats
  BufSizes = {0, 1, 2, 4, 9}
  LogModule = {p, q}
  MaxLevel = 2
  CONFIG_LOG_DEFAULT_LEVEL = 1
  LogSlots = 3
  Flushers = {f}
  RttByte = {0, 1}
  SizeOfBuffer = 3
  RttChunk = 3
  Word = {"x", "y"}
  CONFIG_SHELL_BUF_SIZE = 4
  CONFIG_SHELL_MAX_ARGS = 3
  Commands = {"x"}
  MaxTyped = 4
  Asserters = {t}
  MaxCaptures = 3
SPECIFICATION FairSpec
INVARIANTS MpuProtects TlsfSound FormatsExact CrashRecord
PROPERTIES ContextsSurvive RbSound FitSound JobsSound JobCompletes LogFifo RttDelivers ShellSound
