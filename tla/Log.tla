-------------------------------- MODULE Log ---------------------------------
(***************************************************************************)
(* Logging with CONFIG_LOG_DEFERRED (subsys/logging/log.c): any context    *)
(* puts messages into a ring under the spinlock, vibe_log_flush prints     *)
(* them later without it.  A message stands for its level and text.        *)
(***************************************************************************)
EXTENDS Naturals, Sequences

CONSTANTS LogModule,
          MaxLevel,                    \* VIBE_LOG_LEVEL_DBG; 0 is NONE
          CONFIG_LOG_DEFAULT_LEVEL,
          LogSlots,                    \* ARRAY_SIZE(g_log_ring)
          Flushers                     \* who calls vibe_log_flush

ASSUME LogAssumption ==
  MaxLevel \in Nat /\ CONFIG_LOG_DEFAULT_LEVEL \in 0..MaxLevel /\ LogSlots \in Nat \ {0}

LogLevel == 0..MaxLevel
LogMsg == LogModule \X (1..MaxLevel)

VARIABLES level,        \* module -> its runtime level
          ring,         \* slot -> message; [head, tail] in logidx
          logidx,
          flusher,      \* flusher -> what it is doing, and the message it prints
          printed       \* ghost: the last message printed

logvars == <<level, ring, logidx, flusher, printed>>

NoMsg == <<>>
Resting == [at |-> "rest", msg |-> NoMsg]

(* _vibe_log_init: compile-time levels are clamped to the default.         *)
vibe_log_init ==
  /\ \E compiled \in [LogModule -> LogLevel] :
       level = [m \in LogModule |-> IF compiled[m] > CONFIG_LOG_DEFAULT_LEVEL
                                    THEN CONFIG_LOG_DEFAULT_LEVEL ELSE compiled[m]]
  /\ ring = [i \in 0..(LogSlots - 1) |-> NoMsg]
  /\ logidx = [head |-> 0, tail |-> 0]
  /\ flusher = [f \in Flushers |-> Resting]
  /\ printed = <<>>

LogNextSlot(i) == (i + 1) % LogSlots

Emit_Overruns(m, lv) ==
  /\ lv <= level[m]
  /\ ring' = [ring EXCEPT ![logidx.tail] = <<m, lv>>]
  /\ logidx' = [logidx EXCEPT !.tail = LogNextSlot(@)]
  /\ UNCHANGED <<level, flusher, printed>>

(* Formatting first, then one masked section; a full ring drops the new    *)
(* message, and a level above the module's never gets that far.            *)
vibe_log_emit(m, lv) ==
  /\ lv <= level[m]
  /\ LogNextSlot(logidx.tail) # logidx.head
  /\ ring' = [ring EXCEPT ![logidx.tail] = <<m, lv>>]
  /\ logidx' = [logidx EXCEPT !.tail = LogNextSlot(@)]
  /\ UNCHANGED <<level, flusher, printed>>

(* One round of vibe_log_flush: find the oldest message and print it ...   *)
vibe_log_flush(f) ==
  /\ flusher[f].at = "rest" /\ logidx.head # logidx.tail
  /\ flusher' = [flusher EXCEPT ![f] = [at |-> "print", msg |-> ring[logidx.head]]]
  /\ UNCHANGED <<level, ring, logidx, printed>>

(* ... and only then give its slot back.                                   *)
FlushAdvances(f) ==
  /\ flusher[f].at = "print"
  /\ logidx' = [logidx EXCEPT !.head = LogNextSlot(@)]
  /\ printed' = <<flusher[f].msg>>
  /\ flusher' = [flusher EXCEPT ![f] = Resting]
  /\ UNCHANGED <<level, ring>>

vibe_log_set_level(m, lv) ==
  /\ level' = [level EXCEPT ![m] = lv]
  /\ UNCHANGED <<ring, logidx, flusher, printed>>

LogNext ==
  \/ \E m \in LogModule, lv \in 1..MaxLevel : vibe_log_emit(m, lv)
  \/ \E f \in Flushers : vibe_log_flush(f) \/ FlushAdvances(f)
  \/ \E m \in LogModule, lv \in LogLevel : vibe_log_set_level(m, lv)

LogSpec == vibe_log_init /\ [][LogNext]_logvars

-----------------------------------------------------------------------------
LogPending ==
  [i \in 1..((logidx.tail + LogSlots - logidx.head) % LogSlots) |->
     ring[(logidx.head + i - 1) % LogSlots]]

LogAbstract == INSTANCE Fifo WITH Cap <- LogSlots - 1, q <- LogPending, out <- printed

(* With one flusher, every message that got into the ring is printed       *)
(* exactly once and in order, although vibe_log_flush takes no lock and    *)
(* is interrupted by new messages: what it prints is not overwritten.      *)
LogFifo == LogAbstract!FifoSpec

=============================================================================
