------------------------------ MODULE Coredump ------------------------------
(***************************************************************************)
(* The crash record in memory that a reset leaves alone (subsys/coredump). *)
(* A capture writes the record field by field; a reset, a loss of power, a *)
(* fault inside the capture or a second thread may come between any two    *)
(* fields.  A field is the number of the capture that wrote it; the CRC is *)
(* what it was computed over (crc32_update is taken to be injective).      *)
(***************************************************************************)
EXTENDS Naturals, Sequences

CONSTANTS Asserters,     \* threads that call the assert or overflow capture
          MaxCaptures    \* bound on the captures of a behaviour

ASSUME DumpAssumption == MaxCaptures \in Nat /\ Asserters \cap {"fault", "hard"} = {}

VARIABLES g_coredump,    \* [magic, version, reason, thread, regs, fault_regs, stack, info, crc32];
                         \* thread also says whose name it is; regs is the exception frame
          capture,       \* context -> [at, id, kind]: the step the context is at
          captures,      \* captures begun so far
          clearing,      \* vibe_coredump_clear is between its two stores
          overtaken,     \* ghost: vibe_coredump_clear took the last magic back
          sealed         \* ghost: the capture the record is the result of, or 0

dumpvars == <<g_coredump, capture, captures, clearing, overtaken, sealed>>

(* fault_entry_c spins: what it interrupted never runs again.  A fault     *)
(* inside a MemManage, Bus or UsageFault handler escalates to HardFault.   *)
Handlers == {"fault", "hard"}
Contexts == Asserters \cup Handlers
Active(c) == capture[c].at > 0
MayRun(c) ==
  \/ c = "hard"
  \/ c = "fault" /\ ~Active("hard")
  \/ c \in Asserters /\ ~Active("hard") /\ ~Active("fault")

Steps == <<"prologue", "invalidate", "header", "thread", "regs", "fault_regs",
           "stack", "magic", "crc", "done">>

coredump_crc(r) == <<r.magic, r.version, r.reason, r.thread, r.regs, r.fault_regs,
                     r.stack, r.info>>

vibe_coredump_is_valid(r) == r.magic /\ r.version /\ r.crc32 = coredump_crc(r)

(* The captures that the fields of a valid record's report come from; the  *)
(* assertion is printed if the reason says so.                             *)
vibe_coredump_dump(r) ==
  {r.reason.id, r.thread.by, r.regs, r.fault_regs, r.stack}
    \cup {i \in {r.info} : r.reason.kind = "assert"}

NoCapture == [at |-> 0, id |-> 0, kind |-> "none"]
Quiet == [c \in Contexts |-> NoCapture]

(* .noinit memory after a loss of power: anything, but for a CRC that      *)
(* happens to match.                                                       *)
Garbage ==
  {[magic |-> m, version |-> v, reason |-> [kind |-> "none", id |-> 0],
    thread |-> [by |-> 0, whose |-> "none"],
    regs |-> 0, fault_regs |-> 0, stack |-> 0, info |-> 0, crc32 |-> <<>>] : m, v \in BOOLEAN}

CoredumpInit ==
  /\ g_coredump \in Garbage
  /\ capture = Quiet /\ captures = 0 /\ clearing = FALSE
  /\ overtaken = FALSE /\ sealed = 0

Begins(c, k, kind) ==
  /\ MayRun(c) /\ ~Active(c) /\ captures < MaxCaptures
  /\ captures' = captures + 1
  /\ capture' = [capture EXCEPT ![c] = [at |-> k, id |-> captures + 1, kind |-> kind]]
  /\ UNCHANGED <<g_coredump, clearing, overtaken, sealed>>

(* The naked handlers find the frame and call _vibe_coredump_capture.      *)
FAULT_HANDLER_NAKED(c) == c \in Handlers /\ Begins(c, 2, "fault")

vibe_coredump_capture_assert(c) == c \in Asserters /\ Begins(c, 1, "assert")

vibe_coredump_capture_stack_overflow(c) == c \in Asserters /\ Begins(c, 1, "overflow")

Write_SealsFirst(r, step, id, kind) ==
  CASE step = "prologue"   ->
         IF kind = "assert" THEN [r EXCEPT !.magic = FALSE, !.reason = [kind |-> kind, id |-> id],
                                           !.info = id]
         ELSE [r EXCEPT !.magic = FALSE, !.thread = [by |-> id, whose |-> "named"]]
    [] step = "invalidate" -> [r EXCEPT !.magic = FALSE]
    [] step = "header"     -> [r EXCEPT !.version = TRUE, !.reason = [kind |-> kind, id |-> id]]
    [] step = "thread"     -> [r EXCEPT !.thread = [by |-> id, whose |-> "current"]]
    [] step = "regs"       -> IF kind = "fault" THEN [r EXCEPT !.regs = id] ELSE r
    [] step = "fault_regs" -> [r EXCEPT !.fault_regs = id]
    [] step = "stack"      -> [r EXCEPT !.stack = id]
    [] step = "magic"      -> [r EXCEPT !.crc32 = coredump_crc(r)]
    [] step = "crc"        -> [r EXCEPT !.magic = TRUE]

(* What each step stores.  The thread a stack overflow was reported for is *)
(* overwritten with the current one.  Only a fault has an exception frame; *)
(* without one the registers keep what an earlier capture, or the power-on *)
(* state of the memory, left in them.                                      *)
Write(r, step, id, kind) ==
  CASE step = "prologue"   ->
         IF kind = "assert" THEN [r EXCEPT !.magic = FALSE, !.reason = [kind |-> kind, id |-> id],
                                           !.info = id]
         ELSE [r EXCEPT !.magic = FALSE, !.thread = [by |-> id, whose |-> "named"]]
    [] step = "invalidate" -> [r EXCEPT !.magic = FALSE]
    [] step = "header"     -> [r EXCEPT !.version = TRUE, !.reason = [kind |-> kind, id |-> id]]
    [] step = "thread"     -> [r EXCEPT !.thread = [by |-> id, whose |-> "current"]]
    [] step = "regs"       -> IF kind = "fault" THEN [r EXCEPT !.regs = id] ELSE r
    [] step = "fault_regs" -> [r EXCEPT !.fault_regs = id]
    [] step = "stack"      -> [r EXCEPT !.stack = id]
    [] step = "magic"      -> [r EXCEPT !.magic = TRUE]
    [] step = "crc"        -> [r EXCEPT !.crc32 = coredump_crc(r)]

(* A handler stays at "done" for good; the other captures return.          *)
vibe_coredump_capture(c) ==
  /\ Active(c) /\ MayRun(c) /\ Steps[capture[c].at] # "done"
  /\ LET step == Steps[capture[c].at]
         next == [capture[c] EXCEPT !.at = @ + 1]
     IN  /\ g_coredump' = Write(g_coredump, step, capture[c].id, capture[c].kind)
         /\ capture' = [capture EXCEPT ![c] =
              IF step = "crc" /\ c \in Asserters THEN NoCapture ELSE next]
         /\ sealed' = CASE step = "crc" -> IF overtaken THEN 0 ELSE capture[c].id
                        [] step \in {"prologue", "invalidate"} -> 0
                        [] OTHER -> sealed
         /\ overtaken' = (overtaken /\ step # "magic")
  /\ UNCHANGED <<captures, clearing>>

(* From the shell thread: two stores, each of which may come between any   *)
(* two steps of another thread's capture.  A fault ends it.                *)
vibe_coredump_clear ==
  /\ \A c \in Handlers : ~Active(c)
  /\ g_coredump' = IF clearing THEN [g_coredump EXCEPT !.crc32 = <<>>]
                   ELSE [g_coredump EXCEPT !.magic = FALSE]
  /\ clearing' = ~clearing /\ sealed' = 0
  /\ overtaken' = (overtaken \/ ~clearing)
  /\ UNCHANGED <<capture, captures>>

(* arch_reboot, the watchdog or the reset button, at any moment.           *)
Reset ==
  /\ capture' = Quiet /\ clearing' = FALSE
  /\ UNCHANGED <<g_coredump, captures, overtaken, sealed>>

PowerCut ==
  /\ g_coredump' \in Garbage
  /\ capture' = Quiet /\ clearing' = FALSE /\ sealed' = 0
  /\ UNCHANGED <<captures, overtaken>>

CoredumpNext ==
  \/ \E c \in Contexts : \/ FAULT_HANDLER_NAKED(c) \/ vibe_coredump_capture(c)
                         \/ vibe_coredump_capture_assert(c)
                         \/ vibe_coredump_capture_stack_overflow(c)
  \/ vibe_coredump_clear \/ Reset \/ PowerCut

CoredumpSpec == CoredumpInit /\ [][CoredumpNext]_dumpvars
-----------------------------------------------------------------------------
(* A record is accepted at the next boot exactly if a capture completed    *)
(* and nothing has begun to overwrite, clear or lose it since it stored    *)
(* the magic: a reset between the magic and the CRC, in the middle of a    *)
(* later capture or of vibe_coredump_clear, and a clear that overtakes a   *)
(* capture leave nothing valid; a reset after the seal loses nothing.      *)
ValidIffSealed == vibe_coredump_is_valid(g_coredump) <=> sealed # 0

(* The report describes one crash: with one asserting thread, what the     *)
(* capture stores comes from one capture, however often captures were cut  *)
(* short, cleared or interrupted by faults of their own.  The registers of *)
(* an assertion or a stack overflow are not stored, and not claimed.       *)
RecordWhole ==
  vibe_coredump_is_valid(g_coredump) =>
    vibe_coredump_dump(
      [g_coredump EXCEPT !.regs = IF g_coredump.reason.kind = "fault" THEN @ ELSE sealed])
    = {sealed}

(* What the documentation says beyond this, and the code does not do: the  *)
(* registers of an assertion or a stack overflow are zero                  *)
(* ("Capture with zeroed registers", vibe_coredump_capture_assert), where  *)
(* the record keeps those of an earlier fault...                           *)
RegistersZeroed ==
  vibe_coredump_is_valid(g_coredump) /\ g_coredump.reason.kind # "fault" => g_coredump.regs = 0

(* ...and the report of a stack overflow names the thread that             *)
(* vibe_coredump_capture_stack_overflow was given, where it names the      *)
(* current one.                                                            *)
OverflowNamed ==
  vibe_coredump_is_valid(g_coredump) /\ g_coredump.reason.kind = "overflow"
    => g_coredump.thread.whose = "named"

(* The next boot accepts complete records only, and of one crash each      *)
(* (vibe_coredump_is_valid; both parts above).                             *)
CrashRecord == ValidIffSealed /\ RecordWhole

=============================================================================
