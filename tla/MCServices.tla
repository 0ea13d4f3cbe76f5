----------------------------- MODULE MCServices -----------------------------
(***************************************************************************)
(* Stacks, memory protection, the libraries, formatting, logging, RTT, the *)
(* shell and the crash record for TLC: every behaviour is about one of     *)
(* them, so that the state space is the sum and not the product.           *)
(***************************************************************************)
EXTENDS Context, Mpu, RingBuffer, FitHeap, Tlsf, JobScheduler,
        Printk, Log, Rtt, Shell, Coredump

CONSTANT Parts      \* the parts this instance looks at

VARIABLE part

archvars == <<ctxvars, mpuvars>>
libvars == <<rbvars, heapvars, tlsfvars, jobvars>>
vars == <<part, archvars, libvars, fmtvars, logvars, rttvars, shellvars, dumpvars>>

OneOf(S) == CHOOSE x \in S : TRUE

(* Where two stacks lie.  Apart: each has an odd number of words, so that  *)
(* the word at thread->tls is above the first frame, and two free words    *)
(* follow it.  Adjacent: two arrays whose sizes are multiples of 8 bytes.  *)
Of(x, y) == [t \in ThreadId |-> IF t = OneOf(ThreadId) THEN x ELSE y]
ApartBase == Of(0, 24)
ApartSize == Of(21, 19)
AdjacentBase == Of(0, 20)
AdjacentSize == Of(20, 18)

(* A read-only region with two guards and a stack in it, and addresses on  *)
(* both sides of every bound.                                              *)
Described(b, n, ap, x) == [base_addr |-> b, size_bytes |-> n, ap |-> ap, execute |-> x]
FourRegions == {Described(0, 128, "ro", TRUE), Described(64, 64, "rw", FALSE),
                Described(32, 32, "none", FALSE), Described(96, 32, "none", FALSE)}
Bounds == {0, 31, 32, 63, 64, 95, 96, 127, 128}

(* A product that fits, and one that does not fit into a byte.             *)
TwoCallocs == {<<2, 10>>, <<13, 20>>}

(* Two coroutines: one that yields and then waits for a condition, one     *)
(* that waits for a child which waits and yields.                          *)
TwoBodies == {<<"yield", "await">>, <<"await_coro">>}
WaitThenYield == <<"await", "yield">>

(* Every word of six bits in every base, and strings around two of them.   *)
Numerals == [dir : {"u", "x"}, arg : 0..63] \cup [dir : {"d"}, arg : -32..31]
Texts == [dir : {"lit", "s"}, arg : {<<>>, <<30>>, <<30, 31, 30>>}]
SomeFormats ==
  {<<n>> : n \in Numerals} \cup
  {<<p, n, q>> : p, q \in Texts, n \in {[dir |-> "d", arg |-> -32], [dir |-> "u", arg |-> 0]}}

(* Where there are resets the bytes are the same, which no statistic       *)
(* depends on, and move one at a time.                                     *)
OneByte == producer'.data \in {<<>>, <<OneOf(RbByte)>>} /\ consumer'.n <= 1

(* The parts the behaviour is not about have one initial state.            *)
About(s, fixed) == part = s \/ (part # s /\ fixed)

Init ==
  /\ part \in Parts
  /\ ContextInit /\ MpuReset /\ vibe_rb_init /\ TlsfInit /\ vibe_job_sched_init /\ RttBoot /\ vibe_shell_init
  /\ About("fit", fit = "first") /\ HeapInit
  /\ About("printk", todo = OneOf(Formats) /\ size = OneOf(BufSizes)) /\ FmtInit
  /\ About("log", level = [m \in LogModule |-> 0]) /\ vibe_log_init
  /\ About("coredump", g_coredump = OneOf(Garbage)) /\ CoredumpInit

InArch(s, A) == part = s /\ A
  /\ UNCHANGED <<part, libvars, fmtvars, logvars, rttvars, shellvars, dumpvars>>
InLib(s, A) == part = s /\ A
  /\ UNCHANGED <<part, archvars, fmtvars, logvars, rttvars, shellvars, dumpvars>>
InFmt(A) == part = "printk" /\ A
  /\ UNCHANGED <<part, archvars, libvars, logvars, rttvars, shellvars, dumpvars>>
InLog(A) == part = "log" /\ A
  /\ UNCHANGED <<part, archvars, libvars, fmtvars, rttvars, shellvars, dumpvars>>
InRtt(s, A) == part = s /\ A
  /\ UNCHANGED <<part, archvars, libvars, fmtvars, logvars, shellvars, dumpvars>>
InShell(A) == part = "shell" /\ A
  /\ UNCHANGED <<part, archvars, libvars, fmtvars, logvars, rttvars, dumpvars>>
InDump(A) == part = "coredump" /\ A
  /\ UNCHANGED <<part, archvars, libvars, fmtvars, logvars, rttvars, shellvars>>

JobsDo(A) == InLib("jobs", A /\ UNCHANGED <<rbvars, heapvars, tlsfvars>>)

Next ==
  \/ InArch("context", ContextNext /\ UNCHANGED mpuvars)
  \/ InArch("mpu", MpuNext /\ UNCHANGED ctxvars)
  \/ InLib("ring", RbTransfer /\ UNCHANGED <<heapvars, tlsfvars, jobvars>>)
  \/ InLib("rb_stats", RbNext /\ OneByte /\ UNCHANGED <<heapvars, tlsfvars, jobvars>>)
  \/ InLib("fit", FitNext /\ UNCHANGED <<rbvars, tlsfvars, jobvars>>)
  \/ InLib("tlsf", TlsfNext /\ UNCHANGED <<rbvars, heapvars, jobvars>>)
  \/ JobsDo(JobNext)
  \/ InFmt(FmtNext) \/ InLog(LogNext)
  \/ InRtt("rtt_up", RttUpNext) \/ InRtt("rtt_down", RttDownNext)
  \/ InShell(ShellNext) \/ InDump(CoredumpNext)

Spec == Init /\ [][Next]_vars

(* The task that calls vibe_sched_run goes on calling it, bodies return,   *)
(* and what they wait for comes true.                                      *)
FairSpec == Spec /\ WF_vars(JobsDo(JobStep)) /\ WF_vars(JobsDo(ConditionHolds))

=============================================================================
