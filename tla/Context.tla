------------------------------ MODULE Context -------------------------------
(***************************************************************************)
(* Stacks, exception frames and PendSV: where the registers of a thread    *)
(* are while it does not run.  Addresses count words; a doubleword         *)
(* boundary is an even address.  The stack buffers lie in one memory, so   *)
(* that writing past the end of one is seen in another.                    *)
(***************************************************************************)
EXTENDS Integers, Sequences

CONSTANTS ThreadId, NoThread,
          StackBase, StackSize,   \* thread -> first word and number of words
          MemTop,                 \* the memory is the words 0..MemTop
          MaxPhase,               \* bound: how often a thread changes its registers
          CONFIG_TLS              \* vibe_event_wait keeps its context at thread->tls

ASSUME ContextAssumption ==
  /\ NoThread \notin ThreadId /\ CONFIG_TLS \in BOOLEAN /\ MemTop \in Nat /\ MaxPhase \in Nat
  /\ \A t \in ThreadId : /\ StackBase[t] \in Nat /\ StackSize[t] \in Nat
                         /\ StackBase[t] + StackSize[t] <= MemTop + 1

VARIABLES mem,                    \* address -> cell
          stack_ptr, tls,         \* two fields of the TCBs; tls = -1: NULL
          cpu,                    \* [caller, callee, psp]: the registers
          cpu_mode,               \* "main", "thread", or in an exception: "isr", "pendsv"
          g_arch_running_sp_loc, g_arch_next_sp_loc,   \* as the threads they point into
          pendsvset,              \* ICSR.PENDSVSET
          phase, locals,          \* thread -> what it is computing, words it pushed
          left                    \* ghost: thread -> cpu as it was when it last ran

ctxvars == <<mem, stack_ptr, tls, cpu, cpu_mode, g_arch_running_sp_loc,
             g_arch_next_sp_loc, pendsvset, phase, locals, left>>

(* A value belongs to a thread, or to none; pad is bit 9 of a stacked xPSR. *)
Cell(t, v) == [who |-> t, val |-> v, pad |-> FALSE]
Const(v) == Cell(NoThread, v)
Thumb == Const(16)
ThreadExit == Const(17)
Canary == Const(18)
Scratch == Const(19)
Entry(t) == Cell(t, 20)
Arg(t) == Cell(t, 21)
WaitCtx(t) == Cell(t, 22)
Local(t, i) == Cell(t, 30 + i)
Live(t, p, r) == Cell(t, 40 + 16 * p + r)

Load(m, a, n) == [i \in 1..n |-> m[a + i - 1]]
Store(m, a, cells) ==
  [x \in DOMAIN m |-> IF x \in a..(a + Len(cells) - 1) THEN cells[x - a + 1] ELSE m[x]]

Started == {t \in ThreadId : stack_ptr[t] >= 0}
AlignDown(a) == a - (a % 2)
StackTop(t) == AlignDown(StackBase[t] + StackSize[t])

(* The hardware's frame: R0-R3, R12, LR, PC, xPSR.  The other registers    *)
(* that PendSV keeps: R4-R11.                                              *)
FirstFrame(t) == <<Arg(t), Const(1), Const(2), Const(3), Const(12), ThreadExit, Entry(t), Thumb>>
Zeros == [i \in 1..8 |-> Const(0)]

arch_thread_stack_init(m, t) ==
  Store(Store(m, StackTop(t) - 8, FirstFrame(t)), StackTop(t) - 16, Zeros)

thread_stack_setup(m, t) == arch_thread_stack_init(Store(m, StackBase[t], <<Canary>>), t)

ContextInit ==
  /\ mem = [a \in 0..MemTop |-> Const(0)]
  /\ stack_ptr = [t \in ThreadId |-> -1] /\ tls = [t \in ThreadId |-> -1]
  /\ cpu = [caller |-> Zeros, callee |-> Zeros, psp |-> 0] /\ cpu_mode = "main"
  /\ g_arch_running_sp_loc = NoThread /\ g_arch_next_sp_loc = NoThread /\ pendsvset = FALSE
  /\ phase = [t \in ThreadId |-> 0] /\ locals = [t \in ThreadId |-> 0]
  /\ left = [t \in ThreadId |-> cpu]

(* The part of vibe_thread_create that is about the stack.                 *)
vibe_thread_create(t) ==
  /\ cpu_mode \in {"main", "thread"} /\ t \notin Started
  /\ mem' = thread_stack_setup(mem, t)
  /\ stack_ptr' = [stack_ptr EXCEPT ![t] = StackTop(t) - 16]
  /\ tls' = IF CONFIG_TLS THEN [tls EXCEPT ![t] = StackBase[t] + StackSize[t] - 1] ELSE tls
  /\ left' = [left EXCEPT ![t] =
       [caller |-> FirstFrame(t), callee |-> Zeros, psp |-> StackTop(t)]]
  /\ UNCHANGED <<cpu, cpu_mode, g_arch_running_sp_loc, g_arch_next_sp_loc, pendsvset,
                 phase, locals>>

(* From main, a thread or a handler, also one that interrupts PendSV       *)
(* before its first instruction masks interrupts.                          *)
arch_switch_to(to) ==
  /\ to \in Started
  /\ g_arch_next_sp_loc' = to /\ pendsvset' = TRUE
  /\ UNCHANGED <<mem, stack_ptr, tls, cpu, cpu_mode, g_arch_running_sp_loc, phase, locals, left>>
-----------------------------------------------------------------------------
(* What a thread does: it computes, pushes and pops.  The least it may     *)
(* leave free is a frame, its padding, and what PendSV saves, over the     *)
(* canary.                                                                 *)
Running == g_arch_running_sp_loc
Reserve == 8 + 1 + 8 + 1

Compute ==
  /\ cpu_mode = "thread" /\ phase[Running] < MaxPhase
  /\ phase' = [phase EXCEPT ![Running] = @ + 1]
  /\ cpu' = [cpu EXCEPT
       !.caller = [r \in 1..8 |-> IF r = 8 THEN Thumb ELSE Live(Running, phase'[Running], r)],
       !.callee = [r \in 1..8 |-> Live(Running, phase'[Running], 8 + r)]]
  /\ UNCHANGED <<mem, stack_ptr, tls, cpu_mode, g_arch_running_sp_loc, g_arch_next_sp_loc,
                 pendsvset, locals, left>>

Push ==
  /\ cpu_mode = "thread" /\ cpu.psp - 1 >= StackBase[Running] + Reserve
  /\ mem' = Store(mem, cpu.psp - 1, <<Local(Running, locals[Running] + 1)>>)
  /\ cpu' = [cpu EXCEPT !.psp = @ - 1]
  /\ locals' = [locals EXCEPT ![Running] = @ + 1]
  /\ UNCHANGED <<stack_ptr, tls, cpu_mode, g_arch_running_sp_loc, g_arch_next_sp_loc,
                 pendsvset, phase, left>>

Pop ==
  /\ cpu_mode = "thread" /\ locals[Running] > 0
  /\ cpu' = [cpu EXCEPT !.psp = @ + 1]
  /\ locals' = [locals EXCEPT ![Running] = @ - 1]
  /\ UNCHANGED <<mem, stack_ptr, tls, cpu_mode, g_arch_running_sp_loc, g_arch_next_sp_loc,
                 pendsvset, phase, left>>

(* vibe_event_wait stores three words through thread->tls.                 *)
StoreWaitContext ==
  /\ cpu_mode = "thread" /\ tls[Running] >= 0
  /\ mem' = Store(mem, tls[Running], [i \in 1..3 |-> WaitCtx(Running)])
  /\ UNCHANGED <<stack_ptr, tls, cpu, cpu_mode, g_arch_running_sp_loc, g_arch_next_sp_loc,
                 pendsvset, phase, locals, left>>
-----------------------------------------------------------------------------
(* The hardware stacks a frame on the stack in use, at a doubleword        *)
(* boundary; handlers then use the caller's registers.  Main is on MSP.    *)
Interrupt ==
  /\ cpu_mode \in {"main", "thread"}
  /\ cpu_mode' = "isr"
  /\ IF cpu_mode = "main" THEN UNCHANGED <<mem, cpu, left>>
     ELSE LET frame == AlignDown(cpu.psp - 8)
          IN  /\ mem' = Store(mem, frame,
                          [cpu.caller EXCEPT ![8].pad = (frame + 8 # cpu.psp)])
              /\ cpu' = [cpu EXCEPT !.psp = frame, !.caller = [r \in 1..8 |-> Scratch]]
              /\ left' = [left EXCEPT ![Running] = cpu]
  /\ UNCHANGED <<stack_ptr, tls, g_arch_running_sp_loc, g_arch_next_sp_loc, pendsvset,
                 phase, locals>>

(* Of the lowest priority: taken or tail-chained when no other handler is. *)
EnterPendSV ==
  /\ cpu_mode = "isr" /\ pendsvset
  /\ cpu_mode' = "pendsv" /\ pendsvset' = FALSE
  /\ UNCHANGED <<mem, stack_ptr, tls, cpu, g_arch_running_sp_loc, g_arch_next_sp_loc,
                 phase, locals, left>>

Low(c) == SubSeq(c, 1, 4)
High(c) == SubSeq(c, 5, 8)

(* Save at the given offsets below PSP, restore the thread chosen last,    *)
(* and note whose context is on the CPU; the first switch saves nothing.   *)
Switches(low, high, runs) ==
  /\ cpu_mode = "pendsv"
  /\ LET from  == g_arch_running_sp_loc
         to    == g_arch_next_sp_loc
         saved == IF from = NoThread THEN mem
                  ELSE Store(Store(mem, cpu.psp - low, Low(cpu.callee)),
                             cpu.psp - high, High(cpu.callee))
         sps   == IF from = NoThread THEN stack_ptr ELSE [stack_ptr EXCEPT ![from] = cpu.psp - 8]
     IN  /\ mem' = saved /\ stack_ptr' = sps
         /\ cpu' = [cpu EXCEPT !.callee = Load(saved, sps[to] + 4, 4) \o Load(saved, sps[to], 4),
                               !.psp = sps[to] + 8]
  /\ g_arch_running_sp_loc' = runs
  /\ cpu_mode' = "isr"
  /\ UNCHANGED <<tls, g_arch_next_sp_loc, pendsvset, phase, locals, left>>

PendSV_KeepsRunning ==
  Switches(4, 8, IF Running = NoThread THEN g_arch_next_sp_loc ELSE Running)

(* R4-R7 go just below the frame, R8-R11 below them.  Interrupts are       *)
(* masked throughout.                                                      *)
PendSV_Handler == Switches(4, 8, g_arch_next_sp_loc)

(* The hardware takes the frame off again, with its padding.               *)
ReturnFromException ==
  /\ cpu_mode = "isr" /\ ~pendsvset
  /\ IF Running = NoThread THEN cpu_mode' = "main" /\ UNCHANGED cpu
     ELSE LET frame == Load(mem, cpu.psp, 8)
          IN  /\ cpu_mode' = "thread"
              /\ cpu' = [cpu EXCEPT !.caller = [frame EXCEPT ![8].pad = FALSE],
                                    !.psp = @ + 8 + (IF frame[8].pad THEN 1 ELSE 0)]
  /\ UNCHANGED <<mem, stack_ptr, tls, g_arch_running_sp_loc, g_arch_next_sp_loc, pendsvset,
                 phase, locals, left>>

ContextNext ==
  \/ \E t \in ThreadId : vibe_thread_create(t) \/ arch_switch_to(t)
  \/ Compute \/ Push \/ Pop \/ StoreWaitContext
  \/ Interrupt \/ EnterPendSV \/ PendSV_Handler \/ ReturnFromException

ContextSpec == ContextInit /\ [][ContextNext]_ctxvars
-----------------------------------------------------------------------------
(* A thread that goes on finds every register and its stack pointer as it  *)
(* left them, or on its first run its argument, its entry point and the    *)
(* exit trampoline; however many switches were asked for while it was      *)
(* away, merged into one PendSV, or asked for inside PendSV.  The thread   *)
(* that goes on is the one asked for last.                                 *)
ContextKept ==
  [][cpu_mode # "thread" /\ cpu_mode' = "thread" =>
       cpu' = left[Running'] /\ Running' = g_arch_next_sp_loc]_ctxvars

(* Saving contexts writes over nobody's data: as long as a thread leaves   *)
(* Reserve words free, the words it pushed and every canary stay as they   *)
(* are, whoever is interrupted or switched at whatever depth.              *)
StacksKept ==
  \A t \in Started :
    /\ mem[StackBase[t]] = Canary
    /\ \A i \in 1..locals[t] : mem[StackTop(t) - i] = Local(t, i)

(* PendSV gives back the registers it saved, and saving them overwrites    *)
(* nobody's stack (ContextKept, StacksKept).                               *)
ContextsSurvive == []StacksKept /\ ContextKept

=============================================================================
