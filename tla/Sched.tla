-------------------------------- MODULE Sched --------------------------------
(***************************************************************************)
(* The scheduler core of VibeRTOS on one Cortex-M CPU: run queues, sleep   *)
(* list and reschedule decision (kernel/sched.c), thread life cycle        *)
(* (kernel/thread.c), boot and tick handler (kernel/init.c), and the       *)
(* deferred context switch (arch/arm/cortex_m/core).                       *)
(*                                                                         *)
(* Granularity.  A section of code between arch_irq_lock and               *)
(* arch_irq_unlock is one step: nothing can interrupt it.  Whatever lies   *)
(* between two such sections is a place pc[t] where the tick interrupt,    *)
(* and through it any other thread, may come in.  The two loops over the   *)
(* sleep list take one step per iteration (cursor is their loop node);     *)
(* the interrupt stays masked, or the handler active, throughout.          *)
(*                                                                         *)
(* `running' is the thread whose registers are on the CPU; the code asks   *)
(* vibe_thread_self(), which returns g_current_thread.  The two differ     *)
(* from the moment a reschedule picks a thread until PendSV runs.          *)
(***************************************************************************)
EXTENDS RunQueue, FiniteSets

CONSTANTS Thread,            \* the thread control blocks
          PrioMax,           \* VIBE_PRIO_MAX
          HZ,                \* CONFIG_SYS_CLOCK_HZ
          TimesliceMs,       \* CONFIG_TIMESLICE_MS
          MaxSleepMs,        \* bound: longest vibe_thread_sleep
          TickLimit,         \* bound: the clock stops here; UINT32 for never
          MaxLock,           \* bound: nesting of vibe_sched_lock
          Uses               \* which uses of the API the application makes

(* The uses of the API that break the scheduler's own bookkeeping.  Each   *)
(* is a call that the headers allow; a discipline avoids them all.         *)
Hazardous == {"suspend_sleeping", "delete_sleeping", "restart_self",
              "set_priority_running", "block_locked"}

ASSUME SchedAssumption ==
  /\ IsFiniteSet(Thread) /\ NULL \notin Thread /\ Idle \in Thread
  /\ PrioMax \in Nat /\ HZ \in Nat /\ TimesliceMs \in Nat
  /\ MaxSleepMs \in Nat /\ TickLimit \in Nat /\ MaxLock \in Nat

VARIABLES
  state, priority, base_priority, timeout,    \* fields of the TCBs
  runq,                 \* .lists: g_run_queues with their sched_nodes;
                        \* .mask: g_ready_mask, as a set of priorities
  sleepq,               \* g_sleep_list with sleep_node
  g_current_thread, g_sched_lock_count, g_tick_count, slice_left,
  running,              \* g_arch_running_sp_loc: whose registers are live
  next_sp,              \* g_arch_next_sp_loc: whom PendSV will restore
  pendsv,               \* PendSV is pending
  isr,                  \* where SysTick_Handler is, "none" outside it
  cursor,               \* loop node of the walk over the sleep list
  pc,                   \* where each thread is in the kernel
  arg, expiry,          \* local variables of the call in progress
  boot,                 \* where vibe_init is
  left                  \* ghost: ticks a sleeper still has to sleep

tcb    == <<state, priority, base_priority, timeout>>
cpu    == <<g_current_thread, next_sp, pendsv>>
clock  == <<g_tick_count, slice_left, isr>>
locals == <<pc, arg, expiry>>
vars   == <<tcb, runq, sleepq, cpu, g_sched_lock_count, clock, running,
            cursor, locals, boot, left>>

Prio == 0..PrioMax
App  == Thread \ {Idle}
ThreadState == {"NEW", "READY", "RUNNING", "SUSPENDED", "SLEEPING",
                "WAITING", "DEAD"}
SleepList == "g_sleep_list"

(* In the scheduler's eyes: linked into a run queue.                       *)
Queued(s) == s \in {"READY", "RUNNING"}

VIBE_MS_TO_TICKS(ms) == ((ms * HZ) \div 1000) % UINT32

SliceTicks == VIBE_MS_TO_TICKS(TimesliceMs)

-----------------------------------------------------------------------------
(* kernel/sched.c: the decision to switch                                  *)

(* arch_switch_to publishes the choice and pends PendSV.                   *)
arch_switch_to(t) == next_sp' = t /\ pendsv' = TRUE

Switch_WithPrevReady(next) ==
  /\ g_current_thread' = next
  /\ state' = [state EXCEPT ![next] = "RUNNING"]
  /\ arch_switch_to(next)

(* The switching branch of _vibe_sched_reschedule.                         *)
SwitchTo(next) ==
  /\ g_current_thread' = next
  /\ state' = [t \in Thread |->
       IF t = next THEN "RUNNING"
       ELSE IF t = g_current_thread /\ state[t] = "RUNNING" THEN "READY"
       ELSE state[t]]
  /\ arch_switch_to(next)

Reschedule_IgnoresLock ==
  LET next == vibe_sched_next_thread(runq)
  IN  IF next = g_current_thread THEN UNCHANGED <<state, cpu>>
      ELSE SwitchTo(next)

vibe_sched_reschedule ==
  LET next == vibe_sched_next_thread(runq)
  IN  IF g_sched_lock_count > 0 \/ next = g_current_thread
      THEN UNCHANGED <<state, cpu>>
      ELSE SwitchTo(next)

-----------------------------------------------------------------------------
(* Boot.  Init is vibe_init after it has created the idle thread.          *)

Init ==
  /\ state = [t \in Thread |-> IF t = Idle THEN "READY" ELSE "NEW"]
  /\ priority = [t \in Thread |-> 0]
  /\ base_priority = [t \in Thread |-> 0]
  /\ timeout = [t \in Thread |-> 0]
  /\ runq = vibe_sched_enqueue(
              [lists |-> EmptyLists(Prio, Thread), mask |-> {}], Idle, 0)
  /\ sleepq = EmptyLists({SleepList}, Thread)
  /\ g_current_thread = NULL
  /\ g_sched_lock_count = 0
  /\ g_tick_count = 0
  /\ slice_left = SliceTicks
  /\ running = NULL
  /\ next_sp = NULL
  /\ pendsv = FALSE
  /\ isr = "none"
  /\ cursor = NULL
  /\ pc = [t \in Thread |-> "run"]
  /\ arg = [t \in Thread |-> NULL]
  /\ expiry = [t \in Thread |-> 0]
  /\ boot = "create"
  /\ left = [t \in Thread |-> 0]

(* The start-up code runs on the main stack until the first PendSV.        *)
StartupRuns == running = NULL /\ ~pendsv /\ isr = "none"

arch_systick_init ==
  /\ StartupRuns /\ boot = "create"
  /\ boot' = "systick"
  /\ UNCHANGED <<tcb, runq, sleepq, cpu, g_sched_lock_count, clock, running,
                 cursor, locals, left>>

(* vibe_sched_start runs with interrupts enabled: the tick may come        *)
(* between the choice of the first thread, the mark and the switch to it.  *)
vibe_sched_start ==
  /\ StartupRuns /\ boot = "systick"
  /\ boot' = "selected"
  /\ g_current_thread' = vibe_sched_next_thread(runq)
  /\ UNCHANGED <<tcb, runq, sleepq, next_sp, pendsv, g_sched_lock_count,
                 clock, running, cursor, locals, left>>

vibe_sched_start_running ==
  /\ StartupRuns /\ boot = "selected"
  /\ boot' = "marked"
  /\ state' = [state EXCEPT ![g_current_thread] = "RUNNING"]
  /\ UNCHANGED <<priority, base_priority, timeout, runq, sleepq, cpu,
                 g_sched_lock_count, clock, running, cursor, locals, left>>

vibe_sched_start_switch ==
  /\ StartupRuns /\ boot = "marked"
  /\ boot' = "started"
  /\ arch_switch_to(g_current_thread)
  /\ UNCHANGED <<tcb, runq, sleepq, g_current_thread, g_sched_lock_count,
                 clock, running, cursor, locals, left>>

-----------------------------------------------------------------------------
(* Exceptions                                                              *)

PendSV_Forgets ==
  /\ pendsv /\ isr = "none"
  /\ pendsv' = FALSE
  /\ running' = IF running = NULL THEN next_sp ELSE running
  /\ UNCHANGED <<tcb, runq, sleepq, g_current_thread, next_sp,
                 g_sched_lock_count, clock, cursor, locals, boot, left>>

(* PendSV has the lowest priority: it waits for the tick handler, and for  *)
(* interrupts to be unmasked.                                              *)
PendSV_Handler ==
  /\ pendsv /\ isr = "none"
  /\ pendsv' = FALSE
  /\ running' = next_sp
  /\ UNCHANGED <<tcb, runq, sleepq, g_current_thread, next_sp,
                 g_sched_lock_count, clock, cursor, locals, boot, left>>

IrqMasked == \E t \in Thread : pc[t] = "scan"

(* SysTick_Handler -> _vibe_sys_tick_handler, up to the wake loop.  The    *)
(* software timers, which the handler runs here, share no state with the   *)
(* scheduler.                                                              *)
TickEnter ==
  /\ isr = "none" /\ ~IrqMasked /\ boot # "create"
  /\ g_tick_count < TickLimit
  /\ g_tick_count' = (g_tick_count + 1) % UINT32
  /\ left' = [t \in Thread |-> IF left[t] > 0 THEN left[t] - 1 ELSE 0]
  /\ isr' = "wake"
  /\ cursor' = sleepq.head[SleepList]
  /\ UNCHANGED <<tcb, runq, sleepq, cpu, g_sched_lock_count, slice_left,
                 running, locals, boot>>

Expired_Strict(t) == timeout[t] < g_tick_count

(* The loop condition of _vibe_sched_wake_expired.                         *)
Expired(t) == timeout[t] <= g_tick_count

WakeExpired ==
  /\ isr = "wake" /\ cursor # NULL /\ Expired(cursor)
  /\ cursor' = sleepq.next[cursor]
  /\ sleepq' = vibe_list_remove(sleepq, SleepList, cursor)
  /\ runq' = vibe_sched_enqueue(runq, cursor, priority[cursor])
  /\ state' = [state EXCEPT ![cursor] = "READY"]
  /\ left' = [left EXCEPT ![cursor] = 0]
  /\ UNCHANGED <<priority, base_priority, timeout, cpu, g_sched_lock_count,
                 clock, running, locals, boot>>

WakeDone ==
  /\ isr = "wake" /\ ~(cursor # NULL /\ Expired(cursor))
  /\ cursor' = NULL
  /\ isr' = "slice"
  /\ UNCHANGED <<tcb, runq, sleepq, cpu, g_sched_lock_count, g_tick_count,
                 slice_left, running, locals, boot, left>>

Rotate_NeedsThree(cur) == runq.lists.count[priority[cur]] > 2

(* Another thread is ready at the priority of the current one.             *)
RotationDue(cur) == runq.lists.count[priority[cur]] > 1

vibe_sched_timeslice_tick ==
  LET cur == g_current_thread
  IN  /\ isr = "slice"
      /\ isr' = "resched"
      /\ IF TimesliceMs = 0 \/ cur = NULL \/ state[cur] # "RUNNING"
         THEN UNCHANGED <<state, runq, slice_left>>
         ELSE IF slice_left > 1
         THEN /\ slice_left' = slice_left - 1
              /\ UNCHANGED <<state, runq>>
         ELSE /\ slice_left' = SliceTicks
              /\ IF RotationDue(cur)
                 THEN /\ runq' = vibe_sched_enqueue(
                            vibe_sched_dequeue(runq, cur, priority[cur]),
                            cur, priority[cur])
                      /\ state' = [state EXCEPT ![cur] = "READY"]
                 ELSE UNCHANGED <<state, runq>>
      /\ UNCHANGED <<priority, base_priority, timeout, sleepq, cpu,
                     g_sched_lock_count, g_tick_count, running, cursor,
                     locals, boot, left>>

TickResched_Forgotten ==
  /\ isr = "resched"
  /\ isr' = "none"
  /\ UNCHANGED <<tcb, cpu, runq, sleepq, g_sched_lock_count, g_tick_count,
                 slice_left, running, cursor, locals, boot, left>>

(* The end of the tick handler.                                            *)
TickResched ==
  /\ isr = "resched"
  /\ isr' = "none"
  /\ vibe_sched_reschedule
  /\ UNCHANGED <<priority, base_priority, timeout, runq, sleepq,
                 g_sched_lock_count, g_tick_count, slice_left, running,
                 cursor, locals, boot, left>>

-----------------------------------------------------------------------------
(* Thread context                                                          *)

(* The running thread executes instructions, at place l of the kernel.     *)
At(l) == running # NULL /\ ~pendsv /\ isr = "none" /\ pc[running] = l

Goto(l) == pc' = [pc EXCEPT ![running] = l]

(* The running thread calls the API.  The idle thread only waits for       *)
(* interrupts (kernel/idle.c).                                             *)
Call(use) == use \in Uses /\ running # Idle /\ At("run")

(* A discipline of the application: never block with the scheduler locked. *)
MayBlock == g_sched_lock_count = 0 \/ "block_locked" \in Uses

(* _vibe_sched_reschedule as the last thing a call does.                   *)
Resched ==
  /\ At("resched") \/ At("exit")
  /\ vibe_sched_reschedule
  /\ Goto(IF pc[running] = "exit" THEN "spin" ELSE "run")
  /\ UNCHANGED <<priority, base_priority, timeout, runq, sleepq,
                 g_sched_lock_count, clock, running, cursor, arg, expiry,
                 boot, left>>

(* vibe_thread_create, by a thread or by vibe_init (work queue thread,     *)
(* application start-up).  It does not reschedule.  A dead thread's block  *)
(* may be reused.                                                          *)
vibe_thread_create(t, p) ==
  /\ Call("create") \/ (StartupRuns /\ boot = "create")
  /\ state[t] \in {"NEW", "DEAD"}
  /\ priority' = [priority EXCEPT ![t] = p]
  /\ base_priority' = [base_priority EXCEPT ![t] = p]
  /\ timeout' = [timeout EXCEPT ![t] = 0]
  /\ sleepq' = vibe_list_node_init(sleepq, t)
  /\ runq' = vibe_sched_enqueue(
             [runq EXCEPT !.lists = vibe_list_node_init(@, t)], t, p)
  /\ state' = [state EXCEPT ![t] = "READY"]
  /\ pc' = [pc EXCEPT ![t] = "run"]
  /\ arg' = [arg EXCEPT ![t] = NULL]
  /\ expiry' = [expiry EXCEPT ![t] = 0]
  /\ left' = [left EXCEPT ![t] = 0]
  /\ UNCHANGED <<cpu, g_sched_lock_count, clock, running, cursor, boot>>

Unlink_OnlyReady(t) ==
  runq' = IF state[t] = "READY"
          THEN vibe_sched_dequeue(runq, t, priority[t]) ELSE runq

(* "if (state == READY || state == RUNNING) _vibe_sched_dequeue(thread)"   *)
Unlink(t) ==
  runq' = IF Queued(state[t])
          THEN vibe_sched_dequeue(runq, t, priority[t]) ELSE runq

(* The common part of delete and suspend: the thread leaves the run queue  *)
(* in state s, and the caller reschedules at place l if it is its own.     *)
Stop(t, s, l) ==
  /\ Unlink(t)
  /\ state' = [state EXCEPT ![t] = s]
  /\ Goto(IF t = g_current_thread THEN l ELSE "run")
  /\ t = g_current_thread => MayBlock
  /\ UNCHANGED <<priority, base_priority, timeout, sleepq, cpu,
                 g_sched_lock_count, clock, running, cursor, arg, expiry,
                 boot, left>>

vibe_thread_delete(t) ==
  /\ Call("delete")
  /\ state[t] # "NEW"
  /\ state[t] = "SLEEPING" => "delete_sleeping" \in Uses
  /\ Stop(t, "DEAD", "resched")

(* _vibe_thread_exit: the entry function returns.                          *)
vibe_thread_exit ==
  /\ Call("exit")
  /\ Stop(g_current_thread, "DEAD", "exit")

vibe_thread_suspend(t) ==
  /\ Call("suspend")
  /\ state[t] \notin {"NEW", "DEAD"}
  /\ state[t] = "SLEEPING" => "suspend_sleeping" \in Uses
  /\ Stop(t, "SUSPENDED", "resched")

vibe_thread_resume(t) ==
  /\ Call("resume")
  /\ state[t] = "SUSPENDED"
  /\ runq' = vibe_sched_enqueue(runq, t, priority[t])
  /\ state' = [state EXCEPT ![t] = "READY"]
  /\ arg' = [arg EXCEPT ![running] = t]
  /\ Goto("resume")
  /\ UNCHANGED <<priority, base_priority, timeout, sleepq, cpu,
                 g_sched_lock_count, clock, running, cursor, expiry, boot,
                 left>>

(* "if (thread->priority > self->priority)", outside the lock.             *)
ResumeCheck ==
  /\ At("resume")
  /\ Goto(IF priority[arg[running]] > priority[g_current_thread]
          THEN "resched" ELSE "run")
  /\ arg' = [arg EXCEPT ![running] = NULL]
  /\ UNCHANGED <<tcb, runq, sleepq, cpu, g_sched_lock_count, clock, running,
                 cursor, expiry, boot, left>>

vibe_thread_yield ==
  LET self == g_current_thread
  IN  /\ Call("yield")
      /\ runq' = vibe_sched_enqueue(
                   vibe_sched_dequeue(runq, self, priority[self]),
                   self, priority[self])
      /\ state' = [state EXCEPT ![self] = "READY"]
      /\ Goto("resched")
      /\ UNCHANGED <<priority, base_priority, timeout, sleepq, cpu,
                     g_sched_lock_count, clock, running, cursor, arg, expiry,
                     boot, left>>

Restart_KeepsSleeping(t) == sleepq' = sleepq

(* "Remove from wherever it is", for the sleep list.                       *)
RestartUnsleep(t) ==
  sleepq' = IF state[t] = "SLEEPING"
            THEN vibe_list_remove(sleepq, SleepList, t) ELSE sleepq

(* vibe_thread_restart re-creates the stack frame: another thread will     *)
(* begin at its entry; the caller itself just goes on.                     *)
vibe_thread_restart(t) ==
  LET R == IF state[t] = "READY"
           THEN vibe_sched_dequeue(runq, t, priority[t]) ELSE runq
  IN  /\ Call("restart")
      /\ state[t] # "NEW"
      /\ t = g_current_thread => "restart_self" \in Uses
      /\ RestartUnsleep(t)
      /\ priority' = [priority EXCEPT ![t] = base_priority[t]]
      /\ timeout' = [timeout EXCEPT ![t] = 0]
      /\ runq' = vibe_sched_enqueue(R, t, base_priority[t])
      /\ state' = [state EXCEPT ![t] = "READY"]
      /\ pc' = [pc EXCEPT ![t] = "run"]
      /\ arg' = [arg EXCEPT ![t] = NULL]
      /\ expiry' = [expiry EXCEPT ![t] = 0]
      /\ left' = [left EXCEPT ![t] = 0]
      /\ UNCHANGED <<base_priority, cpu, g_sched_lock_count, clock, running,
                     cursor, boot>>

vibe_thread_set_priority(t, p) ==
  /\ Call("set_priority")
  /\ state[t] # "NEW"
  /\ state[t] = "RUNNING" => "set_priority_running" \in Uses
  /\ runq' = IF state[t] = "READY"
             THEN vibe_sched_enqueue(
                    vibe_sched_dequeue(runq, t, priority[t]), t, p)
             ELSE runq
  /\ priority' = [priority EXCEPT ![t] = p]
  /\ base_priority' = [base_priority EXCEPT ![t] = p]
  /\ Goto("resched")
  /\ UNCHANGED <<state, timeout, sleepq, cpu, g_sched_lock_count, clock,
                 running, cursor, arg, expiry, boot, left>>

vibe_sched_lock ==
  /\ Call("sched_lock") /\ g_sched_lock_count < MaxLock
  /\ g_sched_lock_count' = g_sched_lock_count + 1
  /\ UNCHANGED <<tcb, runq, sleepq, cpu, clock, running, cursor, locals,
                 boot, left>>

LockReleased_Unguarded == g_sched_lock_count - 1

LockReleased ==
  IF g_sched_lock_count > 0 THEN g_sched_lock_count - 1 ELSE 0

vibe_sched_unlock ==
  /\ Call("sched_lock")
  /\ g_sched_lock_count' = LockReleased
  /\ Goto("unlock")
  /\ UNCHANGED <<tcb, runq, sleepq, cpu, clock, running, cursor, arg, expiry,
                 boot, left>>

(* "if (g_sched_lock_count == 0)", outside the lock.                       *)
UnlockCheck ==
  /\ At("unlock")
  /\ Goto(IF g_sched_lock_count = 0 THEN "resched" ELSE "run")
  /\ UNCHANGED <<tcb, runq, sleepq, cpu, g_sched_lock_count, clock, running,
                 cursor, arg, expiry, boot, left>>

Expiry_OneShort(ticks) == (g_tick_count + ticks - 1) % UINT32

ExpiryOf(ticks) == (g_tick_count + ticks) % UINT32

(* vibe_thread_sleep reads the clock before it masks interrupts.           *)
vibe_thread_sleep(ms) ==
  LET ticks == VIBE_MS_TO_TICKS(ms)
  IN  /\ Call("sleep") /\ MayBlock
      /\ expiry' = [expiry EXCEPT ![running] = ExpiryOf(ticks)]
      /\ left' = [left EXCEPT ![running] = ticks]
      /\ Goto("sleep")
      /\ UNCHANGED <<tcb, runq, sleepq, cpu, g_sched_lock_count, clock,
                     running, cursor, arg, boot>>

(* Interrupts masked: leave the run queue, enter _vibe_sched_sleep.        *)
SleepBegin ==
  LET self == g_current_thread
  IN  /\ At("sleep")
      /\ runq' = vibe_sched_dequeue(runq, self, priority[self])
      /\ timeout' = [timeout EXCEPT ![self] = expiry[running]]
      /\ state' = [state EXCEPT ![self] = "SLEEPING"]
      /\ cursor' = sleepq.head[SleepList]
      /\ Goto("scan")
      /\ UNCHANGED <<priority, base_priority, sleepq, cpu,
                     g_sched_lock_count, clock, running, arg, expiry, boot,
                     left>>

SleepScan ==
  /\ At("scan")
  /\ cursor # NULL /\ expiry[running] >= timeout[cursor]
  /\ cursor' = sleepq.next[cursor]
  /\ UNCHANGED <<tcb, runq, sleepq, cpu, g_sched_lock_count, clock, running,
                 locals, boot, left>>

InsertSleeper_Behind(self) ==
  IF cursor = NULL
  THEN vibe_list_append(sleepq, SleepList, self)
  ELSE vibe_list_insert_after(sleepq, SleepList, cursor, self)

(* Before the node found, or at the end.                                   *)
InsertSleeper(self) ==
  IF cursor = NULL
  THEN vibe_list_append(sleepq, SleepList, self)
  ELSE IF sleepq.prev[cursor] # NULL
  THEN vibe_list_insert_after(sleepq, SleepList, sleepq.prev[cursor], self)
  ELSE vibe_list_prepend(sleepq, SleepList, self)

SleepInsert ==
  /\ At("scan")
  /\ ~(cursor # NULL /\ expiry[running] >= timeout[cursor])
  /\ sleepq' = InsertSleeper(g_current_thread)
  /\ cursor' = NULL
  /\ expiry' = [expiry EXCEPT ![running] = 0]
  /\ Goto("resched")
  /\ UNCHANGED <<tcb, runq, cpu, g_sched_lock_count, clock, running, arg,
                 boot, left>>

-----------------------------------------------------------------------------
Startup ==
  \/ arch_systick_init \/ vibe_sched_start
  \/ vibe_sched_start_running \/ vibe_sched_start_switch

TickStep == WakeExpired \/ WakeDone \/ vibe_sched_timeslice_tick \/ TickResched

(* What a thread does inside the kernel, once it has called it.            *)
KernelStep ==
  Resched \/ ResumeCheck \/ UnlockCheck \/ SleepBegin \/ SleepScan
  \/ SleepInsert

ApiCall ==
  \/ \E t \in App :
       \/ vibe_thread_delete(t) \/ vibe_thread_suspend(t)
       \/ vibe_thread_resume(t) \/ vibe_thread_restart(t)
       \/ \E p \in Prio : vibe_thread_create(t, p)
                          \/ vibe_thread_set_priority(t, p)
  \/ \E ms \in 0..MaxSleepMs : vibe_thread_sleep(ms)
  \/ vibe_thread_yield \/ vibe_thread_exit
  \/ vibe_sched_lock \/ vibe_sched_unlock

Next ==
  Startup \/ TickEnter \/ TickStep \/ PendSV_Handler \/ KernelStep \/ ApiCall

Spec == Init /\ [][Next]_vars

(* The tick keeps coming, and is far apart enough for PendSV and for a     *)
(* thread to get some instructions in between two of them (hence strong    *)
(* fairness: every tick disables them for a while).  Nothing is assumed of *)
(* what the application does.                                              *)
Fairness ==
  /\ WF_vars(TickEnter) /\ WF_vars(TickStep)
  /\ SF_vars(PendSV_Handler) /\ SF_vars(KernelStep) /\ SF_vars(Startup)

FairSpec == Spec /\ Fairness

-----------------------------------------------------------------------------
(* Properties                                                              *)

Link == Thread \cup {NULL}

RunQueues == [lists : Heap(Prio, Thread), mask : SUBSET Prio]

PcOK == pc \in [Thread -> {"run", "resched", "exit", "spin", "resume",
                           "unlock", "sleep", "scan"}]

(* Every variable keeps to the values the code's types allow; the lock     *)
(* count never goes below zero however often vibe_sched_unlock is called.  *)
TypeOK ==
  /\ state \in [Thread -> ThreadState]
  /\ priority \in [Thread -> Prio] /\ base_priority \in [Thread -> Prio]
  /\ timeout \in [Thread -> 0..(UINT32 - 1)]
  /\ runq \in RunQueues /\ sleepq \in Heap({SleepList}, Thread)
  /\ g_current_thread \in Link
  /\ g_sched_lock_count \in Nat
  /\ g_tick_count \in 0..(UINT32 - 1) /\ slice_left \in Nat
  /\ running \in Link /\ next_sp \in Link
  /\ pendsv \in BOOLEAN /\ isr \in {"none", "wake", "slice", "resched"}
  /\ cursor \in Link
  /\ PcOK
  /\ arg \in [Thread -> Link]
  /\ expiry \in [Thread -> 0..(UINT32 - 1)]
  /\ boot \in {"create", "systick", "selected", "marked", "started"}
  /\ left \in [Thread -> Nat]

(* vibe_thread_self() tells a thread the truth: whenever a thread executes *)
(* instructions it is the scheduler's current thread, and a pending PendSV *)
(* will bring the current thread in, however many reschedules it stands    *)
(* for (context_switch.S, arch_switch_to).                                 *)
SwitchCoherent ==
  /\ pendsv => next_sp = g_current_thread /\ g_current_thread # NULL
  /\ ~pendsv /\ running # NULL => running = g_current_thread

(* The idle thread is always queued and at most the current thread has     *)
(* state RUNNING.  The current thread is queued too, unless it is on its   *)
(* way out of the kernel call that took it off, with the scheduler         *)
(* unlocked, so that _vibe_sched_reschedule is sure to leave it.           *)
OnWayOut ==
  /\ ~pendsv /\ running = g_current_thread /\ g_sched_lock_count = 0
  /\ pc[running] \in {"resched", "exit", "scan"}

CurrentAccounted ==
  /\ Queued(state[Idle])
  /\ \A t \in Thread : state[t] = "RUNNING" => t = g_current_thread
  /\ g_current_thread # NULL => Queued(state[g_current_thread]) \/ OnWayOut
  /\ g_current_thread # NULL /\ running = NULL /\ ~pendsv
       => boot \in {"selected", "marked"}
  /\ \A t \in Thread : pc[t] = "scan" =>
       /\ t = running /\ ~pendsv /\ isr = "none"
       /\ state[t] = "SLEEPING" /\ timeout[t] = expiry[t]
  /\ g_sched_lock_count > 0 =>
       running # NULL /\ ~pendsv /\ pc[running] \notin {"sleep", "scan", "exit"}

(* Whatever _vibe_sched_next_thread would return is a thread that is ready *)
(* or running, and none has a higher priority (sched.h: the highest-       *)
(* priority ready thread).                                                 *)
SelectsHighest ==
  LET next == vibe_sched_next_thread(runq)
  IN  /\ Queued(state[next])
      /\ \A t \in Thread : Queued(state[t]) => priority[t] <= priority[next]

(* When _vibe_sched_wake_expired has returned, no sleeper it should have   *)
(* woken is left, although it looks only at the front of the list.         *)
WakesAllExpired ==
  isr = "slice" =>
    \A t \in Thread : state[t] = "SLEEPING" => timeout[t] > g_tick_count

(* The pointers of every run queue spell out exactly the threads that are  *)
(* ready or running at that priority, each once, and the bit mask and the  *)
(* counters agree (thread.h: "Ready to run, in scheduler run queue").      *)
RunQueuesSound ==
  \A p \in Prio :
    LET w == Walk(runq.lists, p, Cardinality(Thread))
    IN  /\ IsList(runq.lists, p, w)
        /\ {w[i] : i \in DOMAIN w} =
             {t \in Thread : Queued(state[t]) /\ priority[t] = p}
        /\ (p \in runq.mask) = (w # <<>>)

(* The sleep list holds exactly the sleeping threads (but the one being    *)
(* inserted), in order of expiry (sched.c: "sorted by expiry tick").       *)
SleepListSound ==
  LET w == Walk(sleepq, SleepList, Cardinality(Thread))
  IN  /\ IsList(sleepq, SleepList, w)
      /\ {w[i] : i \in DOMAIN w} =
           {t \in Thread : state[t] = "SLEEPING" /\ pc[t] # "scan"}
      /\ \A i \in 2..Len(w) : timeout[w[i - 1]] <= timeout[w[i]]

(* The run queues and the sleep list of sched.c are sound, down to their   *)
(* pointers (RunQueuesSound, SleepListSound).                              *)
ListsSound == RunQueuesSound /\ SleepListSound

(* While the scheduler is locked neither its choice nor the thread on the  *)
(* CPU changes (sched.h: vibe_sched_lock prevents preemption).             *)
LockPreventsPreemption ==
  [][g_sched_lock_count > 0 =>
       UNCHANGED <<g_current_thread, running>>]_vars

(* The tick never wakes a thread before the ticks it asked for have        *)
(* passed (thread.h: "sleep for the given number of milliseconds").        *)
NoEarlyWake ==
  [][\A t \in Thread :
       isr = "wake" /\ state[t] = "SLEEPING" /\ state'[t] # "SLEEPING"
         => left[t] = 0]_vars

(* A suspended thread is not schedulable until it is resumed or restarted, *)
(* and a dead one until it is created or restarted: the tick puts neither  *)
(* back into a run queue (thread.h).                                       *)
StaysStopped ==
  [][\A t \in Thread :
       state[t] \in {"SUSPENDED", "DEAD"} /\ isr # "none"
         => state'[t] = state[t]]_vars

(* A ready thread with the highest priority of all does not wait forever   *)
(* for the CPU while the scheduler is unlocked: some tick at the latest    *)
(* switches to it.                                                         *)
Outranks(t) ==
  /\ Queued(state[t]) /\ g_sched_lock_count = 0
  /\ \A u \in Thread \ {t} : Queued(state[u]) => priority[u] < priority[t]

HighestRuns ==
  \A t \in App : Outranks(t) ~> (running = t \/ ~Outranks(t))

(* A sleeping thread is eventually made ready, or restarted or deleted,    *)
(* across any wrap of the tick counter.                                    *)
SleeperWakes == \A t \in App : state[t] = "SLEEPING" ~> state[t] # "SLEEPING"

(* Threads of equal priority take turns: the scheduler eventually picks a  *)
(* ready thread that nobody outranks (README: round-robin at equal         *)
(* priorities).                                                            *)
Eligible(t) ==
  /\ Queued(state[t]) /\ g_sched_lock_count = 0
  /\ \A u \in Thread : Queued(state[u]) => priority[u] <= priority[t]

RoundRobin ==
  \A t \in App : Eligible(t) ~> (g_current_thread = t \/ ~Eligible(t))

=============================================================================
