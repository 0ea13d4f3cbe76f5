----------------------------- MODULE SchedProofs -----------------------------
(* Theorems about Sched for any number of threads, priorities and ticks.   *)
EXTENDS Sched, QueueProofs

-----------------------------------------------------------------------------
(* The operators of kernel/sched.c                                         *)

(* The priorities are finitely many numbers.                               *)
LEMMA PrioFinite == Prio \in SUBSET Nat /\ IsFiniteSet(Prio)
<1>1. 0 \in Int /\ PrioMax \in Int
  BY SchedAssumption
<1>2. IsFiniteSet(0..PrioMax)
  BY <1>1, FS_Interval, Zenon
<1>3. 0..PrioMax \in SUBSET Nat
  BY SchedAssumption
<1> QED BY <1>2, <1>3 DEF Prio

LEMMA RunQueuesAre == RunQueues = Queues(Prio, Thread)
BY DEF RunQueues, Queues

LEMMA NextInSched ==
  ASSUME NEW R \in RunQueues
  PROVE  vibe_sched_next_thread(R) \in Thread
BY PrioFinite, RunQueuesAre, NextThreadType, SchedAssumption

LEMMA EnqueueInSched ==
  ASSUME NEW R \in RunQueues, NEW t \in Thread, NEW p \in Prio
  PROVE  vibe_sched_enqueue(R, t, p) \in RunQueues
BY RunQueuesAre, EnqueueType, SchedAssumption

LEMMA DequeueInSched ==
  ASSUME NEW R \in RunQueues, NEW t \in Thread, NEW p \in Prio
  PROVE  vibe_sched_dequeue(R, t, p) \in RunQueues
BY RunQueuesAre, DequeueType, SchedAssumption

LEMMA TicksType ==
  ASSUME NEW ms \in Nat
  PROVE  VIBE_MS_TO_TICKS(ms) \in 0..(UINT32 - 1)
<1>1. ms * HZ \in Nat
  BY SchedAssumption
<1>2. (ms * HZ) \div 1000 \in Int
  BY <1>1
<1> QED BY <1>2, ModWidth DEF VIBE_MS_TO_TICKS

-----------------------------------------------------------------------------
(* Types and the coherence of the context switch.  The two are proved      *)
(* together: what the kernel writes through vibe_thread_self() is well     *)
(* typed only because a thread that executes is the current one.           *)

USE SchedAssumption, UINT32Assumption

LEMMA SelfIsRunning ==
  ASSUME TypeOK, SwitchCoherent, NEW l, At(l)
  PROVE  running \in Thread /\ g_current_thread = running
BY DEF TypeOK, SwitchCoherent, At, Link

LEMMA RescheduleType ==
  ASSUME TypeOK, vibe_sched_reschedule
  PROVE  /\ state' \in [Thread -> ThreadState]
         /\ g_current_thread' \in Link /\ next_sp' \in Link
         /\ pendsv' \in BOOLEAN
<1>1. vibe_sched_next_thread(runq) \in Thread
  BY NextInSched DEF TypeOK
<1>2. CASE UNCHANGED <<state, cpu>>
  BY <1>2 DEF TypeOK, cpu
<1>3. CASE SwitchTo(vibe_sched_next_thread(runq))
  BY <1>1, <1>3 DEF TypeOK, SwitchTo, arch_switch_to, ThreadState, Link
<1> QED BY <1>2, <1>3 DEF vibe_sched_reschedule

LEMMA StartupType ==
  ASSUME TypeOK, SwitchCoherent, Startup
  PROVE  TypeOK'
<1>1. CASE arch_systick_init
  BY <1>1 DEF arch_systick_init, TypeOK, PcOK, tcb, cpu, clock, locals
<1>2. CASE vibe_sched_start
  <2>1. vibe_sched_next_thread(runq) \in Link
    BY NextInSched DEF TypeOK, Link
  <2> QED BY <1>2, <2>1 DEF vibe_sched_start, TypeOK, PcOK, tcb, cpu, clock,
                            locals
<1>3. CASE vibe_sched_start_running \/ vibe_sched_start_switch
  BY <1>3 DEF vibe_sched_start_running, vibe_sched_start_switch, tcb, cpu, arch_switch_to, TypeOK, PcOK,
              ThreadState, clock, locals
<1> QED BY <1>1, <1>2, <1>3 DEF Startup

LEMMA InterruptType ==
  ASSUME TypeOK, SwitchCoherent, TickEnter \/ TickStep \/ PendSV_Handler
  PROVE  TypeOK'
<1>1. CASE PendSV_Handler
  BY <1>1 DEF PendSV_Handler, TypeOK, PcOK, tcb, clock, locals
<1>2. CASE TickEnter
  <2>0. g_tick_count + 1 \in Int
    BY DEF TypeOK
  <2>1. g_tick_count' \in 0..(UINT32 - 1)
    BY <1>2, <2>0, ModWidth DEF TickEnter
  <2>2. left' \in [Thread -> Nat]
    BY <1>2 DEF TickEnter, TypeOK
  <2>3. cursor' \in Link
    BY <1>2 DEF TickEnter, TypeOK, Heap, Link
  <2> QED BY <1>2, <2>1, <2>2, <2>3 DEF TickEnter, TypeOK, PcOK, tcb, cpu,
                                        locals
<1>3. CASE WakeExpired
  <2>1. cursor \in Thread /\ priority[cursor] \in Prio
    BY <1>3 DEF WakeExpired, TypeOK, Link
  <2>2. runq' \in RunQueues
    BY <1>3, <2>1, EnqueueInSched DEF WakeExpired, TypeOK
  <2>3. sleepq' \in Heap({SleepList}, Thread)
    BY <1>3, <2>1, RemoveType DEF WakeExpired, TypeOK
  <2>4. cursor' \in Link
    BY <1>3, <2>1 DEF WakeExpired, TypeOK, Heap, Link
  <2>5. state' \in [Thread -> ThreadState] /\ left' \in [Thread -> Nat]
    BY <1>3, <2>1 DEF WakeExpired, TypeOK, ThreadState
  <2> QED BY <1>3, <2>2, <2>3, <2>4, <2>5 DEF WakeExpired, TypeOK, PcOK, cpu,
                                              clock, locals
<1>4. CASE WakeDone
  BY <1>4 DEF WakeDone, TypeOK, PcOK, tcb, cpu, locals, Link
<1>5. CASE vibe_sched_timeslice_tick
  <2> DEFINE cur == g_current_thread
  <2>1. SliceTicks \in Nat
    BY TicksType DEF SliceTicks
  <2>2. slice_left' \in Nat
    BY <1>5, <2>1 DEF vibe_sched_timeslice_tick, TypeOK
  <2>3. state' \in [Thread -> ThreadState]
    BY <1>5 DEF vibe_sched_timeslice_tick, TypeOK, ThreadState
  <2>4. cur # NULL => cur \in Thread /\ priority[cur] \in Prio
    BY DEF TypeOK, Link
  <2>5. cur # NULL => vibe_sched_enqueue(
                        vibe_sched_dequeue(runq, cur, priority[cur]),
                        cur, priority[cur]) \in RunQueues
    BY <2>4, EnqueueInSched, DequeueInSched DEF TypeOK
  <2>6. runq' \in RunQueues
    BY <1>5, <2>5 DEF vibe_sched_timeslice_tick, TypeOK
  <2> QED BY <1>5, <2>2, <2>3, <2>6 DEF vibe_sched_timeslice_tick, TypeOK,
                                        PcOK, cpu, locals
<1>6. CASE TickResched
  BY <1>6, RescheduleType DEF TickResched, TypeOK, PcOK, locals
<1> QED BY <1>1, <1>2, <1>3, <1>4, <1>5, <1>6 DEF TickStep

LEMMA KernelType ==
  ASSUME TypeOK, SwitchCoherent, KernelStep
  PROVE  TypeOK'
<1>0. running \in Thread /\ g_current_thread = running
  BY SelfIsRunning DEF KernelStep, Resched, ResumeCheck, UnlockCheck,
                       SleepBegin, SleepScan, SleepInsert
<1>1. CASE Resched
  BY <1>0, <1>1, RescheduleType DEF Resched, Goto, TypeOK, PcOK, clock
<1>2. CASE ResumeCheck
  BY <1>0, <1>2 DEF ResumeCheck, Goto, TypeOK, PcOK, tcb, cpu, clock, Link
<1>3. CASE UnlockCheck
  BY <1>0, <1>3 DEF UnlockCheck, Goto, TypeOK, PcOK, tcb, cpu, clock
<1>4. CASE SleepBegin
  <2>1. priority[running] \in Prio
    BY <1>0 DEF TypeOK
  <2>2. runq' \in RunQueues
    BY <1>0, <1>4, <2>1, DequeueInSched DEF SleepBegin, TypeOK
  <2>3. cursor' \in Link
    BY <1>4 DEF SleepBegin, TypeOK, Heap, Link
  <2>4. /\ state' \in [Thread -> ThreadState]
        /\ timeout' \in [Thread -> 0..(UINT32 - 1)]
    BY <1>0, <1>4 DEF SleepBegin, TypeOK, ThreadState
  <2> QED BY <1>0, <1>4, <2>2, <2>3, <2>4 DEF SleepBegin, Goto, TypeOK, PcOK,
                                              cpu, clock
<1>5. CASE SleepScan
  <2>1. cursor' \in Link
    BY <1>5 DEF SleepScan, TypeOK, Heap, Link
  <2> QED BY <1>5, <2>1 DEF SleepScan, TypeOK, PcOK, tcb, cpu, clock, locals
<1>6. CASE SleepInsert
  <2>1. cursor # NULL => cursor \in Thread /\ sleepq.prev[cursor] \in Link
    BY DEF TypeOK, Heap, Link
  <2>2. sleepq \in Heap({SleepList}, Thread)
    BY DEF TypeOK
  <2>3. InsertSleeper(running) \in Heap({SleepList}, Thread)
    BY <1>0, <2>1, <2>2, AppendType, PrependType, InsertAfterType
       DEF InsertSleeper, Link
  <2>4. expiry' \in [Thread -> 0..(UINT32 - 1)]
    BY <1>0, <1>6 DEF SleepInsert, TypeOK
  <2> QED BY <1>0, <1>6, <2>3, <2>4 DEF SleepInsert, Goto, TypeOK, PcOK, tcb,
                                        cpu, clock, Link
<1> QED BY <1>1, <1>2, <1>3, <1>4, <1>5, <1>6 DEF KernelStep

LEMMA StopType ==
  ASSUME TypeOK, running \in Thread, NEW t \in Thread,
         NEW s \in ThreadState, NEW l \in {"resched", "exit"}, Stop(t, s, l)
  PROVE  TypeOK'
<1>1. runq' \in RunQueues
  BY DequeueInSched DEF Stop, Unlink, TypeOK
<1>2. state' \in [Thread -> ThreadState]
  BY DEF Stop, TypeOK
<1> QED BY <1>1, <1>2 DEF Stop, Goto, TypeOK, PcOK, cpu, clock

LEMMA CreateType ==
  ASSUME TypeOK, NEW t \in Thread, NEW p \in Prio, vibe_thread_create(t, p)
  PROVE  TypeOK'
<1> DEFINE R == [runq EXCEPT !.lists = vibe_list_node_init(@, t)]
<1>1. R \in RunQueues
  BY NodeInitType DEF TypeOK, RunQueues
<1>2. runq' \in RunQueues
  BY <1>1, EnqueueInSched DEF vibe_thread_create
<1>3. sleepq' \in Heap({SleepList}, Thread)
  BY NodeInitType DEF vibe_thread_create, TypeOK
<1>4. /\ state' \in [Thread -> ThreadState]
      /\ priority' \in [Thread -> Prio] /\ base_priority' \in [Thread -> Prio]
      /\ timeout' \in [Thread -> 0..(UINT32 - 1)]
  BY DEF vibe_thread_create, TypeOK, ThreadState
<1>5. /\ PcOK' /\ arg' \in [Thread -> Link]
      /\ expiry' \in [Thread -> 0..(UINT32 - 1)] /\ left' \in [Thread -> Nat]
  BY DEF vibe_thread_create, TypeOK, PcOK, Link
<1> QED BY <1>2, <1>3, <1>4, <1>5 DEF vibe_thread_create, TypeOK, cpu, clock

LEMMA RestartType ==
  ASSUME TypeOK, NEW t \in Thread, vibe_thread_restart(t)
  PROVE  TypeOK'
<1> DEFINE R == IF state[t] = "READY"
                THEN vibe_sched_dequeue(runq, t, priority[t]) ELSE runq
<1>1. R \in RunQueues
  BY DequeueInSched DEF TypeOK
<1>2. runq' \in RunQueues
  <2>1. base_priority[t] \in Prio
    BY DEF TypeOK
  <2>2. runq' = vibe_sched_enqueue(R, t, base_priority[t])
    BY DEF vibe_thread_restart
  <2> HIDE DEF R
  <2> QED BY <1>1, <2>1, <2>2, EnqueueInSched
<1>3. sleepq' \in Heap({SleepList}, Thread)
  BY RemoveType DEF vibe_thread_restart, RestartUnsleep, TypeOK
<1>4. /\ state' \in [Thread -> ThreadState] /\ priority' \in [Thread -> Prio]
      /\ timeout' \in [Thread -> 0..(UINT32 - 1)]
  BY DEF vibe_thread_restart, TypeOK, ThreadState
<1>5. /\ PcOK' /\ arg' \in [Thread -> Link]
      /\ expiry' \in [Thread -> 0..(UINT32 - 1)] /\ left' \in [Thread -> Nat]
  BY DEF vibe_thread_restart, TypeOK, PcOK, Link
<1> QED BY <1>2, <1>3, <1>4, <1>5 DEF vibe_thread_restart, TypeOK, cpu, clock

LEMMA SetPriorityType ==
  ASSUME TypeOK, running \in Thread, NEW t \in Thread, NEW p \in Prio,
         vibe_thread_set_priority(t, p)
  PROVE  TypeOK'
<1>1. vibe_sched_dequeue(runq, t, priority[t]) \in RunQueues
  BY DequeueInSched DEF TypeOK
<1>2. vibe_sched_enqueue(vibe_sched_dequeue(runq, t, priority[t]), t, p)
        \in RunQueues
  BY <1>1, EnqueueInSched
<1>3. runq' \in RunQueues
  BY <1>2 DEF vibe_thread_set_priority, TypeOK
<1> QED BY <1>3 DEF vibe_thread_set_priority, Goto, TypeOK, PcOK, cpu, clock

LEMMA ApiType ==
  ASSUME TypeOK, SwitchCoherent, ApiCall
  PROVE  TypeOK'
<1>1. ASSUME NEW use, Call(use)
      PROVE  running \in Thread /\ g_current_thread = running
  BY <1>1, SelfIsRunning DEF Call
<1>2. ASSUME NEW t \in App, vibe_thread_delete(t) PROVE TypeOK'
  BY <1>1, <1>2, StopType DEF vibe_thread_delete, App, ThreadState
<1>3. ASSUME NEW t \in App, vibe_thread_suspend(t) PROVE TypeOK'
  BY <1>1, <1>3, StopType DEF vibe_thread_suspend, App, ThreadState
<1>4. ASSUME NEW t \in App, vibe_thread_resume(t) PROVE TypeOK'
  <2>1. runq' \in RunQueues
    BY <1>4, EnqueueInSched DEF vibe_thread_resume, TypeOK, App
  <2> QED BY <1>1, <1>4, <2>1 DEF vibe_thread_resume, Goto, TypeOK, PcOK, App,
                                  ThreadState, cpu, clock, Link
<1>5. ASSUME NEW t \in App, vibe_thread_restart(t) PROVE TypeOK'
  BY <1>5, RestartType DEF App
<1>6. ASSUME NEW t \in App, NEW p \in Prio, vibe_thread_create(t, p)
      PROVE  TypeOK'
  BY <1>6, CreateType DEF App
<1>7. ASSUME NEW t \in App, NEW p \in Prio, vibe_thread_set_priority(t, p)
      PROVE  TypeOK'
  BY <1>1, <1>7, SetPriorityType DEF App, vibe_thread_set_priority
<1>8. ASSUME NEW ms \in 0..MaxSleepMs, vibe_thread_sleep(ms) PROVE TypeOK'
  <2>1. VIBE_MS_TO_TICKS(ms) \in 0..(UINT32 - 1)
    BY TicksType
  <2>2. g_tick_count + VIBE_MS_TO_TICKS(ms) \in Int
    BY <2>1 DEF TypeOK
  <2>3. ExpiryOf(VIBE_MS_TO_TICKS(ms)) \in 0..(UINT32 - 1)
    BY <2>2, ModWidth DEF ExpiryOf
  <2>4. running \in Thread
    BY <1>1, <1>8 DEF vibe_thread_sleep
  <2>5. /\ expiry' \in [Thread -> 0..(UINT32 - 1)]
        /\ left' \in [Thread -> Nat] /\ PcOK'
    BY <1>8, <2>1, <2>3, <2>4 DEF vibe_thread_sleep, Goto, TypeOK, PcOK
  <2> QED BY <1>8, <2>5 DEF vibe_thread_sleep, TypeOK, tcb, cpu, clock
<1>9. CASE vibe_thread_yield
  <2> DEFINE D == vibe_sched_dequeue(runq, running, priority[running])
  <2>1. running \in Thread /\ g_current_thread = running
    BY <1>1, <1>9 DEF vibe_thread_yield
  <2>2. D \in RunQueues /\ priority[running] \in Prio
    BY <2>1, DequeueInSched DEF TypeOK
  <2>3. runq' = vibe_sched_enqueue(D, running, priority[running])
    BY <1>9, <2>1 DEF vibe_thread_yield
  <2>4. runq' \in RunQueues
    <3> HIDE DEF D
    <3> QED BY <2>1, <2>2, <2>3, EnqueueInSched
  <2> QED BY <1>9, <2>1, <2>4 DEF vibe_thread_yield, Goto, TypeOK, PcOK,
                                  ThreadState, cpu, clock
<1>10. CASE vibe_thread_exit
  BY <1>1, <1>10, StopType DEF vibe_thread_exit, ThreadState
<1>11. CASE vibe_sched_lock
  BY <1>11 DEF vibe_sched_lock, TypeOK, PcOK, tcb, cpu, clock, locals
<1>12. CASE vibe_sched_unlock
  BY <1>1, <1>12 DEF vibe_sched_unlock, LockReleased, Goto, TypeOK, PcOK, tcb,
                     cpu, clock
<1> QED BY <1>2, <1>3, <1>4, <1>5, <1>6, <1>7, <1>8, <1>9, <1>10, <1>11,
           <1>12 DEF ApiCall

(* Once vibe_sched_start has chosen, there is a current thread.            *)
BootOK == boot \in {"selected", "marked"} => g_current_thread # NULL

LEMMA TypeStep ==
  ASSUME TypeOK, SwitchCoherent, [Next]_vars
  PROVE  TypeOK'
<1>1. CASE UNCHANGED vars
  BY <1>1 DEF vars, tcb, cpu, clock, locals, TypeOK, PcOK
<1> QED BY <1>1, StartupType, InterruptType, KernelType, ApiType DEF Next

LEMMA RescheduleCoherent ==
  ASSUME TypeOK, SwitchCoherent, vibe_sched_reschedule, running' = running
  PROVE  SwitchCoherent' /\ (g_current_thread # NULL => g_current_thread' # NULL)
<1>1. vibe_sched_next_thread(runq) \in Thread
  BY NextInSched DEF TypeOK
<1>2. CASE UNCHANGED <<state, cpu>>
  BY <1>2 DEF SwitchCoherent, cpu
<1>3. CASE SwitchTo(vibe_sched_next_thread(runq))
  BY <1>1, <1>3 DEF SwitchTo, arch_switch_to, SwitchCoherent
<1> QED BY <1>2, <1>3 DEF vibe_sched_reschedule

LEMMA CoherentStep ==
  ASSUME TypeOK, SwitchCoherent, BootOK, [Next]_vars
  PROVE  SwitchCoherent' /\ BootOK'
<1>1. CASE UNCHANGED <<cpu, running, boot>>
  BY <1>1 DEF SwitchCoherent, BootOK, cpu
<1>2. CASE arch_systick_init
  BY <1>2 DEF arch_systick_init, SwitchCoherent, BootOK, cpu
<1>3. CASE vibe_sched_start
  <2>1. vibe_sched_next_thread(runq) \in Thread
    BY NextInSched DEF TypeOK
  <2> QED BY <1>3, <2>1 DEF vibe_sched_start, StartupRuns, SwitchCoherent,
                            BootOK
<1>4. CASE vibe_sched_start_running \/ vibe_sched_start_switch
  BY <1>4 DEF vibe_sched_start_running, vibe_sched_start_switch, cpu, arch_switch_to, StartupRuns,
              SwitchCoherent, BootOK
<1>5. CASE PendSV_Handler
  BY <1>5 DEF PendSV_Handler, SwitchCoherent, BootOK
<1>6. CASE TickResched \/ Resched
  <2>1. vibe_sched_reschedule /\ running' = running /\ boot' = boot
    BY <1>6 DEF TickResched, Resched
  <2> QED BY <2>1, RescheduleCoherent DEF BootOK
<1>7. CASE UNCHANGED vars
  BY <1>1, <1>7 DEF vars
<1>8. CASE TickEnter \/ WakeExpired \/ WakeDone \/ vibe_sched_timeslice_tick
  BY <1>1, <1>8 DEF TickEnter, WakeExpired, WakeDone,
                    vibe_sched_timeslice_tick
<1>9. CASE ResumeCheck \/ UnlockCheck \/ SleepBegin \/ SleepScan \/ SleepInsert
  BY <1>1, <1>9 DEF ResumeCheck, UnlockCheck, SleepBegin, SleepScan,
                    SleepInsert
<1>10. CASE ApiCall
  <2>1. UNCHANGED <<cpu, running, boot>>
    BY <1>10 DEF ApiCall, vibe_thread_delete, vibe_thread_suspend, Stop,
                 vibe_thread_resume, vibe_thread_restart, vibe_thread_create,
                 vibe_thread_set_priority, vibe_thread_sleep,
                 vibe_thread_yield, vibe_thread_exit, vibe_sched_lock,
                 vibe_sched_unlock
  <2> QED BY <1>1, <2>1
<1> QED BY <1>2, <1>3, <1>4, <1>5, <1>6, <1>7, <1>8, <1>9, <1>10
        DEF Next, Startup, TickStep, KernelStep

LEMMA InitType == Init => TypeOK /\ SwitchCoherent /\ BootOK
<1> SUFFICES ASSUME Init PROVE TypeOK /\ SwitchCoherent /\ BootOK
  OBVIOUS
<1>1. \A L : EmptyLists(L, Thread) \in Heap(L, Thread)
  BY DEF EmptyLists, Heap
<1>2. runq \in RunQueues
  <2>1. [lists |-> EmptyLists(Prio, Thread), mask |-> {}] \in RunQueues
    BY <1>1 DEF RunQueues
  <2>2. 0 \in Prio
    BY DEF Prio
  <2> QED BY <2>1, <2>2, EnqueueInSched DEF Init
<1>3. sleepq \in Heap({SleepList}, Thread)
  BY <1>1 DEF Init
<1>4. slice_left \in Nat
  BY TicksType DEF Init, SliceTicks
<1>5. /\ state \in [Thread -> ThreadState]
      /\ priority \in [Thread -> Prio] /\ base_priority \in [Thread -> Prio]
      /\ timeout \in [Thread -> 0..(UINT32 - 1)]
  BY DEF Init, ThreadState, Prio
<1>6. /\ PcOK /\ arg \in [Thread -> Link]
      /\ expiry \in [Thread -> 0..(UINT32 - 1)] /\ left \in [Thread -> Nat]
  BY DEF Init, PcOK, Link
<1>7. TypeOK
  BY <1>2, <1>3, <1>4, <1>5, <1>6 DEF Init, TypeOK, Link
<1> QED BY <1>7 DEF Init, SwitchCoherent, BootOK

(* Type correctness, whatever the application does: no call sequence, not  *)
(* even one that breaks the run queues, makes the kernel follow or write a *)
(* value outside its types, and the lock count never goes negative.        *)
THEOREM TypeCorrect == Spec => []TypeOK
<1>1. TypeOK /\ SwitchCoherent /\ BootOK /\ [Next]_vars
        => (TypeOK /\ SwitchCoherent /\ BootOK)'
  BY TypeStep, CoherentStep
<1> QED BY InitType, <1>1, PTL DEF Spec

(* A thread that executes is the one vibe_thread_self() names, and PendSV  *)
(* always restores the scheduler's latest choice, whatever the application *)
(* does and however ticks, reschedules and PendSV interleave.              *)
THEOREM SwitchIsCoherent == Spec => []SwitchCoherent
<1>1. TypeOK /\ SwitchCoherent /\ BootOK /\ [Next]_vars
        => (TypeOK /\ SwitchCoherent /\ BootOK)'
  BY TypeStep, CoherentStep
<1> QED BY InitType, <1>1, PTL DEF Spec

-----------------------------------------------------------------------------
(* The scheduler's bookkeeping is sound for every application that keeps   *)
(* to the disciplined uses of the API.                                     *)
USE SchedAssumption

(* The discipline.                                                         *)
Disciplined == Uses \cap Hazardous = {}

(* Where the states say that each thread is queued.                        *)
QueueMap == [t \in Thread |-> IF Queued(state[t]) THEN priority[t] ELSE -1]

(* Level holds, for each thread, the priority it is queued at, or -1.      *)
Level == Prio \cup {-1}

SchedRep(R, M, q) == QRep(Prio, Thread, R, M, q)

RunRep == \E q : SchedRep(runq, QueueMap, q)

Asleep(t) == state[t] = "SLEEPING" /\ pc[t] # "scan"

(* The sleep list is the sequence s of the sleeping threads by expiry; the *)
(* wake loop stands at its head, and the insertion loop behind threads     *)
(* that expire no later than the one it inserts.                           *)
SRep(s) ==
  /\ s \in Seq(Thread)
  /\ IsList(sleepq, SleepList, s)
  /\ \A k \in 1..Len(s) : Asleep(s[k])
  /\ \A t \in Thread : Asleep(t) => \E k \in 1..Len(s) : s[k] = t
  /\ \A j, k \in 1..Len(s) : j < k => timeout[s[j]] <= timeout[s[k]]
  /\ isr = "wake" => cursor = sleepq.head[SleepList]
  /\ \A t \in Thread : pc[t] = "scan" =>
       \E i \in 1..(Len(s) + 1) :
         /\ cursor = IF i = Len(s) + 1 THEN NULL ELSE s[i]
         /\ \A j \in 1..(i - 1) : timeout[s[j]] <= expiry[t]

SleepRep == \E s : SRep(s)

(* The idle thread never calls the kernel.                                 *)
IdleWaits == pc[Idle] = "run"

(* The inductive invariant.                                                *)
IInv ==
  /\ TypeOK /\ SwitchCoherent /\ BootOK /\ IdleWaits
  /\ CurrentAccounted /\ RunRep /\ SleepRep /\ WakesAllExpired

-----------------------------------------------------------------------------
(* Steps of the run queues                                                 *)

(* The lemmas about the run queues, for those of the scheduler.            *)
LEMMA SchedEnqueueRep ==
  ASSUME NEW R \in RunQueues, NEW M \in [Thread -> Level], NEW q,
         SchedRep(R, M, q), NEW t \in Thread, M[t] = -1, NEW p \in Prio
  PROVE  SchedRep(vibe_sched_enqueue(R, t, p), [M EXCEPT ![t] = p],
                  [q EXCEPT ![p] = Append(@, t)])
BY PrioFinite, RunQueuesAre, EnqueueRep DEF SchedRep, Level

LEMMA SchedDequeueRep ==
  ASSUME NEW R \in RunQueues, NEW M \in [Thread -> Level], NEW q,
         SchedRep(R, M, q), NEW t \in Thread, NEW p \in Prio, M[t] = p
  PROVE  \E i \in 1..Len(q[p]) :
           SchedRep(vibe_sched_dequeue(R, t, p), [M EXCEPT ![t] = -1],
                    [q EXCEPT ![p] = Without(@, i)])
BY PrioFinite, RunQueuesAre, DequeueRep DEF SchedRep, Level

LEMMA SchedNodeInitRep ==
  ASSUME NEW R \in RunQueues, NEW M \in [Thread -> Level], NEW q,
         SchedRep(R, M, q), NEW t \in Thread, M[t] = -1
  PROVE  SchedRep([R EXCEPT !.lists = vibe_list_node_init(@, t)], M, q)
BY PrioFinite, RunQueuesAre, NodeInitRep DEF SchedRep, Level

LEMMA SchedNextThreadRep ==
  ASSUME NEW R \in RunQueues, NEW M \in [Thread -> Level], NEW q,
         SchedRep(R, M, q), \E t \in Thread : M[t] \in Prio
  PROVE  LET next == vibe_sched_next_thread(R)
         IN  /\ next \in Thread /\ M[next] \in Prio
             /\ \A t \in Thread : M[t] \in Prio => M[t] <= M[next]
BY PrioFinite, RunQueuesAre, NextThreadRep DEF SchedRep, Level

LEMMA QueueMapType ==
  ASSUME TypeOK
  PROVE  QueueMap \in [Thread -> Level]
BY DEF TypeOK, QueueMap, Level

LEMMA KeepRun ==
  ASSUME RunRep, runq' = runq, QueueMap' = QueueMap
  PROVE  RunRep'
BY DEF RunRep

LEMMA EnqueueRun ==
  ASSUME TypeOK, RunRep, NEW t \in Thread, ~Queued(state[t]), NEW p \in Prio,
         runq' = vibe_sched_enqueue(runq, t, p),
         QueueMap' = [QueueMap EXCEPT ![t] = p]
  PROVE  RunRep'
<1>1. PICK q : SchedRep(runq, QueueMap, q)
  BY DEF RunRep
<1>2. QueueMap[t] = -1
  BY DEF QueueMap
<1>3. SchedRep(runq', QueueMap', [q EXCEPT ![p] = Append(@, t)])
  BY <1>1, <1>2, QueueMapType, SchedEnqueueRep DEF TypeOK
<1> QED BY <1>3 DEF RunRep

LEMMA DequeueRun ==
  ASSUME TypeOK, RunRep, NEW t \in Thread, Queued(state[t]),
         runq' = vibe_sched_dequeue(runq, t, priority[t]),
         QueueMap' = [QueueMap EXCEPT ![t] = -1]
  PROVE  RunRep'
<1>1. PICK q : SchedRep(runq, QueueMap, q)
  BY DEF RunRep
<1>2. QueueMap[t] = priority[t] /\ priority[t] \in Prio
  BY DEF QueueMap, TypeOK
<1>3. PICK i \in 1..Len(q[priority[t]]) :
        SchedRep(runq', QueueMap', [q EXCEPT ![priority[t]] = Without(@, i)])
  BY <1>1, <1>2, QueueMapType, SchedDequeueRep DEF TypeOK
<1> QED BY <1>3 DEF RunRep

(* Taken off one queue and put at the end of the same or another one.      *)
LEMMA MoveRun ==
  ASSUME TypeOK, RunRep, NEW t \in Thread, Queued(state[t]), NEW p \in Prio,
         runq' = vibe_sched_enqueue(
                   vibe_sched_dequeue(runq, t, priority[t]), t, p),
         QueueMap' = [QueueMap EXCEPT ![t] = p]
  PROVE  RunRep'
<1> DEFINE R == vibe_sched_dequeue(runq, t, priority[t])
           M == [QueueMap EXCEPT ![t] = -1]
<1>1. PICK q : SchedRep(runq, QueueMap, q)
  BY DEF RunRep
<1>2. QueueMap[t] = priority[t] /\ priority[t] \in Prio
  BY DEF QueueMap, TypeOK
<1>3. PICK r : SchedRep(R, M, r)
  BY <1>1, <1>2, QueueMapType, SchedDequeueRep DEF TypeOK
<1>4. R \in RunQueues
  BY <1>2, DequeueInSched DEF TypeOK
<1>5. M \in [Thread -> Level] /\ M[t] = -1
  BY QueueMapType DEF Level
<1>6. [M EXCEPT ![t] = p] = QueueMap'
  BY QueueMapType
<1> HIDE DEF R, M
<1>7. SchedRep(vibe_sched_enqueue(R, t, p), [M EXCEPT ![t] = p],
           [r EXCEPT ![p] = Append(@, t)])
  BY <1>3, <1>4, <1>5, SchedEnqueueRep
<1> QED BY <1>6, <1>7 DEF RunRep, R

(* What _vibe_sched_next_thread returns when the queues are sound.         *)
LEMMA NextIsHighest ==
  ASSUME TypeOK, RunRep, Queued(state[Idle])
  PROVE  /\ vibe_sched_next_thread(runq) \in Thread
         /\ SelectsHighest
<1>1. PICK q : SchedRep(runq, QueueMap, q)
  BY DEF RunRep
<1>2. \A t \in Thread : (QueueMap[t] \in Prio <=> Queued(state[t]))
                        /\ (Queued(state[t]) => QueueMap[t] = priority[t])
  BY DEF QueueMap, TypeOK, Prio
<1> DEFINE next == vibe_sched_next_thread(runq)
<1>3. /\ next \in Thread /\ QueueMap[next] \in Prio
      /\ \A t \in Thread : QueueMap[t] \in Prio => QueueMap[t] <= QueueMap[next]
  BY <1>1, <1>2, QueueMapType, SchedNextThreadRep DEF TypeOK
<1> HIDE DEF next
<1>4. Queued(state[next])
      /\ \A t \in Thread : Queued(state[t]) => priority[t] <= priority[next]
  BY <1>2, <1>3
<1> QED BY <1>3, <1>4 DEF SelectsHighest, next

(* A reschedule changes only READY to RUNNING and back.                    *)
LEMMA RescheduleKeeps ==
  ASSUME TypeOK, RunRep, Queued(state[Idle]), vibe_sched_reschedule
  PROVE  /\ \A t \in Thread : Queued(state'[t]) <=> Queued(state[t])
         /\ \A t \in Thread : ~Queued(state[t]) => state'[t] = state[t]
<1> DEFINE next == vibe_sched_next_thread(runq)
<1>1. next \in Thread /\ Queued(state[next])
  BY NextIsHighest DEF SelectsHighest
<1>2. CASE UNCHANGED <<state, cpu>>
  BY <1>2
<1>3. CASE SwitchTo(next)
  BY <1>1, <1>3 DEF SwitchTo, Queued
<1> QED BY <1>2, <1>3 DEF vibe_sched_reschedule

(* A thread that executes outside the end of a call is in a run queue.     *)
LEMMA RunningIsQueued ==
  ASSUME IInv, NEW l, l \notin {"resched", "exit", "scan"}, At(l)
  PROVE  /\ running \in Thread /\ g_current_thread = running
         /\ Queued(state[running])
<1>1. running \in Thread /\ g_current_thread = running
  BY SelfIsRunning DEF IInv
<1> QED BY <1>1 DEF IInv, CurrentAccounted, OnWayOut, At

(* The thread that the wake loop looks at is asleep.                       *)
LEMMA CursorAsleep ==
  ASSUME IInv, isr = "wake", cursor # NULL, NEW s, SRep(s)
  PROVE  /\ Len(s) > 0 /\ cursor = s[1]
         /\ cursor \in Thread /\ Asleep(cursor) /\ ~Queued(state[cursor])
<1>1. s \in Seq(Thread) /\ cursor = IF Len(s) = 0 THEN NULL ELSE s[1]
  BY DEF SRep, IsList, Linked
<1>2. Len(s) \in Nat /\ Len(s) # 0 /\ cursor = s[1]
  BY <1>1
<1>3. 1 \in 1..Len(s)
  BY <1>2
<1>4. cursor \in Thread /\ Asleep(cursor)
  BY <1>1, <1>2, <1>3 DEF SRep
<1> QED BY <1>2, <1>4 DEF Asleep, Queued

LEMMA StopRun ==
  ASSUME IInv, NEW t \in Thread, NEW u \in {"DEAD", "SUSPENDED"}, NEW l,
         Stop(t, u, l)
  PROVE  RunRep'
<1>1. TypeOK /\ RunRep
  BY DEF IInv
<1>2. state' = [state EXCEPT ![t] = u] /\ priority' = priority /\ ~Queued(u)
  BY DEF Stop, Queued
<1>3. CASE Queued(state[t])
  <2>1. runq' = vibe_sched_dequeue(runq, t, priority[t])
    BY <1>3 DEF Stop, Unlink
  <2>2. QueueMap' = [QueueMap EXCEPT ![t] = -1]
    BY <1>1, <1>2 DEF TypeOK, QueueMap
  <2> QED BY <1>1, <1>3, <2>1, <2>2, DequeueRun
<1>4. CASE ~Queued(state[t])
  <2>1. runq' = runq
    BY <1>4 DEF Stop, Unlink
  <2>2. QueueMap' = QueueMap
    BY <1>1, <1>2, <1>4 DEF TypeOK, QueueMap
  <2> QED BY <1>1, <2>1, <2>2, KeepRun
<1> QED BY <1>3, <1>4

LEMMA CreateRun ==
  ASSUME IInv, NEW t \in Thread, NEW p \in Prio, vibe_thread_create(t, p)
  PROVE  RunRep'
<1> DEFINE R == [runq EXCEPT !.lists = vibe_list_node_init(@, t)]
<1>1. TypeOK /\ RunRep
  BY DEF IInv
<1>2. PICK q : SchedRep(runq, QueueMap, q)
  BY <1>1 DEF RunRep
<1>3. ~Queued(state[t]) /\ QueueMap[t] = -1
  BY DEF vibe_thread_create, Queued, QueueMap
<1>4. R \in RunQueues
  BY <1>1, NodeInitType DEF TypeOK, RunQueues
<1>5. SchedRep(R, QueueMap, q)
  BY <1>1, <1>2, <1>3, QueueMapType, SchedNodeInitRep DEF TypeOK
<1>6. runq' = vibe_sched_enqueue(R, t, p)
  BY DEF vibe_thread_create
<1>7. QueueMap' = [QueueMap EXCEPT ![t] = p]
  BY <1>1 DEF vibe_thread_create, QueueMap, TypeOK, Queued
<1> HIDE DEF R
<1>8. SchedRep(runq', QueueMap', [q EXCEPT ![p] = Append(@, t)])
  BY <1>1, <1>3, <1>4, <1>5, <1>6, <1>7, QueueMapType, SchedEnqueueRep
<1> QED BY <1>8 DEF RunRep

LEMMA RestartRun ==
  ASSUME IInv, Disciplined, NEW t \in Thread, vibe_thread_restart(t)
  PROVE  RunRep'
<1>1. TypeOK /\ RunRep /\ base_priority[t] \in Prio
  BY DEF IInv, TypeOK
<1>2. state[t] # "RUNNING"
  BY DEF IInv, CurrentAccounted, vibe_thread_restart, Disciplined, Hazardous
<1>3. QueueMap' = [QueueMap EXCEPT ![t] = base_priority[t]]
  BY <1>1 DEF vibe_thread_restart, QueueMap, TypeOK, Queued
<1>4. CASE state[t] = "READY"
  <2>1. runq' = vibe_sched_enqueue(vibe_sched_dequeue(runq, t, priority[t]),
                                   t, base_priority[t])
    BY <1>4 DEF vibe_thread_restart
  <2> QED BY <1>1, <1>3, <1>4, <2>1, MoveRun DEF Queued
<1>5. CASE state[t] # "READY"
  <2>1. runq' = vibe_sched_enqueue(runq, t, base_priority[t])
    BY <1>5 DEF vibe_thread_restart
  <2>2. ~Queued(state[t])
    BY <1>2, <1>5 DEF Queued
  <2> QED BY <1>1, <1>3, <2>1, <2>2, EnqueueRun
<1> QED BY <1>4, <1>5

LEMMA SetPriorityRun ==
  ASSUME IInv, Disciplined, NEW t \in Thread, NEW p \in Prio,
         vibe_thread_set_priority(t, p)
  PROVE  RunRep'
<1>1. TypeOK /\ RunRep /\ state' = state
  BY DEF IInv, vibe_thread_set_priority
<1>2. state[t] # "RUNNING"
  BY DEF vibe_thread_set_priority, Disciplined, Hazardous
<1>3. CASE state[t] = "READY"
  <2>1. runq' = vibe_sched_enqueue(vibe_sched_dequeue(runq, t, priority[t]),
                                   t, p)
    BY <1>3 DEF vibe_thread_set_priority
  <2>2. QueueMap' = [QueueMap EXCEPT ![t] = p]
    BY <1>1, <1>3 DEF vibe_thread_set_priority, QueueMap, TypeOK, Queued
  <2> QED BY <1>1, <1>3, <2>1, <2>2, MoveRun DEF Queued
<1>4. CASE state[t] # "READY"
  <2>1. runq' = runq
    BY <1>4 DEF vibe_thread_set_priority
  <2>2. QueueMap' = QueueMap
    BY <1>1, <1>2, <1>4 DEF vibe_thread_set_priority, QueueMap, TypeOK, Queued
  <2> QED BY <1>1, <2>1, <2>2, KeepRun
<1> QED BY <1>3, <1>4

LEMMA RunStep ==
  ASSUME IInv, Disciplined, [Next]_vars
  PROVE  RunRep'
<1>0. TypeOK /\ RunRep
  BY DEF IInv
<1>1. CASE UNCHANGED <<state, priority, runq>>
  BY <1>0, <1>1, KeepRun DEF QueueMap
<1>2. CASE vibe_sched_start_running
  <2>1. StartupRuns /\ g_current_thread \in Thread
    BY <1>2 DEF vibe_sched_start_running, IInv, BootOK, TypeOK, Link
  <2>2. Queued(state[g_current_thread])
    BY <2>1 DEF StartupRuns, IInv, CurrentAccounted, OnWayOut
  <2>3. QueueMap' = QueueMap
    BY <1>0, <1>2, <2>1, <2>2 DEF vibe_sched_start_running, QueueMap, TypeOK,
                                  Queued
  <2> QED BY <1>0, <1>2, <2>3, KeepRun DEF vibe_sched_start_running
<1>3. CASE WakeExpired
  <2>1. cursor \in Thread /\ ~Queued(state[cursor])
    BY <1>3, CursorAsleep DEF WakeExpired, IInv, SleepRep
  <2>2. QueueMap' = [QueueMap EXCEPT ![cursor] = priority[cursor]]
    BY <1>0, <1>3, <2>1 DEF WakeExpired, QueueMap, TypeOK, Queued
  <2>3. runq' = vibe_sched_enqueue(runq, cursor, priority[cursor])
    BY <1>3 DEF WakeExpired
  <2>4. priority[cursor] \in Prio
    BY <1>0, <2>1 DEF TypeOK
  <2> QED BY <1>0, <2>1, <2>2, <2>3, <2>4, EnqueueRun
<1>4. CASE vibe_sched_timeslice_tick
  <2> DEFINE cur == g_current_thread
  <2>1. CASE UNCHANGED <<state, runq>>
    BY <1>1, <1>4, <2>1 DEF vibe_sched_timeslice_tick
  <2>2. CASE /\ cur # NULL /\ state[cur] = "RUNNING"
             /\ runq' = vibe_sched_enqueue(
                   vibe_sched_dequeue(runq, cur, priority[cur]),
                   cur, priority[cur])
             /\ state' = [state EXCEPT ![cur] = "READY"]
    <3>1. cur \in Thread /\ Queued(state[cur]) /\ priority[cur] \in Prio
      BY <1>0, <2>2 DEF TypeOK, Link, Queued
    <3>2. QueueMap' = [QueueMap EXCEPT ![cur] = priority[cur]]
      BY <1>0, <1>4, <2>2, <3>1 DEF vibe_sched_timeslice_tick, QueueMap,
                                    TypeOK, Queued
    <3> QED BY <1>0, <2>2, <3>1, <3>2, MoveRun
  <2> QED BY <1>4, <2>1, <2>2 DEF vibe_sched_timeslice_tick
<1>5. CASE TickResched \/ Resched
  <2>1. vibe_sched_reschedule /\ runq' = runq /\ priority' = priority
    BY <1>5 DEF TickResched, Resched
  <2>2. \A t \in Thread : Queued(state'[t]) <=> Queued(state[t])
    BY <1>0, <2>1, RescheduleKeeps DEF IInv, CurrentAccounted
  <2>3. QueueMap' = QueueMap
    BY <2>1, <2>2 DEF QueueMap
  <2> QED BY <1>0, <2>1, <2>3, KeepRun
<1>6. CASE SleepBegin
  <2>1. running \in Thread /\ g_current_thread = running
        /\ Queued(state[running])
    BY <1>6, RunningIsQueued DEF SleepBegin
  <2>2. QueueMap' = [QueueMap EXCEPT ![running] = -1]
    BY <1>0, <1>6, <2>1 DEF SleepBegin, QueueMap, TypeOK, Queued
  <2>3. runq' = vibe_sched_dequeue(runq, running, priority[running])
    BY <1>6, <2>1 DEF SleepBegin
  <2> QED BY <1>0, <2>1, <2>2, <2>3, DequeueRun
<1>7. ASSUME NEW t \in App, vibe_thread_delete(t) \/ vibe_thread_suspend(t)
      PROVE  RunRep'
  BY <1>7, StopRun DEF vibe_thread_delete, vibe_thread_suspend, App
<1>8. CASE vibe_thread_exit
  <2>1. g_current_thread \in Thread
    BY <1>8, RunningIsQueued DEF vibe_thread_exit, Call
  <2> QED BY <1>8, <2>1, StopRun DEF vibe_thread_exit
<1>9. ASSUME NEW t \in App, vibe_thread_resume(t) PROVE RunRep'
  <2>1. t \in Thread /\ ~Queued(state[t]) /\ priority[t] \in Prio
    BY <1>0, <1>9 DEF vibe_thread_resume, App, Queued, TypeOK
  <2>2. QueueMap' = [QueueMap EXCEPT ![t] = priority[t]]
    BY <1>0, <1>9, <2>1 DEF vibe_thread_resume, QueueMap, TypeOK, Queued
  <2>3. runq' = vibe_sched_enqueue(runq, t, priority[t])
    BY <1>9 DEF vibe_thread_resume
  <2> QED BY <1>0, <2>1, <2>2, <2>3, EnqueueRun
<1>10. ASSUME NEW t \in App, vibe_thread_restart(t) PROVE RunRep'
  BY <1>10, RestartRun DEF App
<1>11. ASSUME NEW t \in App, NEW p \in Prio,
              vibe_thread_create(t, p) \/ vibe_thread_set_priority(t, p)
       PROVE  RunRep'
  BY <1>11, CreateRun, SetPriorityRun DEF App
<1>12. CASE vibe_thread_yield
  <2>1. running \in Thread /\ g_current_thread = running
        /\ Queued(state[running]) /\ priority[running] \in Prio
    BY <1>0, <1>12, RunningIsQueued DEF vibe_thread_yield, Call, TypeOK
  <2>2. QueueMap' = [QueueMap EXCEPT ![running] = priority[running]]
    BY <1>0, <1>12, <2>1 DEF vibe_thread_yield, QueueMap, TypeOK, Queued
  <2>3. runq' = vibe_sched_enqueue(
                  vibe_sched_dequeue(runq, running, priority[running]),
                  running, priority[running])
    BY <1>12, <2>1 DEF vibe_thread_yield
  <2> QED BY <1>0, <2>1, <2>2, <2>3, MoveRun
<1>13. ASSUME NEW ms, vibe_thread_sleep(ms) PROVE RunRep'
  BY <1>1, <1>13 DEF vibe_thread_sleep, tcb
<1>14. CASE arch_systick_init \/ vibe_sched_start
            \/ vibe_sched_start_switch \/ PendSV_Handler \/ TickEnter
            \/ WakeDone \/ ResumeCheck \/ UnlockCheck \/ SleepScan
            \/ SleepInsert \/ vibe_sched_lock \/ vibe_sched_unlock
  <2>1. UNCHANGED <<tcb, runq>>
    BY <1>14 DEF arch_systick_init, vibe_sched_start,
         vibe_sched_start_switch, PendSV_Handler,
         TickEnter, WakeDone, ResumeCheck, UnlockCheck, SleepScan,
         SleepInsert, vibe_sched_lock, vibe_sched_unlock
  <2> QED BY <1>1, <2>1 DEF tcb
<1>15. CASE UNCHANGED vars
  BY <1>1, <1>15 DEF vars, tcb
<1> QED BY <1>2, <1>3, <1>4, <1>5, <1>6, <1>7, <1>8, <1>9, <1>10, <1>11,
           <1>12, <1>13, <1>14, <1>15
        DEF Next, Startup, TickStep, KernelStep, ApiCall

-----------------------------------------------------------------------------
(* Steps of the current thread                                             *)

(* Only the thread on the CPU can be in the insertion loop.                *)
LEMMA NoScan ==
  ASSUME IInv, NEW t \in Thread,
         running = NULL \/ pendsv \/ isr # "none"
         \/ \E l : l # "scan" /\ At(l)
  PROVE  pc[t] # "scan"
BY DEF IInv, CurrentAccounted, At

(* Where a reschedule leaves the current thread.                           *)
LEMMA RescheduleAccounted ==
  ASSUME IInv, vibe_sched_reschedule
  PROVE  /\ Queued(state'[Idle])
         /\ \A t \in Thread : state'[t] = "RUNNING" => t = g_current_thread'
         /\ \/ UNCHANGED <<state, cpu>> /\ g_sched_lock_count > 0
            \/ UNCHANGED cpu /\ Queued(state'[g_current_thread'])
            \/ /\ pendsv' /\ g_current_thread' \in Thread
               /\ Queued(state'[g_current_thread']) /\ g_sched_lock_count = 0
<1> DEFINE next == vibe_sched_next_thread(runq)
<1>0. TypeOK /\ RunRep /\ Queued(state[Idle]) /\ g_sched_lock_count \in Nat
  BY DEF IInv, CurrentAccounted, TypeOK
<1>1. next \in Thread /\ Queued(state[next])
  BY <1>0, NextIsHighest DEF SelectsHighest
<1>2. \A t \in Thread : state[t] = "RUNNING" => t = g_current_thread
  BY DEF IInv, CurrentAccounted
<1>3. Queued(state'[Idle])
  BY <1>0, RescheduleKeeps
<1> HIDE DEF next
<1>4. CASE g_sched_lock_count > 0 \/ next = g_current_thread
  <2>1. UNCHANGED <<state, cpu>>
    BY <1>4 DEF vibe_sched_reschedule, next
  <2>2. g_current_thread' = g_current_thread
    BY <2>1 DEF cpu
  <2> QED BY <1>1, <1>2, <1>3, <1>4, <2>1, <2>2
<1>5. CASE ~(g_sched_lock_count > 0 \/ next = g_current_thread)
  <2>1. SwitchTo(next)
    BY <1>5 DEF vibe_sched_reschedule, next
  <2>2. \A t \in Thread : state'[t] = "RUNNING" => t = next
    BY <1>2, <2>1 DEF SwitchTo
  <2>3. g_current_thread' = next /\ pendsv' /\ state'[next] = "RUNNING"
    BY <1>1, <2>1 DEF SwitchTo, arch_switch_to
  <2> QED BY <1>0, <1>1, <1>3, <1>5, <2>2, <2>3 DEF Queued
<1> QED BY <1>4, <1>5

LEMMA BootAccounted ==
  ASSUME IInv, Startup \/ PendSV_Handler
  PROVE  CurrentAccounted'
<1>0. TypeOK /\ RunRep /\ Queued(state[Idle]) /\ CurrentAccounted
      /\ SwitchCoherent /\ BootOK
  BY DEF IInv, CurrentAccounted
<1>1. CASE arch_systick_init
  BY <1>0, <1>1 DEF arch_systick_init, StartupRuns, CurrentAccounted,
                    OnWayOut, tcb, cpu, clock, locals
<1>2. CASE vibe_sched_start
  <2>1. g_current_thread' \in Thread /\ Queued(state'[g_current_thread'])
    BY <1>0, <1>2, NextIsHighest DEF vibe_sched_start, SelectsHighest, tcb
  <2>2. g_current_thread = NULL
    BY <1>0, <1>2 DEF vibe_sched_start, StartupRuns, CurrentAccounted
  <2> QED BY <1>0, <1>2, <2>1, <2>2
          DEF vibe_sched_start, StartupRuns, CurrentAccounted, OnWayOut, tcb,
              clock, locals
<1>3. CASE vibe_sched_start_running \/ vibe_sched_start_switch
  <2>1. g_current_thread \in Thread /\ g_sched_lock_count = 0
    BY <1>0, <1>3 DEF vibe_sched_start_running, vibe_sched_start_switch,
                      StartupRuns, BootOK, TypeOK,
                      Link, CurrentAccounted
  <2> QED BY <1>0, <1>3, <2>1
          DEF vibe_sched_start_running, vibe_sched_start_switch,
              arch_switch_to, StartupRuns, Queued, CurrentAccounted, OnWayOut,
              TypeOK, tcb, cpu, clock, locals
<1>4. CASE PendSV_Handler
  BY <1>0, <1>4 DEF PendSV_Handler, SwitchCoherent, CurrentAccounted,
                    OnWayOut, tcb, clock, locals
<1> QED BY <1>1, <1>2, <1>3, <1>4 DEF Startup

LEMMA TickAccounted ==
  ASSUME IInv, TickEnter \/ TickStep
  PROVE  CurrentAccounted'
<1>0. TypeOK /\ CurrentAccounted
  BY DEF IInv
<1>1. CASE TickEnter
  BY <1>0, <1>1 DEF TickEnter, IrqMasked, CurrentAccounted, OnWayOut, tcb,
                    cpu, locals
<1>2. CASE WakeExpired
  <2>1. cursor \in Thread /\ state[cursor] = "SLEEPING"
    BY <1>2, CursorAsleep DEF WakeExpired, IInv, SleepRep, Asleep
  <2> QED BY <1>0, <1>2, <2>1 DEF WakeExpired, CurrentAccounted, OnWayOut,
                                  TypeOK, Queued, cpu, clock, locals
<1>3. CASE WakeDone
  BY <1>0, <1>3 DEF WakeDone, CurrentAccounted, OnWayOut, tcb, cpu, locals
<1>4. CASE vibe_sched_timeslice_tick
  <2>1. state' = state \/ (/\ g_current_thread \in Thread
                           /\ state' = [state EXCEPT ![g_current_thread] = "READY"])
    BY <1>0, <1>4 DEF vibe_sched_timeslice_tick, TypeOK, Link
  <2>2. isr = "slice" /\ UNCHANGED <<timeout, cpu, g_sched_lock_count, running,
                                     locals, boot>>
    BY <1>4 DEF vibe_sched_timeslice_tick
  <2> QED BY <1>0, <2>1, <2>2 DEF CurrentAccounted, OnWayOut, TypeOK, Queued,
                                  cpu, locals
<1>5. CASE TickResched
  <2>1. vibe_sched_reschedule /\ isr # "none"
        /\ UNCHANGED <<timeout, g_sched_lock_count, running, locals, boot>>
    BY <1>5 DEF TickResched
  <2> QED BY <1>0, <2>1, RescheduleAccounted
          DEF CurrentAccounted, OnWayOut, cpu, locals
<1> QED BY <1>1, <1>2, <1>3, <1>4, <1>5 DEF TickStep

LEMMA KernelAccounted ==
  ASSUME IInv, KernelStep
  PROVE  CurrentAccounted'
<1>0. TypeOK /\ CurrentAccounted /\ IdleWaits /\ PcOK
  BY DEF IInv, TypeOK
<1>r. running \in Thread /\ g_current_thread = running /\ ~pendsv
      /\ isr = "none"
  BY SelfIsRunning DEF IInv, KernelStep, Resched, ResumeCheck, UnlockCheck,
                       SleepBegin, SleepScan, SleepInsert, At
<1>1. CASE Resched
  <2>1. /\ vibe_sched_reschedule /\ pc[running] \in {"resched", "exit"}
        /\ UNCHANGED <<timeout, g_sched_lock_count, isr, running, expiry, boot>>
        /\ pc' = [pc EXCEPT ![running] = IF pc[running] = "exit"
                                         THEN "spin" ELSE "run"]
    BY <1>1 DEF Resched, At, Goto, clock
  <2>2. \A t \in Thread : pc[t] # "scan" /\ pc'[t] # "scan"
    BY <1>0, <1>r, <2>1 DEF CurrentAccounted, PcOK
  <2>3. g_sched_lock_count > 0 => Queued(state[running]) /\ pc[running] = "resched"
    BY <1>0, <1>r, <2>1 DEF CurrentAccounted, OnWayOut
  <2> QED BY <1>0, <1>r, <2>1, <2>2, <2>3, RescheduleAccounted
          DEF CurrentAccounted, OnWayOut, cpu, PcOK
<1>2. CASE ResumeCheck
  BY <1>0, <1>r, <1>2 DEF ResumeCheck, At, Goto, CurrentAccounted, OnWayOut,
                          PcOK, tcb, cpu, clock
<1>3. CASE UnlockCheck
  BY <1>0, <1>r, <1>3 DEF UnlockCheck, At, Goto, CurrentAccounted, OnWayOut,
                          PcOK, tcb, cpu, clock
<1>4. CASE SleepBegin
  <2>1. g_sched_lock_count = 0 /\ running # Idle
    BY <1>0, <1>r, <1>4 DEF SleepBegin, At, CurrentAccounted, TypeOK, IdleWaits
  <2> QED BY <1>0, <1>r, <1>4, <2>1
          DEF SleepBegin, At, Goto, CurrentAccounted, OnWayOut, TypeOK, PcOK,
              Queued, cpu, clock
<1>5. CASE SleepScan
  BY <1>0, <1>r, <1>5 DEF SleepScan, At, CurrentAccounted, OnWayOut, tcb, cpu,
                          clock, locals
<1>6. CASE SleepInsert
  BY <1>0, <1>r, <1>6 DEF SleepInsert, At, Goto, CurrentAccounted, OnWayOut,
                          PcOK, tcb, cpu, clock
<1> QED BY <1>1, <1>2, <1>3, <1>4, <1>5, <1>6 DEF KernelStep

LEMMA ApiAccounted ==
  ASSUME IInv, Disciplined, ApiCall
  PROVE  CurrentAccounted'
<1>0. TypeOK /\ CurrentAccounted /\ PcOK
  BY DEF IInv, TypeOK
<1>1. ASSUME NEW t \in App, NEW u \in {"DEAD", "SUSPENDED"},
             NEW l \in {"resched", "exit"}, Stop(t, u, l), At("run")
      PROVE  CurrentAccounted'
  <2>1. running \in Thread /\ g_current_thread = running
        /\ Queued(state[running])
    BY <1>1, RunningIsQueued
  <2>2. t = g_current_thread => g_sched_lock_count = 0
    BY <1>0, <1>1 DEF Stop, MayBlock, Disciplined, Hazardous, TypeOK
  <2> QED BY <1>0, <1>1, <2>1, <2>2
          DEF Stop, At, Goto, CurrentAccounted, OnWayOut, TypeOK, PcOK, Queued,
              App, cpu, clock
<1>2. ASSUME NEW t \in App, vibe_thread_resume(t) PROVE CurrentAccounted'
  <2>1. running \in Thread /\ g_current_thread = running
        /\ Queued(state[running]) /\ At("run")
    BY <1>2, RunningIsQueued DEF vibe_thread_resume, Call
  <2> QED BY <1>0, <1>2, <2>1
          DEF vibe_thread_resume, At, Goto, CurrentAccounted, OnWayOut, TypeOK,
              PcOK, Queued, App, cpu, clock
<1>3. ASSUME NEW t \in App, vibe_thread_restart(t) PROVE CurrentAccounted'
  <2>1. running \in Thread /\ g_current_thread = running
        /\ Queued(state[running]) /\ At("run")
    BY <1>3, RunningIsQueued DEF vibe_thread_restart, Call
  <2>2. t # running /\ t \in Thread
    BY <1>3, <2>1 DEF vibe_thread_restart, Disciplined, Hazardous, App
  <2> QED BY <1>0, <1>3, <2>1, <2>2
          DEF vibe_thread_restart, At, CurrentAccounted, OnWayOut, TypeOK,
              PcOK, Queued, App, cpu, clock
<1>4. ASSUME NEW t \in App, NEW p \in Prio, vibe_thread_create(t, p)
      PROVE  CurrentAccounted'
  <2>1. CASE Call("create")
    <3>1. running \in Thread /\ g_current_thread = running
          /\ Queued(state[running]) /\ At("run")
      BY <2>1, RunningIsQueued DEF Call
    <3>2. t # running /\ t \in Thread
      BY <1>4, <3>1 DEF vibe_thread_create, Queued, App
    <3> QED BY <1>0, <1>4, <3>1, <3>2
            DEF vibe_thread_create, At, CurrentAccounted, OnWayOut, TypeOK,
                PcOK, Queued, App, cpu, clock
  <2>2. CASE StartupRuns /\ boot = "create"
    <3>1. running = NULL /\ g_current_thread = NULL
      BY <1>0, <2>2 DEF StartupRuns, CurrentAccounted
    <3> QED BY <1>0, <1>4, <3>1
            DEF vibe_thread_create, CurrentAccounted, OnWayOut, TypeOK, PcOK,
                Queued, App, cpu, clock
  <2> QED BY <1>4, <2>1, <2>2 DEF vibe_thread_create
<1>5. ASSUME NEW t \in App, NEW p \in Prio, vibe_thread_set_priority(t, p)
      PROVE  CurrentAccounted'
  <2>1. running \in Thread /\ g_current_thread = running
        /\ Queued(state[running]) /\ At("run")
    BY <1>5, RunningIsQueued DEF vibe_thread_set_priority, Call
  <2> QED BY <1>0, <1>5, <2>1
          DEF vibe_thread_set_priority, At, Goto, CurrentAccounted, OnWayOut,
              PcOK, cpu, clock
<1>6. ASSUME NEW ms, vibe_thread_sleep(ms) PROVE CurrentAccounted'
  <2>1. running \in Thread /\ g_current_thread = running
        /\ Queued(state[running]) /\ At("run") /\ g_sched_lock_count = 0
    BY <1>0, <1>6, RunningIsQueued
       DEF vibe_thread_sleep, Call, MayBlock, Disciplined, Hazardous, TypeOK
  <2> QED BY <1>0, <1>6, <2>1
          DEF vibe_thread_sleep, At, Goto, CurrentAccounted, OnWayOut, PcOK,
              tcb, cpu, clock
<1>7. CASE vibe_thread_yield
  <2>1. running \in Thread /\ g_current_thread = running
        /\ Queued(state[running]) /\ At("run")
    BY <1>7, RunningIsQueued DEF vibe_thread_yield, Call
  <2> QED BY <1>0, <1>7, <2>1
          DEF vibe_thread_yield, At, Goto, CurrentAccounted, OnWayOut, TypeOK,
              PcOK, Queued, cpu, clock
<1>8. CASE vibe_sched_lock \/ vibe_sched_unlock
  <2>1. running \in Thread /\ g_current_thread = running
        /\ Queued(state[running]) /\ At("run")
    BY <1>8, RunningIsQueued DEF vibe_sched_lock, vibe_sched_unlock, Call
  <2> QED BY <1>0, <1>8, <2>1
          DEF vibe_sched_lock, vibe_sched_unlock, LockReleased, At, Goto,
              CurrentAccounted, OnWayOut, PcOK, tcb, cpu, clock, locals
<1>9. CASE vibe_thread_exit
  <2>1. running \in App /\ g_current_thread = running /\ At("run")
    BY <1>9, RunningIsQueued DEF vibe_thread_exit, Call, App
  <2> QED BY <1>1, <1>9, <2>1 DEF vibe_thread_exit
<1>10. ASSUME NEW t \in App, vibe_thread_delete(t) \/ vibe_thread_suspend(t)
       PROVE  CurrentAccounted'
  BY <1>1, <1>10 DEF vibe_thread_delete, vibe_thread_suspend, Call
<1> QED BY <1>2, <1>3, <1>4, <1>5, <1>6, <1>7, <1>8, <1>9, <1>10 DEF ApiCall

LEMMA AccountedStep ==
  ASSUME IInv, Disciplined, [Next]_vars
  PROVE  CurrentAccounted'
<1>1. CASE UNCHANGED vars
  BY <1>1 DEF IInv, CurrentAccounted, OnWayOut, vars, tcb, cpu, clock, locals
<1> QED BY <1>1, BootAccounted, TickAccounted, KernelAccounted, ApiAccounted
        DEF Next

-----------------------------------------------------------------------------
(* Steps of the sleep list                                                 *)

(* Most steps neither touch the list nor put anybody to sleep.             *)
LEMMA KeepSleep ==
  ASSUME SleepRep, sleepq' = sleepq,
         \A t \in Thread : Asleep(t)' <=> Asleep(t),
         \A t \in Thread : Asleep(t) => timeout'[t] = timeout[t],
         isr' = "wake" => cursor' = sleepq.head[SleepList],
         \A t \in Thread : pc'[t] # "scan"
  PROVE  SleepRep'
<1>1. PICK s : SRep(s)
  BY DEF SleepRep
<1>2. s \in Seq(Thread) /\ \A k \in 1..Len(s) : s[k] \in Thread /\ Asleep(s[k])
  BY <1>1 DEF SRep
<1>3. IsList(sleepq, SleepList, s)'
  BY <1>1 DEF SRep, IsList, Linked
<1>4. SRep(s)'
  BY <1>1, <1>2, <1>3 DEF SRep
<1> QED BY <1>4 DEF SleepRep

(* A sleeper leaves the list.                                              *)
LEMMA LeaveSleep ==
  ASSUME TypeOK, NEW s, SRep(s), NEW i \in 1..Len(s),
         sleepq' = vibe_list_remove(sleepq, SleepList, s[i]),
         \A t \in Thread : Asleep(t)' <=> (Asleep(t) /\ t # s[i]),
         \A t \in Thread : t # s[i] => timeout'[t] = timeout[t],
         isr' = "wake" => i = 1 /\ cursor' = sleepq.next[s[1]],
         \A t \in Thread : pc'[t] # "scan"
  PROVE  SleepRep'
<1> DEFINE r == Without(s, i)
<1>1. /\ s \in Seq(Thread) /\ IsList(sleepq, SleepList, s)
      /\ sleepq \in Heap({SleepList}, Thread) /\ SleepList \in {SleepList}
  BY DEF SRep, TypeOK
<1>2. r \in Seq(Thread) /\ Len(r) = Len(s) - 1 /\ Len(s) \in Nat
  BY <1>1, WithoutSeq
<1>3. IsList(sleepq', SleepList, r)
  BY <1>1, RemoveList
<1>4. \A j \in 1..Len(r) : r[j] = IF j < i THEN s[j] ELSE s[j + 1]
  BY <1>2 DEF Without
<1> HIDE DEF r
<1>5. \A j, k \in 1..Len(s) : s[j] = s[k] => j = k
  BY <1>1 DEF IsList, Linked
<1>6. \A j \in 1..Len(r) : r[j] \in Thread /\ r[j] # s[i] /\ Asleep(r[j])
  <2> TAKE j \in 1..Len(r)
  <2> DEFINE k == IF j < i THEN j ELSE j + 1
  <2>1. k \in 1..Len(s) /\ k # i /\ r[j] = s[k]
    BY <1>2, <1>4
  <2> HIDE DEF k
  <2> QED BY <1>1, <1>5, <2>1 DEF SRep
<1>7. ASSUME NEW t \in Thread, Asleep(t), t # s[i]
      PROVE  \E j \in 1..Len(r) : r[j] = t
  <2>1. PICK k \in 1..Len(s) : s[k] = t
    BY <1>7 DEF SRep
  <2>2. k # i
    BY <1>7, <2>1
  <2> DEFINE j == IF k < i THEN k ELSE k - 1
  <2>3. j \in 1..Len(r) /\ r[j] = t
    BY <1>2, <1>4, <2>1, <2>2
  <2> HIDE DEF j
  <2> QED BY <2>3
<1>8. ASSUME NEW j \in 1..Len(r), NEW k \in 1..Len(r), j < k
      PROVE  timeout[r[j]] <= timeout[r[k]]
  <2> DEFINE jj == IF j < i THEN j ELSE j + 1
             kk == IF k < i THEN k ELSE k + 1
  <2>1. jj \in 1..Len(s) /\ kk \in 1..Len(s) /\ jj < kk
        /\ r[j] = s[jj] /\ r[k] = s[kk]
    BY <1>2, <1>4, <1>8
  <2> HIDE DEF jj, kk
  <2> QED BY <2>1 DEF SRep
<1>9. isr' = "wake" => cursor' = sleepq'.head[SleepList]
  <2> SUFFICES ASSUME isr' = "wake" PROVE cursor' = sleepq'.head[SleepList]
    OBVIOUS
  <2>1. i = 1 /\ cursor' = IF 1 = Len(s) THEN NULL ELSE s[2]
    BY <1>1, <1>2 DEF IsList, Linked
  <2>2. sleepq'.head[SleepList] = IF Len(r) = 0 THEN NULL ELSE r[1]
    BY <1>3 DEF IsList, Linked
  <2> QED BY <1>2, <1>4, <2>1, <2>2
<1>10. SRep(r)'
  BY <1>2, <1>3, <1>6, <1>7, <1>8, <1>9 DEF SRep
<1> QED BY <1>10 DEF SleepRep

(* A sleeper enters the list before its i-th thread.                       *)
LEMMA EnterSleep ==
  ASSUME TypeOK, NEW s, SRep(s), NEW i \in 1..(Len(s) + 1), NEW n \in Thread,
         \A k \in 1..Len(s) : s[k] # n,
         IsList(sleepq', SleepList, With(s, i, n)),
         \A t \in Thread : Asleep(t)' <=> (Asleep(t) \/ t = n),
         timeout' = timeout,
         \A j \in 1..(i - 1) : timeout[s[j]] <= timeout[n],
         i <= Len(s) => timeout[n] <= timeout[s[i]],
         isr' # "wake", \A t \in Thread : pc'[t] # "scan"
  PROVE  SleepRep'
<1> DEFINE r == With(s, i, n)
<1>1. s \in Seq(Thread)
  BY DEF SRep
<1>2. r \in Seq(Thread) /\ Len(r) = Len(s) + 1 /\ Len(s) \in Nat
  BY <1>1, WithSeq
<1>3. \A j \in 1..Len(r) :
        r[j] = IF j < i THEN s[j] ELSE IF j = i THEN n ELSE s[j - 1]
  BY <1>2 DEF With
<1>4. IsList(sleepq', SleepList, r)
  OBVIOUS
<1> HIDE DEF r
<1>5. \A j \in 1..Len(r) : r[j] \in Thread /\ (Asleep(r[j]) \/ r[j] = n)
  <2> TAKE j \in 1..Len(r)
  <2>1. CASE j = i
    BY <1>3, <2>1
  <2>2. CASE j # i
    <3> DEFINE k == IF j < i THEN j ELSE j - 1
    <3>1. k \in 1..Len(s) /\ r[j] = s[k]
      BY <1>2, <1>3, <2>2
    <3> HIDE DEF k
    <3> QED BY <1>1, <3>1 DEF SRep
  <2> QED BY <2>1, <2>2
<1>6. ASSUME NEW t \in Thread, Asleep(t) \/ t = n
      PROVE  \E j \in 1..Len(r) : r[j] = t
  <2>1. CASE t = n
    <3>1. i \in 1..Len(r) /\ r[i] = n
      BY <1>2, <1>3
    <3> QED BY <2>1, <3>1
  <2>2. CASE Asleep(t)
    <3>1. PICK k \in 1..Len(s) : s[k] = t
      BY <2>2 DEF SRep
    <3> DEFINE j == IF k < i THEN k ELSE k + 1
    <3>2. j \in 1..Len(r) /\ r[j] = t
      BY <1>2, <1>3, <3>1
    <3> HIDE DEF j
    <3> QED BY <3>2
  <2> QED BY <1>6, <2>1, <2>2
<1>7. \A j \in 1..Len(s) : timeout[s[j]] \in Int
  <2>1. \A t \in Thread : timeout[t] \in Int
    BY DEF TypeOK
  <2> QED BY <1>1, <2>1
<1>8. timeout[n] \in Int
  BY DEF TypeOK
<1>9. \A j, k \in 1..Len(s) : j < k => timeout[s[j]] <= timeout[s[k]]
  BY DEF SRep
<1>10. \A k \in i..Len(s) : timeout[n] <= timeout[s[k]]
  <2> TAKE k \in i..Len(s)
  <2>1. i \in 1..Len(s) /\ k \in 1..Len(s) /\ i <= Len(s)
    BY <1>2
  <2>2. timeout[s[i]] <= timeout[s[k]]
    BY <1>7, <1>9, <2>1
  <2> QED BY <1>7, <1>8, <2>1, <2>2
<1>11. ASSUME NEW j \in 1..Len(r), NEW k \in 1..Len(r), j < k
       PROVE  timeout[r[j]] <= timeout[r[k]]
  <2>1. CASE j = i
    <3>1. k - 1 \in i..Len(s) /\ r[k] = s[k - 1] /\ r[j] = n
      BY <1>2, <1>3, <1>11, <2>1
    <3> QED BY <1>10, <3>1
  <2>2. CASE k = i
    <3>1. j \in 1..(i - 1) /\ r[j] = s[j] /\ r[k] = n
      BY <1>2, <1>3, <1>11, <2>2
    <3> QED BY <3>1
  <2>3. CASE j # i /\ k # i
    <3> DEFINE jj == IF j < i THEN j ELSE j - 1
               kk == IF k < i THEN k ELSE k - 1
    <3>1. jj \in 1..Len(s) /\ kk \in 1..Len(s) /\ jj < kk
          /\ r[j] = s[jj] /\ r[k] = s[kk]
      BY <1>2, <1>3, <1>11, <2>3
    <3> HIDE DEF jj, kk
    <3> QED BY <1>9, <3>1
  <2> QED BY <2>1, <2>2, <2>3
<1>12. SRep(r)'
  BY <1>2, <1>4, <1>5, <1>6, <1>11 DEF SRep
<1> QED BY <1>12 DEF SleepRep

(* Interrupts masked: the insertion loop of _vibe_sched_sleep.             *)
LEMMA ScanSleep ==
  ASSUME IInv, SleepBegin \/ SleepScan
  PROVE  SleepRep'
<1>0. TypeOK /\ CurrentAccounted /\ PcOK /\ SleepRep
  BY DEF IInv, TypeOK
<1>r. running \in Thread /\ g_current_thread = running /\ isr = "none"
  BY SelfIsRunning DEF IInv, SleepBegin, SleepScan, At
<1>1. PICK s : SRep(s)
  BY <1>0 DEF SleepRep
<1>2. s \in Seq(Thread) /\ Len(s) \in Nat
  BY <1>1 DEF SRep
<1>3. CASE SleepBegin
  <2>1. Queued(state[running]) /\ pc[running] = "sleep"
    BY <1>3, RunningIsQueued DEF SleepBegin, At
  <2>2. \A t \in Thread : t # running => pc[t] # "scan"
    BY <1>0 DEF CurrentAccounted
  <2>3. sleepq' = sleepq /\ isr' = "none"
        /\ \A t \in Thread : Asleep(t)' <=> Asleep(t)
    BY <1>0, <1>r, <1>3, <2>1 DEF SleepBegin, Goto, Asleep, TypeOK, PcOK,
                                  Queued, clock
  <2>4. \A k \in 1..Len(s) : s[k] \in Thread /\ s[k] # running
    BY <1>1, <1>2, <2>1 DEF SRep, Asleep, Queued
  <2>5. \A t \in Thread : t # running => timeout'[t] = timeout[t]
    BY <1>0, <1>r, <1>3 DEF SleepBegin, TypeOK
  <2>6. IsList(sleepq, SleepList, s)'
    BY <1>1, <2>3 DEF SRep, IsList, Linked
  <2>7. /\ 1 \in 1..(Len(s) + 1)
        /\ cursor' = IF 1 = Len(s) + 1 THEN NULL ELSE s[1]
    BY <1>1, <1>2, <1>3 DEF SleepBegin, SRep, IsList, Linked
  <2>8. \A t \in Thread : pc'[t] = "scan" => t = running
    BY <1>0, <1>r, <1>3, <2>2 DEF SleepBegin, Goto, PcOK
  <2>9. SRep(s)'
    BY <1>1, <1>2, <2>3, <2>4, <2>5, <2>6, <2>7 DEF SRep
  <2> QED BY <2>9 DEF SleepRep
<1>4. CASE SleepScan
  <2>1. pc[running] = "scan" /\ cursor # NULL
        /\ expiry[running] >= timeout[cursor]
    BY <1>4 DEF SleepScan, At
  <2>2. PICK i \in 1..(Len(s) + 1) :
          /\ cursor = IF i = Len(s) + 1 THEN NULL ELSE s[i]
          /\ \A j \in 1..(i - 1) : timeout[s[j]] <= expiry[running]
    BY <1>1, <1>r, <2>1 DEF SRep
  <2>3. i \in 1..Len(s) /\ cursor = s[i] /\ cursor \in Thread
    BY <1>2, <2>1, <2>2
  <2>4. UNCHANGED <<state, timeout, sleepq, pc, expiry, isr>>
        /\ cursor' = sleepq.next[cursor]
    BY <1>4 DEF SleepScan, tcb, locals, clock
  <2>5. cursor' = IF i + 1 = Len(s) + 1 THEN NULL ELSE s[i + 1]
    BY <1>1, <1>2, <2>3, <2>4 DEF SRep, IsList, Linked
  <2>6. \A j \in 1..(i + 1 - 1) : timeout[s[j]] <= expiry[running]
    <3> TAKE j \in 1..(i + 1 - 1)
    <3>1. j \in 1..(i - 1) \/ j = i
      BY <1>2
    <3>2. timeout[cursor] <= expiry[running]
      BY <1>0, <1>r, <2>1, <2>3 DEF TypeOK
    <3> QED BY <2>2, <2>3, <3>1, <3>2
  <2>7. \A t \in Thread : pc[t] = "scan" => t = running
    BY <1>0 DEF CurrentAccounted
  <2>8. i + 1 \in 1..(Len(s) + 1)
    BY <1>2, <2>3
  <2>9. \A t \in Thread : pc'[t] = "scan" =>
          \E h \in 1..(Len(s) + 1) :
            /\ cursor' = IF h = Len(s) + 1 THEN NULL ELSE s[h]
            /\ \A j \in 1..(h - 1) : timeout'[s[j]] <= expiry'[t]
    BY <2>4, <2>5, <2>6, <2>7, <2>8
  <2>10. SRep(s)'
    <3>1. IsList(sleepq, SleepList, s)' /\ \A t \in Thread : Asleep(t)' <=> Asleep(t)
      BY <1>1, <2>4 DEF SRep, IsList, Linked, Asleep
    <3>2. isr' # "wake" /\ \A k \in 1..Len(s) : s[k] \in Thread
      BY <1>2, <1>r, <2>4
    <3> QED BY <1>1, <2>4, <2>9, <3>1, <3>2 DEF SRep
  <2> QED BY <2>10 DEF SleepRep
<1> QED BY <1>3, <1>4

LEMMA InsertSleep ==
  ASSUME IInv, SleepInsert
  PROVE  SleepRep'
<1>0. TypeOK /\ CurrentAccounted /\ PcOK /\ SleepRep
  BY DEF IInv, TypeOK
<1>1. running \in Thread /\ g_current_thread = running /\ isr = "none"
      /\ pc[running] = "scan"
  BY SelfIsRunning DEF IInv, SleepInsert, At
<1>2. PICK s : SRep(s)
  BY <1>0 DEF SleepRep
<1>3. /\ s \in Seq(Thread) /\ Len(s) \in Nat /\ IsList(sleepq, SleepList, s)
      /\ sleepq \in Heap({SleepList}, Thread) /\ SleepList \in {SleepList}
  BY <1>0, <1>2 DEF SRep, TypeOK
<1>4. PICK i \in 1..(Len(s) + 1) :
        /\ cursor = IF i = Len(s) + 1 THEN NULL ELSE s[i]
        /\ \A j \in 1..(i - 1) : timeout[s[j]] <= expiry[running]
  BY <1>1, <1>2 DEF SRep
<1>5. timeout[running] = expiry[running] /\ state[running] = "SLEEPING"
  BY <1>0, <1>1 DEF CurrentAccounted
<1>6. \A k \in 1..Len(s) : s[k] # running
  BY <1>1, <1>2 DEF SRep, Asleep
<1>7. IsList(sleepq', SleepList, With(s, i, running))
  <2>1. sleepq' = InsertSleeper(running)
    BY <1>1 DEF SleepInsert
  <2>2. CASE i = Len(s) + 1
    <3>1. sleepq' = vibe_list_append(sleepq, SleepList, running)
      BY <1>4, <2>1, <2>2 DEF InsertSleeper
    <3> DEFINE r == With(s, i, running)
    <3>2. /\ r \in Seq(Thread) /\ Len(r) = Len(s) + 1
          /\ Append(s, running) \in Seq(Thread)
      BY <1>1, <1>3, WithSeq
    <3>3. \A k \in 1..Len(r) : r[k] = Append(s, running)[k]
      BY <1>1, <1>3, <2>2 DEF With
    <3>4. r = Append(s, running)
      <4> HIDE DEF r
      <4> QED BY <1>1, <1>3, <3>2, <3>3
    <3> QED BY <1>1, <1>3, <1>6, <3>1, <3>4, AppendList
  <2>3. CASE i \in 1..Len(s)
    <3>1. cursor = s[i] /\ cursor \in Thread
          /\ sleepq.prev[cursor] = IF i = 1 THEN NULL ELSE s[i - 1]
      BY <1>3, <1>4, <2>3 DEF IsList, Linked
    <3>2. CASE i = 1
      <4>1. sleepq' = vibe_list_prepend(sleepq, SleepList, running)
        BY <2>1, <3>1, <3>2 DEF InsertSleeper
      <4> QED BY <1>1, <1>3, <1>6, <3>2, <4>1, PrependList
    <3>3. CASE i # 1
      <4>1. i \in 2..(Len(s) + 1) /\ i - 1 \in 1..Len(s)
        BY <1>3, <2>3, <3>3
      <4>2. sleepq.prev[cursor] = s[i - 1] /\ s[i - 1] \in Thread
        BY <1>3, <3>1, <3>3, <4>1
      <4>3. sleepq' = vibe_list_insert_after(sleepq, SleepList, s[i - 1], running)
        BY <2>1, <3>1, <4>2 DEF InsertSleeper
      <4> QED BY <1>1, <1>3, <1>6, <4>1, <4>3, InsertAfterList
    <3> QED BY <3>2, <3>3
  <2> QED BY <1>3, <2>2, <2>3
<1>8. /\ timeout' = timeout /\ isr' # "wake"
      /\ \A t \in Thread : pc'[t] # "scan"
      /\ \A t \in Thread : Asleep(t)' <=> (Asleep(t) \/ t = running)
  BY <1>0, <1>1, <1>5 DEF SleepInsert, Goto, Asleep, CurrentAccounted, PcOK,
                          tcb, clock
<1>9. i <= Len(s) => timeout[running] <= timeout[s[i]]
  <2> SUFFICES ASSUME i <= Len(s) PROVE timeout[running] <= timeout[s[i]]
    OBVIOUS
  <2>1. cursor = s[i] /\ cursor \in Thread
    BY <1>3, <1>4
  <2>2. ~(expiry[running] >= timeout[cursor])
    BY <2>1 DEF SleepInsert
  <2> QED BY <1>0, <1>1, <1>5, <2>1, <2>2 DEF TypeOK
<1>10. \A j \in 1..(i - 1) : timeout[s[j]] <= timeout[running]
  BY <1>4, <1>5
<1> QED BY <1>0, <1>1, <1>2, <1>6, <1>7, <1>8, <1>9, <1>10, EnterSleep

LEMMA WakeSleep ==
  ASSUME IInv, WakeExpired
  PROVE  SleepRep'
<1>0. TypeOK /\ SleepRep
  BY DEF IInv
<1>1. PICK s : SRep(s)
  BY <1>0 DEF SleepRep
<1>2. isr = "wake" /\ cursor # NULL
  BY DEF WakeExpired
<1>3. Len(s) > 0 /\ cursor = s[1] /\ cursor \in Thread /\ Asleep(cursor)
  BY <1>1, <1>2, CursorAsleep
<1>4. 1 \in 1..Len(s)
  BY <1>1, <1>3 DEF SRep
<1>5. \A t \in Thread : pc[t] # "scan"
  BY <1>2, NoScan
<1>6. /\ sleepq' = vibe_list_remove(sleepq, SleepList, s[1])
      /\ cursor' = sleepq.next[s[1]]
      /\ timeout' = timeout /\ pc' = pc
      /\ \A t \in Thread : Asleep(t)' <=> (Asleep(t) /\ t # s[1])
  BY <1>0, <1>3 DEF WakeExpired, Asleep, TypeOK, locals
<1> QED BY <1>0, <1>1, <1>4, <1>5, <1>6, LeaveSleep

LEMMA RestartSleep ==
  ASSUME IInv, Disciplined, NEW t \in Thread, vibe_thread_restart(t)
  PROVE  SleepRep'
<1>0. TypeOK /\ SleepRep /\ PcOK
  BY DEF IInv, TypeOK
<1>1. \A u \in Thread : pc[u] # "scan" /\ pc'[u] # "scan"
  <2>1. \A u \in Thread : pc[u] # "scan"
    BY NoScan DEF vibe_thread_restart, Call
  <2> QED BY <1>0, <2>1 DEF vibe_thread_restart, PcOK
<1>2. isr' # "wake"
  BY DEF vibe_thread_restart, Call, At, clock
<1>3. \A u \in Thread : u # t => timeout'[u] = timeout[u]
  BY <1>0 DEF vibe_thread_restart, TypeOK
<1>4. \A u \in Thread : Asleep(u)' <=> (Asleep(u) /\ u # t)
  BY <1>0, <1>1 DEF vibe_thread_restart, TypeOK, Asleep
<1>5. CASE state[t] = "SLEEPING"
  <2>1. PICK s : SRep(s)
    BY <1>0 DEF SleepRep
  <2>2. PICK i \in 1..Len(s) : s[i] = t
    BY <1>1, <1>5, <2>1 DEF SRep, Asleep
  <2>3. sleepq' = vibe_list_remove(sleepq, SleepList, s[i])
    BY <1>5, <2>2 DEF vibe_thread_restart, RestartUnsleep
  <2> QED BY <1>0, <1>1, <1>2, <1>3, <1>4, <2>1, <2>2, <2>3, LeaveSleep
<1>6. CASE state[t] # "SLEEPING"
  <2>1. sleepq' = sleepq
    BY <1>6 DEF vibe_thread_restart, RestartUnsleep
  <2>2. ~Asleep(t)
    BY <1>6 DEF Asleep
  <2> QED BY <1>0, <1>1, <1>2, <1>3, <1>4, <2>1, <2>2, KeepSleep
<1> QED BY <1>5, <1>6

LEMMA CreateSleep ==
  ASSUME IInv, NEW t \in Thread, NEW p, vibe_thread_create(t, p)
  PROVE  SleepRep'
<1>0. TypeOK /\ SleepRep /\ PcOK
  BY DEF IInv, TypeOK
<1>1. PICK s : SRep(s)
  BY <1>0 DEF SleepRep
<1>2. \A u \in Thread : pc[u] # "scan" /\ pc'[u] # "scan"
  <2>1. \A u \in Thread : pc[u] # "scan"
    BY NoScan DEF vibe_thread_create, Call, StartupRuns
  <2> QED BY <1>0, <2>1 DEF vibe_thread_create, PcOK
<1>3. isr' # "wake"
  BY DEF vibe_thread_create, Call, At, StartupRuns, clock
<1>4. ~Asleep(t) /\ \A u \in Thread : Asleep(u)' <=> Asleep(u)
  BY <1>0, <1>2 DEF vibe_thread_create, TypeOK, Asleep
<1>5. s \in Seq(Thread) /\ \A k \in 1..Len(s) : s[k] \in Thread /\ s[k] # t
  BY <1>1, <1>4 DEF SRep
<1>6. \A u \in Thread : u # t => timeout'[u] = timeout[u]
  BY <1>0 DEF vibe_thread_create, TypeOK
<1>7. IsList(sleepq', SleepList, s)
  <2>1. /\ sleepq' = vibe_list_node_init(sleepq, t) /\ sleepq \in Heap({SleepList}, Thread)
        /\ IsList(sleepq, SleepList, s)
    BY <1>0, <1>1 DEF vibe_thread_create, SRep, TypeOK
  <2>2. /\ sleepq'.head = sleepq.head /\ sleepq'.tail = sleepq.tail /\ sleepq'.count = sleepq.count
        /\ \A u \in Thread : u # t => sleepq'.prev[u] = sleepq.prev[u] /\ sleepq'.next[u] = sleepq.next[u]
    BY <2>1 DEF vibe_list_node_init, Heap
  <2>3. \A k \in 1..Len(s) : sleepq'.prev[s[k]] = sleepq.prev[s[k]] /\ sleepq'.next[s[k]] = sleepq.next[s[k]]
    BY <1>5, <2>2
  <2> QED BY <2>1, <2>2, <2>3 DEF IsList, Linked
<1>8. SRep(s)'
  BY <1>1, <1>2, <1>3, <1>4, <1>5, <1>6, <1>7 DEF SRep
<1> QED BY <1>8 DEF SleepRep

LEMMA StopSleep ==
  ASSUME IInv, NEW t \in Thread, NEW u \in {"DEAD", "SUSPENDED"},
         NEW l \in {"resched", "exit"}, Stop(t, u, l), At("run"),
         state[t] # "SLEEPING"
  PROVE  SleepRep'
<1>0. TypeOK /\ SleepRep /\ PcOK
  BY DEF IInv, TypeOK
<1>1. \A v \in Thread : pc[v] # "scan" /\ pc'[v] # "scan"
  <2>1. \A v \in Thread : pc[v] # "scan"
    BY NoScan
  <2> QED BY <1>0, <2>1 DEF Stop, Goto, PcOK
<1>2. sleepq' = sleepq /\ timeout' = timeout /\ isr' # "wake"
      /\ \A v \in Thread : Asleep(v)' <=> Asleep(v)
  BY <1>0, <1>1 DEF Stop, At, Asleep, TypeOK, clock
<1> QED BY <1>0, <1>1, <1>2, KeepSleep

LEMMA SleepStep ==
  ASSUME IInv, Disciplined, [Next]_vars
  PROVE  SleepRep'
<1>0. TypeOK /\ SleepRep /\ CurrentAccounted /\ PcOK
  BY DEF IInv, TypeOK
<1>1. CASE Startup \/ PendSV_Handler
  <2>1. \A v \in Thread : pc[v] # "scan"
    BY <1>1, NoScan DEF Startup, arch_systick_init, vibe_sched_start,
                        vibe_sched_start_running,
                vibe_sched_start_switch, StartupRuns, PendSV_Handler
  <2>2. UNCHANGED <<timeout, sleepq, isr, pc>> /\ isr = "none"
    BY <1>1 DEF Startup, arch_systick_init, vibe_sched_start,
                vibe_sched_start_running,
                vibe_sched_start_switch, StartupRuns, PendSV_Handler, tcb,
                clock, locals
  <2>3. \A v \in Thread : state'[v] = "SLEEPING" <=> state[v] = "SLEEPING"
    <3>1. CASE vibe_sched_start_running
      <4>1. g_current_thread \in Thread
        BY <3>1 DEF vibe_sched_start_running, IInv, BootOK, TypeOK, Link
      <4>2. Queued(state[g_current_thread])
        BY <1>0, <3>1, <4>1 DEF vibe_sched_start_running, StartupRuns,
                                CurrentAccounted, OnWayOut
      <4> QED BY <1>0, <3>1, <4>1, <4>2 DEF vibe_sched_start_running, TypeOK,
                                            Queued
    <3>2. CASE state' = state
      BY <3>2
    <3> QED BY <1>1, <3>1, <3>2 DEF Startup, arch_systick_init,
                 vibe_sched_start, vibe_sched_start_switch,
                 PendSV_Handler, tcb
  <2> QED BY <1>0, <2>1, <2>2, <2>3, KeepSleep DEF Asleep
<1>2. CASE TickEnter \/ WakeDone \/ vibe_sched_timeslice_tick \/ TickResched
  <2>1. \A v \in Thread : pc[v] # "scan"
    BY <1>2, NoScan DEF TickEnter, IrqMasked, WakeDone,
                        vibe_sched_timeslice_tick, TickResched
  <2>2. UNCHANGED <<timeout, sleepq, pc>>
        /\ (isr' = "wake" => cursor' = sleepq.head[SleepList])
    BY <1>2 DEF TickEnter, WakeDone, vibe_sched_timeslice_tick, TickResched,
                tcb, locals
  <2>3. \A v \in Thread : state'[v] = "SLEEPING" <=> state[v] = "SLEEPING"
    <3>1. CASE vibe_sched_timeslice_tick
      BY <1>0, <3>1 DEF vibe_sched_timeslice_tick, TypeOK, Link
    <3>2. CASE TickResched
      BY <1>0, <3>2, RescheduleKeeps DEF TickResched, IInv, CurrentAccounted,
                                         Queued
    <3>3. CASE TickEnter \/ WakeDone
      BY <3>3 DEF TickEnter, WakeDone, tcb
    <3> QED BY <1>2, <3>1, <3>2, <3>3
  <2> QED BY <1>0, <2>1, <2>2, <2>3, KeepSleep DEF Asleep
<1>3. CASE Resched \/ ResumeCheck \/ UnlockCheck
  <2>1. running \in Thread /\ isr = "none" /\ \A v \in Thread : pc[v] # "scan"
    BY <1>3, SelfIsRunning, NoScan DEF IInv, Resched, ResumeCheck, UnlockCheck,
                                       At
  <2>2. UNCHANGED <<timeout, sleepq, isr>> /\ \A v \in Thread : pc'[v] # "scan"
    BY <1>0, <1>3, <2>1 DEF Resched, ResumeCheck, UnlockCheck, Goto, PcOK, tcb,
                            clock
  <2>3. \A v \in Thread : state'[v] = "SLEEPING" <=> state[v] = "SLEEPING"
    <3>1. CASE Resched
      BY <1>0, <3>1, RescheduleKeeps DEF Resched, IInv, CurrentAccounted,
                                         Queued
    <3>2. CASE ResumeCheck \/ UnlockCheck
      BY <3>2 DEF ResumeCheck, UnlockCheck, tcb
    <3> QED BY <1>3, <3>1, <3>2
  <2> QED BY <1>0, <2>1, <2>2, <2>3, KeepSleep DEF Asleep
<1>4. ASSUME NEW t \in App, vibe_thread_delete(t) \/ vibe_thread_suspend(t)
      PROVE  SleepRep'
  BY <1>4, StopSleep DEF vibe_thread_delete, vibe_thread_suspend, Call, App,
                         Disciplined, Hazardous
<1>5. CASE vibe_thread_exit
  <2>1. g_current_thread \in Thread /\ Queued(state[g_current_thread])
    BY <1>5, RunningIsQueued DEF vibe_thread_exit, Call
  <2> QED BY <1>5, <2>1, StopSleep DEF vibe_thread_exit, Call, Queued
<1>6. ASSUME NEW t \in App, NEW p \in Prio,
             vibe_thread_resume(t) \/ vibe_thread_set_priority(t, p)
             \/ vibe_thread_yield \/ vibe_sched_lock \/ vibe_sched_unlock
             \/ \E ms \in 0..MaxSleepMs : vibe_thread_sleep(ms)
      PROVE  SleepRep'
  <2>1. At("run")
    BY <1>6 DEF vibe_thread_resume, vibe_thread_set_priority,
                vibe_thread_yield, vibe_sched_lock, vibe_sched_unlock,
                vibe_thread_sleep, Call
  <2>2. running \in Thread /\ g_current_thread = running
        /\ Queued(state[running]) /\ isr = "none"
        /\ \A v \in Thread : pc[v] # "scan"
    BY <2>1, RunningIsQueued, NoScan DEF At
  <2>3. UNCHANGED <<timeout, sleepq, isr>> /\ \A v \in Thread : pc'[v] # "scan"
    BY <1>0, <1>6, <2>2
       DEF vibe_thread_resume, vibe_thread_set_priority, vibe_thread_yield,
           vibe_sched_lock, vibe_sched_unlock, vibe_thread_sleep, Goto, PcOK,
           tcb, clock, locals
  <2>4. \A v \in Thread : state'[v] = "SLEEPING" <=> state[v] = "SLEEPING"
    BY <1>0, <1>6, <2>2
       DEF vibe_thread_resume, vibe_thread_set_priority, vibe_thread_yield,
           vibe_sched_lock, vibe_sched_unlock, vibe_thread_sleep, tcb, TypeOK,
           Queued
  <2> QED BY <1>0, <2>2, <2>3, <2>4, KeepSleep DEF Asleep
<1>7. ASSUME NEW t \in App, vibe_thread_restart(t) PROVE SleepRep'
  BY <1>7, RestartSleep DEF App
<1>8. ASSUME NEW t \in App, NEW p \in Prio, vibe_thread_create(t, p)
      PROVE  SleepRep'
  BY <1>8, CreateSleep DEF App
<1>9. ASSUME vibe_thread_yield \/ vibe_sched_lock \/ vibe_sched_unlock
             \/ \E ms \in 0..MaxSleepMs : vibe_thread_sleep(ms)
      PROVE  SleepRep'
  <2>1. running \in App /\ 0 \in Prio
    BY <1>9, RunningIsQueued DEF vibe_thread_yield, vibe_sched_lock,
         vibe_sched_unlock, vibe_thread_sleep, Call, App, Prio
  <2> QED BY <1>6, <1>9, <2>1
<1>10. CASE UNCHANGED vars
  BY <1>0, <1>10 DEF vars, tcb, clock, locals, SleepRep, SRep, IsList, Linked, Asleep
<1> QED BY <1>1, <1>2, <1>3, <1>4, <1>5, <1>6, <1>7, <1>8, <1>9, <1>10,
           WakeSleep, ScanSleep, InsertSleep
        DEF Next, TickStep, KernelStep, ApiCall, Prio

(* The wake loop stops at the first thread that has not expired; behind it *)
(* in the sorted list nobody has.                                          *)
LEMMA WakesStep ==
  ASSUME IInv, [Next]_vars
  PROVE  WakesAllExpired'
<1>0. TypeOK /\ SleepRep /\ WakesAllExpired
  BY DEF IInv
<1>1. CASE WakeDone
  <2>1. PICK s : SRep(s)
    BY <1>0 DEF SleepRep
  <2>2. isr = "wake" /\ UNCHANGED <<state, timeout, g_tick_count>>
    BY <1>1 DEF WakeDone, tcb
  <2>3. SUFFICES ASSUME NEW t \in Thread, state[t] = "SLEEPING"
                 PROVE  timeout[t] > g_tick_count
    BY <2>2 DEF WakesAllExpired
  <2>4. Asleep(t)
    BY <2>2, <2>3, NoScan DEF Asleep
  <2>5. PICK k \in 1..Len(s) : s[k] = t
    BY <2>1, <2>4 DEF SRep
  <2>6. s \in Seq(Thread) /\ 1 \in 1..Len(s) /\ cursor = s[1] /\ s[1] \in Thread
    BY <2>1, <2>2, <2>5 DEF SRep, IsList, Linked
  <2>7. ~Expired(s[1])
    BY <1>1, <2>6 DEF WakeDone
  <2>8. timeout[s[1]] <= timeout[t]
    <3>1. CASE k = 1
      BY <1>0, <2>5, <2>6, <3>1 DEF TypeOK
    <3>2. CASE 1 < k
      BY <2>1, <2>5, <2>6, <3>2 DEF SRep
    <3> QED BY <2>5, <3>1, <3>2
  <2> QED BY <1>0, <2>6, <2>7, <2>8, SMTT(30) DEF Expired, TypeOK
<1>2. CASE UNCHANGED vars
  BY <1>0, <1>2 DEF vars, tcb, clock, WakesAllExpired
<1>3. CASE ~WakeDone /\ Next
  <2>1. isr' # "slice"
    BY <1>3
       DEF Next, Startup, arch_systick_init, vibe_sched_start,
           vibe_sched_start_running, vibe_sched_start_switch,
           StartupRuns, PendSV_Handler, TickEnter,
           TickStep, WakeExpired, vibe_sched_timeslice_tick, TickResched,
           KernelStep, Resched, ResumeCheck, UnlockCheck, SleepBegin,
           SleepScan, SleepInsert, ApiCall, vibe_thread_delete,
           vibe_thread_suspend, Stop, vibe_thread_resume, vibe_thread_restart,
           vibe_thread_create, vibe_thread_set_priority, vibe_thread_sleep,
           vibe_thread_yield, vibe_thread_exit, vibe_sched_lock,
           vibe_sched_unlock, Call, At, clock
  <2> QED BY <2>1 DEF WakesAllExpired
<1> QED BY <1>1, <1>2, <1>3

LEMMA IdleStep ==
  ASSUME IInv, [Next]_vars
  PROVE  IdleWaits'
<1>0. PcOK /\ IdleWaits /\ TypeOK
  BY DEF IInv, TypeOK
<1>1. CASE UNCHANGED pc
  BY <1>0, <1>1 DEF IdleWaits
<1>2. CASE KernelStep
  <2>1. running \in Thread
    BY <1>2, SelfIsRunning
       DEF IInv, KernelStep, Resched, ResumeCheck, UnlockCheck, SleepBegin,
           SleepScan, SleepInsert
  <2> QED BY <1>0, <1>2, <2>1
          DEF KernelStep, Resched, ResumeCheck, UnlockCheck, SleepBegin,
              SleepScan, SleepInsert, At, Goto, IdleWaits, PcOK, locals
<1>3. CASE ApiCall
  BY <1>0, <1>3
     DEF ApiCall, vibe_thread_delete, vibe_thread_suspend, Stop,
         vibe_thread_resume, vibe_thread_restart, vibe_thread_create,
         vibe_thread_set_priority, vibe_thread_sleep, vibe_thread_yield,
         vibe_thread_exit, vibe_sched_lock, vibe_sched_unlock, Call, Goto,
         IdleWaits, PcOK, App, locals
<1>4. CASE Startup \/ TickEnter \/ TickStep \/ PendSV_Handler
  BY <1>1, <1>4 DEF Startup, arch_systick_init, vibe_sched_start,
       vibe_sched_start_running, vibe_sched_start_switch,
           PendSV_Handler, TickEnter, TickStep,
       WakeExpired, WakeDone, vibe_sched_timeslice_tick, TickResched, locals
<1> QED BY <1>1, <1>2, <1>3, <1>4 DEF Next, vars, locals

LEMMA InitIInv == Init => IInv
<1> SUFFICES ASSUME Init PROVE IInv
  OBVIOUS
<1>1. TypeOK /\ SwitchCoherent /\ BootOK
  BY InitType
<1>2. RunRep
  <2> DEFINE R == [lists |-> EmptyLists(Prio, Thread), mask |-> {}]
             M == [t \in Thread |-> -1]
             q == [p \in Prio |-> <<>>]
  <2>1. R \in RunQueues
    <3>1. 0 \in Prio
      BY DEF Prio
    <3>2. EmptyLists(Prio, Thread) \in Heap(Prio, Thread)
      BY <3>1, EmptyIsList
    <3> QED BY <3>2 DEF RunQueues
  <2>2. M \in [Thread -> Level] /\ M[Idle] = -1 /\ 0 \in Prio
    BY DEF Level, Prio
  <2>3. SchedRep(R, M, q)
    <3>1. \A p \in Prio : IsList(EmptyLists(Prio, Thread), p, <<>>)
      BY EmptyIsList
    <3> QED BY <3>1 DEF SchedRep, QRep, Prio
  <2>4. QueueMap = [M EXCEPT ![Idle] = 0]
    BY DEF Init, QueueMap, Queued
  <2>5. runq = vibe_sched_enqueue(R, Idle, 0)
    BY DEF Init
  <2> HIDE DEF R, M, q
  <2>6. SchedRep(runq, QueueMap, [q EXCEPT ![0] = Append(@, Idle)])
    BY <2>1, <2>2, <2>3, <2>4, <2>5, SchedEnqueueRep
  <2> QED BY <2>6 DEF RunRep
<1>3. SRep(<<>>)
  <2> DEFINE s == <<>>
  <2>1. s \in Seq(Thread) /\ Len(s) = 0
    OBVIOUS
  <2> HIDE DEF s
  <2>2. IsList(sleepq, SleepList, s)
    BY EmptyIsList DEF Init, s
  <2>3. SRep(s)
    BY <2>1, <2>2 DEF Init, SRep, Asleep
  <2> QED BY <2>3 DEF s
<1>4. CurrentAccounted /\ WakesAllExpired /\ IdleWaits
  BY DEF Init, CurrentAccounted, WakesAllExpired, IdleWaits, Queued, OnWayOut
<1> QED BY <1>1, <1>2, <1>3, <1>4 DEF IInv, SleepRep

-----------------------------------------------------------------------------
(* The invariant is inductive.                                             *)
LEMMA Inductive ==
  ASSUME Disciplined
  PROVE  Spec => []IInv
<1>1. IInv /\ [Next]_vars => IInv'
  <2> SUFFICES ASSUME IInv, [Next]_vars PROVE IInv'
    OBVIOUS
  <2>1. TypeOK' /\ SwitchCoherent' /\ BootOK'
    BY TypeStep, CoherentStep DEF IInv
  <2> QED BY <2>1, RunStep, AccountedStep, SleepStep, WakesStep, IdleStep
          DEF IInv
<1> QED BY InitIInv, <1>1, PTL DEF Spec

(* Whatever ticks, calls and context switches come in between, the thread  *)
(* that _vibe_sched_next_thread returns is ready or running and no ready   *)
(* thread has a higher priority.                                           *)
THEOREM PicksHighest ==
  ASSUME Disciplined
  PROVE  Spec => []SelectsHighest
<1>1. IInv => SelectsHighest
  BY NextIsHighest DEF IInv, CurrentAccounted
<1> QED BY Inductive, <1>1, PTL

(* A walk over a run queue meets the threads its state says are there.     *)
LEMMA RunQueuesWalk ==
  ASSUME TypeOK, RunRep
  PROVE  RunQueuesSound
<1>1. PICK q : SchedRep(runq, QueueMap, q)
  BY DEF RunRep
<1> SUFFICES ASSUME NEW p \in Prio
             PROVE  LET w == Walk(runq.lists, p, Cardinality(Thread))
                    IN  /\ IsList(runq.lists, p, w)
                        /\ {w[i] : i \in DOMAIN w} =
                             {t \in Thread : Queued(state[t]) /\ priority[t] = p}
                        /\ (p \in runq.mask) = (w # <<>>)
  BY DEF RunQueuesSound
<1>2. runq.lists \in Heap(Prio, Thread)
  BY DEF TypeOK, RunQueues
<1>3. q[p] \in Seq(Thread) /\ IsList(runq.lists, p, q[p])
  BY <1>1 DEF SchedRep, QRep
<1>4. Walk(runq.lists, p, Cardinality(Thread)) = q[p]
  BY <1>2, <1>3, WalkIsList DEF IsList
<1>5. {q[p][i] : i \in DOMAIN q[p]} = {t \in Thread : Queued(state[t]) /\ priority[t] = p}
  <2>1. DOMAIN q[p] = 1..Len(q[p])
    BY <1>3
  <2>2. ASSUME NEW i \in 1..Len(q[p])
        PROVE  q[p][i] \in Thread /\ Queued(state[q[p][i]]) /\ priority[q[p][i]] = p
    <3>1. q[p][i] \in Thread /\ QueueMap[q[p][i]] = p
      BY <1>1, <1>3 DEF SchedRep, QRep
    <3>2. p # -1
      BY DEF Prio
    <3> QED BY <3>1, <3>2 DEF QueueMap
  <2>3. ASSUME NEW t \in Thread, Queued(state[t]), priority[t] = p
        PROVE  \E i \in 1..Len(q[p]) : q[p][i] = t
    <3>1. QueueMap[t] = p
      BY <2>3 DEF QueueMap
    <3> QED BY <1>1, <3>1 DEF SchedRep, QRep
  <2> QED BY <2>1, <2>2, <2>3
<1>6. (p \in runq.mask) = (q[p] # <<>>)
  <2>1. p \in runq.mask <=> Len(q[p]) > 0
    BY <1>1 DEF SchedRep, QRep
  <2>2. Len(q[p]) > 0 <=> q[p] # <<>>
    BY <1>3
  <2> QED BY <2>1, <2>2
<1> QED BY <1>3, <1>4, <1>5, <1>6

(* ... and so does a walk over the sleep list.                             *)
LEMMA SleepListWalk ==
  ASSUME TypeOK, SleepRep
  PROVE  SleepListSound
<1>1. PICK s : SRep(s)
  BY DEF SleepRep
<1>2. s \in Seq(Thread) /\ IsList(sleepq, SleepList, s) /\ DOMAIN s = 1..Len(s)
      /\ Len(s) \in Nat
  BY <1>1 DEF SRep
<1>3. Walk(sleepq, SleepList, Cardinality(Thread)) = s
  BY <1>2, WalkIsList DEF IsList, TypeOK
<1>4. {s[i] : i \in DOMAIN s} = {t \in Thread : state[t] = "SLEEPING" /\ pc[t] # "scan"}
  BY <1>1, <1>2 DEF SRep, Asleep
<1>5. \A i \in 2..Len(s) : timeout[s[i - 1]] <= timeout[s[i]]
  <2> SUFFICES ASSUME NEW i \in 2..Len(s) PROVE timeout[s[i - 1]] <= timeout[s[i]]
    OBVIOUS
  <2>1. i - 1 \in 1..Len(s) /\ i \in 1..Len(s) /\ i - 1 < i
    BY <1>2
  <2> QED BY <1>1, <2>1 DEF SRep
<1> QED BY <1>2, <1>3, <1>4, <1>5 DEF SleepListSound

(* The lists of sched.c hold exactly the threads their states say, each    *)
(* once, by next and by prev, with the counters and the ready mask in      *)
(* step and the sleepers in order of expiry.                               *)
THEOREM ListsStaySound ==
  ASSUME Disciplined
  PROVE  Spec => []ListsSound
<1>1. IInv => ListsSound
  BY RunQueuesWalk, SleepListWalk DEF IInv, ListsSound
<1> QED BY Inductive, <1>1, PTL

(* The current thread is in a run queue or about to leave the CPU; nobody  *)
(* else has state RUNNING, and a locked scheduler never strands a thread.  *)
THEOREM CurrentIsAccounted ==
  ASSUME Disciplined
  PROVE  Spec => []CurrentAccounted
<1>1. IInv => CurrentAccounted
  BY DEF IInv
<1> QED BY Inductive, <1>1, PTL

(* _vibe_sched_wake_expired, which stops at the first thread that has not  *)
(* expired, leaves no expired sleeper behind.                              *)
THEOREM WakesEveryone ==
  ASSUME Disciplined
  PROVE  Spec => []WakesAllExpired
<1>1. IInv => WakesAllExpired
  BY DEF IInv
<1> QED BY Inductive, <1>1, PTL

(* Suspended and dead threads stay so while the tick handler runs.         *)
THEOREM TickKeepsStopped ==
  ASSUME Disciplined
  PROVE  Spec => StaysStopped
<1> DEFINE A == \A t \in Thread :
                  state[t] \in {"SUSPENDED", "DEAD"} /\ isr # "none"
                    => state'[t] = state[t]
<1>1. IInv /\ [Next]_vars => [A]_vars
  <2> SUFFICES ASSUME IInv, Next, isr # "none", NEW t \in Thread,
                      state[t] \in {"SUSPENDED", "DEAD"}
               PROVE  state'[t] = state[t]
    BY DEF vars
  <2>0. TypeOK /\ RunRep /\ Queued(state[Idle])
    BY DEF IInv, CurrentAccounted
  <2>1. CASE WakeExpired
    <3>1. cursor \in Thread /\ state[cursor] = "SLEEPING"
      BY <2>1, CursorAsleep DEF WakeExpired, IInv, SleepRep, Asleep
    <3> QED BY <2>0, <2>1, <3>1 DEF WakeExpired, TypeOK
  <2>2. CASE WakeDone
    BY <2>2 DEF WakeDone, tcb
  <2>3. CASE vibe_sched_timeslice_tick
    BY <2>0, <2>3 DEF vibe_sched_timeslice_tick, TypeOK, Link
  <2>4. CASE TickResched
    BY <2>0, <2>4, RescheduleKeeps DEF TickResched, Queued
  <2>5. TickStep
    BY DEF Next, Startup, arch_systick_init, vibe_sched_start,
           vibe_sched_start_running, vibe_sched_start_switch,
           StartupRuns, PendSV_Handler, TickEnter,
           KernelStep, Resched, ResumeCheck, UnlockCheck, SleepBegin,
           SleepScan, SleepInsert, ApiCall, vibe_thread_delete,
           vibe_thread_suspend, vibe_thread_resume, vibe_thread_restart,
           vibe_thread_create, vibe_thread_set_priority, vibe_thread_sleep,
           vibe_thread_yield, vibe_thread_exit, vibe_sched_lock,
           vibe_sched_unlock, Call, At
  <2> QED BY <2>1, <2>2, <2>3, <2>4, <2>5 DEF TickStep
<1> QED BY Inductive, <1>1, PTL DEF Spec, StaysStopped

(* With the scheduler locked, no tick and no call takes the CPU away from  *)
(* the thread that locked it.                                              *)
THEOREM LockHolds ==
  ASSUME Disciplined
  PROVE  Spec => LockPreventsPreemption
<1> DEFINE A == g_sched_lock_count > 0 => UNCHANGED <<g_current_thread, running>>
<1>1. IInv /\ [Next]_vars => [A]_vars
  <2> SUFFICES ASSUME IInv, Next, g_sched_lock_count > 0
               PROVE  UNCHANGED <<g_current_thread, running>>
    BY DEF vars
  <2>1. running # NULL /\ ~pendsv
    BY DEF IInv, CurrentAccounted
  <2>2. vibe_sched_reschedule => g_current_thread' = g_current_thread
    BY DEF vibe_sched_reschedule, cpu
  <2> QED BY <2>1, <2>2
          DEF Next, Startup, arch_systick_init, vibe_sched_start,
              vibe_sched_start_running, vibe_sched_start_switch,
           StartupRuns, PendSV_Handler, TickEnter,
              TickStep, WakeExpired, WakeDone, vibe_sched_timeslice_tick,
              TickResched, KernelStep, Resched, ResumeCheck, UnlockCheck,
              SleepBegin, SleepScan, SleepInsert, ApiCall, Stop,
              vibe_thread_delete, vibe_thread_suspend, vibe_thread_resume,
              vibe_thread_restart, vibe_thread_create,
              vibe_thread_set_priority, vibe_thread_sleep, vibe_thread_yield,
              vibe_thread_exit, vibe_sched_lock, vibe_sched_unlock, cpu
<1> QED BY Inductive, <1>1, PTL DEF Spec, LockPreventsPreemption

-----------------------------------------------------------------------------
(* Nobody is woken early                                                   *)

(* The tick counter does not wrap, nor does any expiry computed from it.   *)
ClockFits == TickLimit + ((MaxSleepMs * HZ) \div 1000) < UINT32

(* A thread that has ticks left to sleep has them up to tick e.            *)
DueAt(t, e) == left[t] > 0 => left[t] + g_tick_count = e

(* From the read of the clock to the wake-up, also while a sleeper is      *)
(* preempted between the two.                                              *)
DeadlineKept ==
  /\ g_tick_count <= TickLimit
  /\ \A t \in Thread : /\ pc[t] = "sleep" => DueAt(t, expiry[t])
                       /\ state[t] = "SLEEPING" => DueAt(t, timeout[t])

(* A sleep adds its ticks to the clock without a wrap.                     *)
LEMMA ExpiryAdds ==
  ASSUME ClockFits, TypeOK, g_tick_count <= TickLimit, NEW ms \in 0..MaxSleepMs
  PROVE  /\ VIBE_MS_TO_TICKS(ms) \in Nat
         /\ ExpiryOf(VIBE_MS_TO_TICKS(ms)) = g_tick_count + VIBE_MS_TO_TICKS(ms)
<1> DEFINE k == (ms * HZ) \div 1000
           m == (MaxSleepMs * HZ) \div 1000
<1>1. ms * HZ \in Nat /\ MaxSleepMs * HZ \in Nat /\ ms * HZ <= MaxSleepMs * HZ
  <2>1. ms \in Nat /\ HZ \in Nat /\ MaxSleepMs \in Nat /\ ms <= MaxSleepMs
    OBVIOUS
  <2> QED BY <2>1, Z3
<1>2. k \in Nat /\ m \in Nat /\ k <= m
  BY <1>1, Z3
<1> HIDE DEF k, m
<1>3. k \in 0..(UINT32 - 1) /\ g_tick_count + k \in 0..(UINT32 - 1)
  BY <1>2, UINT32Assumption DEF ClockFits, TypeOK, m
<1>4. k % UINT32 = k /\ (g_tick_count + k) % UINT32 = g_tick_count + k
  BY <1>3, UINT32Assumption, Z3
<1> QED BY <1>2, <1>4 DEF VIBE_MS_TO_TICKS, ExpiryOf, k

(* Every step keeps the deadlines.                                         *)
LEMMA DeadlineStep ==
  ASSUME ClockFits, IInv, DeadlineKept, [Next]_vars
  PROVE  DeadlineKept'
<1>0. /\ TypeOK /\ PcOK /\ UINT32 \in Nat \ {0}
      /\ \A t \in Thread : left[t] \in Nat /\ timeout[t] \in Nat /\ expiry[t] \in Nat
      /\ g_tick_count \in Nat
  BY UINT32Assumption DEF IInv, TypeOK
<1>1. CASE UNCHANGED <<left, timeout, expiry, g_tick_count>>
           /\ \A t \in Thread : /\ pc'[t] = "sleep" => pc[t] = "sleep"
                                /\ state'[t] = "SLEEPING" => state[t] = "SLEEPING"
  BY <1>0, <1>1 DEF DeadlineKept, DueAt
<1>2. CASE TickEnter
  <2>1. g_tick_count' = g_tick_count + 1
    <3>1. g_tick_count + 1 \in 0..(UINT32 - 1)
      <4>1. (MaxSleepMs * HZ) \div 1000 \in Nat
        <5>1. MaxSleepMs * HZ \in Nat
          OBVIOUS
        <5> QED BY <5>1, Z3
      <4> QED BY <1>0, <1>2, <4>1 DEF TickEnter, ClockFits
    <3> QED BY <1>0, <1>2, <3>1, Z3 DEF TickEnter
  <2>2. g_tick_count' <= TickLimit
    BY <1>0, <1>2, <2>1 DEF TickEnter
  <2>3. /\ left' = [t \in Thread |-> IF left[t] > 0 THEN left[t] - 1 ELSE 0]
        /\ UNCHANGED <<state, timeout, pc, expiry>>
    BY <1>2 DEF TickEnter, tcb, locals
  <2> QED BY <1>0, <2>1, <2>2, <2>3 DEF DeadlineKept, DueAt
<1>3. CASE WakeExpired
  <2>1. cursor \in Thread
    BY <1>3, CursorAsleep DEF WakeExpired, IInv, SleepRep
  <2> QED BY <1>0, <1>3, <2>1 DEF WakeExpired, DeadlineKept, DueAt, TypeOK, clock, locals
<1>4. CASE \E ms \in 0..MaxSleepMs : vibe_thread_sleep(ms)
  <2>1. PICK ms \in 0..MaxSleepMs : vibe_thread_sleep(ms)
    BY <1>4
  <2>2. running \in Thread /\ Queued(state[running])
    BY <2>1, RunningIsQueued DEF vibe_thread_sleep, Call
  <2> DEFINE k == VIBE_MS_TO_TICKS(ms)
  <2>3. k \in Nat /\ ExpiryOf(k) = g_tick_count + k
    BY <1>0, ExpiryAdds DEF DeadlineKept
  <2> HIDE DEF k
  <2>4. /\ expiry' = [expiry EXCEPT ![running] = g_tick_count + k]
        /\ left' = [left EXCEPT ![running] = k]
        /\ pc' = [pc EXCEPT ![running] = "sleep"]
        /\ UNCHANGED <<state, timeout, g_tick_count>>
    BY <2>1, <2>3 DEF vibe_thread_sleep, Goto, k, tcb, clock
  <2> QED BY <1>0, <2>2, <2>3, <2>4 DEF DeadlineKept, DueAt, TypeOK, PcOK, Queued
<1>5. CASE SleepBegin
  <2>1. running \in Thread /\ g_current_thread = running
    BY <1>5, SelfIsRunning DEF SleepBegin, IInv
  <2> QED BY <1>0, <1>5, <2>1
          DEF SleepBegin, At, Goto, DeadlineKept, DueAt, TypeOK, PcOK, clock
<1>6. CASE SleepInsert
  <2>1. running \in Thread
    BY <1>6, SelfIsRunning DEF SleepInsert, IInv
  <2> QED BY <1>0, <1>6, <2>1
          DEF SleepInsert, At, Goto, DeadlineKept, DueAt, TypeOK, PcOK, tcb, clock
<1>7. CASE \E t \in App : \/ vibe_thread_restart(t)
                          \/ \E p \in Prio : vibe_thread_create(t, p)
  BY <1>0, <1>7 DEF vibe_thread_restart, vibe_thread_create, App, DeadlineKept,
                    DueAt, TypeOK, PcOK, clock
<1>8. CASE vibe_sched_reschedule /\ UNCHANGED <<left, timeout, expiry, g_tick_count>>
           /\ \A t \in Thread : pc'[t] = "sleep" => pc[t] = "sleep"
  <2>1. \A t \in Thread : state'[t] = "SLEEPING" => state[t] = "SLEEPING"
    BY <1>0, <1>8 DEF vibe_sched_reschedule, SwitchTo, cpu, TypeOK
  <2> QED BY <1>1, <1>8, <2>1
<1>9. CASE KernelStep /\ ~SleepBegin /\ ~SleepInsert
  <2>1. running \in Thread
    BY <1>9, SelfIsRunning
       DEF IInv, KernelStep, Resched, ResumeCheck, UnlockCheck, SleepScan
  <2>2. UNCHANGED <<left, timeout, expiry, g_tick_count>>
    BY <1>9 DEF KernelStep, Resched, ResumeCheck, UnlockCheck, SleepScan, tcb,
                clock, locals
  <2>3. \A t \in Thread : pc'[t] = "sleep" => pc[t] = "sleep"
    BY <1>0, <1>9, <2>1 DEF KernelStep, Resched, ResumeCheck, UnlockCheck,
                            SleepScan, Goto, PcOK, locals
  <2>4. vibe_sched_reschedule \/ UNCHANGED state
    BY <1>9 DEF KernelStep, Resched, ResumeCheck, UnlockCheck, SleepScan, tcb
  <2> QED BY <1>1, <1>8, <2>2, <2>3, <2>4
<1>10. CASE \/ \E t \in App : \/ vibe_thread_delete(t) \/ vibe_thread_suspend(t)
                              \/ vibe_thread_resume(t)
                              \/ \E p \in Prio : vibe_thread_set_priority(t, p)
            \/ vibe_thread_yield \/ vibe_thread_exit
            \/ vibe_sched_lock \/ vibe_sched_unlock
  <2>1. running \in Thread
    BY <1>10, SelfIsRunning
       DEF IInv, vibe_thread_delete, vibe_thread_suspend, vibe_thread_resume,
           vibe_thread_set_priority, vibe_thread_yield, vibe_thread_exit,
           vibe_sched_lock, vibe_sched_unlock, Call
  <2>2. UNCHANGED <<left, timeout, expiry, g_tick_count>>
    BY <1>10
       DEF vibe_thread_delete, vibe_thread_suspend, vibe_thread_resume,
           vibe_thread_set_priority, vibe_thread_yield, vibe_thread_exit,
           vibe_sched_lock, vibe_sched_unlock, Stop, tcb, clock, locals
  <2>3. \A t \in Thread : pc'[t] = "sleep" => pc[t] = "sleep"
    BY <1>0, <1>10, <2>1
       DEF vibe_thread_delete, vibe_thread_suspend, vibe_thread_resume,
           vibe_thread_set_priority, vibe_thread_yield, vibe_thread_exit,
           vibe_sched_lock, vibe_sched_unlock, Stop, Goto, PcOK, locals
  <2>4. \A t \in Thread : state'[t] = "SLEEPING" => state[t] = "SLEEPING"
    BY <1>0, <1>10
       DEF vibe_thread_delete, vibe_thread_suspend, vibe_thread_resume,
           vibe_thread_set_priority, vibe_thread_yield, vibe_thread_exit,
           vibe_sched_lock, vibe_sched_unlock, Stop, TypeOK, tcb
  <2> QED BY <1>1, <2>2, <2>3, <2>4
<1>11. CASE Startup \/ PendSV_Handler \/ WakeDone
  BY <1>0, <1>1, <1>11
     DEF Startup, arch_systick_init, vibe_sched_start, vibe_sched_start_running,
         vibe_sched_start_switch, PendSV_Handler, WakeDone, TypeOK, tcb, clock, locals
<1>12. CASE vibe_sched_timeslice_tick
  BY <1>0, <1>1, <1>12 DEF vibe_sched_timeslice_tick, TypeOK, locals
<1>13. CASE TickResched
  BY <1>8, <1>13 DEF TickResched, locals
<1>14. CASE UNCHANGED vars
  BY <1>0, <1>1, <1>14 DEF vars, tcb, clock, locals
<1>15. CASE ApiCall
  BY <1>4, <1>7, <1>10, <1>15 DEF ApiCall
<1>16. CASE TickStep
  BY <1>3, <1>11, <1>12, <1>13, <1>16 DEF TickStep
<1> QED BY <1>2, <1>5, <1>6, <1>9, <1>11, <1>14, <1>15, <1>16 DEF Next, KernelStep

(* vibe_thread_sleep lasts at least the ticks it asked for, however the    *)
(* thread is preempted between the read of the clock and its insertion in  *)
(* the sleep list, until the clock comes to its first wrap.                *)
THEOREM NotWokenEarly ==
  ASSUME Disciplined, ClockFits
  PROVE  Spec => NoEarlyWake
<1> DEFINE A == \A t \in Thread :
                  isr = "wake" /\ state[t] = "SLEEPING" /\ state'[t] # "SLEEPING"
                    => left[t] = 0
<1>1. Init => DeadlineKept
  BY DEF Init, DeadlineKept, DueAt
<1>2. Spec => []DeadlineKept
  BY <1>1, DeadlineStep, Inductive, PTL DEF Spec
<1>3. IInv /\ DeadlineKept /\ [Next]_vars => [A]_vars
  <2> SUFFICES ASSUME IInv, DeadlineKept, Next, NEW t \in Thread, isr = "wake",
                      state[t] = "SLEEPING", state'[t] # "SLEEPING"
               PROVE  left[t] = 0
    BY DEF vars
  <2>1. WakeExpired
    BY DEF Next, Startup, arch_systick_init, vibe_sched_start,
           vibe_sched_start_running, vibe_sched_start_switch,
           StartupRuns, PendSV_Handler, TickEnter, TickStep, WakeDone,
           vibe_sched_timeslice_tick, TickResched, tcb,
           KernelStep, Resched, ResumeCheck, UnlockCheck, SleepBegin,
           SleepScan, SleepInsert, ApiCall, vibe_thread_delete,
           vibe_thread_suspend, vibe_thread_resume, vibe_thread_restart,
           vibe_thread_create, vibe_thread_set_priority, vibe_thread_sleep,
           vibe_thread_yield, vibe_thread_exit, vibe_sched_lock,
           vibe_sched_unlock, Call, At
  <2>2. TypeOK /\ state \in [Thread -> ThreadState] /\ left[t] \in Nat
        /\ timeout[t] \in Nat /\ g_tick_count \in Nat
    BY UINT32Assumption DEF IInv, TypeOK
  <2>3. t = cursor /\ timeout[t] <= g_tick_count
    BY <2>1, <2>2 DEF WakeExpired, Expired
  <2> QED BY <2>2, <2>3 DEF DeadlineKept, DueAt
<1> QED BY Inductive, <1>2, <1>3, PTL DEF Spec, NoEarlyWake

=============================================================================
