# VibeRTOS in TLA+

A verification development for VibeRTOS, a preemptive fixed-priority RTOS for
one Cortex-M CPU. It holds TLA+ modules translated from the C and assembly
source, TLC configurations that check them on small instances, and TLAPS proofs
for every instance. `PROJECT.json` maps every definition to the lines it models
and lists the runs, mutants, findings, hazards and theorems.

## 1. Inventory

| Part | State | Operations | Interacts with |
|---|---|---|---|
| Intrusive list, `include/vibe/sys/list.h` | head, tail, count; prev and next in the nodes | init, append, prepend, insert_after, remove, get_head | run queues, sleep list, every wait list |
| Scheduler, `kernel/sched.c` | run queue per priority, ready mask, sleep list, current thread, lock count, time slice | enqueue, dequeue, next_thread, reschedule, sleep, wake_expired, timeslice_tick, lock, unlock, start | tick interrupt, PendSV, every blocking call |
| Threads, `kernel/thread.c` | thread control blocks | create, exit, delete, suspend, resume, sleep, yield, restart, set_priority | scheduler |
| Context switch, `arch/arm/cortex_m/core` | registers, words on the stacks, PENDSVSET, PRIMASK | arch_thread_stack_init, arch_switch_to, PendSV_Handler, SysTick_Handler, irq lock and unlock | scheduler, interrupts |
| Memory protection, `core/mpu.c` | region registers | enable, disable, configure | nobody calls it yet |
| Boot and tick, `kernel/init.c` | boot stage, device results, tick count | vibe_init, device levels, reboot, _vibe_sys_tick_handler | drivers, scheduler, timers |
| printk, `kernel/init.c` | the caller's buffer | _fmt_core, vsnprintk, printk | console |
| Software timers, `kernel/timer.c` | singly linked list, remaining, duration, mode, active | init, start, stop, restart, _vibe_timer_tick with callbacks | tick interrupt, work queues |
| Semaphore, message queue, event flags, pipe, memory pool, `kernel/*.c` | counters or buffers and wait lists | take/give/reset, put/get/purge, post/wait/clear, write/read, alloc/free | scheduler, wait lists, thread-local block |
| Mutex, `kernel/mutex.c` | owner, depth, original priority, sorted wait list | lock, unlock | priorities and run queues |
| Work queues, `kernel/workq.c` | pending list, worker thread, delayed items | submit, worker loop, dwork submit and cancel | semaphore, timers |
| Spinlock and SMP, `kernel/spinlock.c`, `smp.c` | flag, saved key | lock, unlock, irq lock | interrupts |
| Heaps, `lib/heap` | headers, free lists, bitmaps, statistics | alloc, calloc, realloc, free, stats | spinlock |
| Ring buffer, `lib/ring_buffer` | head, tail, bytes, counters | put, get, put_buf, get_buf, reset_stats | one producer, one consumer, no lock |
| Job scheduler and async, `lib/` | job slots, resume line of a coroutine | submit, cancel, run; yield, await | bodies call back into the scheduler |
| Logging, RTT, shell, coredump, `subsys/` | rings, line buffer, retained record | write/flush; write/read; edit, dispatch; capture, seal, validate, clear | interrupts, the debug probe, reset |
| Tracing, drivers, SoC, boards | registers, dispatch tables | | |

What is hard here: the tick interrupt may come between any two masked sections
of any call; a reschedule only *decides* and PendSV switches later; intrusive
nodes are shared between lists and stay linked when a call forgets one; loops
stop early because a list is supposed to be sorted; the clock wraps; callbacks
change the list the interrupt is walking; a woken thread retries after others
have run; priorities change while a thread is linked under the old one; a
producer, a consumer or a probe read each other's index without a lock; a reset
comes between two stores of a crash record. The `hazards` of `PROJECT.json` list
these places line by line.

What makes each part correct:

* lists: the pointers spell out a sequence, forward and backward, and the count
  is its length;
* scheduler: the choice is a ready thread of the highest priority; a queue holds
  exactly the ready and running threads of its priority; nobody is lost;
* sleep: nobody wakes early, everybody wakes;
* context switch: the thread on the CPU is the one `vibe_thread_self()` names,
  and it finds its registers and its stack as it left them;
* timers: every tick advances each running timer once and fires it in time;
* kernel objects: tokens, messages, bytes and blocks are conserved and keep their
  order, nobody waits for what is there, the most urgent waiter is woken, a timed
  wait ends;
* mutex: one owner, which is the most urgent waiter; nobody of the highest
  priority starves; inheritance keeps the run queues sound;
* work: what is submitted runs, what is cancelled does not;
* heaps: the blocks tile the pool, nobody's block moves or overlaps, and the
  accounts agree with the walk;
* rings, log, RTT: bounded FIFOs; jobs: each is served and ends; shell: the
  words typed are the words dispatched; printk: the digits are the number's;
* coredump: the next boot accepts exactly the complete records.

## 2. Modules

| Module | Contents |
|---|---|
| `VibeList` | `list.h` at the level of pointers: a heap `[head, tail, count, prev, next]`, one operator per list operation; `Walk` and `IsList` say what a well-formed list is |
| `Chain` | two loops over lists used all over: following `next`, and waking some of the waiters |
| `RunQueue` | run queues, ready mask and selection of `sched.c` on top of it; shared by `Sched` and `Mutex` |
| `Sched` | scheduler, threads, start, tick and context switch |
| `TimerService`, `Timer` | abstract specification of software timers; `timer.c` at the level of its list, which implements it |
| `KernelObject` | how threads block on an object and are woken |
| `Sem`, `MsgQ`, `Event`, `Pipe`, `MemPool` | one object each, on `KernelObject` |
| `WorkQ` | work queue and delayed work, on `Sem` |
| `Mutex` | recursive mutex with inheritance, on `RunQueue` |
| `Boot` | `vibe_init`, the device levels, reboot |
| `Spinlock` | spinlocks and interrupt masking with nested interrupts |
| `Context` | the words on the stacks: first frames, exception frames, PendSV, thread-local block |
| `Mpu` | MPU registers against the accesses they decide about |
| `Fifo` | abstract specification of a bounded FIFO; `MsgQ`, `Pipe`, `RingBuffer`, `Log` and `Rtt` implement it |
| `RingBuffer`, `FitHeap`, `Tlsf`, `Async`, `JobScheduler` | `lib/` |
| `Printk`, `Log`, `Rtt`, `Shell`, `Coredump` | formatting and `subsys/` |
| `MCSched`, `MCObjects`, `MCKernel`, `MCServices` | instances for TLC |
| `ChainProofs` | lemmas about numbers, sequences, chains and remainders that all proofs use |
| `QueueProofs`, `SchedProofs` | proofs about lists, run queues and the scheduler |
| `ObjectProofs`, `KernelProofs`, `TimerProofs` | proofs about the kernel objects and work queues; mutex, spinlocks and boot; timers |
| `MemoryProofs` | proofs about stacks and registers across context switches, and about the heaps |
| `ServiceProofs` | proofs about the services: rings, jobs, MPU, crash record, printk and shell |

`MCObjects` (with the timers), `MCKernel` and `MCServices` hold several parts that do not interact.
Every behaviour is about one of them, chosen in the initial state (`object`,
`part`), and leaves the others alone: the state space is the sum of theirs.
Definitions whose names have a suffix (`WakeHead_StaysLinked`) are faulty variants
that some property must catch; no specification uses them.

### How `Sched` corresponds to the code

* **Step.** A section between `arch_irq_lock` and `arch_irq_unlock` is one step.
  Between sections a call stands at a place `pc[t]` where the tick may come in,
  and through it any other thread: before the final `_vibe_sched_reschedule`
  (`resched`, `exit`), before the priority comparison of resume and unlock
  (`resume`, `unlock`), between reading the clock and masking interrupts in
  `vibe_thread_sleep` (`sleep`). The loops over the sleep list take one step per
  iteration with the interrupt masked (`pc = "scan"`, `isr = "wake"`).
* **Actions.** One per function: `vibe_thread_create`, `_delete`, `_exit`,
  `_suspend`, `_resume`, `_yield`, `_sleep`, `_restart`, `_set_priority`,
  `vibe_sched_lock`, `_unlock`; the tick handler in its order (`TickEnter`,
  `WakeExpired`, `WakeDone`, `vibe_sched_timeslice_tick`, `TickResched`);
  `PendSV_Handler`; boot (`arch_systick_init`, then `vibe_sched_start` in its
  three parts, for the tick is already enabled).
* **State.** Names are the source's. `running` is `g_arch_running_sp_loc`, the
  owner of the live registers; `next_sp` is `g_arch_next_sp_loc`. `g_ready_mask`
  is the set of its bits. The state `NEW` is a control block not yet created,
  which has no value in the C enum; it lets creation happen at any time.
  `left` is a ghost: the ticks a sleeper still has to sleep.
* **Creation** is one step, although `thread.c:121-150` fills in the control block
  and the first frame with interrupts enabled: nobody else knows of the thread
  until `_vibe_sched_enqueue` (under the lock) links it. Two threads that create
  the same control block at once are not modelled.
* **Uses of the API.** The constant `Uses` names the calls an application makes.
  Four documented calls break the scheduler's own bookkeeping and a fifth blocks
  with the scheduler locked: these are `Hazardous`, and an application that
  makes none of them is *disciplined*. Properties of `Sched` are checked and
  proved for disciplined applications; section 3 says what the others break.
* **Left out.** Stack contents and names; the scheduler mode, which is only
  stored; `_vibe_sched_next_wakeup`, whose consumer `arch_set_next_tick` is a
  stub; waiting on kernel objects (`KernelObject` and `Mutex` have it); timer
  callbacks inside the tick (`Timer` has them).

### How `Timer` corresponds to the code

Threads touch the list with interrupts masked, so a call is one step, save
`vibe_timer_restart`, which reads the duration first. The interrupt's walk takes
one step per timer; between firing a timer and going on, its callback may make
any number of calls on timers (`CallbackCall`, limited by `Uses`). `t_`, `prev`
and `saved` are the walk's locals. A timer is initialised only while it does not
run. Nested interrupts that call the timer API are not modelled.

The refinement maps the list away: `todo`, the timers a tick has yet to advance,
is what the walk will still meet. It says that the walk meets each running timer
once, whatever is linked or unlinked meanwhile.

### How the kernel objects correspond to the code

* **Step.** A call runs with interrupts masked up to the point where it returns
  or blocks: one step. What a woken thread does after its reschedule is another
  (`TakeReturns`, `AllocResumes`, ...). `pipe.c` unlocks between the turns of
  its loops: one step per turn. `workq.c` links an item with interrupts masked
  and gives the semaphore afterwards: two steps.
* **Scheduling.** Any ready thread may be next, as threads of equal priority
  share the CPU by time slice; `Sched` shows that the scheduler does so. Calls
  that an interrupt handler may make (give, post, free, submit without waiting)
  need no thread. `Mutex` depends on priorities and therefore carries the
  run queues themselves; there a reschedule switches at once.
* **Timed waits** store a deadline that nobody reads. `SemTick` lets the time
  pass; the run `timed_wait` shows the consequence. Elsewhere a timed wait is a
  wait.
* **Who is woken.** Each of `sem.c`, `msgq.c`, `pipe.c`, `event.c` and `mem_pool.c`
  appends to its wait lists and wakes the head: the thread that has waited
  longest, where `mem.h:91` says "Wakes the highest-priority waiter if one is
  blocked." (so does the comment at `mem_pool.c:126`). The modules say what the
  code does; no property claims an order by priority, but for the mutex.
* **Whom the code passes over.** A thread that has been woken by `msgq.c` makes its
  transfer and wakes nobody (`PutResumes`, `GetResumes`): whoever waits on the
  other side is `overlooked` from then on, until somebody else's call. A call of
  `pipe.c` wakes one thread of the other side per turn and nobody of its own:
  what it leaves behind when it ends is `leftover` for the threads of its own
  side. The two ghosts name exactly these cases, every thread may call on either
  side, and `NobodyStranded` says that nobody else waits in vain; the run `msgq`
  shows the first case against the header.
* **A waiter more urgent than the first** of a mutex's wait list is inserted behind
  `node->prev`, which is NULL (`mutex.c:81`, `BeforeHead`): `InsertAfterNull`. The
  list's count goes up and no list reaches the waiter, which is remembered in
  `lost` and never woken. Address 0 holds the vector table, whose first word is not
  NULL, so the list's tail stays; what the two stores through it hit is not
  modelled.
* **Kept out.** In `MemPool`, freeing what one does not hold. Deleting or suspending
  a thread that waits on an object. `MemPool` starts from `vibe_mem_pool_init`;
  `VIBE_MEM_POOL_DEFINE` leaves `free_list` NULL, and the rounding of `block_size`
  there may exceed the buffer. All work queues share
  one static thread object (`workq.c:68`): one queue is modelled.

### How the other modules correspond to the code

* `Boot`: `BootSteps` is the body of `vibe_init` in order; the walk over the
  device table takes one step per device, and an initialiser may fail.
  `device.h:134` says of the walk "Initialise all devices up to and including the
  given level."; the code (`init.c:230`, with the comment above it) initialises those
  *of* the level. As `vibe_init` calls it, level after level, both come to the
  same: `DevicesComplete`, a part of `BootSound`, is the header's sentence of what
  has been done when a level is over, failing initialisers included. Of a single
  call it is false (`OneCallInitsAll`, section 3).
* `Spinlock`: a stack of contexts, the thread at the bottom and the nested
  handlers above it; masking, the test of the flag, clearing it and restoring the
  mask are a step each; `held` is the sections the context is in, with their keys.
* `Context`: memory is a function from word addresses to cells; an exception
  pushes the caller-saved half of the registers, PendSV the rest; `left` is the
  ghost that remembers each thread's registers. The thread-local block lies
  where `thread.c:144` puts it. A stack too small for the first frame is
  accepted by `thread.c:107`; stacks here are large enough.
* `Mpu`: each call is a step per register write; an access is checked against the
  registers as they stand (the hardware's rule: the highest region that matches).
* `FitHeap`, `Tlsf`: headers at addresses of a small pool, arithmetic modulo the
  width of `size_t`; `realloc` allocates, copies and frees in three lock
  sections, so other calls come in between. Everything inside one section is one
  step. First fit and best fit are one module with the choice as a state.
  TLSF's tables have `FL_INDEX_COUNT` rows. `mapping` has no upper bound and
  `locate_free` does not check (`heap_tlsf.c:250-254`): a request whose rounded size is
  2^23 bytes or more reads `sl_bitmap` behind its end, where `heap.h:36` promises
  NULL. The model stops claiming anything there (`Strays`, `overrun`), and
  `TlsfSound` includes that this has not happened. Pools are not concerned:
  `CONFIG_HEAP_SIZE` is at most 131072 (Kconfig), far below the last row.
* `RingBuffer`, `Log`, `Rtt`: a step per access to the shared indices.
  `vibe_rb_reset_stats` may come at any time, with bytes in the ring and in the
  middle of a call, its stores in any order; a counter is loaded and stored in one
  step. The ghost `since` remembers where the indices were at the reset, which is
  what the counters count from: `put_count - get_count` is what the ring holds
  less what it held then, and `peak_used` is 0 after a reset, however full the
  ring is, until the next put. The
  probe of RTT (external) reads and writes target memory at any time.
* `JobScheduler`, `Async`: a body is a sequence of yield, await and await-child
  statements; a coroutine is the line at which it resumes. Bodies may submit
  and cancel jobs while `vibe_sched_run` walks the table.
* `Printk`: a format is a sequence of directives; digits are produced as the code
  does, into a buffer of the code's relative size.
* `Coredump`: a field of the record is the number of the capture that wrote it,
  and the CRC is what it was computed over, so an accidental match of CRC-32 is
  left out. Faults interrupt captures, a fault inside a fault escalates, resets
  and losses of power come between any two stores. `vibe_coredump_clear`, which
  only the shell calls (`coredump_shell.c:22`), is two stores, either of which may
  fall between any two of a capture that an assertion makes in another thread
  (these run unmasked); only a fault, which never returns, keeps it out. What a
  capture stores twice is stored twice: the name given to the stack-overflow
  capture (`coredump.c:404`) is overwritten by the current thread's (`:305`). Only a
  fault has a frame: the registers of an assertion keep what an earlier record,
  or power-on, left in them.

## 3. Runs

| Run | Shows |
|---|---|
| `sched` | With create, delete, suspend, resume, sleep, yield, restart and set_priority: the context switch is coherent, the choice is the highest ready thread, the wake loop misses nobody, run queues and sleep list are sound at pointer level (`ListsSound`), and the tick revives nobody |
| `sched_lock` | Nested and unbalanced scheduler locks, with exits, suspensions and sleeps around them: no preemption while locked; before a wrap of the clock no sleeper wakes early, although the clock is read with interrupts enabled |
| `sched_live` | The thread that outranks all others gets the CPU; every sleeper wakes, also across wraps |
| `sched_rr` | Equal priorities take turns while nobody yields or sleeps |
| `objects` | Tokens are conserved (`SemConserved`) and blocks partitioned (`PoolPartition`), message queue and pipe implement `Fifo` (`DeliversInOrder`), a post wakes exactly those whose condition it satisfies (`EventExact`), nobody is left waiting for what is there unless `overlooked` or `leftover` names him (`NobodyStranded`), wait lists and thread states agree (`ThreadsOK`), submitted work runs (`WorkRuns`), the work list agrees with its semaphore and cancelled work does not run (`WorkKept`). Timers: while callbacks leave timers alone, or periodic timers start and stop themselves among periodic ones, the list implements `TimerService` (`ListSound`, `TimersKeepTime`), durations beyond the tick type wrap as in the code, restart keeps the duration at 1000 Hz, the handler returns and a one-shot timer ends (`TimersProgress`) |
| `kernel` | `BootSound`: every device once, in order of levels, none of a finished level left out although initialisers fail, and boot ends; `MutexSound`, `HandsToHighest`, `LockGranted`: one owner, the most urgent waiter of the wait list next, nobody of the highest priority starves, whoever comes to wait, except the waiters inserted through NULL (`lost`); `SectionsSafe`: nobody spins, sections are masked, interrupts are served |
| `services` | `ContextsSurvive`, `MpuProtects`, `RbSound`, `FitSound`, `TlsfSound`, `JobsSound`, `JobCompletes`, `FormatsExact`, `LogFifo`, `RttDelivers`, `ShellSound`, `CrashRecord`: what section 1 asks of these parts |

The runs that end in a violation, each against a sentence of the headers or
comments quoted under `findings`:

| Run | Violated | What happens |
|---|---|---|
| `suspend_sleeping` | `StaysStopped` | The sleep list is forgotten; the tick revives the thread |
| `timed_wait` | `TimedWaitEnds` | A blocked thread is on no list the tick looks at: the timeout never comes |
| `msgq` | `MsgqServed` | The queue fills up before a woken reader runs, and a writer blocks; the reader fetches and wakes nobody: the writer waits beside a free slot |
| `mutex_boost` | `MutexRunQueues` | The boost changes the priority first and then dequeues from the queue of the new one |
| `tls_overlap` | `StacksKept` | The thread-local block is one pointer long, on the last word of the stack; waiting for an event writes three words |

Other instances of the same models fail too; each needs only the constants named
here, or the property named here in the cfg of the run:

* `Sched`: `Uses` with `delete_sleeping` (`StaysStopped`), `restart_self`
  (`RunQueuesSound`: the caller is linked twice), `set_priority_running`
  (`SelectsHighest`: a running thread stays in the queue of its old priority),
  `yield` in `sched_rr` (`RoundRobin`: a yield without a peer leaves READY, which
  switches the time slice off; a rotation while the scheduler is locked
  likewise); `sched_lock` with a clock that wraps (`NoEarlyWake`: an expiry
  beyond the wrap compares as past);
* `Timer`: a one-shot timer that starts itself again from its callback is dropped
  when a second one fires in the same tick (`ListSound`); periodic timers that
  stop themselves beside one-shot timers (`ListSound`), that start each other
  (`TickReturns`: the walk goes on for ever) or stop each other (`ServiceSpec`:
  those behind lose a tick); `HZ = 1024` (`RestartKeepsDuration`: one tick rounds
  to 0 ms and restart fails with `VIBE_EINVAL`);
* `MsgQ`: a woken thread that finds the queue as before returns `VIBE_ETIMEOUT`
  although it asked to wait for ever (`msgq.c:140`);
* `Mutex`: `WakesHighest`, "Wakes the highest-priority waiter, transferring
  ownership." (`mutex.h:84`) of all waiters, in `kernel` with `Parts = {"mutex"}` and
  `SPECIFICATION Spec`: the waiter inserted through NULL is passed over, in 10 states;
* `WorkQ`: with the worker among `Managers` a cancel may be overtaken by the timer
  between its look at `pending` and the stop (`CancelSound`);
* `Boot`: a device counts as ready before its initialiser has run and after it
  has failed (`ReadyMeansOk`, `device.h:129`); `OneCallInitsAll`, the sentence of
  `device.h:134` of a single call, in `kernel` with `Parts = {"boot"}` and
  `SPECIFICATION Spec`, in 6 states;
* `JobScheduler`: a body that cancels its own job (`SelfCancel`: `JobsAccounted`,
  `SlotStaysFree`);
* `Tlsf`: the remainder of a split is counted as allocated (`TlsfStatsExact`,
  `heap_tlsf.c:307`), and a request beyond the last row reads behind the table
  (`TlsfSound`, with 128 in `TlsfRequest`); `FitHeap`: a request whose rounding
  wraps `size_t` (`FitAccounts`, with 250 in `Request`);
* `Log`: two flushers (`LogFifo`); `Coredump`: two asserting threads
  (`RecordWhole`); the registers of an assertion are not zero, where `coredump.c:392`
  says "Capture with zeroed registers" (`RegistersZeroed`), and the report of an
  overflow does not name the thread it was given (`OverflowNamed`,
  `coredump.h:200`); `Mpu`: two callers, or a region rewritten while it is enabled
  (`InPlace`, `MpuProtects`).

Without `CONFIG_TLS` an event's waiter has nowhere to leave its condition, and
nobody is ever woken (`event.c:59`); `objects` has the block. The passing runs
state the complementary uses, and the constants' comments say
which they are: nobody calls `vibe_log_flush` or the stack-overflow capture in
the repository, for example, so one flusher is an assumption about users.

**Bounds.** `Sched`: the idle thread and two application threads, which is enough
for every pairwise interleaving, a queue of two at one priority, a sleep list of
two, and a third party to be preempted; `UINT32` of 2 to 4 so that the clock
wraps within a few ticks; sleeps and slices of one or two ticks. Symmetry
permutes application threads and is used only without liveness. In `sched_lock`
the clock stops at `TickLimit = 5`, before an expiry reaches `UINT32 = 8`: only
there may the model stop (`CHECK_DEADLOCK FALSE`). Timers: three, so that one is
first, one in the middle and one last; `UINT32 = 3`, so that a duration of three
ticks wraps. Objects: three threads, so that a list holds two while the third
acts, or a woken thread races a newcomer; two messages and capacity two, a pipe of
two bytes and transfers of three, so that indices wrap and transfers split; three
blocks, so that the chain has a middle. Mutex: three threads of one priority and
one below, recursion two. Spinlock: two locks, two interrupt levels, two held.
Services: indices modulo 4 over a ring of two; pools of 120 and 128 bytes with
modulo-256 arithmetic, which hold three or four blocks, so that a block has
neighbours to merge with on both sides, and requests at the smallest size and
across a class; words of six bits, all of them in every base; lines of three
characters with overflow; three captures, so that one is cut short, one
overtakes it and one follows the reset.

**Fairness.** `Sched`: the SysTick counter runs freely, so ticks keep coming and
the handler runs to its end (weak fairness). PendSV and a thread inside the
kernel are disabled while a tick is handled and enabled after it; hardware gives
them instructions between ticks, hence strong fairness for `PendSV_Handler`,
`KernelStep` and `Startup`. `RoundRobin` is stated on `g_current_thread`, the
scheduler's choice: the model lets several ticks come before PendSV. `Timer`: a
callback makes finitely many calls. Objects: a thread inside a kernel call, the
worker included, gets the CPU again; time passes. `kernel`: `vibe_init` goes on;
sleepers wake, slices end (both shown by `sched_live` and `sched_rr`); a thread
that has the CPU again and again gets out of the kernel and does not keep the
mutex for ever (strong fairness, as it loses the CPU in between); sections and
handlers are finite and the processor takes a pending interrupt when it may.
The fairness of timers and objects is that of `MCObjects`. `services`: the task that
calls `vibe_sched_run` goes on doing so, bodies return, and an awaited condition
comes true. Nowhere must an application begin a call.

## 4. Proofs

Each theorem holds for every value of the constants that satisfies the named
assumption of its module, and under the hypotheses in the second column, which
restrict the *use* of the code and not its size. Every hypothesis is met by the run
that checks the property. Those on the behaviour of callers are needed: without them
the property fails, by a behaviour that section 3 describes. What the code itself
lets down is not a hypothesis: it is named by a ghost (`overlooked`, `leftover`,
`lost`, `since`, `overtaken`) that the property mentions, or shown in a violation run. Those on sizes
(`NumbersFit`, `StacksApart`, `RequestsFit`, `SizesMapped`) say that a number, a frame or a
request fits into what the code reserves for it, which the code takes for granted.

| Theorem | Hypotheses | Property |
|---|---|---|
| `TypeCorrect`, `SwitchIsCoherent` | none: hazardous calls included | `TypeOK`, `SwitchCoherent` |
| `PicksHighest`, `CurrentIsAccounted`, `WakesEveryone`, `TickKeepsStopped`, `LockHolds`, `ListsStaySound` | `Disciplined`: no hazardous call | `SelectsHighest`, `CurrentAccounted`, `WakesAllExpired`, `StaysStopped`, `LockPreventsPreemption`, `ListsSound` |
| `NotWokenEarly` | `Disciplined`, and `ClockFits`: no expiry reaches the wrap of the clock | `NoEarlyWake` |
| `WaitersLinkedOnce`, `TokensConserved`, `BlocksConserved`, `BuffersInOrder`, `NobodyWaitsInVain` | none | `ThreadsOK`, `SemConserved`, `PoolPartition`, `DeliversInOrder`, `NobodyStranded` |
| `PostsWakeExactly` | `CONFIG_TLS`: a waiter has somewhere to leave its condition | `EventExact` |
| `WorkQueueKept` | `OneManager`: one thread schedules and cancels delayed work | `WorkKept` |
| `MutexStaysSound`, `UrgentWaiterServed` | `~Inherit`: nobody waits for a less urgent owner (a waiter may be more urgent than the others) | `MutexSound`, `HandsToHighest` |
| `SectionsNest`, `BootKeepsOrder` | none | the safety parts of `SectionsSafe`, `BootSound` |
| `TimerListSound` | `Tame`: callbacks leave timers alone, or periodic timers start and stop themselves among periodic ones | `ListSound` |
| `TimersImplementService` | `Tame`, `HZ = 1000` | `TimersKeepTime` |
| `LogsInOrder` | `OneFlusher` | `LogFifo` |
| `RttKeepsOrder`, `RingBufferIsFifo` | none | `RttDelivers`, `RbSound` |
| `TickServesWhoIsDue` | `~SelfCancel`: no body cancels its own job | `JobsSound` |
| `RegionsProtect` | `OneConfigurer`, and `~InPlace`: a region is switched off before it moves | `MpuProtects` |
| `RecordsAreWhole` | `OneAsserter` | `CrashRecord` |
| `FormatsPrint` | `NumbersFit`: the buffer of `_fmt_putuint` has room for the digits of any word (the code's 11 bytes hold 2^32 - 1); `FormatsTyped`: arguments have the type their directive names | `FormatsExact` |
| `LinesDispatched` | none | `ShellSound` |
| `StacksHoldContexts` | `StacksApart`: stacks share no word, each has room for its first frame, and a thread-local block lies on none | `ContextsSurvive` |
| `HeapsTile` | `RequestsFit`: rounding up a request, or a product that calloc accepts, does not wrap `size_t` | `FitSound` |
| `TlsfKeepsPool` | `SizesMapped`: rounding a request, or a product that calloc accepts, neither wraps the word nor leads past the last row of the tables (in the code: up to 15 * 2^19 bytes, `heap_tlsf.c:52`); the pool itself fits the tables (`TlsfAssumption`, by Kconfig) | `TlsfSound` |

### The lemmas underneath

`ChainProofs` holds what the other modules cite: division and remainders (`ModIs`,
`ModAdd`, `ModInj`), least numbers, highest members of finite sets, what a sequence
without repetition says about cardinality, `ChainIsList` (following `next` through
what the pointers spell out returns exactly that sequence), and what waking a set
of waiters leaves of a wait list (`Remaining`). Two arguments recur in place of an
induction rule, which the provers cannot instantiate:

* *the least counterexample*: a set of numbers that is not empty has a least
  member (`LeastNumber`, from the well-founded order of the naturals); if a claim
  failed, it would fail at a least `n`, and hold at `n - 1`;
* *the solution of a recursive definition*: a function defined by recursion is
  `CHOOSE f : f = F(f)`. A function written down explicitly that satisfies
  `f = F(f)` shows that the chosen one does too, and the least counterexample
  shows that the two agree. `ChainIsList` and `InvokeEnds` (a coroutine's walk over
  its statements) are proved so.

### Scheduler

`SwitchCoherent` is inductive with type correctness and the phases of boot
(`BootOK`). The other properties rest on the inductive invariant `IInv`. None
of them is inductive alone: that the choice is right needs the run queues to be
sound; that dequeue keeps them sound needs the thread to be in the queue of its
priority, which needs its state to tell the truth; and a thread that takes
itself off must be known to be about to leave (`OnWayOut`). `IInv` therefore
joins type correctness, coherence, the boot phases, the place of the idle thread
(`IdleWaits`), the account of the current thread, and the representation of the
lists: for every priority there is a sequence without repetition whose
neighbours are the prev and next pointers, whose ends are head and tail, whose
length is the count and whose members are the queued threads of that priority
(`RunRep`); likewise the sleepers, sorted by expiry (`SleepRep`). The argument:

1. `QueueProofs`: append, remove and insert take a list that represents `s` to
   one that represents the expected sequence, pointer by pointer; hence enqueue
   and dequeue keep all run queues at once, and the ready mask.
2. `SchedProofs`: one lemma per action, one step per conjunct it can disturb,
   then `Inductive`, then each property as a consequence of `IInv`. `ListsStaySound`
   adds that the walks of the pointers, which the checked property is stated
   with, return the represented sequences (`WalkIsList`). `NotWokenEarly` adds the
   ghost `left`: a sleeper with ticks left has them up to its expiry, and before
   the wrap the code's signed comparison of clocks is the comparison of numbers.

### Kernel objects

All objects share one invariant, `WaitLists`: a thread is `waiting` if and only if
it is in exactly one wait list, at one place. `Block`, `WakeHead` and `Wake` keep
it, and say of every list they are not about that it is untouched; so one
lemma per object and action is about that object alone, and `Core` joins them:

* semaphore: tokens given past the count are counted by the woken threads
  (cardinalities), and a list with waiters means a count of zero;
* pool: some sequence without repetition is what the chain through the free blocks
  spells out, and its members are the blocks nobody holds;
* message queue and pipe: the contents, read from `head`, are the refinement mapping
  to `Fifo`; the invariant says that `tail`, which the code advances on its own, is
  always `used` places behind `head`, so that a write overwrites nothing that
  is still to be read. The pipe adds that a call has moved less than it was asked to;
* work queue: the list is a sequence of the pending items, and the tokens of its
  semaphore, in the count, on the way or with the worker, are as many.

That nobody is stranded is a further conjunct per object: while somebody waits, what
there is to take is no more than the woken threads are about to take. For a message
queue this is inductive for every list but those `overlooked`, which a woken thread's
transfer adds and any later wake-up, or the end of what there was, takes out; for a pipe, while
bytes and waiting readers are both there, some reader is woken or in the middle of
its call, unless the list is `leftover` (`PipeWait`, with `PipeAlone` for the other
parts of the instance).

### Mutex, spinlocks, boot

`MInv` says that every ready thread is in the run queue of its priority, by the
pointers (`Placed`, from `QueueProofs`), that the owner is one thread, which
does not wait, with depth and original priority recorded (`Owned`), and that the wait
list is a sequence of the waiting threads that are not `lost`, sorted by priority
(`WaitersListed`; `InsertAfterNull` touches only the count and a node nobody reaches). The
sorted insertion puts a thread in front of the first less urgent one; the
invariant of the loop is the least place where that is so. `SpinIInv` says that
only the topmost context is inside of anything, that the flags set are those of
its sections, that only the outermost section's key opens the mask, and that
interrupts are masked inside: hence no handler meets a lock held below it. `BootInv`
counts, for each device, the initialisations that the stage reached and the place
of the walk call for, whatever each of them returned.

### Timers

`TInv`: a sequence without repetition is what the list spells out, and its members
are the active timers (`Kept`); a walk under way stands at a place `k` of it, with
`prev` the timer before, which matters as long as a one-shot timer may have to
be unlinked (`OnWay`). Each step is then a move from `(s, k)` to another
such pair: a timer passed, a timer unlinked under the walk, one linked or
unlinked by a callback. The refinement maps the list away: what the walk has
still to meet, `ListFrom` of its cursor, is the set of timers from `k` on, and
every step takes out of it exactly the timer that the abstract `Advance` takes.

### Services

* `Log`, `Rtt`, `RingBuffer`: `Held(N, h, t)` is what a ring holds between two indices;
  a write behind the last element leaves the others (`BehindIsFree`, `RingWrite`), a
  read takes the first ones. The invariants say in which slots a producer between
  two of its stores has put its data, and that the consumer's index is still where
  it was read: this is why no lock is needed with one of each. `RingBuffer` keeps
  its indices modulo twice the size, which the mask maps to slots
  (`MaskOfWrapped`); `RbSound` also needs that each counter lags behind its index,
  counted from `since`, by exactly the call under way (`Counted`).
* `JobScheduler`: during a tick every job that was ready when it began has been
  invoked or lies ahead of the loop (`Served`), for the two phases separately, and a
  body may submit and cancel in between.
* `Mpu`: sizes are powers of two, so `bytes_to_mpu_size` is the logarithm less one
  (`SizeIsLog`), and an address matches an aligned base if and only if it lies in
  the region (`InRegion`). The registers of a region are those of its
  configuration or off, and a call under way has its region switched off.
* `Coredump`: a suspended capture never runs again (`fault_entry_c` spins), so the
  progress of the topmost one says which fields are its own; a record with
  magic has either a CRC of an older content, which does not match because the number
  of the capture is in it, or the matching CRC and every field of one capture. A
  clear that falls between the magic and the CRC takes the magic back (`overtaken`),
  so that the capture seals nothing.
* `Printk`: dividing by the base again and again yields digits that Horner's rule,
  which `Value` follows, turns back into the number (`FormatsExact`); after `k`
  divisions the number is what the digits so far say, plus what is left times the
  `k`-th power of the base, and the buffer is large enough because what is left
  is 0 by then. The buffer of the caller is the text, cut, behind every character.
* `Shell`: the line in the buffer is the fold of the keys (`ShellInv`), whatever lies
  behind it. `_shell_dispatch` keeps, from round to round (`Scanned`): it stands in
  no word (`AtGap`), the buffer ahead is untouched, and argv holds the words behind
  it in order, each with a NUL at its end. A round either notes the next word
  or finds only blanks (`RoundFinds`), so that words and rounds are counted
  together (`SplitCounts`).

### Context switch

`CtxInv` says for every thread where its registers are: in the CPU while it
computes; half of them in a frame on its stack, half still in the CPU, in a handler
that interrupted it (`OnCpu`, `Framed`); or all of them on its stack below the frame,
where PendSV put them (`OffCpu`, `Parked`). They are those the ghost `left` remembers.
Each transition moves one of these pieces and writes only into the stack of the
thread it interrupts, which by `StacksApart` is no other's; `RoomOK` says how far
down a stack may have grown, so that the canary and the words pushed before stay (`Kept`).

### Heaps

* First fit and best fit: `Tiling` says that each header's `next` is the address where
  its block ends, that `prev` inverts it, and that of two blocks the lower one ends
  at or before the upper; `Apart`, that no two free blocks follow each other. A split adds
  one header and a merge takes one or two away (`Merges`), and sums of
  sizes follow them (`SumAdd`: a sum is the number of pairs of a block and a byte of
  it), so that sizes and headers keep adding up to the pool (`Weight`). `Balanced` says
  that the callers own the blocks in use, none of them smaller than its request.
  `realloc`'s old block stays owned through the window without the lock.
* TLSF has no links: a block's neighbour is computed from its size. `Shape` says that
  the blocks tile the pool and that `prev_phys` inverts `block_next`; what makes it
  inductive is the order of addresses (of two blocks, the lower one ends at or before
  the upper), so that the header of a split's remainder is no block yet. `Linked`
  says that class lists and bitmaps agree. In between, as in the code, a block may
  be out of the lists while its flags change: `Good(c, O, X)` is the invariant with the
  blocks `X` exempt, and each helper (`free_list_insert`, `free_list_remove`,
  `merge_prev`, `merge_next`, `block_split`) says what it adds to `X` or takes away.
  `ClassEnough`: the class of a size rounded up by `round_up_size` holds only blocks
  at least that large, and so does every class that `locate_free` looks at
  beyond it.

### Only model-checked

Every invariant and every action property of the passing runs is a theorem. What
stays with TLC is liveness under fairness, which is out of the prover's reach:
`HighestRuns`, `SleeperWakes`, `RoundRobin`, `TimersProgress`, `WorkRuns`,
`LockGranted`, `JobCompletes`, and the parts `BootEnds` of `BootSound` and
`InterruptsServed` of `SectionsSafe`.

## 5. Not modelled

* Drivers, SoC and board support: register access, dispatch tables and stubs
  without shared kernel state. Tracing: weak empty hooks and counters that no
  kernel decision reads.
* SMP: starting the second core and inter-processor interrupts are stubs in this
  version (`smp.c:75`, `:97`); `Spinlock` is about one core.
* `lib/heap/heap.c`: an older allocator that no build includes.
* The scheduler's mode (stored and never read), `_vibe_sched_next_wakeup` and the
  tickless notification, whose consumer `arch_set_next_tick` is a stub.
* The product of `Sched` with the objects: suspending or deleting a thread that
  waits on an object leaves it linked there. Each object assumes of the scheduler
  what `Sched` establishes.
* RTT's blocking mode (not implemented in the code), the decoding of fault
  registers, the wording of messages, the shell's built-in commands (they print).
* Scripts, samples and tests.

## 6. What could follow

Threads that wait on an object inside of `Sched`, so that suspending or deleting them
can be stated; the liveness properties, once a prover takes fairness.
