------------------------------- MODULE Mutex --------------------------------
(***************************************************************************)
(* Recursive mutexes with priority inheritance (kernel/mutex.c), on the    *)
(* scheduler's run queues: who owns the mutex, and what lock and unlock do *)
(* to priorities and queues.  The deferred context switch is the subject   *)
(* of module Sched; here a reschedule switches at once.                    *)
(***************************************************************************)
EXTENDS RunQueue, FiniteSets

CONSTANTS Thread,        \* the threads, Idle included
          BasePriority,         \* base_priority of each; the idle thread has 0
          MaxDepth,      \* bound: recursion
          Inherit        \* whether a thread may wait for a less urgent owner

ASSUME MutexAssumption ==
  /\ IsFiniteSet(Thread) /\ Idle \in Thread /\ NULL \notin Thread /\ MaxDepth \in Nat
  /\ BasePriority \in [Thread -> Nat] /\ \A t \in Thread : BasePriority[t] = 0 <=> t = Idle
  /\ Inherit \in BOOLEAN

VARIABLES state, priority, runq, g_current_thread,
          mutex,         \* [owner, lock_count, owner_orig_prio]
          wait,          \* its wait_list, linked by wait_node
          inlock,        \* threads inside a vibe_mutex_lock that blocked
          holds,         \* ghost: locks each thread has been granted
          lost           \* ghost: waiters that are in no list

schedvars == <<state, runq, g_current_thread>>
mutexvars == <<schedvars, priority, mutex, wait, inlock, holds, lost>>

App   == Thread \ {Idle}
Prio  == {BasePriority[t] : t \in Thread}
Waits == "wait_list"

vibe_mutex_init == [owner |-> NULL, lock_count |-> 0, owner_orig_prio |-> 0]

(* The application threads begin asleep; the idle thread runs.             *)
MutexInit ==
  /\ state = [t \in Thread |-> IF t = Idle THEN "RUNNING" ELSE "SLEEPING"]
  /\ priority = BasePriority
  /\ runq = vibe_sched_enqueue([lists |-> EmptyLists(Prio, Thread), mask |-> {}], Idle, 0)
  /\ g_current_thread = Idle
  /\ mutex = vibe_mutex_init
  /\ wait = EmptyLists({Waits}, Thread)
  /\ inlock = {} /\ holds = [t \in Thread |-> 0] /\ lost = {}

(* _vibe_sched_reschedule, with run queues R and states S.                 *)
Reschedule(R, S) ==
  LET next == vibe_sched_next_thread(R)
      cur  == g_current_thread
  IN  /\ runq' = R
      /\ g_current_thread' = next
      /\ state' = IF next = cur THEN S
                  ELSE [t \in Thread |->
                          IF t = next THEN "RUNNING"
                          ELSE IF t = cur /\ S[t] = "RUNNING" THEN "READY"
                          ELSE S[t]]

-----------------------------------------------------------------------------
(* The rest of the kernel, as far as it moves threads: a thread goes to    *)
(* sleep, the tick wakes it, the time slice rotates its queue.             *)

Executes(t) == t = g_current_thread /\ t \in App /\ t \notin inlock

Sleep(t) ==
  /\ Executes(t)
  /\ Reschedule(vibe_sched_dequeue(runq, t, priority[t]),
                [state EXCEPT ![t] = "SLEEPING"])
  /\ UNCHANGED <<priority, mutex, wait, inlock, holds, lost>>

WakeUp(t) ==
  /\ state[t] = "SLEEPING"
  /\ Reschedule(vibe_sched_enqueue(runq, t, priority[t]),
                [state EXCEPT ![t] = "READY"])
  /\ UNCHANGED <<priority, mutex, wait, inlock, holds, lost>>

TimeSlice ==
  LET cur == g_current_thread
  IN  /\ state[cur] = "RUNNING" /\ runq.lists.count[priority[cur]] > 1
      /\ Reschedule(vibe_sched_enqueue(vibe_sched_dequeue(runq, cur, priority[cur]),
                                       cur, priority[cur]),
                    [state EXCEPT ![cur] = "READY"])
      /\ UNCHANGED <<priority, mutex, wait, inlock, holds, lost>>

-----------------------------------------------------------------------------
(* vibe_mutex_lock                                                         *)

LockRecursive(t) ==
  /\ Executes(t) /\ mutex.owner = t /\ mutex.lock_count < MaxDepth
  /\ mutex' = [mutex EXCEPT !.lock_count = @ + 1]
  /\ holds' = [holds EXCEPT ![t] = @ + 1]
  /\ UNCHANGED <<schedvars, priority, wait, inlock, lost>>

LockFree(t) ==
  /\ Executes(t) /\ mutex.owner = NULL
  /\ mutex' = [owner |-> t, lock_count |-> 1, owner_orig_prio |-> priority[t]]
  /\ holds' = [holds EXCEPT ![t] = 1]
  /\ UNCHANGED <<schedvars, priority, wait, inlock, lost>>

(* The boost assigns the owner's priority first and moves a READY owner    *)
(* afterwards, out of the list of its new priority.                        *)
Boosted(t) ==
  IF priority[t] > priority[mutex.owner]
  THEN [priority EXCEPT ![mutex.owner] = priority[t]] ELSE priority

BoostQueues(t) ==
  LET o == mutex.owner
  IN  IF priority[t] > priority[o] /\ state[o] = "READY"
      THEN vibe_sched_enqueue(vibe_sched_dequeue(runq, o, priority[t]), o, priority[t])
      ELSE runq

Insert_Fifo(t) == vibe_list_append(wait, Waits, t)

Insert_Lifo(t) == vibe_list_prepend(wait, Waits, t)

(* Before the first waiter with a lower priority, or at the end.           *)
InsertWaiter(t) ==
  LET w == Walk(wait, Waits, Cardinality(Thread))
      lower == {i \in DOMAIN w : priority[t] > priority[w[i]]}
      first == CHOOSE i \in lower : \A j \in lower : i <= j
  IN  IF lower = {} THEN vibe_list_append(wait, Waits, t)
      ELSE vibe_list_insert_after(wait, Waits, wait.prev[w[first]], t)

(* The waiter is more urgent than the whole list.                          *)
BeforeHead(t) ==
  wait.head[Waits] # NULL /\ priority[t] > priority[wait.head[Waits]]

(* The head has no node before it: vibe_list_insert_after is called with   *)
(* NULL, counts the node and writes the rest of the links at address 0.    *)
(* No list reaches the node, so nothing ever wakes its thread.  What else  *)
(* the write through address 0 does is not modelled.                       *)
InsertAfterNull(t) ==
  /\ wait' = [wait EXCEPT !.count[Waits] = (@ + 1) % UINT32, !.prev[t] = NULL]
  /\ lost' = lost \cup {t}

LockBlocks(t) ==
  /\ Executes(t) /\ mutex.owner \notin {NULL, t}
  /\ Inherit \/ priority[t] <= priority[mutex.owner]
  /\ priority' = Boosted(t)
  /\ IF BeforeHead(t) THEN InsertAfterNull(t) ELSE wait' = InsertWaiter(t) /\ UNCHANGED lost
  /\ inlock' = inlock \cup {t}
  /\ Reschedule(vibe_sched_dequeue(BoostQueues(t), t, priority[t]),
                [state EXCEPT ![t] = "WAITING"])
  /\ UNCHANGED <<mutex, holds>>

(* The switch back: VIBE_OK if the mutex has been handed over.             *)
LockReturns(t) ==
  /\ t = g_current_thread /\ t \in inlock
  /\ inlock' = inlock \ {t}
  /\ holds' = [holds EXCEPT ![t] = IF mutex.owner = t THEN @ + 1 ELSE @]
  /\ UNCHANGED <<schedvars, priority, mutex, wait, lost>>

-----------------------------------------------------------------------------
(* vibe_mutex_unlock                                                       *)

UnlockNested(t) ==
  /\ Executes(t) /\ mutex.owner = t /\ mutex.lock_count > 1
  /\ mutex' = [mutex EXCEPT !.lock_count = @ - 1]
  /\ holds' = [holds EXCEPT ![t] = @ - 1]
  /\ UNCHANGED <<schedvars, priority, wait, inlock, lost>>

HandOver_NotRemoved(t) ==
  LET next == wait.head[Waits]
  IN  /\ mutex' = [owner |-> next, lock_count |-> 1, owner_orig_prio |-> BasePriority[next]]
      /\ UNCHANGED wait

(* The first waiter becomes the owner before it runs.                      *)
HandOver(t) ==
  LET next == wait.head[Waits]
  IN  /\ mutex' = [owner |-> next, lock_count |-> 1, owner_orig_prio |-> BasePriority[next]]
      /\ wait' = vibe_list_remove(wait, Waits, next)

(* The owner is RUNNING: it is not moved to the queue of its old priority. *)
Unlock(t) ==
  LET next == wait.head[Waits]
      R == IF state[t] = "READY"
           THEN vibe_sched_enqueue(vibe_sched_dequeue(runq, t, mutex.owner_orig_prio),
                                   t, mutex.owner_orig_prio)
           ELSE runq
  IN  /\ Executes(t) /\ mutex.owner = t /\ mutex.lock_count = 1
      /\ priority' = [priority EXCEPT ![t] = mutex.owner_orig_prio]
      /\ holds' = [holds EXCEPT ![t] = @ - 1]
      /\ IF next = NULL
         THEN /\ mutex' = [mutex EXCEPT !.owner = NULL, !.lock_count = 0]
              /\ Reschedule(R, state)
              /\ UNCHANGED wait
         ELSE /\ HandOver(t)
              /\ Reschedule(vibe_sched_enqueue(R, next, priority[next]),
                            [state EXCEPT ![next] = "READY"])
      /\ UNCHANGED <<inlock, lost>>

MutexNext ==
  \/ \E t \in App :
       \/ Sleep(t) \/ WakeUp(t)
       \/ LockRecursive(t) \/ LockFree(t) \/ LockBlocks(t) \/ LockReturns(t)
       \/ UnlockNested(t) \/ Unlock(t)
  \/ TimeSlice

MutexSpec == MutexInit /\ [][MutexNext]_mutexvars

-----------------------------------------------------------------------------
(* Only one thread at a time has been granted the mutex, as often as the   *)
(* lock count says; a thread that has been handed the mutex while it was   *)
(* blocked finds itself the owner when it returns (never VIBE_ETIMEOUT).   *)
MutexExclusion ==
  \A t \in App :
    /\ holds[t] > 0 => mutex.owner = t /\ mutex.lock_count = holds[t]
    /\ t \in inlock /\ state[t] # "WAITING" => mutex.owner = t /\ holds[t] = 0
    /\ mutex.owner = t => holds[t] > 0 \/ t \in inlock

(* The run queues link exactly the ready and running threads, each in the  *)
(* list of its priority: blocking, boosting and handing over leave no      *)
(* thread behind in another list ("Re-enqueue the owner at its new         *)
(* priority if it is READY").                                              *)
MutexRunQueues ==
  \A p \in Prio :
    LET w == Walk(runq.lists, p, Cardinality(Thread))
    IN  /\ IsList(runq.lists, p, w)
        /\ {w[i] : i \in DOMAIN w} =
             {t \in Thread : state[t] \in {"READY", "RUNNING"} /\ priority[t] = p}
        /\ (p \in runq.mask) = (w # <<>>)

(* The mutex goes to a waiter that no other one on the wait list outranks. *)
HandsToHighest ==
  [][\A t \in App : mutex.owner # t /\ mutex'.owner = t /\ state[t] = "WAITING"
       => \A u \in App \ lost : state[u] = "WAITING" => priority[u] <= priority[t]]_mutexvars

(* mutex.h of vibe_mutex_unlock: "Wakes the highest-priority waiter,       *)
(* transferring ownership."  That is, of all that wait for the mutex.      *)
WakesHighest ==
  [][\A t \in App : mutex.owner # t /\ mutex'.owner = t /\ state[t] = "WAITING"
       => \A u \in App : state[u] = "WAITING" => priority[u] <= priority[t]]_mutexvars

(* A blocked thread that nobody outranks gets the mutex, however often its *)
(* owners lock it again, sleep with it or lose the CPU; unless it came to  *)
(* wait before a less urgent one and was lost.                             *)
LockGranted ==
  \A t \in App : (\A u \in App : BasePriority[u] <= BasePriority[t])
                   => (t \in inlock ~> holds[t] > 0 \/ t \in lost)

(* The wait list links exactly the waiting threads that are not lost, and  *)
(* somebody owns the mutex while it is not empty: vibe_mutex_lock forgets  *)
(* no other waiter.  (The list's counter, which mutex.c does not read, is  *)
(* too high by the lost ones.)                                             *)
WaitListSound ==
  LET w == Walk(wait, Waits, Cardinality(Thread))
  IN  /\ Linked(wait, Waits, w)
      /\ {w[i] : i \in DOMAIN w} = {t \in Thread : state[t] = "WAITING"} \ lost
      /\ w # <<>> => mutex.owner # NULL

(* One owner, a wait list that forgets nobody, and run queues that survive *)
(* vibe_mutex_lock and vibe_mutex_unlock (the three parts above).          *)
MutexSound == MutexExclusion /\ WaitListSound /\ MutexRunQueues

=============================================================================
