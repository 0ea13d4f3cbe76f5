--------------------------- MODULE KernelObject ----------------------------
(***************************************************************************)
(* How threads block on a kernel object and are woken: the part that       *)
(* sem.c, msgq.c, pipe.c, event.c and mem_pool.c share.                    *)
(*                                                                         *)
(* A call runs with interrupts masked up to the point where it blocks, so  *)
(* that part is one step; what a woken thread does after its reschedule is *)
(* another.  In between, every ready thread and every interrupt handler    *)
(* may use the object: threads of one priority share the CPU by time slice *)
(* (module Sched), so each ready thread may be the next to run.  The       *)
(* scheduler is not locked while a thread blocks.                          *)
(***************************************************************************)
EXTENDS Chain

CONSTANT Thread

ASSUME ThreadAssumption == IsFiniteSet(Thread)

VARIABLES status,   \* "ready", "waiting", or the list it was woken from:
                    \* enqueued, with the rest of its call still to run
          waitq     \* the wait lists of the objects, linked by wait_node

WaitList == {"sem", "event", "pool", "msgq_read", "msgq_write", "pipe_read",
             "pipe_write"}

Elems(s) == {s[i] : i \in DOMAIN s}

InitThreads ==
  /\ status = [t \in Thread |-> "ready"]
  /\ waitq = [l \in WaitList |-> <<>>]

(* Leave the run queue, become WAITING, append wait_node, reschedule.      *)
Block(t, l) ==
  /\ status' = [status EXCEPT ![t] = "waiting"]
  /\ waitq' = [waitq EXCEPT ![l] = Append(@, t)]

WakeHead_StaysLinked(l) ==
  /\ status' = [t \in Thread |-> IF t \in {waitq[l][i] : i \in {1} \cap DOMAIN waitq[l]}
                                 THEN l ELSE status[t]]
  /\ UNCHANGED waitq

(* vibe_list_get_head and, if there is a waiter, _vibe_sched_enqueue.      *)
WakeHead(l) ==
  IF waitq[l] = <<>> THEN UNCHANGED <<status, waitq>>
  ELSE /\ status' = [status EXCEPT ![Head(waitq[l])] = l]
       /\ waitq' = [waitq EXCEPT ![l] = Tail(@)]

(* The same for the waiters of set W, wherever they are in the list.       *)
Wake(l, W) ==
  /\ status' = [t \in Thread |-> IF t \in W THEN l ELSE status[t]]
  /\ waitq' = [waitq EXCEPT ![l] = Remaining(@, W)]

(* A woken thread is switched to and goes on behind its reschedule.        *)
Resume(t, l) ==
  /\ status[t] = l
  /\ status' = [status EXCEPT ![t] = "ready"]
  /\ UNCHANGED waitq

Woken(l) == {t \in Thread : status[t] = l}

(* Every waiting thread is linked into exactly one wait list, once.        *)
ThreadsOK ==
  /\ status \in [Thread -> {"ready", "waiting"} \cup WaitList]
  /\ \A t \in Thread : status[t] = "waiting" <=>
       Cardinality({p \in WaitList \X (1..Cardinality(Thread)) :
                      p[2] <= Len(waitq[p[1]]) /\ waitq[p[1]][p[2]] = t}) = 1
  /\ \A l \in WaitList : Elems(waitq[l]) \subseteq Thread

=============================================================================
