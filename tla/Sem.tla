-------------------------------- MODULE Sem ---------------------------------
(***************************************************************************)
(* Counting semaphores (kernel/sem.c).  A give hands its token to the      *)
(* first waiter without passing through the count; a waiter that returns   *)
(* reports success without looking at the semaphore again.                 *)
(***************************************************************************)
EXTENDS KernelObject

CONSTANTS MaxCounts,    \* the max_count to choose from; 0 is "unlimited"
          CountLimit,   \* bound: gives stop here
          MaxTimeout    \* bound: longest timed wait, in ticks

ASSUME SemAssumption ==
  MaxCounts \subseteq Nat /\ CountLimit \in Nat /\ MaxTimeout \in Nat

VARIABLES count, max_count,
          left,     \* ghost: ticks until the deadline in thread->timeout
          credit    \* ghost: tokens given and neither taken nor reset

semvars == <<count, max_count, left, credit>>

VIBE_WAIT_FOREVER == MaxTimeout + 1
Timeout == 0..VIBE_WAIT_FOREVER    \* 0 is VIBE_NO_WAIT

(* vibe_sem_init refuses an initial count above the maximum.               *)
vibe_sem_init(initial, max) ==
  /\ max > 0 => initial <= max
  /\ count = initial /\ credit = initial /\ max_count = max
  /\ left = [t \in Thread |-> 0]

(* The failing call with VIBE_NO_WAIT changes nothing.                     *)
vibe_sem_take(t, timeout) ==
  /\ status[t] = "ready"
  /\ \/ /\ count > 0
        /\ count' = count - 1 /\ credit' = credit - 1
        /\ UNCHANGED <<status, waitq, left>>
     \/ /\ count = 0 /\ timeout # 0
        /\ Block(t, "sem")
        /\ left' = [left EXCEPT ![t] = timeout]
        /\ UNCHANGED <<count, credit>>
  /\ UNCHANGED max_count

(* "crude check": a woken thread is never SLEEPING, so it returns VIBE_OK. *)
TakeReturns(t) ==
  /\ Resume(t, "sem")
  /\ credit' = credit - 1
  /\ left' = [left EXCEPT ![t] = 0]
  /\ UNCHANGED <<count, max_count>>

Give_AlsoCounts ==
  /\ count < CountLimit
  /\ WakeHead("sem")
  /\ max_count > 0 => count < max_count
  /\ count' = count + 1 /\ credit' = credit + 1
  /\ UNCHANGED <<left, max_count>>

(* By a thread or by an interrupt handler.  At the maximum nothing happens *)
(* (VIBE_EOVERFLOW).                                                       *)
vibe_sem_give ==
  /\ IF waitq["sem"] # <<>>
     THEN WakeHead("sem") /\ UNCHANGED count
     ELSE /\ max_count > 0 => count < max_count
          /\ count < CountLimit
          /\ count' = count + 1 /\ UNCHANGED <<status, waitq>>
  /\ credit' = credit + 1
  /\ UNCHANGED <<left, max_count>>

vibe_sem_reset ==
  /\ count' = 0 /\ credit' = credit - count
  /\ UNCHANGED <<status, waitq, left, max_count>>

(* The tick wakes the threads of the sleep list; a waiter is not on it,    *)
(* whatever its timeout, so time only passes.                              *)
SemTick ==
  /\ \E t \in Thread : status[t] = "waiting" /\ left[t] \in 1..MaxTimeout
  /\ left' = [t \in Thread |->
                IF status[t] = "waiting" /\ left[t] \in 1..MaxTimeout
                THEN left[t] - 1 ELSE left[t]]
  /\ UNCHANGED <<status, waitq, count, max_count, credit>>

SemInit ==
  /\ InitThreads
  /\ \E initial \in 0..CountLimit, max \in MaxCounts : vibe_sem_init(initial, max)

SemNext ==
  \/ \E t \in Thread : \/ TakeReturns(t)
                       \/ \E timeout \in Timeout : vibe_sem_take(t, timeout)
  \/ vibe_sem_give \/ vibe_sem_reset \/ SemTick

-----------------------------------------------------------------------------
(* Every successful take is backed by one give (or by the initial count)   *)
(* and no give is lost: a token is in the count or on its way to a woken   *)
(* thread, also when a reset falls between the give and the return.        *)
SemConserved == credit = count + Cardinality(Woken("sem"))

(* Nobody waits while there is a token to take: no wake-up is lost between *)
(* the test of the count and the wait list.                                *)
SemNoStranded == waitq["sem"] # <<>> => count = 0

(* A thread that waits with a timeout does not wait beyond its deadline    *)
(* (sem.c: "Block until a give() wakes us or we time out").                *)
TimedWaitEnds ==
  \A t \in Thread :
    (status[t] = "waiting" /\ left[t] = 0) ~> status[t] # "waiting"

=============================================================================
