------------------------------- MODULE WorkQ --------------------------------
(***************************************************************************)
(* Work queues and delayed work (kernel/workq.c): a linked list of items,  *)
(* a semaphore that counts them and one worker thread.  An item is linked  *)
(* with interrupts masked, but the semaphore is given after they are       *)
(* unmasked; a delayed item is submitted by its timer's callback.          *)
(***************************************************************************)
EXTENDS Sem

CONSTANTS Work, Worker,
          DWork,         \* the items that are part of a vibe_dwork_t
          Managers,      \* the threads that submit and cancel these
          NoWork         \* the null pointer

ASSUME WorkAssumption ==
  /\ Worker \in Thread /\ IsFiniteSet(Work) /\ NoWork \notin Work /\ DWork \subseteq Work

VARIABLES wq,          \* [head, tail]: the list of the vibe_workq_t
          wnext, pending, armed,  \* per item: next, pending, timer.active
          wpc,         \* the worker: "none" before init, "take", "pop", "run"
          current,     \* the item whose handler runs
          giving,      \* threads between linking an item and the give
          cancelling   \* per thread: item whose cancel has passed its check

workvars == <<wq, wnext, pending, armed, wpc, current, giving, cancelling>>
allwork  == <<status, waitq, semvars, workvars>>

(* The empty queue, with the worker at place p.                            *)
NoItems(p) ==
  /\ wq = [head |-> NoWork, tail |-> NoWork]
  /\ wnext = [w \in Work |-> NoWork] /\ pending = [w \in Work |-> FALSE]
  /\ armed = [w \in Work |-> FALSE]
  /\ wpc = p /\ current = NoWork /\ giving = {}
  /\ cancelling = [t \in Thread |-> NoWork]

(* The semaphore is unlimited; _workq_thread runs _workq_thread_entry.     *)
vibe_workq_init == vibe_sem_init(0, 0) /\ NoItems("take")

(* Application code runs in a thread, and in the worker in a handler.      *)
MayCall(t) ==
  /\ status[t] = "ready" /\ t \notin giving /\ cancelling[t] = NoWork
  /\ t = Worker => wpc = "run"

(* Under the interrupt lock; VIBE_EBUSY if the item is pending.            *)
LinkWork(w) ==
  /\ ~pending[w]
  /\ pending' = [pending EXCEPT ![w] = TRUE]
  /\ wnext' = IF wq.tail # NoWork THEN [wnext EXCEPT ![w] = NoWork, ![wq.tail] = w]
              ELSE [wnext EXCEPT ![w] = NoWork]
  /\ wq' = [head |-> IF wq.tail = NoWork THEN w ELSE wq.head, tail |-> w]

Submit_SignalsIfEmpty(t, w) ==
  /\ MayCall(t) /\ LinkWork(w)
  /\ giving' = IF wq.head = NoWork THEN giving \cup {t} ELSE giving
  /\ UNCHANGED <<status, waitq, semvars, armed, wpc, current, cancelling>>

vibe_work_submit(t, w) ==
  /\ MayCall(t) /\ LinkWork(w)
  /\ giving' = giving \cup {t}
  /\ UNCHANGED <<status, waitq, semvars, armed, wpc, current, cancelling>>

(* "Signal the worker."                                                    *)
SubmitSignals(t) ==
  /\ t \in giving /\ status[t] = "ready"
  /\ giving' = giving \ {t}
  /\ vibe_sem_give
  /\ UNCHANGED <<wq, wnext, pending, armed, wpc, current, cancelling>>

WorkerTakes ==
  /\ wpc = "take" /\ Worker \notin giving
  /\ \/ vibe_sem_take(Worker, VIBE_WAIT_FOREVER) /\ wpc' = IF count > 0 THEN "pop" ELSE "take"
     \/ TakeReturns(Worker) /\ wpc' = "pop"
  /\ UNCHANGED <<wq, wnext, pending, armed, current, giving, cancelling>>

WorkerPops ==
  LET w == wq.head
  IN  /\ wpc = "pop"
      /\ wq' = IF w = NoWork THEN wq
               ELSE [head |-> wnext[w],
                     tail |-> IF wnext[w] = NoWork THEN NoWork ELSE wq.tail]
      /\ pending' = [u \in Work |-> pending[u] /\ u # w]
      /\ wnext' = [u \in Work |-> IF u = w THEN NoWork ELSE wnext[u]]
      /\ current' = w
      /\ wpc' = IF w = NoWork THEN "take" ELSE "run"
      /\ UNCHANGED <<status, waitq, semvars, armed, giving, cancelling>>

HandlerReturns ==
  /\ wpc = "run" /\ Worker \notin giving /\ cancelling[Worker] = NoWork
  /\ wpc' = "take" /\ current' = NoWork
  /\ UNCHANGED <<status, waitq, semvars, wq, wnext, pending, armed, giving, cancelling>>

(* vibe_dwork_submit starts the timer, also when it runs already; the      *)
(* managers call it (and, if the worker is one, handlers).                 *)
vibe_dwork_submit(t, w) ==
  /\ MayCall(t) /\ t \in Managers
  /\ armed' = [armed EXCEPT ![w] = TRUE]
  /\ UNCHANGED <<status, waitq, semvars, wq, wnext, pending, wpc, current, giving, cancelling>>

Timer_StaysArmed(w) ==
  /\ armed[w] /\ UNCHANGED armed
  /\ IF pending[w] THEN UNCHANGED <<status, waitq, semvars, wq, wnext, pending>>
     ELSE LinkWork(w) /\ vibe_sem_give
  /\ UNCHANGED <<wpc, current, giving, cancelling>>

(* In the tick interrupt: the timer goes off and submits; an item that is  *)
(* pending already stays as it is.                                         *)
dwork_timer_cb(w) ==
  /\ armed[w] /\ armed' = [armed EXCEPT ![w] = FALSE]
  /\ IF pending[w] THEN UNCHANGED <<status, waitq, semvars, wq, wnext, pending>>
     ELSE LinkWork(w) /\ vibe_sem_give
  /\ UNCHANGED <<wpc, current, giving, cancelling>>

(* vibe_dwork_cancel reads pending without a lock and returns VIBE_EAGAIN, *)
(* or goes on to stop the timer.                                           *)
vibe_dwork_cancel(t, w) ==
  /\ MayCall(t) /\ t \in Managers /\ ~pending[w]
  /\ cancelling' = [cancelling EXCEPT ![t] = w]
  /\ UNCHANGED <<status, waitq, semvars, wq, wnext, pending, armed, wpc, current, giving>>

(* VIBE_OK if the timer was running, VIBE_EAGAIN if not.                   *)
CancelStops(t) ==
  /\ cancelling[t] # NoWork
  /\ armed' = [armed EXCEPT ![cancelling[t]] = FALSE]
  /\ cancelling' = [cancelling EXCEPT ![t] = NoWork]
  /\ UNCHANGED <<status, waitq, semvars, wq, wnext, pending, wpc, current, giving>>

WorkInit == InitThreads /\ vibe_workq_init

WorkerStep == WorkerTakes \/ WorkerPops \/ HandlerReturns

WorkNext ==
  \/ WorkerStep
  \/ \E t \in Thread :
       \/ SubmitSignals(t) \/ CancelStops(t)
       \/ \E w \in Work \ DWork : vibe_work_submit(t, w)
       \/ \E w \in DWork : vibe_dwork_submit(t, w) \/ vibe_dwork_cancel(t, w)
  \/ \E w \in DWork : dwork_timer_cb(w)

-----------------------------------------------------------------------------
WorkList == ChainFrom(wq.head, wnext, NoWork, Cardinality(Work))

(* The list holds exactly the pending items, each once, tail is its end,   *)
(* and the semaphore knows of each: its tokens, those on their way to the  *)
(* worker and those about to be given are as many as the items.            *)
WorkListSound ==
  LET s == WorkList
  IN  /\ Elems(s) = {w \in Work : pending[w]}
      /\ Len(s) = Cardinality(Elems(s))
      /\ wq.tail = IF s = <<>> THEN NoWork ELSE s[Len(s)]
      /\ wpc # "none" => credit + Cardinality(giving) + (IF wpc = "pop" THEN 1 ELSE 0) = Len(s)

(* Every submitted item is executed, although the worker handles one item  *)
(* per token and the token may come long after the item.                   *)
WorkRuns == \A w \in Work : pending[w] ~> current = w

(* A vibe_dwork_cancel that reports success (it found the timer running)   *)
(* leaves the item neither in the queue nor due, although it looked at     *)
(* pending without masking the tick ("VIBE_OK if cancelled").              *)
CancelSound ==
  [][\A t \in Thread :
       cancelling[t] # NoWork /\ cancelling'[t] = NoWork /\ armed[cancelling[t]]
         => ~pending'[cancelling[t]] /\ ~armed'[cancelling[t]]]_allwork

(* vibe_work_submit and the worker keep the list and its count of tokens,  *)
(* and a cancelled delayed item does not run (WorkListSound, CancelSound). *)
WorkKept == []WorkListSound /\ CancelSound

=============================================================================
