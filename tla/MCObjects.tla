----------------------------- MODULE MCObjects ------------------------------
(***************************************************************************)
(* The kernel objects and the software timers for TLC.  They are           *)
(* independent of each other: every behaviour is about one of them, chosen *)
(* initially, so that the state space is the sum and not the product of    *)
(* theirs.                                                                 *)
(***************************************************************************)
EXTENDS WorkQ, MsgQ, Event, MemPool, Pipe, Timer

CONSTANT Objects    \* the objects this instance looks at

VARIABLE object

OneOf(S) == CHOOSE x \in S : TRUE

(* A reader and a writer of any bytes; and one of each with a third thread *)
(* that does both, where the bytes do not matter.  A timed call may do     *)
(* what one that never waits does, and what one that waits for ever does.  *)
PairAndMore ==
  LET r == OneOf(Thread)
      w == OneOf(Thread \ {r})
  IN  {[readers |-> {r}, writers |-> {w}, bytes |-> Byte, timeouts |-> {"TIMED"}],
       [readers |-> Thread \ {w}, writers |-> Thread \ {r}, bytes |-> {OneOf(Byte)},
        timeouts |-> {"TIMED"}]}

vars == <<object, status, waitq, semvars, workvars, mqvars, evvars, poolvars,
          pipevars, timervars>>

Init ==
  /\ object \in Objects
  /\ InitThreads
  /\ CASE object = "sem"   -> SemInit /\ NoItems("none")
       [] object = "workq" -> vibe_workq_init
       [] OTHER            -> vibe_sem_init(0, 0) /\ NoItems("none")
  /\ vibe_msgq_init /\ vibe_event_init /\ vibe_mem_pool_init
  /\ vibe_pipe_init /\ use \in PipeUses /\ (object # "pipe" => use = OneOf(PipeUses))
  /\ TimerInit /\ (object # "timer" => mode = [t \in Timer |-> OneOf(Modes)])

InSem(A) == object = "sem" /\ A
  /\ UNCHANGED <<object, workvars, mqvars, evvars, poolvars, pipevars, timervars>>
InWorkQ(A) == object = "workq" /\ A
  /\ UNCHANGED <<object, mqvars, evvars, poolvars, pipevars, timervars>>
InMsgQ(A) == object = "msgq" /\ A
  /\ UNCHANGED <<object, semvars, workvars, evvars, poolvars, pipevars, timervars>>
InEvent(A) == object = "event" /\ A
  /\ UNCHANGED <<object, semvars, workvars, mqvars, poolvars, pipevars, timervars>>
InPool(A) == object = "pool" /\ A
  /\ UNCHANGED <<object, semvars, workvars, mqvars, evvars, pipevars, timervars>>
InPipes(A) == object = "pipe" /\ A
  /\ UNCHANGED <<object, semvars, workvars, mqvars, evvars, poolvars, timervars>>
InTimers(A) == object = "timer" /\ A
  /\ UNCHANGED <<object, status, waitq, semvars, workvars, mqvars, evvars, poolvars, pipevars>>

Next ==
  \/ InSem(SemNext) \/ InWorkQ(WorkNext) \/ InMsgQ(MsgqNext)
  \/ InEvent(EventNext) \/ InPool(PoolNext) \/ InPipes(PipeNext)
  \/ InTimers(TimerNext)

Spec == Init /\ [][Next]_vars

(* A thread inside a kernel call, the worker included, gets the CPU again; *)
(* handlers return, after finitely many calls of their callbacks; the tick *)
(* keeps coming.  Nobody has to make a call.                               *)
(* Actions of different objects share a condition: a behaviour has one.    *)
FairSpec ==
  /\ Spec
  /\ WF_vars(InWorkQ(WorkerStep) \/ InTimers(TickEnter))
  /\ WF_vars(InSem(SemTick) \/ InTimers(Handler))
  /\ \A t \in Thread : WF_vars(InWorkQ(SubmitSignals(t))) /\ WF_vars(InSem(TakeReturns(t)))

(* Whichever object they wait for: nobody waits for a token, a message, a  *)
(* slot, a block or a byte that is there, unless a woken thread is on its  *)
(* way to take it; and except those whom the code passes over: the other   *)
(* side's waiters when a woken thread of msgq.c makes its transfer         *)
(* (overlooked), and a pipe's own side when a call ends (leftover).  No    *)
(* other wake-up of sem.c, msgq.c, mem_pool.c and pipe.c is lost between a *)
(* test and the wait list.                                                 *)
NobodyStranded == SemNoStranded /\ MsgqNoStranded /\ PoolNoStranded /\ PipeNoStranded

(* Message queues and pipes are bounded FIFOs, over wraps of their indices *)
(* and races of woken threads with newcomers (MsgqFifo, PipeFifo).         *)
DeliversInOrder == MsgqFifo /\ PipeFifo

=============================================================================
