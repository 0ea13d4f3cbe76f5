------------------------------ MODULE MCKernel ------------------------------
(***************************************************************************)
(* Boot, mutexes and spinlocks for TLC: every behaviour is about one of    *)
(* them, chosen initially, so that the state space is the sum and not the  *)
(* product.                                                                *)
(***************************************************************************)
EXTENDS TLC, Boot, Mutex, Spinlock

CONSTANTS Parts,         \* the parts this instance looks at
          i, a, b, c, d  \* threads that use the mutex

VARIABLE part

vars == <<part, bootvars, mutexvars, spinvars>>

(* Two devices of any two levels, in any order of linking.                 *)
TwoDevices == [1..2 -> [level : Level, fn : BOOLEAN]]

(* Three threads of one priority and one below it.                         *)
Levels4 == i :> 0 @@ a :> 2 @@ b :> 2 @@ c :> 2 @@ d :> 1

(* One thread above another.                                               *)
Levels2 == i :> 0 @@ a :> 2 @@ b :> 1

(* The parts the behaviour is not about have one initial state.            *)
Init ==
  /\ part \in Parts
  /\ BootInit /\ (part = "boot" \/ devices = CHOOSE r \in Registry : TRUE)
  /\ MutexInit /\ SpinInit

InBoot(A) == part = "boot" /\ A /\ UNCHANGED <<part, mutexvars, spinvars>>
InMutex(A) == part = "mutex" /\ A /\ UNCHANGED <<part, bootvars, spinvars>>
InSpin(A) == part = "spinlock" /\ A /\ UNCHANGED <<part, bootvars, mutexvars>>

Next == InBoot(BootNext) \/ InMutex(MutexNext) \/ InSpin(SpinNext)

Spec == Init /\ [][Next]_vars

(* vibe_init goes on and time passes; sleepers wake; a thread that has the *)
(* CPU gets out of the kernel and does not keep the mutex for ever.        *)
(* Sections and handlers are finite, and the processor takes a pending     *)
(* interrupt when it may, before it goes on with what it was doing.        *)
(* Actions of different parts share a condition: a behaviour has one part. *)
(* Those on leaving the kernel and the mutex are over all threads, which   *)
(* asks for less than one condition for each thread.                       *)
FairSpec ==
  /\ Spec
  /\ WF_vars(InBoot(BootStep) \/ InMutex(TimeSlice) \/ InSpin(SpinRelease))
  /\ \A t \in App : WF_vars(InMutex(WakeUp(t)))
  /\ SF_vars(InMutex(\E t \in App : LockReturns(t) \/ UnlockNested(t)) \/ InSpin(SectionEnds))
  /\ SF_vars(InMutex(\E t \in App : Unlock(t)) \/ InSpin(EnterHandler))
  /\ SF_vars(InSpin(ReturnFromHandler))

=============================================================================
