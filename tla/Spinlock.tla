------------------------------ MODULE Spinlock ------------------------------
(***************************************************************************)
(* Spinlocks with interrupts masked (kernel/spinlock.c over arch_irq_lock  *)
(* and arch_irq_unlock) on the single core this kernel runs on.  The       *)
(* contexts are a stack: the thread, and the handlers that interrupted it. *)
(***************************************************************************)
EXTENDS Naturals, Sequences

CONSTANTS Lock,
          NoLock,       \* vibe_irq_lock: only mask interrupts
          IrqLevel,     \* levels of the interrupts; the thread runs at 0
          MaxHeld       \* bound: nesting of critical sections in a context

ASSUME SpinAssumption == IrqLevel \subseteq Nat \ {0} /\ NoLock \notin Lock /\ MaxHeld \in Nat

VARIABLES primask,      \* interrupts are masked
          flag,         \* lock -> its atomic flag is set
          ctx,          \* [level, at, held]; held: the locks taken, with their keys
          pending       \* levels of the interrupts that wait

spinvars == <<primask, flag, ctx, pending>>

SpinInit ==
  /\ primask = FALSE
  /\ flag = [l \in Lock |-> FALSE]
  /\ ctx = <<[level |-> 0, at |-> "run", held |-> <<>>]>>
  /\ pending = {}

Depth == Len(ctx)
Top == ctx[Depth]
Innermost == Top.held[Len(Top.held)]
HeldBy(c) == {c.held[i].lock : i \in DOMAIN c.held}

(* arch_irq_lock: remember PRIMASK and set it, in one exception-free pair. *)
(* vibe_irq_lock may be nested; spinlocks are not recursive, and callers   *)
(* do not take one again inside its own section.                           *)
arch_irq_lock(l) ==
  /\ Top.at = "run" /\ Len(Top.held) < MaxHeld
  /\ l = NoLock \/ l \notin HeldBy(Top)
  /\ ctx' = [ctx EXCEPT ![Depth].at = IF l = NoLock THEN "run" ELSE "spin",
                        ![Depth].held = Append(@, [lock |-> l, key |-> primask])]
  /\ primask' = TRUE
  /\ UNCHANGED <<flag, pending>>

(* The rest of vibe_spinlock_lock_irqsave; while the flag is set it spins. *)
vibe_spinlock_lock ==
  /\ Top.at = "spin" /\ ~flag[Innermost.lock]
  /\ flag' = [flag EXCEPT ![Innermost.lock] = TRUE]
  /\ ctx' = [ctx EXCEPT ![Depth].at = "run"]
  /\ UNCHANGED <<primask, pending>>

vibe_spinlock_unlock ==
  /\ Top.at = "run" /\ Top.held # <<>>
  /\ flag' = IF Innermost.lock = NoLock THEN flag ELSE [flag EXCEPT ![Innermost.lock] = FALSE]
  /\ ctx' = [ctx EXCEPT ![Depth].at = "restore"]
  /\ UNCHANGED <<primask, pending>>

Unlock_Unmasks ==
  /\ Top.at = "restore"
  /\ primask' = FALSE
  /\ ctx' = [ctx EXCEPT ![Depth].at = "run",
                        ![Depth].held = SubSeq(@, 1, Len(@) - 1)]
  /\ UNCHANGED <<flag, pending>>

(* PRIMASK becomes what the matching lock found: nested sections stay masked. *)
arch_irq_unlock ==
  /\ Top.at = "restore"
  /\ primask' = Innermost.key
  /\ ctx' = [ctx EXCEPT ![Depth].at = "run",
                        ![Depth].held = SubSeq(@, 1, Len(@) - 1)]
  /\ UNCHANGED <<flag, pending>>

(* External: the interrupt controller and the exception entry and return.  *)
Raise(p) ==
  /\ p \notin pending
  /\ pending' = pending \cup {p}
  /\ UNCHANGED <<primask, flag, ctx>>

EnterHandler ==
  /\ ~primask
  /\ \E p \in pending :
       /\ p > Top.level /\ \A q \in pending : q <= p
       /\ ctx' = Append(ctx, [level |-> p, at |-> "run", held |-> <<>>])
       /\ pending' = pending \ {p}
  /\ UNCHANGED <<primask, flag>>

ReturnFromHandler ==
  /\ Depth > 1 /\ Top.at = "run" /\ Top.held = <<>>
  /\ ctx' = SubSeq(ctx, 1, Depth - 1)
  /\ UNCHANGED <<primask, flag, pending>>

SpinRelease == vibe_spinlock_lock \/ vibe_spinlock_unlock \/ arch_irq_unlock

(* What ends an outermost section: sections are finite.                    *)
SectionEnds == Len(Top.held) = 1 /\ vibe_spinlock_unlock

SpinNext ==
  \/ \E l \in Lock \cup {NoLock} : arch_irq_lock(l)
  \/ SpinRelease
  \/ \E p \in IrqLevel : Raise(p)
  \/ EnterHandler \/ ReturnFromHandler

SpinSpec == SpinInit /\ [][SpinNext]_spinvars
-----------------------------------------------------------------------------
(* The comment over vibe_spinlock_lock_irqsave: no handler ever spins on a *)
(* lock that the context below it holds, which would spin forever; a       *)
(* context at the flag finds it clear, at every nesting of sections.       *)
NeverSpins == Top.at = "spin" => ~flag[Innermost.lock]

(* A flag is set exactly for the locks that somebody is inside of, by one  *)
(* context only, and whoever is inside a section, nested or not, is inside *)
(* it with interrupts masked (arch_irq_unlock restores, it does not clear).*)
SectionsMasked ==
  /\ \A l \in Lock : flag[l] <=>
       \E c \in 1..Depth : l \in HeldBy(ctx[c])
         /\ ~(c = Depth /\ Top.at \in {"spin", "restore"} /\ Innermost.lock = l)
  /\ (Top.held # <<>> => primask) /\ (Top.held = <<>> => ~primask)
  /\ \A c \in 1..(Depth - 1) : ctx[c].held = <<>>

(* Sections end with the mask their key remembers, so an interrupt that is *)
(* raised does not wait forever, unless more urgent ones keep coming.      *)
InterruptsServed ==
  \A p \in IrqLevel : []<>(p \notin pending \/ \E q \in pending : q > p)

(* Sections of vibe_spinlock_lock_irqsave neither spin for ever, nor let a *)
(* handler in, nor lose an interrupt (the three parts above).              *)
SectionsSafe == [](NeverSpins /\ SectionsMasked) /\ InterruptsServed

=============================================================================
