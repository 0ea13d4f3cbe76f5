---------------------------- MODULE TimerService ----------------------------
(***************************************************************************)
(* What software timers promise (include/vibe/timer.h), without the list   *)
(* that keeps them: every tick advances each running timer once, a timer   *)
(* whose time has come fires in that tick, and a stopped one does not.     *)
(***************************************************************************)
EXTENDS Naturals

CONSTANTS Timer, NULL,
          MaxTicks     \* longest duration of a timer

VARIABLES on,       \* the running timers
          left,     \* ticks until each fires
          period,   \* the duration each was last started with
          shot,     \* the one-shot timers
          todo,     \* running timers this tick has yet to advance
          firing    \* the timer whose callback runs, or NULL

svars == <<on, left, period, shot, todo, firing>>

ServiceInit ==
  /\ on = {} /\ left = [t \in Timer |-> 0] /\ period = [t \in Timer |-> 0]
  /\ shot \in SUBSET Timer
  /\ todo = {} /\ firing = NULL

(* Threads run between ticks, callbacks while their timer fires.           *)
Callable == todo = {} \/ firing # NULL

Setup(t) ==
  /\ Callable
  /\ shot' \in {shot \cup {t}, shot \ {t}}
  /\ on' = on \ {t}
  /\ left' = [left EXCEPT ![t] = 0] /\ period' = [period EXCEPT ![t] = 0]
  /\ todo' = todo \ {t}
  /\ UNCHANGED firing

(* A timer started by a callback is first advanced by the next tick.       *)
Start(t, k) ==
  /\ Callable
  /\ on' = on \cup {t}
  /\ left' = [left EXCEPT ![t] = k] /\ period' = [period EXCEPT ![t] = k]
  /\ todo' = todo \ {t}
  /\ UNCHANGED <<shot, firing>>

Stop(t) ==
  /\ Callable /\ t \in on
  /\ on' = on \ {t}
  /\ left' = [left EXCEPT ![t] = 0]
  /\ todo' = todo \ {t}
  /\ UNCHANGED <<period, shot, firing>>

Tick ==
  /\ todo = {} /\ firing = NULL
  /\ todo' = on
  /\ UNCHANGED <<on, left, period, shot, firing>>

Advance(t) ==
  /\ t \in todo /\ firing = NULL
  /\ todo' = todo \ {t}
  /\ UNCHANGED <<period, shot>>
  /\ \/ /\ left[t] > 1
        /\ left' = [left EXCEPT ![t] = @ - 1]
        /\ UNCHANGED <<on, firing>>
     \/ /\ left[t] = 1
        /\ firing' = t
        /\ left' = [left EXCEPT ![t] = IF t \in shot THEN 0 ELSE period[t]]
        /\ on' = IF t \in shot THEN on \ {t} ELSE on

Return ==
  /\ firing # NULL
  /\ firing' = NULL
  /\ UNCHANGED <<on, left, period, shot, todo>>

ServiceNext ==
  \/ Tick \/ Return
  \/ \E t \in Timer : Setup(t) \/ Stop(t) \/ Advance(t)
                      \/ \E k \in 1..MaxTicks : Start(t, k)

ServiceSpec == ServiceInit /\ [][ServiceNext]_svars

=============================================================================
