------------------------------- MODULE Timer --------------------------------
(***************************************************************************)
(* Software timers (kernel/timer.c): a singly linked list that the tick    *)
(* interrupt walks while the callbacks it calls may change it.             *)
(*                                                                         *)
(* Threads touch the list only with interrupts masked, so a whole call is  *)
(* one step; vibe_timer_restart alone reads the timer before it masks      *)
(* them.  The walk takes one step per timer, and a callback may make any   *)
(* number of calls before it returns to the walk.                          *)
(***************************************************************************)
EXTENDS Chain

CONSTANTS Timer,        \* the vibe_timer_t objects
          NULL,
          UINT32,       \* number of values of a uint32_t
          HZ,           \* CONFIG_SYS_CLOCK_HZ
          MaxMs,        \* bound: longest duration asked for
          Modes,        \* the timer modes the application uses
          Uses          \* what its callbacks do, of CallbackUses

(* A callback starts or stops the timer that fired or another one; or only *)
(* the one that fired, and only while every running timer is periodic.     *)
CallbackUses == {"start_self", "stop_self", "start_other", "stop_other", "among_periodic"}

ASSUME TimerAssumption ==
  /\ IsFiniteSet(Timer) /\ NULL \notin Timer /\ UINT32 \in Nat \ {0, 1} /\ HZ \in Nat \ {0}
  /\ MaxMs \in Nat /\ Modes \subseteq {"ONE_SHOT", "PERIODIC"} /\ Uses \subseteq CallbackUses

VARIABLES
  g_timer_list_head, next, remaining, duration_ticks, mode, active,
  phase,           \* where SysTick is: "none", "walk" or "callback"
  t_, prev, saved, \* local variables t, prev and next of _vibe_timer_tick
  rst              \* a vibe_timer_restart between its read and its start

links == <<g_timer_list_head, next>>
walk  == <<phase, t_, prev, saved>>
timervars  == <<links, remaining, duration_ticks, mode, active, walk, rst>>

VIBE_MS_TO_TICKS(ms) == ((ms * HZ) \div 1000) % UINT32

VIBE_TICKS_TO_MS(n) == ((n * 1000) \div HZ) % UINT32

NoRestart == [timer |-> NULL, ticks |-> 0]

TimerInit ==
  /\ g_timer_list_head = NULL
  /\ next = [t \in Timer |-> NULL]
  /\ remaining = [t \in Timer |-> 0]
  /\ duration_ticks = [t \in Timer |-> 0]
  /\ mode \in [Timer -> Modes]
  /\ active = [t \in Timer |-> FALSE]
  /\ phase = "none" /\ t_ = NULL /\ prev = NULL /\ saved = NULL
  /\ rst = NoRestart

-----------------------------------------------------------------------------
(* The list                                                                *)

(* The timers met by following next from h, at most one more than exist.   *)
ListFrom(h, nxt) == ChainFrom(h, nxt, NULL, Cardinality(Timer))

Members(s) == {s[i] : i \in DOMAIN s}

(* The search of vibe_timer_stop: *pp = timer->next where *pp == timer.    *)
Unlink(t, L) ==
  LET before == {u \in Members(ListFrom(L.head, L.next)) : L.next[u] = t}
  IN  [head |-> IF L.head = t THEN L.next[t] ELSE L.head,
       next |-> [u \in Timer |->
                   IF u = t THEN NULL
                   ELSE IF L.head # t /\ u \in before THEN L.next[t]
                   ELSE L.next[u]]]

List == [head |-> g_timer_list_head, next |-> next]

SetList(L) == g_timer_list_head' = L.head /\ next' = L.next

-----------------------------------------------------------------------------
(* The calls, from a thread or from a callback                             *)

(* A zero duration in ticks becomes one.                                   *)
Ticks(ms) == IF VIBE_MS_TO_TICKS(ms) = 0 THEN 1 ELSE VIBE_MS_TO_TICKS(ms)

StartList_NoStop(t) == List

(* "If already active, remove and re-add."                                 *)
StartList(t) == IF active[t] THEN Unlink(t, List) ELSE List

vibe_timer_start(t, ms) ==
  LET L == StartList(t)
  IN  /\ ms > 0
      /\ duration_ticks' = [duration_ticks EXCEPT ![t] = Ticks(ms)]
      /\ remaining' = [remaining EXCEPT ![t] = Ticks(ms)]
      /\ active' = [active EXCEPT ![t] = TRUE]
      /\ SetList([head |-> t, next |-> [L.next EXCEPT ![t] = L.head]])
      /\ UNCHANGED <<mode, walk>>

vibe_timer_stop(t) ==
  /\ active[t]
  /\ SetList(Unlink(t, List))
  /\ active' = [active EXCEPT ![t] = FALSE]
  /\ remaining' = [remaining EXCEPT ![t] = 0]
  /\ UNCHANGED <<duration_ticks, mode, walk>>

(* A timer is set up while it does not run.                                *)
vibe_timer_init(t, m) ==
  /\ ~active[t]
  /\ next' = [next EXCEPT ![t] = NULL]
  /\ remaining' = [remaining EXCEPT ![t] = 0]
  /\ duration_ticks' = [duration_ticks EXCEPT ![t] = 0]
  /\ mode' = [mode EXCEPT ![t] = m]
  /\ active' = [active EXCEPT ![t] = FALSE]
  /\ UNCHANGED <<g_timer_list_head, walk>>

(* vibe_timer_restart reads the duration with interrupts enabled, turns it *)
(* into milliseconds and starts the timer with them.                       *)
RestartRead(t) ==
  /\ phase = "none" /\ rst = NoRestart
  /\ rst' = [timer |-> t, ticks |-> duration_ticks[t]]
  /\ UNCHANGED <<links, remaining, duration_ticks, mode, active, walk>>

RestartStart ==
  /\ phase = "none" /\ rst # NoRestart
  /\ rst' = NoRestart
  /\ \/ vibe_timer_start(rst.timer, VIBE_TICKS_TO_MS(rst.ticks))
     \/ /\ VIBE_TICKS_TO_MS(rst.ticks) = 0
        /\ UNCHANGED <<links, remaining, duration_ticks, mode, active, walk>>

ThreadCall ==
  \/ \E t \in Timer :
       /\ phase = "none"
       /\ \/ \E ms \in 1..MaxMs : vibe_timer_start(t, ms)
          \/ vibe_timer_stop(t)
          \/ \E m \in Modes : vibe_timer_init(t, m)
       /\ UNCHANGED rst
  \/ RestartStart
  \/ \E t \in Timer : RestartRead(t)

AmongPeriodic(t) == t = t_ /\ \A u \in Timer : u = t \/ active[u] => mode[u] = "PERIODIC"

Does(use, t) == use \in Uses \/ ("among_periodic" \in Uses /\ AmongPeriodic(t))

CallbackCall ==
  \E t \in Timer :
    /\ phase = "callback"
    /\ \/ /\ Does(IF t = t_ THEN "start_self" ELSE "start_other", t)
          /\ \E ms \in 1..MaxMs : vibe_timer_start(t, ms)
       \/ /\ Does(IF t = t_ THEN "stop_self" ELSE "stop_other", t)
          /\ vibe_timer_stop(t)
    /\ UNCHANGED rst

-----------------------------------------------------------------------------
(* _vibe_timer_tick                                                        *)

TickEnter ==
  /\ phase = "none"
  /\ phase' = "walk" /\ t_' = g_timer_list_head /\ prev' = NULL
  /\ UNCHANGED <<links, remaining, duration_ticks, mode, active, saved, rst>>

Left(t) == IF remaining[t] > 0 THEN remaining[t] - 1 ELSE 0

Due_Late(t) == remaining[t] = 0 /\ active[t]

(* After the decrement: "remaining == 0 && active".                        *)
Due(t) == Left(t) = 0 /\ active[t]

(* Nothing to do for this timer yet.                                       *)
TickPass ==
  /\ phase = "walk" /\ t_ # NULL /\ ~Due(t_)
  /\ remaining' = [remaining EXCEPT ![t_] = Left(t_)]
  /\ prev' = t_ /\ t_' = next[t_]
  /\ UNCHANGED <<links, duration_ticks, mode, active, phase, saved, rst>>

FirePeriodic ==
  /\ phase = "walk" /\ t_ # NULL /\ Due(t_) /\ mode[t_] = "PERIODIC"
  /\ remaining' = [remaining EXCEPT ![t_] = duration_ticks[t_]]
  /\ prev' = t_ /\ saved' = next[t_] /\ phase' = "callback"
  /\ UNCHANGED <<links, duration_ticks, mode, active, t_, rst>>

(* A one-shot timer is taken off behind prev.                              *)
FireOneShot ==
  /\ phase = "walk" /\ t_ # NULL /\ Due(t_) /\ mode[t_] = "ONE_SHOT"
  /\ remaining' = [remaining EXCEPT ![t_] = 0]
  /\ active' = [active EXCEPT ![t_] = FALSE]
  /\ IF prev # NULL
     THEN SetList([head |-> g_timer_list_head,
                   next |-> [next EXCEPT ![prev] = next[t_], ![t_] = NULL]])
     ELSE SetList([head |-> next[t_], next |-> [next EXCEPT ![t_] = NULL]])
  /\ saved' = next[t_] /\ phase' = "callback"
  /\ UNCHANGED <<duration_ticks, mode, t_, prev, rst>>

Return_NoAdvance ==
  /\ phase = "callback"
  /\ phase' = "walk" /\ saved' = NULL
  /\ UNCHANGED <<links, remaining, duration_ticks, mode, active, t_, prev, rst>>

(* The callback returns; the walk goes on with the next it had saved.      *)
CallbackReturn ==
  /\ phase = "callback"
  /\ phase' = "walk" /\ t_' = saved /\ saved' = NULL
  /\ UNCHANGED <<links, remaining, duration_ticks, mode, active, prev, rst>>

TickExit ==
  /\ phase = "walk" /\ t_ = NULL
  /\ phase' = "none" /\ prev' = NULL
  /\ UNCHANGED <<links, remaining, duration_ticks, mode, active, t_, saved, rst>>

Handler ==
  TickPass \/ FirePeriodic \/ FireOneShot \/ CallbackReturn \/ TickExit

TimerNext == ThreadCall \/ CallbackCall \/ TickEnter \/ Handler

TimerSpec == TimerInit /\ [][TimerNext]_timervars

-----------------------------------------------------------------------------
(* Properties                                                              *)

(* The types of timer.h, the walk's locals and the restart in progress.    *)
TypeOK ==
  /\ g_timer_list_head \in Timer \cup {NULL}
  /\ next \in [Timer -> Timer \cup {NULL}]
  /\ remaining \in [Timer -> 0..(UINT32 - 1)]
  /\ duration_ticks \in [Timer -> 0..(UINT32 - 1)]
  /\ mode \in [Timer -> {"ONE_SHOT", "PERIODIC"}]
  /\ active \in [Timer -> BOOLEAN]
  /\ phase \in {"none", "walk", "callback"}
  /\ {t_, prev, saved} \subseteq Timer \cup {NULL}
  /\ rst \in [timer : Timer \cup {NULL}, ticks : 0..(UINT32 - 1)]

(* The list holds the running timers, each once, and no others, and no     *)
(* field of a vibe_timer_t leaves its range.                               *)
ListSound ==
  TypeOK /\
  LET w == ListFrom(g_timer_list_head, next)
  IN  /\ Len(w) = Cardinality(Members(w))
      /\ Members(w) = {t \in Timer : active[t]}

(* The tick handler always comes to an end (a loop in the list would keep  *)
(* the CPU in the interrupt for ever).                                     *)
TickReturns == phase # "none" ~> phase = "none"

(* A one-shot timer that nobody starts again fires or is stopped.          *)
OneShotEnds ==
  \A t \in Timer :
    (active[t] /\ mode[t] = "ONE_SHOT")
      ~> (~active[t] \/ remaining[t] = duration_ticks[t])

(* The list implements the service that timer.h describes: the timers      *)
(* still to be advanced are those the walk will meet.                      *)
Ahead == CASE phase = "none" -> {}
           [] phase = "walk" -> Members(ListFrom(t_, next))
           [] phase = "callback" -> Members(ListFrom(saved, next))

Service ==
  INSTANCE TimerService WITH
    on <- {t \in Timer : active[t]}, left <- remaining,
    period <- duration_ticks, MaxTicks <- UINT32 - 1,
    shot <- {t \in Timer : mode[t] = "ONE_SHOT"},
    todo <- Ahead, firing <- IF phase = "callback" THEN t_ ELSE NULL

(* Every tick advances each running timer exactly once and fires exactly   *)
(* those whose time has come.                                              *)
ServiceSpec == Service!ServiceSpec

(* vibe_timer_restart leaves the timer running with the duration it had,   *)
(* unless that changed between the read and the start.                     *)
RestartKeepsDuration ==
  [][\A t \in Timer :
       (/\ rst.timer = t /\ rst' = NoRestart
        /\ rst.ticks = duration_ticks[t] /\ rst.ticks > 0)
         => active'[t] /\ duration_ticks'[t] = duration_ticks[t]]_timervars

(* Timers keep the time timer.h promises, across vibe_timer_restart too    *)
(* (ServiceSpec, RestartKeepsDuration).                                    *)
TimersKeepTime == ServiceSpec /\ RestartKeepsDuration

(* Neither the handler nor a one-shot timer goes on for ever, whatever     *)
(* callbacks start and stop (TickReturns, OneShotEnds).                    *)
TimersProgress == TickReturns /\ OneShotEnds

=============================================================================
