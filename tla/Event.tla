------------------------------- MODULE Event --------------------------------
(***************************************************************************)
(* Event flags (kernel/event.c).  A waiter leaves its condition in the     *)
(* block behind thread->tls, where the poster finds it; without TLS there  *)
(* is no such block and nobody is ever woken.                              *)
(***************************************************************************)
EXTENDS KernelObject

CONSTANTS Flag,          \* the bits of the event
          CONFIG_TLS     \* whether threads have a TLS block

ASSUME EventAssumption == CONFIG_TLS \in BOOLEAN

VARIABLES flags,
          ctx            \* _event_wait_ctx_t of each thread
evvars == <<flags, ctx>>

Mode == {"WAIT_ANY", "WAIT_ALL"}

NoCtx == [wait_flags |-> {}, wait_mode |-> "WAIT_ANY", satisfied |-> FALSE]

vibe_event_init == flags = {} /\ ctx = [t \in Thread |-> NoCtx]

flags_satisfied(current, requested, mode) ==
  IF mode = "WAIT_ALL" THEN requested \subseteq current
  ELSE current \cap requested # {}

Satisfied(t, current) ==
  CONFIG_TLS /\ flags_satisfied(current, ctx[t].wait_flags, ctx[t].wait_mode)

Post_OnlyNew(new) ==
  LET W == {t \in Elems(waitq["event"]) : Satisfied(t, new)}
  IN  /\ flags' = flags \cup new
      /\ ctx' = [t \in Thread |-> IF t \in W THEN [ctx[t] EXCEPT !.satisfied = TRUE]
                                  ELSE ctx[t]]
      /\ Wake("event", W)

(* Wakes all waiters whose conditions are now satisfied; no flag is used up. *)
vibe_event_post(new) ==
  LET W == {t \in Elems(waitq["event"]) : Satisfied(t, flags \cup new)}
  IN  /\ flags' = flags \cup new
      /\ ctx' = [t \in Thread |-> IF t \in W THEN [ctx[t] EXCEPT !.satisfied = TRUE]
                                  ELSE ctx[t]]
      /\ Wake("event", W)

vibe_event_clear(old) ==
  flags' = flags \ old /\ UNCHANGED <<ctx, status, waitq>>

(* A wait that is satisfied at once, or fails with VIBE_NO_WAIT, changes   *)
(* nothing.                                                                *)
vibe_event_wait(t, want, mode) ==
  /\ status[t] = "ready" /\ want # {}
  /\ ~flags_satisfied(flags, want, mode)
  /\ ctx' = IF CONFIG_TLS
            THEN [ctx EXCEPT ![t] = [wait_flags |-> want, wait_mode |-> mode,
                                     satisfied |-> FALSE]]
            ELSE ctx
  /\ Block(t, "event")
  /\ UNCHANGED flags

(* "Check outcome": VIBE_OK if satisfied, VIBE_ETIMEOUT otherwise.         *)
EventReturns(t) == Resume(t, "event") /\ UNCHANGED evvars

EventInit == InitThreads /\ vibe_event_init

EventNext ==
  \/ \E s \in (SUBSET Flag) \ {{}} :
       \/ vibe_event_post(s) \/ vibe_event_clear(s)
       \/ \E t \in Thread, mode \in Mode : vibe_event_wait(t, s, mode)
  \/ \E t \in Thread : EventReturns(t)

-----------------------------------------------------------------------------
(* A post wakes exactly the waiters whose condition the accumulated flags  *)
(* satisfy, and nobody is left waiting for flags that are set, whatever    *)
(* posts, clears and waits come in between.                                *)
EventExact ==
  [][\A t \in Thread : status[t] = "waiting" =>
       (status'[t] = "event"
          <=> flags_satisfied(flags', ctx[t].wait_flags, ctx[t].wait_mode))
     ]_<<status, evvars>>

=============================================================================
