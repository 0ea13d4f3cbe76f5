------------------------------ MODULE RunQueue ------------------------------
(***************************************************************************)
(* The run queues of kernel/sched.c: one list per priority, linked through *)
(* sched_node, and a mask of the priorities whose list is not empty.  R    *)
(* stands for both: R.lists and R.mask (as a set of priorities).           *)
(***************************************************************************)
EXTENDS VibeList

CONSTANT Idle      \* the idle thread (g_idle_thread)

vibe_sched_enqueue(R, t, p) ==
  [lists |-> vibe_list_append(R.lists, p, t), mask |-> R.mask \cup {p}]

vibe_sched_dequeue(R, t, p) ==
  LET S == vibe_list_remove(R.lists, p, t)
  IN  [lists |-> S,
       mask  |-> IF S.head[p] = NULL THEN R.mask \ {p} ELSE R.mask]

highest_ready_priority(R) == CHOOSE p \in R.mask : \A q \in R.mask : q <= p

vibe_sched_next_thread(R) ==
  IF R.mask = {} \/ R.lists.head[highest_ready_priority(R)] = NULL
  THEN Idle
  ELSE R.lists.head[highest_ready_priority(R)]

=============================================================================
