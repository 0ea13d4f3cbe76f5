---------------------------- MODULE JobScheduler ----------------------------
(***************************************************************************)
(* The cooperative job scheduler (lib/job_scheduler) on top of coroutines. *)
(* One RTOS task calls vibe_sched_run over and over.  A tick invokes       *)
(* coroutines, and their bodies may submit and cancel jobs: `cur` is the   *)
(* job whose body is running, between its selection and its return.        *)
(***************************************************************************)
EXTENDS Async, FiniteSets

CONSTANTS capacity,
          JobPrio,       \* the priorities in use
          Bodies,        \* the coroutine bodies in use
          ChildBody,     \* the body their ASYNC_AWAIT_CORO waits for
          SelfCancel     \* a body may cancel its own job

Slot == 0..(capacity - 1)

ASSUME JobAssumption ==
  /\ capacity \in Nat \ {0} /\ JobPrio \subseteq Nat /\ SelfCancel \in BOOLEAN
  /\ Bodies \subseteq Seq(Statement) /\ ChildBody \in Seq(Statement)

VARIABLES jobs,          \* [state, prio, body, line, child]
          jobstats,      \* [active], counted by the scheduler
          tick,          \* [phase, done, i, cur]: the locals of vibe_sched_run
          cond,          \* what the awaited conditions evaluate to; stays true
          due,           \* ghost: READY when the tick began and not cancelled
          invoked        \* ghost: how often the tick has invoked each slot

jobvars == <<jobs, jobstats, tick, cond, due, invoked>>

NoTick == [phase |-> 0, done |-> {}, i |-> 0, cur |-> -1]
InBody == tick.cur # -1

vibe_job_sched_init ==
  /\ jobs = [i \in Slot |-> [state |-> "IDLE", prio |-> 0, body |-> <<>>,
                             line |-> 0, child |-> 0]]
  /\ jobstats = [active |-> 0]
  /\ tick = NoTick /\ cond = FALSE
  /\ due = {} /\ invoked = [i \in Slot |-> 0]

Idle(i) == jobs[i].state = "IDLE"

(* The first idle slot; between ticks, or from the body of another job.    *)
vibe_sched_submit(body, p) ==
  /\ tick.phase = 0 \/ InBody
  /\ \E i \in Slot :
       /\ Idle(i) /\ \A j \in Slot : j < i => ~Idle(j)
       /\ jobs' = [jobs EXCEPT ![i] = [state |-> "READY", prio |-> p,
                     body |-> body, line |-> 0, child |-> 0]]
  /\ jobstats' = [active |-> jobstats.active + 1]
  /\ UNCHANGED <<tick, cond, due, invoked>>

vibe_sched_cancel(i) ==
  /\ tick.phase = 0 \/ InBody
  /\ ~Idle(i) /\ (i # tick.cur \/ SelfCancel)
  /\ jobs' = [jobs EXCEPT ![i].state = "IDLE"]
  /\ jobstats' = [active |-> jobstats.active - 1]
  /\ due' = due \ {i}
  /\ UNCHANGED <<tick, cond, invoked>>

Ready == {i \in Slot : jobs[i].state = "READY"}

vibe_sched_run ==
  /\ tick.phase = 0
  /\ tick' = [NoTick EXCEPT !.phase = 1]
  /\ due' = Ready /\ invoked' = [i \in Slot |-> 0]
  /\ UNCHANGED <<jobs, jobstats, cond>>

Select_IgnoresDone ==
  /\ tick.phase = 1 /\ ~InBody
  /\ \/ \E i \in Ready : tick' = [tick EXCEPT !.cur = i]
     \/ Ready = {} /\ tick' = [tick EXCEPT !.phase = 2]
  /\ UNCHANGED <<jobs, jobstats, cond, due, invoked>>

(* Phase 1: the highest priority among the READY slots that have not run   *)
(* yet, the first slot of equals; when there is none, phase 2.             *)
SelectReady ==
  /\ tick.phase = 1 /\ ~InBody
  /\ LET todo == Ready \ tick.done IN
     \/ \E i \in todo :
          /\ \A j \in todo : \/ jobs[j].prio < jobs[i].prio
                             \/ jobs[j].prio = jobs[i].prio /\ i <= j
          /\ tick' = [tick EXCEPT !.done = @ \cup {i}, !.cur = i]
     \/ todo = {} /\ tick' = [tick EXCEPT !.phase = 2]
  /\ UNCHANGED <<jobs, jobstats, cond, due, invoked>>

Probe_SkipsDone ==
  /\ tick.phase = 2 /\ ~InBody
  /\ \/ /\ tick.i < capacity
        /\ tick' = [tick EXCEPT !.i = @ + 1, !.cur =
             IF jobs[tick.i].state = "READY" THEN tick.i ELSE -1]
     \/ tick.i = capacity /\ tick' = NoTick
  /\ UNCHANGED <<jobs, jobstats, cond, due, invoked>>

(* Phase 2: every slot in turn, if it is BLOCKED by then.                  *)
ProbeBlocked ==
  /\ tick.phase = 2 /\ ~InBody
  /\ \/ /\ tick.i < capacity
        /\ tick' = [tick EXCEPT !.i = @ + 1, !.cur =
             IF jobs[tick.i].state = "BLOCKED" THEN tick.i ELSE -1]
     \/ tick.i = capacity /\ tick' = NoTick
  /\ UNCHANGED <<jobs, jobstats, cond, due, invoked>>

AfterCall == [DONE |-> "IDLE", RUNNING |-> "READY", BLOCKED |-> "BLOCKED"]

(* The coroutine returns to _exec, which sets the state of the slot.       *)
exec ==
  /\ InBody
  /\ LET j == jobs[tick.cur]
         kid == Invoke(ChildBody, j.child, cond, [st |-> "DONE"])
         r == Invoke(j.body, j.line, cond, kid)
     IN  /\ jobs' = [jobs EXCEPT ![tick.cur] = [j EXCEPT
                       !.state = AfterCall[r.st], !.line = r.line,
                       !.child = IF r.child THEN kid.line ELSE @]]
         /\ jobstats' = [active |-> jobstats.active - (IF r.st = "DONE" THEN 1 ELSE 0)]
  /\ invoked' = [invoked EXCEPT ![tick.cur] = @ + 1]
  /\ tick' = [tick EXCEPT !.cur = -1]
  /\ UNCHANGED <<cond, due>>

ConditionHolds == ~cond /\ cond' = TRUE /\ UNCHANGED <<jobs, jobstats, tick, due, invoked>>

JobStep == vibe_sched_run \/ SelectReady \/ ProbeBlocked \/ exec

JobNext ==
  \/ \E b \in Bodies, p \in JobPrio : vibe_sched_submit(b, p)
  \/ \E i \in Slot : vibe_sched_cancel(i)
  \/ JobStep \/ ConditionHolds

JobSpec == vibe_job_sched_init /\ [][JobNext]_jobvars

-----------------------------------------------------------------------------
(* stats.active, which vibe_sched_submit, vibe_sched_cancel and _exec      *)
(* count up and down, is the number of occupied slots, also while bodies   *)
(* submit and cancel in the middle of a tick.                              *)
JobsAccounted == jobstats.active = Cardinality({i \in Slot : ~Idle(i)})

(* vibe_sched_run invokes every job that was READY when it was called and  *)
(* that nobody has cancelled, and no slot more than twice (once in each    *)
(* phase), whatever the bodies submit and cancel meanwhile.                *)
TickServesAll ==
  /\ tick.phase = 2 /\ tick.cur = -1 => \A i \in due : invoked[i] >= 1
  /\ \A i \in Slot : invoked[i] <= 2

(* A slot that has been freed, by vibe_sched_cancel or by its completion,  *)
(* becomes occupied only by a submission, and then at its first line.      *)
SlotStaysFree ==
  [][\A i \in Slot : Idle(i) /\ ~Idle(i)' => jobs'[i].line = 0 /\ tick' = tick]_jobvars

(* Every job comes to its end: a tick always ends, and no priority, no     *)
(* blocked peer and no waiting child keeps a job from being resumed.       *)
JobCompletes == \A i \in Slot : [](~Idle(i) => <>Idle(i))

(* vibe_sched_run serves who is due, and the slots and their count survive *)
(* submissions and cancellations by running bodies (the parts above).      *)
JobsSound == [](JobsAccounted /\ TickServesAll) /\ SlotStaysFree

=============================================================================
