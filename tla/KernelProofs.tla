---------------------------- MODULE KernelProofs ----------------------------
(***************************************************************************)
(* Mutexes, spinlocks and the boot, for any number of threads, priorities, *)
(* locks, interrupt levels and devices.                                    *)
(***************************************************************************)
EXTENDS Boot, Mutex, Spinlock, QueueProofs, SequenceTheorems

-----------------------------------------------------------------------------
(* Mutexes: the run queues                                                 *)

MState == {"READY", "RUNNING", "SLEEPING", "WAITING"}

OnQueue(s) == s \in {"READY", "RUNNING"}

(* The level that each thread is queued at in the states S.                *)
MapOf(S) == [t \in Thread |-> IF OnQueue(S[t]) THEN BasePriority[t] ELSE -1]

(* The run queues R hold the threads that are ready in the states S.       *)
RunIs(R, S) ==
  R \in Queues(Prio, Thread) /\ \E q : QRep(Prio, Thread, R, MapOf(S), q)

LEMMA PrioIs ==
  /\ Prio \in SUBSET Nat /\ IsFiniteSet(Prio) /\ 0 \in Prio /\ -1 \notin Prio
  /\ \A t \in Thread : BasePriority[t] \in Prio /\ BasePriority[t] \in Nat
  /\ NULL \notin Thread /\ Idle \in Thread /\ Idle \notin App
<1>1. IsFiniteSet({BasePriority[t] : t \in Thread})
  <2>1. BasePriority \in [Thread -> Nat] /\ IsFiniteSet(Thread)
    BY MutexAssumption
  <2>2. BasePriority \in Surjection(Thread, {BasePriority[t] : t \in Thread})
    BY <2>1 DEF Surjection
  <2> QED BY <2>1, <2>2, FS_Surjection
<1> QED BY <1>1, MutexAssumption DEF Prio, App

LEMMA MapType ==
  ASSUME NEW S
  PROVE  MapOf(S) \in [Thread -> Prio \cup {-1}]
BY PrioIs DEF MapOf

(* A thread that was off the queues is put at the end of its own.          *)
LEMMA EnqueueIs ==
  ASSUME NEW R, NEW S \in [Thread -> MState], RunIs(R, S), NEW t \in Thread, ~OnQueue(S[t])
  PROVE  RunIs(vibe_sched_enqueue(R, t, BasePriority[t]), [S EXCEPT ![t] = "READY"])
<1> DEFINE M == MapOf(S)
           p == BasePriority[t]
           Q == vibe_sched_enqueue(R, t, p)
           T == [S EXCEPT ![t] = "READY"]
<1>1. R \in Queues(Prio, Thread) /\ p \in Prio /\ NULL \notin Thread /\ Prio \in SUBSET Nat
  BY PrioIs DEF RunIs
<1>2. PICK q : QRep(Prio, Thread, R, M, q)
  BY DEF RunIs
<1>3. M \in [Thread -> Prio \cup {-1}] /\ M[t] = -1
  BY MapType DEF MapOf
<1>4. MapOf(T) = [M EXCEPT ![t] = p]
  BY DEF MapOf, OnQueue
<1>5. Q \in Queues(Prio, Thread)
  BY <1>1, EnqueueType
<1> HIDE DEF M, p, Q, T
<1>6. QRep(Prio, Thread, vibe_sched_enqueue(R, t, p), [M EXCEPT ![t] = p],
           [q EXCEPT ![p] = Append(@, t)])
  BY <1>1, <1>2, <1>3, EnqueueRep
<1>7. RunIs(Q, T)
  BY <1>4, <1>5, <1>6 DEF RunIs, Q
<1> QED BY <1>7 DEF Q, T, p

(* A thread that blocks is taken off the queue it is in.                   *)
LEMMA DequeueIs ==
  ASSUME NEW R, NEW S \in [Thread -> MState], RunIs(R, S), NEW t \in Thread, OnQueue(S[t]),
         NEW s \in MState, ~OnQueue(s)
  PROVE  RunIs(vibe_sched_dequeue(R, t, BasePriority[t]), [S EXCEPT ![t] = s])
<1> DEFINE M == MapOf(S)
           p == BasePriority[t]
           Q == vibe_sched_dequeue(R, t, p)
           T == [S EXCEPT ![t] = s]
<1>1. R \in Queues(Prio, Thread) /\ p \in Prio /\ NULL \notin Thread /\ Prio \in SUBSET Nat
  BY PrioIs DEF RunIs
<1>2. PICK q : QRep(Prio, Thread, R, M, q)
  BY DEF RunIs
<1>3. M \in [Thread -> Prio \cup {-1}] /\ M[t] = p
  BY MapType DEF MapOf
<1>4. MapOf(T) = [M EXCEPT ![t] = -1]
  BY DEF MapOf
<1>5. Q \in Queues(Prio, Thread)
  BY <1>1, DequeueType
<1> HIDE DEF M, p, Q, T
<1>6. PICK k \in 1..Len(q[p]) :
        QRep(Prio, Thread, vibe_sched_dequeue(R, t, p), [M EXCEPT ![t] = -1],
             [q EXCEPT ![p] = Without(@, k)])
  BY <1>1, <1>2, <1>3, DequeueRep
<1>7. RunIs(Q, T)
  BY <1>4, <1>5, <1>6 DEF RunIs, Q
<1> QED BY <1>7 DEF Q, T, p

(* Only who is ready counts.                                               *)
LEMMA SameReady ==
  ASSUME NEW R, NEW S, NEW T, RunIs(R, S), \A t \in Thread : OnQueue(S[t]) <=> OnQueue(T[t])
  PROVE  RunIs(R, T)
<1>1. MapOf(S) = MapOf(T)
  BY DEF MapOf
<1> QED BY <1>1 DEF RunIs

(* A ready thread goes from its place to the end of its queue.             *)
LEMMA RotateIs ==
  ASSUME NEW R, NEW S \in [Thread -> MState], RunIs(R, S), NEW t \in Thread, OnQueue(S[t])
  PROVE  RunIs(vibe_sched_enqueue(vibe_sched_dequeue(R, t, BasePriority[t]), t, BasePriority[t]), S)
<1> DEFINE Q == vibe_sched_dequeue(R, t, BasePriority[t])
           T == [S EXCEPT ![t] = "SLEEPING"]
           Z == vibe_sched_enqueue(Q, t, BasePriority[t])
           U == [T EXCEPT ![t] = "READY"]
<1>1. RunIs(Q, T)
  <2>1. "SLEEPING" \in MState /\ ~OnQueue("SLEEPING")
    BY DEF MState, OnQueue
  <2> QED BY <2>1, DequeueIs
<1>2. T \in [Thread -> MState] /\ ~OnQueue(T[t])
  BY DEF MState, OnQueue
<1>3. \A u \in Thread : OnQueue(U[u]) <=> OnQueue(S[u])
  BY DEF OnQueue
<1> HIDE DEF Q, T
<1>4. RunIs(Z, U)
  BY <1>1, <1>2, EnqueueIs
<1> HIDE DEF U, Z
<1>5. RunIs(Z, S)
  BY <1>3, <1>4, SameReady
<1> QED BY <1>5 DEF Z, Q

(* A reschedule chooses a thread that is ready and changes nobody's being  *)
(* ready.                                                                  *)
LEMMA RescheduleIs ==
  ASSUME NEW R, NEW S \in [Thread -> MState], RunIs(R, S), OnQueue(S[Idle]),
         g_current_thread \in Thread, Reschedule(R, S)
  PROVE  /\ RunIs(runq', state') /\ state' \in [Thread -> MState]
         /\ g_current_thread' \in Thread /\ OnQueue(state'[g_current_thread'])
         /\ \A t \in Thread : OnQueue(state'[t]) <=> OnQueue(S[t])
         /\ \A t \in Thread : ~OnQueue(S[t]) => state'[t] = S[t]
<1> DEFINE M == MapOf(S)
           next == vibe_sched_next_thread(R)
<1>1. /\ R \in Queues(Prio, Thread) /\ Prio \in SUBSET Nat /\ IsFiniteSet(Prio)
      /\ NULL \notin Thread /\ Idle \in Thread
  BY PrioIs DEF RunIs
<1>2. PICK q : QRep(Prio, Thread, R, M, q)
  BY DEF RunIs
<1>3. M \in [Thread -> Prio \cup {-1}] /\ \E t \in Thread : M[t] \in Prio
  <2>1. M[Idle] \in Prio
    BY PrioIs DEF MapOf
  <2> QED BY <1>1, <2>1, MapType
<1>4. next \in Thread /\ M[next] \in Prio
  <2> HIDE DEF M
  <2> QED BY <1>1, <1>2, <1>3, NextThreadRep
<1>5. OnQueue(S[next])
  BY <1>4, PrioIs DEF MapOf
<1> HIDE DEF M, next
<1>6. /\ runq' = R /\ g_current_thread' = next
      /\ state' = IF next = g_current_thread THEN S
                  ELSE [t \in Thread |->
                          IF t = next THEN "RUNNING"
                          ELSE IF t = g_current_thread /\ S[t] = "RUNNING" THEN "READY"
                          ELSE S[t]]
  BY DEF Reschedule, next
<1>7. /\ state' \in [Thread -> MState]
      /\ \A t \in Thread : OnQueue(state'[t]) <=> OnQueue(S[t])
      /\ \A t \in Thread : ~OnQueue(S[t]) => state'[t] = S[t]
  BY <1>4, <1>5, <1>6 DEF MState, OnQueue
<1>8. RunIs(runq', state')
  <2> DEFINE T == state'
  <2>1. \A t \in Thread : OnQueue(S[t]) <=> OnQueue(T[t])
    BY <1>7
  <2> HIDE DEF T
  <2>2. RunIs(R, T)
    BY <2>1, SameReady
  <2> QED BY <1>6, <2>2 DEF T
<1> QED BY <1>4, <1>5, <1>6, <1>7, <1>8

-----------------------------------------------------------------------------
(* Mutexes: the wait list                                                  *)

(* In the states S the wait list H is w: those that wait and are not in L, *)
(* by priority.                                                            *)
WaitIs(H, S, L, w) ==
  /\ w \in Seq(Thread) /\ Linked(H, Waits, w)
  /\ \A t \in Thread : S[t] = "WAITING" /\ t \notin L <=> \E k \in 1..Len(w) : w[k] = t
  /\ \A j, k \in 1..Len(w) : j < k => BasePriority[w[k]] <= BasePriority[w[j]]

LEMMA WaitsIs == Waits \in {Waits} /\ NULL \notin Thread
  BY MutexAssumption

(* r has the elements of s and x.                                          *)
AddsOne(r, s, x) ==
  \A y : (\E k \in 1..Len(r) : r[k] = y) <=> y = x \/ \E k \in 1..Len(s) : s[k] = y

LEMMA WithMembers ==
  ASSUME NEW N, NEW s \in Seq(N), NEW x \in N, NEW n \in 1..(Len(s) + 1)
  PROVE  AddsOne(With(s, n, x), s, x)
<1> DEFINE r == With(s, n, x)
<1>1. r \in Seq(N) /\ Len(r) = Len(s) + 1 /\ Len(s) \in Nat
  BY WithSeq
<1>2. \A k \in 1..Len(r) : r[k] = IF k < n THEN s[k] ELSE IF k = n THEN x ELSE s[k - 1]
  BY <1>1 DEF With
<1> HIDE DEF r
<1>3. ASSUME NEW y, NEW k \in 1..Len(r), r[k] = y PROVE y = x \/ \E m \in 1..Len(s) : s[m] = y
  <2>1. CASE k < n
    BY <1>1, <1>2, <1>3, <2>1
  <2>2. CASE k = n
    BY <1>2, <1>3, <2>2
  <2>3. CASE k > n
    <3>1. k - 1 \in 1..Len(s) /\ s[k - 1] = y
      BY <1>1, <1>2, <1>3, <2>3
    <3> QED BY <3>1
  <2> QED BY <1>1, <2>1, <2>2, <2>3
<1>4. \E k \in 1..Len(r) : r[k] = x
  <2>1. n \in 1..Len(r) /\ r[n] = x
    BY <1>1, <1>2
  <2> QED BY <2>1
<1>5. ASSUME NEW k \in 1..Len(s) PROVE \E m \in 1..Len(r) : r[m] = s[k]
  <2>1. CASE k < n
    BY <1>1, <1>2, <2>1
  <2>2. CASE k >= n
    <3>1. k + 1 \in 1..Len(r) /\ r[k + 1] = s[k]
      BY <1>1, <1>2, <2>2
    <3> QED BY <3>1
  <2> QED BY <1>1, <2>1, <2>2
<1> QED BY <1>3, <1>4, <1>5 DEF r, AddsOne

(* A waiter goes behind those that are at least as urgent.                 *)
LEMMA InsertIs ==
  ASSUME NEW w, WaitIs(wait, state, lost, w), wait \in Heap({Waits}, Thread), priority = BasePriority,
         state \in [Thread -> MState], NEW t \in Thread, state[t] # "WAITING", t \notin lost, ~BeforeHead(t)
  PROVE  /\ InsertWaiter(t) \in Heap({Waits}, Thread)
         /\ \E r : WaitIs(InsertWaiter(t), [state EXCEPT ![t] = "WAITING"], lost, r)
<1> DEFINE B == BasePriority
           S == [state EXCEPT ![t] = "WAITING"]
           lower == {k \in 1..Len(w) : B[t] > B[w[k]]}
<1>1. /\ w \in Seq(Thread) /\ Linked(wait, Waits, w)
      /\ \A k \in 1..Len(w) : w[k] # t /\ w[k] \in Thread
      /\ \A u \in Thread : B[u] \in Nat
      /\ Len(w) \in Nat /\ DOMAIN w = 1..Len(w)
  BY MutexAssumption DEF WaitIs
<1>2. Walk(wait, Waits, Cardinality(Thread)) = w
  BY <1>1, WaitsIs, MutexAssumption, WalkIsList
<1>3. InsertWaiter(t) =
        IF lower = {} THEN vibe_list_append(wait, Waits, t)
        ELSE vibe_list_insert_after(wait, Waits,
               wait.prev[w[CHOOSE k \in lower : \A j \in lower : k <= j]], t)
  BY <1>1, <1>2 DEF InsertWaiter
<1>l. lower \subseteq 1..Len(w) /\ \A k \in 1..Len(w) : k \in lower <=> B[t] > B[w[k]]
  OBVIOUS
<1> HIDE DEF lower
<1>4. ASSUME NEW r \in Seq(Thread), Linked(InsertWaiter(t), Waits, r),
             \A y : (\E k \in 1..Len(r) : r[k] = y) <=> y = t \/ \E k \in 1..Len(w) : w[k] = y,
             \A j, k \in 1..Len(r) : j < k => B[r[k]] <= B[r[j]]
      PROVE  WaitIs(InsertWaiter(t), S, lost, r)
  <2>1. \A u \in Thread : S[u] = "WAITING" /\ u \notin lost
                            <=> u = t \/ (state[u] = "WAITING" /\ u \notin lost)
    BY DEF S
  <2> QED BY <1>4, <2>1 DEF WaitIs
<1>5. CASE lower = {}
  <2> DEFINE r == Append(w, t)
  <2>1. InsertWaiter(t) = vibe_list_append(wait, Waits, t)
    BY <1>3, <1>5
  <2>2. Linked(InsertWaiter(t), Waits, r) /\ InsertWaiter(t) \in Heap({Waits}, Thread)
    <3> DEFINE H == vibe_list_append(wait, Waits, t)
    <3>1. /\ w \in Seq(Thread) /\ Linked(wait, Waits, w) /\ \A k \in 1..Len(w) : w[k] # t
      BY <1>1
    <3>2. Linked(H, Waits, r)
      BY <3>1, WaitsIs, AppendLinked
    <3>3. H \in Heap({Waits}, Thread)
      BY WaitsIs, AppendType
    <3> QED BY <2>1, <3>2, <3>3
  <2>3. /\ r \in Seq(Thread) /\ Len(r) = Len(w) + 1 /\ r[Len(w) + 1] = t
        /\ \A k \in 1..Len(w) : r[k] = w[k]
    BY <1>1
  <2> HIDE DEF r
  <2>4. \A y : (\E k \in 1..Len(r) : r[k] = y) <=> y = t \/ \E k \in 1..Len(w) : w[k] = y
    <3>1. Len(w) + 1 \in 1..Len(r)
      BY <1>1, <2>3
    <3> QED BY <1>1, <2>3, <3>1
  <2>5. \A j, k \in 1..Len(r) : j < k => B[r[k]] <= B[r[j]]
    <3> SUFFICES ASSUME NEW j \in 1..Len(r), NEW k \in 1..Len(r), j < k PROVE B[r[k]] <= B[r[j]]
      OBVIOUS
    <3>1. CASE k = Len(w) + 1
      <4>1. j \in 1..Len(w) /\ j \notin lower /\ w[j] \in Thread /\ r[j] = w[j] /\ r[k] = t
        BY <1>1, <1>5, <2>3, <3>1
      <4> QED BY <1>1, <1>l, <4>1
    <3>2. CASE k # Len(w) + 1
      <4>1. j \in 1..Len(w) /\ k \in 1..Len(w)
        BY <1>1, <2>3, <3>2
      <4> QED BY <2>3, <4>1 DEF WaitIs
    <3> QED BY <3>1, <3>2
  <2> QED BY <1>4, <2>2, <2>3, <2>4, <2>5
<1>6. CASE lower # {}
  <2>1. PICK n \in lower : \A j \in lower : n <= j
    <3>1. lower \in SUBSET Nat
      BY <1>1, <1>l
    <3> QED BY <1>6, <3>1, LeastNumber
  <2>2. (CHOOSE k \in lower : \A j \in lower : k <= j) = n
    <3>1. \A x \in lower : (\A j \in lower : x <= j) => x = n
      BY <1>1, <1>l, <2>1
    <3> QED BY <2>1, <3>1
  <2>3. n \in 1..Len(w) /\ B[t] > B[w[n]] /\ \A j \in 1..(n - 1) : B[t] <= B[w[j]]
    <3>1. \A j \in 1..(n - 1) : j \in 1..Len(w) /\ j \notin lower
      BY <1>1, <1>l, <2>1
    <3> QED BY <1>1, <1>l, <2>1, <3>1
  <2>4. n # 1
    <3>1. n = 1 => wait.head[Waits] = w[n] /\ w[n] # NULL
      BY <1>1, <2>3, WaitsIs, SMTT(30) DEF Linked
    <3> QED BY <2>3, <3>1 DEF BeforeHead
  <2>5. wait.prev[w[n]] = w[n - 1] /\ n \in 2..(Len(w) + 1) /\ n - 1 \in 1..Len(w)
    <3>1. n \in 2..(Len(w) + 1) /\ n - 1 \in 1..Len(w)
      BY <1>1, <2>3, <2>4
    <3>2. wait.prev[w[n]] = IF n = 1 THEN NULL ELSE w[n - 1]
      <4>1. Linked(wait, Waits, w) /\ n \in 1..Len(w)
        BY <1>1, <2>3
      <4> QED BY ONLY <4>1, Zenon DEF Linked
    <3> QED BY <2>4, <3>1, <3>2
  <2>6. InsertWaiter(t) = vibe_list_insert_after(wait, Waits, w[n - 1], t)
    BY <1>3, <1>6, <2>2, <2>5
  <2> DEFINE r == With(w, n, t)
  <2>7. Linked(InsertWaiter(t), Waits, r) /\ InsertWaiter(t) \in Heap({Waits}, Thread)
    <3> DEFINE H == vibe_list_insert_after(wait, Waits, w[n - 1], t)
    <3>1. /\ w \in Seq(Thread) /\ Linked(wait, Waits, w) /\ \A k \in 1..Len(w) : w[k] # t
          /\ n \in 2..(Len(w) + 1) /\ w[n - 1] \in Thread
      BY <1>1, <2>5
    <3>2. Linked(H, Waits, r)
      BY <3>1, WaitsIs, InsertAfterLinked
    <3>3. H \in Heap({Waits}, Thread)
      BY <3>1, WaitsIs, InsertAfterType
    <3> QED BY <2>6, <3>2, <3>3
  <2>8. /\ r \in Seq(Thread) /\ Len(r) = Len(w) + 1
        /\ \A y : (\E k \in 1..Len(r) : r[k] = y) <=> y = t \/ \E k \in 1..Len(w) : w[k] = y
    <3>1. n \in 1..(Len(w) + 1) /\ w \in Seq(Thread)
      BY <1>1, <2>3
    <3>2. r \in Seq(Thread) /\ Len(r) = Len(w) + 1
      BY <3>1, WithSeq
    <3>3. \A y : (\E k \in 1..Len(r) : r[k] = y) <=> y = t \/ \E k \in 1..Len(w) : w[k] = y
      <4>1. AddsOne(r, w, t)
        BY <3>1, WithMembers
      <4> HIDE DEF r
      <4> QED BY <4>1 DEF AddsOne
    <3> QED BY <3>2, <3>3
  <2>9. \A k \in 1..Len(r) : r[k] = IF k < n THEN w[k] ELSE IF k = n THEN t ELSE w[k - 1]
    BY <2>8 DEF With
  <2> HIDE DEF r
  <2>10. \A j, k \in 1..Len(r) : j < k => B[r[k]] <= B[r[j]]
    <3> SUFFICES ASSUME NEW j \in 1..Len(r), NEW k \in 1..Len(r), j < k PROVE B[r[k]] <= B[r[j]]
      OBVIOUS
    <3>1. \A x, y \in 1..Len(w) : x <= y => B[w[y]] <= B[w[x]]
      BY <1>1 DEF WaitIs
    <3>2. CASE j < n /\ k < n
      BY <1>1, <2>3, <2>9, <3>1, <3>2, SMTT(30)
    <3>3. CASE j < n /\ k = n
      <4>1. j \in 1..(n - 1) /\ r[j] = w[j] /\ r[k] = t
        BY <1>1, <2>3, <2>9, <3>3
      <4> QED BY <2>3, <4>1
    <3>4. CASE j < n /\ k > n
      <4>1. /\ k - 1 \in 1..Len(w) /\ j \in 1..Len(w) /\ j <= k - 1
            /\ r[k] = w[k - 1] /\ r[j] = w[j]
        BY <1>1, <2>3, <2>8, <2>9, <3>4
      <4> QED BY <3>1, <4>1
    <3>5. CASE j = n
      <4>1. k - 1 \in 1..Len(w) /\ n <= k - 1 /\ r[k] = w[k - 1] /\ r[j] = t
        BY <1>1, <2>3, <2>8, <2>9, <3>5
      <4>2. B[w[k - 1]] <= B[w[n]] /\ w[k - 1] \in Thread /\ w[n] \in Thread
        BY <1>1, <2>3, <3>1, <4>1
      <4>3. B[w[k - 1]] \in Nat /\ B[w[n]] \in Nat /\ B[t] \in Nat
        BY <1>1, <4>2
      <4> QED BY <2>3, <4>1, <4>2, <4>3
    <3>6. CASE j > n
      <4>1. k - 1 \in 1..Len(w) /\ j - 1 \in 1..Len(w) /\ j - 1 <= k - 1 /\ k > n
        BY <1>1, <2>3, <2>8, <3>6
      <4>2. r[k] = w[k - 1]
        BY <2>3, <2>9, <4>1
      <4>3. r[j] = w[j - 1]
        BY <2>3, <2>9, <3>6
      <4> QED BY <3>1, <4>1, <4>2, <4>3
    <3> QED BY <2>3, <3>2, <3>3, <3>4, <3>5, <3>6
  <2> QED BY <1>4, <2>7, <2>8, <2>10
<1> QED BY <1>5, <1>6

(* The first waiter is taken off the list.                                 *)
LEMMA RemoveHeadIs ==
  ASSUME NEW w, WaitIs(wait, state, lost, w), wait \in Heap({Waits}, Thread), Len(w) # 0,
         NEW S, \A u \in Thread : S[u] = "WAITING" <=> state[u] = "WAITING" /\ u # w[1]
  PROVE  /\ wait.head[Waits] = w[1] /\ w[1] \in Thread \ lost /\ state[w[1]] = "WAITING"
         /\ \A u \in Thread \ lost : state[u] = "WAITING" => BasePriority[u] <= BasePriority[w[1]]
         /\ vibe_list_remove(wait, Waits, w[1]) \in Heap({Waits}, Thread)
         /\ WaitIs(vibe_list_remove(wait, Waits, w[1]), S, lost, Without(w, 1))
<1>1. /\ w \in Seq(Thread) /\ Linked(wait, Waits, w) /\ Len(w) \in Nat \ {0}
      /\ 1 \in 1..Len(w) /\ w[1] \in Thread
      /\ \A u \in Thread : BasePriority[u] \in Nat
  BY MutexAssumption DEF WaitIs
<1>2. wait.head[Waits] = w[1] /\ state[w[1]] = "WAITING" /\ w[1] \notin lost
  BY <1>1 DEF WaitIs, Linked
<1>3. ASSUME NEW u \in Thread \ lost, state[u] = "WAITING" PROVE BasePriority[u] <= BasePriority[w[1]]
  <2>1. PICK k \in 1..Len(w) : w[k] = u
    BY <1>3 DEF WaitIs
  <2>2. CASE k = 1
    BY <1>1, <2>1, <2>2
  <2>3. CASE k > 1
    BY <1>1, <2>1, <2>3 DEF WaitIs
  <2> QED BY <1>1, <2>2, <2>3
<1> DEFINE r == Without(w, 1)
           H == vibe_list_remove(wait, Waits, w[1])
<1>4. Linked(H, Waits, r) /\ H \in Heap({Waits}, Thread)
  BY <1>1, WaitsIs, RemoveLinked, RemoveType
<1>5. r \in Seq(Thread) /\ Len(r) = Len(w) - 1
  BY <1>1, WithoutSeq
<1>6. \A k \in 1..Len(r) : r[k] = w[k + 1] /\ k + 1 \in 1..Len(w)
  BY <1>1, <1>5 DEF Without
<1> HIDE DEF r, H
<1>7. \A j, k \in 1..Len(w) : w[j] = w[k] => j = k
  BY <1>1 DEF Linked
<1>8. \A u \in Thread : S[u] = "WAITING" /\ u \notin lost <=> \E k \in 1..Len(r) : r[k] = u
  <2> TAKE u \in Thread
  <2>1. ASSUME NEW k \in 1..Len(r), r[k] = u PROVE S[u] = "WAITING" /\ u \notin lost
    <3>1. w[k + 1] = u /\ k + 1 \in 1..Len(w) /\ k + 1 # 1
      BY <1>5, <1>6, <2>1
    <3>2. w[k + 1] # w[1]
      BY <1>1, <1>7, <3>1
    <3> QED BY <3>1, <3>2 DEF WaitIs
  <2>2. ASSUME S[u] = "WAITING", u \notin lost PROVE \E k \in 1..Len(r) : r[k] = u
    <3>1. PICK k \in 1..Len(w) : w[k] = u /\ u # w[1]
      BY <2>2 DEF WaitIs
    <3>2. k - 1 \in 1..Len(r) /\ r[k - 1] = u
      BY <1>1, <1>5, <1>6, <3>1
    <3> QED BY <3>2
  <2> QED BY <2>1, <2>2
<1>9. \A j, k \in 1..Len(r) : j < k => BasePriority[r[k]] <= BasePriority[r[j]]
  <2> TAKE j, k \in 1..Len(r)
  <2>1. j + 1 < k + 1 => BasePriority[w[k + 1]] <= BasePriority[w[j + 1]]
    BY <1>6 DEF WaitIs
  <2> QED BY <1>5, <1>6, <2>1
<1>10. WaitIs(H, S, lost, r)
  BY <1>4, <1>5, <1>8, <1>9 DEF WaitIs
<1> QED BY <1>1, <1>2, <1>3, <1>4, <1>10 DEF H, r

-----------------------------------------------------------------------------
(* Mutexes: the invariant                                                  *)

(* Nobody is boosted, so every thread has and keeps its own priority.      *)
Placed ==
  /\ state \in [Thread -> MState] /\ priority = BasePriority
  /\ g_current_thread \in Thread /\ OnQueue(state[g_current_thread]) /\ OnQueue(state[Idle])
  /\ RunIs(runq, state)

(* The mutex, its grants and the calls that have blocked agree.            *)
Owned ==
  /\ mutex = [owner |-> mutex.owner, lock_count |-> mutex.lock_count,
              owner_orig_prio |-> mutex.owner_orig_prio]
  /\ mutex.owner \in App \cup {NULL} /\ mutex.lock_count \in Nat
  /\ mutex.owner # NULL => mutex.owner_orig_prio = BasePriority[mutex.owner]
  /\ holds \in [Thread -> Nat] /\ inlock \subseteq App
  /\ \A t \in App :
       /\ holds[t] > 0 => mutex.owner = t /\ mutex.lock_count = holds[t]
       /\ t \in inlock /\ state[t] # "WAITING" =>
            mutex.owner = t /\ holds[t] = 0 /\ mutex.lock_count = 1
       /\ mutex.owner = t => (holds[t] > 0 \/ t \in inlock) /\ state[t] # "WAITING"
       /\ state[t] = "WAITING" => t \in inlock
       /\ t \in lost => state[t] = "WAITING"

WaitersListed ==
  /\ wait \in Heap({Waits}, Thread)
  /\ \E w : WaitIs(wait, state, lost, w) /\ (Len(w) # 0 => mutex.owner # NULL)

MInv == Placed /\ Owned /\ WaitersListed

LEMMA AppIs == App \subseteq Thread /\ Idle \notin App /\ NULL \notin App /\ Idle \in Thread
  BY MutexAssumption DEF App

LEMMA MutexStarts ==
  ASSUME MutexInit
  PROVE  MInv
<1> DEFINE R == [lists |-> EmptyLists(Prio, Thread), mask |-> {}]
           S == [t \in Thread |-> "SLEEPING"]
           q == [p \in Prio |-> <<>>]
<1>1. RunIs(R, S) /\ S \in [Thread -> MState] /\ ~OnQueue(S[Idle])
  <2>1. \A p \in Prio : EmptyLists(Prio, Thread) \in Heap(Prio, Thread)
                          /\ IsList(EmptyLists(Prio, Thread), p, <<>>)
    BY EmptyIsList
  <2>2. R \in Queues(Prio, Thread)
    BY <2>1, PrioIs DEF Queues
  <2>3. MapOf(S) = [t \in Thread |-> -1]
    BY DEF MapOf, OnQueue
  <2>4. q \in [Prio -> Seq(Thread)] /\ \A p \in Prio : q[p] = <<>> /\ Len(q[p]) = 0
    <3>1. <<>> \in Seq(Thread) /\ Len(<<>>) = 0
      OBVIOUS
    <3> QED BY <3>1
  <2> HIDE DEF q
  <2>5. QRep(Prio, Thread, R, MapOf(S), q)
    BY <2>1, <2>3, <2>4, PrioIs DEF QRep
  <2>6. S \in [Thread -> MState] /\ ~OnQueue(S[Idle])
    BY PrioIs DEF MState, OnQueue
  <2> QED BY <2>2, <2>5, <2>6 DEF RunIs
<1>2. runq = vibe_sched_enqueue(R, Idle, BasePriority[Idle])
  BY MutexAssumption DEF MutexInit
<1>3. \A t \in Thread : OnQueue(state[t]) <=> t = Idle
  BY DEF MutexInit, OnQueue
<1>4. RunIs(runq, state)
  <2> HIDE DEF R
  <2> DEFINE T == [S EXCEPT ![Idle] = "READY"]
  <2>1. RunIs(runq, T)
    <3> HIDE DEF S
    <3> QED BY <1>1, <1>2, PrioIs, EnqueueIs
  <2>2. \A t \in Thread : OnQueue(T[t]) <=> OnQueue(state[t])
    BY <1>3 DEF OnQueue
  <2> HIDE DEF T
  <2> QED BY <2>1, <2>2, SameReady
<1>5. Placed
  BY <1>3, <1>4, PrioIs DEF MutexInit, Placed, MState
<1>6. Owned
  BY MutexAssumption DEF MutexInit, Owned, vibe_mutex_init, App
<1>7. WaitersListed
  <2>1. EmptyLists({Waits}, Thread) \in Heap({Waits}, Thread) /\ IsList(EmptyLists({Waits}, Thread), Waits, <<>>)
    BY EmptyIsList, WaitsIs
  <2>2. <<>> \in Seq(Thread) /\ Len(<<>>) = 0
    OBVIOUS
  <2>3. WaitIs(wait, state, lost, <<>>)
    BY <2>1, <2>2 DEF MutexInit, WaitIs, IsList
  <2> QED BY <2>1, <2>2, <2>3 DEF MutexInit, WaitersListed
<1> QED BY <1>5, <1>6, <1>7 DEF MInv

(* A step that reschedules: who is ready, and who waits, is decided by the *)
(* states S that it leaves.                                                *)
LEMMA PlacedAgain ==
  ASSUME Placed, NEW R, NEW S \in [Thread -> MState], RunIs(R, S), OnQueue(S[Idle]),
         Reschedule(R, S), priority' = BasePriority
  PROVE  Placed' /\ \A t \in Thread : state'[t] = "WAITING" <=> S[t] = "WAITING"
<1>1. /\ RunIs(runq', state') /\ state' \in [Thread -> MState]
      /\ g_current_thread' \in Thread /\ OnQueue(state'[g_current_thread'])
      /\ \A t \in Thread : OnQueue(state'[t]) <=> OnQueue(S[t])
      /\ \A t \in Thread : ~OnQueue(S[t]) => state'[t] = S[t]
  BY RescheduleIs DEF Placed
<1>2. \A t \in Thread : state'[t] = "WAITING" <=> S[t] = "WAITING"
  BY <1>1 DEF OnQueue
<1>3. OnQueue(state'[Idle])
  BY <1>1, PrioIs
<1> QED BY <1>1, <1>2, <1>3 DEF Placed

(* Nobody begins or ceases to wait.                                        *)
LEMMA SameWaiters ==
  ASSUME Owned, WaitersListed, UNCHANGED <<mutex, wait, inlock, holds, lost>>,
         \A t \in Thread : state'[t] = "WAITING" <=> state[t] = "WAITING"
  PROVE  Owned' /\ WaitersListed'
<1>1. Owned'
  BY AppIs DEF Owned
<1>2. PICK w : WaitIs(wait, state, lost, w) /\ (Len(w) # 0 => mutex.owner # NULL)
  BY DEF WaitersListed
<1>3. WaitIs(wait', state', lost', w)
  BY <1>2 DEF WaitIs
<1> QED BY <1>1, <1>2, <1>3 DEF WaitersListed

(* Sleeping, waking up and time slices.                                    *)
LEMMA MovesKeep ==
  ASSUME MInv, TimeSlice \/ \E t \in App : Sleep(t) \/ WakeUp(t)
  PROVE  MInv'
<1>0. Placed /\ Owned /\ WaitersListed
  BY DEF MInv
<1>1. ASSUME NEW t \in App, Sleep(t) PROVE MInv'
  <2> DEFINE S == [state EXCEPT ![t] = "SLEEPING"]
             R == vibe_sched_dequeue(runq, t, BasePriority[t])
  <2>1. t \in Thread /\ t # Idle /\ OnQueue(state[t]) /\ RunIs(runq, state) /\ state \in [Thread -> MState]
    BY <1>0, <1>1, AppIs DEF Sleep, Executes, Placed
  <2>2. "SLEEPING" \in MState /\ ~OnQueue("SLEEPING")
    BY DEF MState, OnQueue
  <2>3. RunIs(R, S)
    BY <2>1, <2>2, DequeueIs
  <2>4. /\ S \in [Thread -> MState] /\ OnQueue(S[Idle])
        /\ \A u \in Thread : S[u] = "WAITING" <=> state[u] = "WAITING"
    BY <1>0, <2>1, <2>2, AppIs DEF Placed, OnQueue
  <2>5. Reschedule(R, S) /\ priority' = BasePriority /\ UNCHANGED <<mutex, wait, inlock, holds, lost>>
    BY <1>0, <1>1 DEF Sleep, Placed
  <2> HIDE DEF S, R
  <2>6. Placed' /\ \A u \in Thread : state'[u] = "WAITING" <=> S[u] = "WAITING"
    BY <1>0, <2>3, <2>4, <2>5, PlacedAgain
  <2>7. Owned' /\ WaitersListed'
    BY <1>0, <2>4, <2>5, <2>6, SameWaiters
  <2> QED BY <2>6, <2>7 DEF MInv
<1>2. ASSUME NEW t \in App, WakeUp(t) PROVE MInv'
  <2> DEFINE S == [state EXCEPT ![t] = "READY"]
             R == vibe_sched_enqueue(runq, t, BasePriority[t])
  <2>1. t \in Thread /\ t # Idle /\ ~OnQueue(state[t]) /\ RunIs(runq, state) /\ state \in [Thread -> MState]
    BY <1>0, <1>2, AppIs DEF WakeUp, Placed, OnQueue
  <2>2. RunIs(R, S)
    BY <2>1, EnqueueIs
  <2>3. /\ S \in [Thread -> MState] /\ OnQueue(S[Idle])
        /\ \A u \in Thread : S[u] = "WAITING" <=> state[u] = "WAITING"
    BY <1>0, <1>2, <2>1, AppIs DEF Placed, OnQueue, MState, WakeUp
  <2>4. Reschedule(R, S) /\ priority' = BasePriority /\ UNCHANGED <<mutex, wait, inlock, holds, lost>>
    BY <1>0, <1>2 DEF WakeUp, Placed
  <2> HIDE DEF S, R
  <2>5. Placed' /\ \A u \in Thread : state'[u] = "WAITING" <=> S[u] = "WAITING"
    BY <1>0, <2>2, <2>3, <2>4, PlacedAgain
  <2>6. Owned' /\ WaitersListed'
    BY <1>0, <2>3, <2>4, <2>5, SameWaiters
  <2> QED BY <2>5, <2>6 DEF MInv
<1>3. CASE TimeSlice
  <2> DEFINE t == g_current_thread
             S == [state EXCEPT ![t] = "READY"]
             R == vibe_sched_enqueue(vibe_sched_dequeue(runq, t, BasePriority[t]), t, BasePriority[t])
  <2>1. t \in Thread /\ OnQueue(state[t]) /\ RunIs(runq, state) /\ state \in [Thread -> MState]
    BY <1>0 DEF Placed
  <2>2. Reschedule(R, S) /\ priority' = BasePriority /\ UNCHANGED <<mutex, wait, inlock, holds, lost>>
    BY <1>0, <1>3 DEF TimeSlice, Placed
  <2>3. /\ S \in [Thread -> MState] /\ OnQueue(S[Idle])
        /\ \A u \in Thread : S[u] = "WAITING" <=> state[u] = "WAITING"
        /\ \A u \in Thread : OnQueue(state[u]) <=> OnQueue(S[u])
    BY <1>0, <2>1, AppIs DEF Placed, OnQueue, MState
  <2> HIDE DEF t
  <2>4. RunIs(R, state)
    BY <2>1, RotateIs
  <2> HIDE DEF S, R
  <2>5. RunIs(R, S)
    BY <2>3, <2>4, SameReady
  <2>6. Placed' /\ \A u \in Thread : state'[u] = "WAITING" <=> S[u] = "WAITING"
    BY <1>0, <2>3, <2>5, <2>2, PlacedAgain
  <2>7. Owned' /\ WaitersListed'
    BY <1>0, <2>3, <2>2, <2>6, SameWaiters
  <2> QED BY <2>6, <2>7 DEF MInv
<1> QED BY <1>1, <1>2, <1>3

(* Locking a mutex that is free or one's own, coming back from a lock that *)
(* blocked and undoing an inner lock leave the threads where they are.     *)
LEMMA CountsKeep ==
  ASSUME MInv, NEW t \in App,
         LockRecursive(t) \/ LockFree(t) \/ LockReturns(t) \/ UnlockNested(t)
  PROVE  MInv'
<1>0. Placed /\ Owned /\ WaitersListed
  BY DEF MInv
<1>1. UNCHANGED <<state, runq, g_current_thread, priority, wait, lost>>
  BY DEF LockRecursive, LockFree, LockReturns, UnlockNested, schedvars
<1>2. Placed'
  BY <1>0, <1>1 DEF Placed
<1>3. t \in Thread /\ t # NULL /\ OnQueue(state[g_current_thread]) /\ priority = BasePriority
  BY <1>0, AppIs DEF Placed
<1>4. /\ mutex'.owner # NULL \/ mutex'.owner = mutex.owner
      /\ Owned'
  <2>1. CASE LockRecursive(t)
    <3>1. holds[t] > 0 /\ mutex.owner = t /\ mutex.lock_count = holds[t] /\ t \notin inlock
      BY <1>0, <2>1 DEF LockRecursive, Executes, Owned
    <3>2. /\ mutex' = [owner |-> mutex.owner, lock_count |-> mutex.lock_count + 1,
                       owner_orig_prio |-> mutex.owner_orig_prio]
          /\ holds' = [holds EXCEPT ![t] = @ + 1] /\ inlock' = inlock /\ state' = state
      BY <1>0, <1>1, <2>1 DEF LockRecursive, Owned
    <3> QED BY <1>0, <1>1, <1>3, <3>1, <3>2, AppIs DEF Owned
  <2>2. CASE LockFree(t)
    <3>1. /\ mutex.owner = NULL /\ t \notin inlock /\ state[t] # "WAITING"
          /\ mutex' = [owner |-> t, lock_count |-> 1, owner_orig_prio |-> BasePriority[t]]
          /\ holds' = [holds EXCEPT ![t] = 1] /\ inlock' = inlock /\ state' = state
      BY <1>1, <1>3, <2>2 DEF LockFree, Executes, OnQueue
    <3>2. \A u \in App : holds[u] = 0
      BY <1>0, <3>1, AppIs DEF Owned
    <3> QED BY <1>0, <1>1, <1>3, <3>1, <3>2, AppIs DEF Owned
  <2>3. CASE LockReturns(t)
    <3>1. /\ t \in inlock /\ state[t] # "WAITING" /\ mutex' = mutex /\ state' = state
          /\ inlock' = inlock \ {t}
      BY <1>1, <1>3, <2>3 DEF LockReturns, OnQueue
    <3>2. mutex.owner = t /\ holds[t] = 0 /\ mutex.lock_count = 1
      BY <1>0, <3>1 DEF Owned
    <3>3. holds' = [holds EXCEPT ![t] = 1]
      BY <1>0, <1>3, <2>3, <3>2 DEF LockReturns, Owned
    <3> QED BY <1>0, <1>1, <1>3, <3>1, <3>2, <3>3, AppIs DEF Owned
  <2>4. CASE UnlockNested(t)
    <3>1. /\ holds[t] > 0 /\ mutex.owner = t /\ mutex.lock_count = holds[t] /\ t \notin inlock
          /\ mutex.lock_count > 1
      BY <1>0, <2>4 DEF UnlockNested, Executes, Owned
    <3>2. /\ mutex' = [owner |-> mutex.owner, lock_count |-> mutex.lock_count - 1,
                       owner_orig_prio |-> mutex.owner_orig_prio]
          /\ holds' = [holds EXCEPT ![t] = @ - 1] /\ inlock' = inlock /\ state' = state
      BY <1>0, <1>1, <2>4 DEF UnlockNested, Owned
    <3> QED BY <1>0, <1>1, <1>3, <3>1, <3>2, AppIs DEF Owned
  <2> QED BY <2>1, <2>2, <2>3, <2>4
<1>5. WaitersListed'
  <2>1. PICK w : WaitIs(wait, state, lost, w) /\ (Len(w) # 0 => mutex.owner # NULL)
    BY <1>0 DEF WaitersListed
  <2>2. WaitIs(wait', state', lost', w)
    BY <1>1, <2>1 DEF WaitIs
  <2> QED BY <1>0, <1>1, <1>4, <2>1, <2>2 DEF WaitersListed
<1> QED BY <1>2, <1>4, <1>5 DEF MInv

(* A lock that blocks behind an owner at least as urgent boosts nobody.    *)
LEMMA BlockKeeps ==
  ASSUME MInv, ~Inherit, NEW t \in App, LockBlocks(t)
  PROVE  MInv'
<1>0. Placed /\ Owned /\ WaitersListed
  BY DEF MInv
<1> DEFINE S == [state EXCEPT ![t] = "WAITING"]
           R == vibe_sched_dequeue(runq, t, BasePriority[t])
<1>1. /\ t \in Thread /\ t # Idle /\ OnQueue(state[t]) /\ RunIs(runq, state)
      /\ state \in [Thread -> MState] /\ t \notin inlock /\ mutex.owner \notin {NULL, t}
      /\ priority = BasePriority /\ priority[t] <= priority[mutex.owner]
      /\ mutex.owner \in Thread /\ t \notin lost
  BY <1>0, AppIs DEF LockBlocks, Executes, Placed, Owned, OnQueue
<1>2. BasePriority[t] \in Nat /\ BasePriority[mutex.owner] \in Nat
  BY <1>1, PrioIs
<1>3. Boosted(t) = BasePriority /\ BoostQueues(t) = runq
  BY <1>1, <1>2 DEF Boosted, BoostQueues
<1>4. /\ Reschedule(R, S) /\ priority' = BasePriority
      /\ BeforeHead(t) => InsertAfterNull(t)
      /\ ~BeforeHead(t) => wait' = InsertWaiter(t) /\ lost' = lost
      /\ inlock' = inlock \cup {t} /\ UNCHANGED <<mutex, holds>>
  BY <1>1, <1>3 DEF LockBlocks
<1>5. "WAITING" \in MState /\ ~OnQueue("WAITING")
  BY DEF MState, OnQueue
<1>6. RunIs(R, S)
  BY <1>1, <1>5, DequeueIs
<1>7. /\ S \in [Thread -> MState] /\ OnQueue(S[Idle])
      /\ \A u \in Thread : S[u] = "WAITING" <=> u = t \/ state[u] = "WAITING"
  BY <1>0, <1>1, <1>5, AppIs DEF Placed, OnQueue
<1>8. PICK w : WaitIs(wait, state, lost, w) /\ (Len(w) # 0 => mutex.owner # NULL)
  BY <1>0 DEF WaitersListed
<1>9. state[t] # "WAITING" /\ wait \in Heap({Waits}, Thread)
  BY <1>0, <1>1 DEF OnQueue, WaitersListed
<1> HIDE DEF S, R
<1>10. Placed' /\ \A u \in Thread : state'[u] = "WAITING" <=> S[u] = "WAITING"
  BY <1>0, <1>4, <1>6, <1>7, PlacedAgain
<1>11. WaitersListed'
  <2>1. CASE ~BeforeHead(t)
    <3>1. /\ InsertWaiter(t) \in Heap({Waits}, Thread)
          /\ \E r : WaitIs(InsertWaiter(t), S, lost, r)
      BY <1>1, <1>8, <1>9, <2>1, InsertIs DEF S
    <3>2. PICK r : WaitIs(InsertWaiter(t), S, lost, r)
      BY <3>1
    <3>3. WaitIs(wait', state', lost', r)
      BY <1>4, <1>10, <2>1, <3>2 DEF WaitIs
    <3> QED BY <1>1, <1>4, <2>1, <3>1, <3>3 DEF WaitersListed
  <2>2. CASE BeforeHead(t)
    <3>1. lost' = lost \cup {t} /\ wait' = [wait EXCEPT !.count[Waits] = (@ + 1) % UINT32, !.prev[t] = NULL]
      BY <1>4, <2>2 DEF InsertAfterNull
    <3>2. wait' \in Heap({Waits}, Thread)
      <4>1. (wait.count[Waits] + 1) % UINT32 \in 0..(UINT32 - 1)
        BY <1>9, UINT32Assumption, WaitsIs DEF Heap
      <4> QED BY <1>9, <3>1, <4>1 DEF Heap
    <3>3. \A k \in 1..Len(w) : w[k] # t
      BY <1>8, <1>9 DEF WaitIs
    <3>4. Linked(wait', Waits, w)
      <4>1. /\ wait'.head = wait.head /\ wait'.tail = wait.tail /\ wait'.next = wait.next
            /\ \A u \in Thread \ {t} : wait'.prev[u] = wait.prev[u]
        BY <1>9, <3>1 DEF Heap
      <4>2. Linked(wait, Waits, w) /\ w \in Seq(Thread)
        BY <1>8 DEF WaitIs
      <4> QED BY <3>3, <4>1, <4>2 DEF Linked
    <3>5. WaitIs(wait', state', lost', w)
      BY <1>7, <1>8, <1>9, <1>10, <3>1, <3>4 DEF WaitIs
    <3> QED BY <1>4, <1>8, <3>2, <3>5 DEF WaitersListed
  <2> QED BY <2>1, <2>2
<1>12. Owned'
  BY <1>0, <1>1, <1>4, <1>7, <1>10, AppIs DEF Owned, InsertAfterNull
<1> QED BY <1>10, <1>11, <1>12 DEF MInv

(* The last unlock frees the mutex or hands it to the first waiter, which  *)
(* no other waiter outranks.                                               *)
LEMMA UnlockKeeps ==
  ASSUME MInv, NEW t \in App, Unlock(t)
  PROVE  /\ MInv'
         /\ mutex'.owner # NULL =>
              \A u \in Thread \ lost : state[u] = "WAITING" => BasePriority[u] <= BasePriority[mutex'.owner]
<1>0. Placed /\ Owned /\ WaitersListed
  BY DEF MInv
<1> DEFINE next == wait.head[Waits]
           R == IF state[t] = "READY"
                THEN vibe_sched_enqueue(vibe_sched_dequeue(runq, t, BasePriority[t]), t, BasePriority[t])
                ELSE runq
<1>1. /\ t \in Thread /\ t # NULL /\ OnQueue(state[t]) /\ RunIs(runq, state)
      /\ state \in [Thread -> MState] /\ t \notin inlock /\ mutex.owner = t /\ mutex.lock_count = 1
      /\ priority = BasePriority /\ mutex.owner_orig_prio = BasePriority[t]
      /\ wait \in Heap({Waits}, Thread)
  BY <1>0, AppIs DEF Unlock, Executes, Placed, Owned, WaitersListed
<1>2. priority' = BasePriority
  <2>1. priority' = [BasePriority EXCEPT ![t] = BasePriority[t]]
    BY <1>1 DEF Unlock
  <2>2. BasePriority \in [Thread -> Nat]
    BY MutexAssumption
  <2> QED BY <2>1, <2>2
<1>3. RunIs(R, state)
  <2>1. RunIs(vibe_sched_enqueue(vibe_sched_dequeue(runq, t, BasePriority[t]), t, BasePriority[t]), state)
    BY <1>1, RotateIs
  <2> QED BY <1>1, <2>1
<1>4. /\ holds' = [holds EXCEPT ![t] = @ - 1] /\ inlock' = inlock /\ lost' = lost
      /\ next = NULL => /\ mutex' = [mutex EXCEPT !.owner = NULL, !.lock_count = 0]
                        /\ Reschedule(R, state) /\ wait' = wait
      /\ next # NULL => /\ mutex' = [owner |-> next, lock_count |-> 1, owner_orig_prio |-> BasePriority[next]]
                        /\ wait' = vibe_list_remove(wait, Waits, next)
                        /\ Reschedule(vibe_sched_enqueue(R, next, BasePriority[next]),
                                      [state EXCEPT ![next] = "READY"])
  BY <1>1 DEF Unlock, HandOver
<1>5. /\ holds \in [Thread -> Nat] /\ holds[t] = 1
      /\ \A u \in App \ {t} : holds[u] = 0 /\ (u \in inlock => state[u] = "WAITING")
  BY <1>0, <1>1, AppIs DEF Owned
<1>6. holds' \in [Thread -> Nat] /\ \A u \in App : holds'[u] = 0
  <2>1. holds' = [holds EXCEPT ![t] = 0]
    BY <1>1, <1>4, <1>5
  <2> QED BY <1>1, <1>5, <2>1, AppIs
<1> HIDE DEF R
<1>7. PICK w : WaitIs(wait, state, lost, w) /\ (Len(w) # 0 => mutex.owner # NULL)
  BY <1>0 DEF WaitersListed
<1>8. w \in Seq(Thread) /\ Linked(wait, Waits, w) /\ Len(w) \in Nat
  BY <1>7 DEF WaitIs
<1>9. next = NULL <=> Len(w) = 0
  <2>1. Len(w) # 0 => w[1] \in Thread /\ w[1] # NULL
    BY <1>8, AppIs, WaitsIs
  <2> QED BY <1>8, <2>1 DEF Linked
<1>10. CASE next = NULL
  <2>1. /\ mutex' = [owner |-> NULL, lock_count |-> 0, owner_orig_prio |-> mutex.owner_orig_prio]
        /\ Reschedule(R, state) /\ wait' = wait
    BY <1>0, <1>4, <1>10 DEF Owned
  <2>2. Placed' /\ \A u \in Thread : state'[u] = "WAITING" <=> state[u] = "WAITING"
    <3>1. OnQueue(state[Idle])
      BY <1>0 DEF Placed
    <3> QED BY <1>0, <1>1, <1>2, <1>3, <2>1, <3>1, PlacedAgain
  <2>3. WaitIs(wait', state', lost', w)
    BY <1>4, <1>7, <2>1, <2>2 DEF WaitIs
  <2>4. WaitersListed'
    BY <1>1, <1>9, <1>10, <2>1, <2>3 DEF WaitersListed
  <2>5. Owned'
    <3>1. \A u \in App : u \in inlock => state'[u] = "WAITING"
      BY <1>1, <1>5, <2>2, AppIs
    <3>2. \A u \in App : state'[u] = "WAITING" => u \in inlock
      BY <1>0, <2>2, AppIs DEF Owned
    <3>3. inlock \subseteq App /\ \A u \in App : u \in lost => state'[u] = "WAITING"
      BY <1>0, <2>2, AppIs DEF Owned
    <3> QED BY <1>4, <1>6, <2>1, <3>1, <3>2, <3>3, AppIs DEF Owned
  <2> QED BY <2>1, <2>2, <2>4, <2>5 DEF MInv
<1>11. CASE next # NULL
  <2> DEFINE S == [state EXCEPT ![next] = "READY"]
             Q == vibe_sched_enqueue(R, next, BasePriority[next])
  <2>1. next \in Thread /\ next = w[1]
    BY <1>8, <1>9, <1>11 DEF Linked
  <2>2. /\ S \in [Thread -> MState]
        /\ \A u \in Thread : S[u] = "WAITING" <=> state[u] = "WAITING" /\ u # w[1]
    BY <1>1, <2>1 DEF MState
  <2>3. /\ state[next] = "WAITING" /\ next \notin lost
        /\ \A u \in Thread \ lost : state[u] = "WAITING" => BasePriority[u] <= BasePriority[next]
        /\ vibe_list_remove(wait, Waits, next) \in Heap({Waits}, Thread)
        /\ WaitIs(vibe_list_remove(wait, Waits, next), S, lost, Without(w, 1))
    <3> HIDE DEF S
    <3> QED BY <1>1, <1>7, <1>9, <1>11, <2>1, <2>2, RemoveHeadIs
  <2>4. RunIs(Q, S)
    <3>1. ~OnQueue(state[next])
      BY <2>3 DEF OnQueue
    <3> QED BY <1>1, <1>3, <2>1, <3>1, EnqueueIs
  <2>5. OnQueue(S[Idle]) /\ next # Idle /\ next \in App /\ next # t
    BY <1>0, <1>1, <2>1, <2>3, AppIs DEF Placed, OnQueue, App
  <2>6. /\ mutex' = [owner |-> next, lock_count |-> 1, owner_orig_prio |-> BasePriority[next]]
        /\ wait' = vibe_list_remove(wait, Waits, next) /\ Reschedule(Q, S)
    BY <1>4, <1>11
  <2> HIDE DEF S, Q, next
  <2>7. Placed' /\ \A u \in Thread : state'[u] = "WAITING" <=> S[u] = "WAITING"
    BY <1>0, <1>2, <2>2, <2>4, <2>5, <2>6, PlacedAgain
  <2>8. WaitIs(wait', state', lost', Without(w, 1))
    BY <1>4, <2>3, <2>6, <2>7 DEF WaitIs
  <2>9. WaitersListed'
    BY <1>11, <2>3, <2>6, <2>8 DEF WaitersListed
  <2>10. Owned'
    <3>1. \A u \in App : state'[u] = "WAITING" <=> state[u] = "WAITING" /\ u # next
      BY <2>1, <2>2, <2>7, AppIs
    <3>2. next \in inlock /\ inlock \subseteq App
      BY <1>0, <2>3, <2>5 DEF Owned
    <3>3. /\ \A u \in App : state[u] = "WAITING" => u \in inlock
          /\ \A u \in App : u \in lost => state'[u] = "WAITING"
      BY <1>0, <2>3, <3>1 DEF Owned
    <3> QED BY <1>1, <1>4, <1>5, <1>6, <2>5, <2>6, <3>1, <3>2, <3>3, AppIs DEF Owned
  <2> QED BY <2>3, <2>6, <2>7, <2>9, <2>10 DEF MInv
<1> QED BY <1>10, <1>11

(* The invariant holds as long as nobody waits for a less urgent owner.    *)
LEMMA MutexKept ==
  ASSUME MInv, ~Inherit, [MutexNext]_mutexvars
  PROVE  MInv'
<1>1. CASE UNCHANGED mutexvars
  <2>1. /\ UNCHANGED <<state, runq, g_current_thread, priority, mutex, wait, inlock, holds, lost>>
        /\ Placed /\ Owned /\ WaitersListed
    BY <1>1 DEF mutexvars, schedvars, MInv
  <2>2. Placed'
    BY <2>1 DEF Placed
  <2>3. Owned' /\ WaitersListed'
    BY <2>1, SameWaiters
  <2> QED BY <2>2, <2>3 DEF MInv
<1>2. CASE MutexNext
  BY <1>2, MovesKeep, CountsKeep, BlockKeeps, UnlockKeeps DEF MutexNext
<1> QED BY <1>1, <1>2

LEMMA MutexInvariant ==
  ASSUME ~Inherit
  PROVE  MutexSpec => []MInv
<1>1. MutexInit => MInv
  BY MutexStarts
<1>2. MInv /\ [MutexNext]_mutexvars => MInv'
  BY MutexKept
<1> QED BY <1>1, <1>2, PTL DEF MutexSpec

LEMMA MutexIsSound ==
  ASSUME MInv
  PROVE  MutexSound
<1>0. Placed /\ Owned /\ WaitersListed
  BY DEF MInv
<1>1. MutexExclusion
  BY <1>0 DEF Owned, MutexExclusion
<1>2. WaitListSound
  <2>1. PICK w : WaitIs(wait, state, lost, w) /\ (Len(w) # 0 => mutex.owner # NULL)
    BY <1>0 DEF WaitersListed
  <2>2. /\ w \in Seq(Thread) /\ Linked(wait, Waits, w)
        /\ Len(w) \in Nat /\ DOMAIN w = 1..Len(w)
    BY <2>1 DEF WaitIs
  <2>3. Walk(wait, Waits, Cardinality(Thread)) = w
    BY <1>0, <2>2, WaitsIs, MutexAssumption, WalkIsList DEF WaitersListed
  <2>4. w # <<>> => mutex.owner # NULL
    BY <2>1, <2>2
  <2>5. {w[i] : i \in DOMAIN w} = {t \in Thread : state[t] = "WAITING"} \ lost
    BY <2>1, <2>2 DEF WaitIs
  <2> QED BY <2>2, <2>3, <2>4, <2>5 DEF WaitListSound
<1>3. MutexRunQueues
  <2> SUFFICES ASSUME NEW p \in Prio
               PROVE  LET w == Walk(runq.lists, p, Cardinality(Thread))
                      IN  /\ IsList(runq.lists, p, w)
                          /\ {w[i] : i \in DOMAIN w} =
                               {t \in Thread : state[t] \in {"READY", "RUNNING"} /\ priority[t] = p}
                          /\ (p \in runq.mask) = (w # <<>>)
    BY DEF MutexRunQueues
  <2> DEFINE M == MapOf(state)
  <2>1. PICK q : QRep(Prio, Thread, runq, M, q)
    BY <1>0 DEF Placed, RunIs
  <2>2. \A t \in Thread : M[t] = p <=> state[t] \in {"READY", "RUNNING"} /\ priority[t] = p
    BY <1>0, PrioIs DEF Placed, MapOf, OnQueue
  <2> HIDE DEF M
  <2>a. q[p] \in Seq(Thread) /\ IsList(runq.lists, p, q[p]) /\ (p \in runq.mask <=> Len(q[p]) > 0)
    BY <2>1 DEF QRep
  <2>b. Linked(runq.lists, p, q[p])
    BY <2>a DEF IsList
  <2>c. \A k \in 1..Len(q[p]) : M[q[p][k]] = p
    BY <2>1 DEF QRep
  <2>d. \A t \in Thread : M[t] = p => \E k \in 1..Len(q[p]) : q[p][k] = t
    BY <2>1 DEF QRep
  <2> DEFINE w == q[p]
  <2>3. w \in Seq(Thread) /\ Len(w) \in Nat /\ DOMAIN w = 1..Len(w)
    BY <2>a
  <2>4. Walk(runq.lists, p, Cardinality(Thread)) = w
    <3> HIDE DEF w
    <3>1. runq.lists \in Heap(Prio, Thread)
      BY <1>0 DEF Placed, RunIs, Queues
    <3>2. Linked(runq.lists, p, w)
      BY <2>a, <2>b DEF w
    <3>3. IsFiniteSet(Thread) /\ NULL \notin Thread
      BY MutexAssumption
    <3> QED BY <2>3, <3>1, <3>2, <3>3, WalkIsList
  <2>5. {w[i] : i \in DOMAIN w} = {t \in Thread : M[t] = p}
    BY <2>c, <2>d, <2>3
  <2>6. (p \in runq.mask) = (w # <<>>)
    BY <2>a, <2>3
  <2> HIDE DEF w
  <2> QED BY <2>2, <2>a, <2>4, <2>5, <2>6 DEF w
<1> QED BY <1>1, <1>2, <1>3 DEF MutexSound

(* While nobody waits for a less urgent owner, vibe_mutex_lock and         *)
(* vibe_mutex_unlock grant the mutex to one thread at a time, keep every   *)
(* waiter on the wait list but those that came to wait before a less       *)
(* urgent head, and keep every ready thread in the list of its priority:   *)
(* for any number of threads and any depth of recursion.                   *)
THEOREM MutexStaysSound ==
  ASSUME ~Inherit
  PROVE  MutexSpec => []MutexSound
<1>1. MutexSpec => []MInv
  BY MutexInvariant
<1>2. MInv => MutexSound
  BY MutexIsSound
<1> QED BY <1>1, <1>2, PTL

(* vibe_mutex_unlock hands the mutex to the most urgent waiter of its wait *)
(* list, which vibe_mutex_lock keeps in order whoever comes to wait.  That *)
(* is not the most urgent waiter of all: those in lost are not on it, and  *)
(* WakesHighest, what mutex.h promises, is false.                          *)
THEOREM UrgentWaiterServed ==
  ASSUME ~Inherit
  PROVE  MutexSpec => HandsToHighest
<1> DEFINE Chosen ==
             \A t \in App : mutex.owner # t /\ mutex'.owner = t /\ state[t] = "WAITING"
               => \A u \in App \ lost : state[u] = "WAITING" => priority[u] <= priority[t]
<1>1. MutexSpec => []MInv
  BY MutexInvariant
<1>2. MInv /\ [MutexNext]_mutexvars => [Chosen]_mutexvars
  <2> SUFFICES ASSUME MInv, MutexNext PROVE Chosen
    OBVIOUS
  <2> SUFFICES ASSUME NEW t \in App, mutex.owner # t, mutex'.owner = t, state[t] = "WAITING",
                      NEW u \in App \ lost, state[u] = "WAITING"
               PROVE  priority[u] <= priority[t]
    OBVIOUS
  <2>1. Placed /\ Owned
    BY DEF MInv
  <2>2. priority = BasePriority /\ u \in Thread /\ t # NULL /\ OnQueue(state[g_current_thread])
    BY <2>1, AppIs DEF Placed
  <2>3. ASSUME NEW x \in App, Unlock(x) PROVE priority[u] <= priority[t]
    BY <2>2, <2>3, UnlockKeeps
  <2>4. ASSUME NEW x \in App, LockFree(x) PROVE FALSE
    <3>1. mutex'.owner = g_current_thread
      BY <2>4 DEF LockFree, Executes
    <3> QED BY <2>2, <3>1 DEF OnQueue
  <2>5. ASSUME NEW x \in App, LockRecursive(x) \/ UnlockNested(x) PROVE FALSE
    <3>1. mutex'.owner = mutex.owner
      BY <2>1, <2>5 DEF LockRecursive, UnlockNested, Owned
    <3> QED BY <3>1
  <2>6. mutex' # mutex
    OBVIOUS
  <2>7. ASSUME NEW x \in App, Sleep(x) \/ WakeUp(x) \/ LockBlocks(x) \/ LockReturns(x) PROVE FALSE
    BY <2>6, <2>7 DEF Sleep, WakeUp, LockBlocks, LockReturns
  <2>8. ~TimeSlice
    BY <2>6 DEF TimeSlice
  <2> QED BY <2>3, <2>4, <2>5, <2>7, <2>8 DEF MutexNext
<1> QED BY <1>1, <1>2, PTL DEF MutexSpec, HandsToHighest

-----------------------------------------------------------------------------
(* Sections with spinlocks, for any number of locks and interrupt levels   *)
(* and any nesting                                                         *)

Section == [lock : Lock \cup {NoLock}, key : BOOLEAN]
Context == [level : Nat, at : {"run", "spin", "restore"}, held : Seq(Section)]

SpinTypeOK ==
  /\ primask \in BOOLEAN /\ flag \in [Lock -> BOOLEAN]
  /\ ctx \in Seq(Context) /\ ctx # <<>>
  /\ pending \subseteq IrqLevel

(* What is true of the locks and keys of the context on top, h and at.     *)
(* Only the outermost key restores an open mask.                           *)
KeysNest(h) == \A i \in 1..Len(h) : h[i].key <=> i > 1

LocksOnce(h) ==
  \A i, j \in 1..Len(h) : h[i].lock = h[j].lock /\ h[i].lock \in Lock => i = j

(* The section that is being entered or left, the last one, does not have  *)
(* its flag set.                                                           *)
Inside(h, at) == IF at = "run" THEN 1..Len(h) ELSE 1..(Len(h) - 1)

FlagsExact(f, h, at) == \A l \in Lock : f[l] <=> \E i \in Inside(h, at) : h[i].lock = l

TopSound(f, mask, h, at) ==
  /\ KeysNest(h) /\ LocksOnce(h) /\ FlagsExact(f, h, at)
  /\ mask <=> h # <<>>
  /\ h = <<>> => at = "run"
  /\ at = "spin" => h[Len(h)].lock \in Lock

(* A context is interrupted only where it is inside of nothing.            *)
BelowOpen ==
  \A c \in 1..(Len(ctx) - 1) : ctx[c].held = <<>> /\ ctx[c].at = "run"

SpinIInv ==
  /\ SpinTypeOK /\ BelowOpen
  /\ TopSound(flag, primask, Top.held, Top.at)

(* The context that has the CPU is the thread or the handler entered last, *)
(* and what it holds is a sequence of sections, the innermost last.        *)
LEMMA TopTyped ==
  ASSUME SpinTypeOK
  PROVE  /\ Len(ctx) \in Nat \ {0} /\ DOMAIN ctx = 1..Len(ctx)
         /\ Top \in Context /\ Top.held \in Seq(Section) /\ Len(Top.held) \in Nat
         /\ DOMAIN Top.held = 1..Len(Top.held)
<1>1. ctx \in Seq(Context) /\ ctx # <<>>
  BY DEF SpinTypeOK
<1>2. Len(ctx) \in Nat \ {0} /\ DOMAIN ctx = 1..Len(ctx)
  BY <1>1
<1>3. Top \in Context
  BY <1>1, <1>2 DEF Top, Depth
<1>4. Top.held \in Seq(Section)
  BY <1>3 DEF Context
<1>5. Len(Top.held) \in Nat /\ DOMAIN Top.held = 1..Len(Top.held)
  BY <1>4
<1> QED
  BY <1>2, <1>3, <1>4, <1>5

(* A step that replaces at and held of the context on top.                 *)
LEMMA TopReplaced ==
  ASSUME SpinTypeOK, NEW at \in {"run", "spin", "restore"}, NEW h \in Seq(Section),
         ctx' = [ctx EXCEPT ![Depth].at = at, ![Depth].held = h]
  PROVE  /\ ctx' \in Seq(Context) /\ ctx' # <<>> /\ Len(ctx') = Len(ctx)
         /\ Top.held' = h /\ Top.at' = at
         /\ \A c \in 1..(Len(ctx) - 1) : ctx'[c] = ctx[c]
<1> DEFINE n == [ctx[Depth] EXCEPT !.at = at, !.held = h]
<1>1. Depth \in 1..Len(ctx) /\ ctx[Depth] \in Context
  BY TopTyped DEF Depth, Top
<1>2. n \in Context /\ n.at = at /\ n.held = h
  BY <1>1 DEF Context
<1>3. ctx' = [ctx EXCEPT ![Depth] = n]
  BY <1>1 DEF SpinTypeOK, Context
<1>4. /\ Len(ctx') = Len(ctx) /\ ctx'[Depth] = n /\ ctx' \in Seq(Context)
      /\ \A c \in 1..(Len(ctx) - 1) : ctx'[c] = ctx[c]
  <2>1. ctx \in Seq(Context) /\ Len(ctx) \in Nat \ {0} /\ DOMAIN ctx = 1..Len(ctx)
    BY TopTyped DEF SpinTypeOK
  <2> HIDE DEF n
  <2>2. /\ [ctx EXCEPT ![Depth] = n] \in Seq(Context)
        /\ Len([ctx EXCEPT ![Depth] = n]) = Len(ctx)
        /\ \A j \in 1..Len(ctx) :
             [ctx EXCEPT ![Depth] = n][j] = IF j = Depth THEN n ELSE ctx[j]
    BY <1>1, <1>2, <2>1, ExceptSeq, Zenon
  <2>3. /\ ctx' \in Seq(Context) /\ Len(ctx') = Len(ctx) /\ ctx'[Depth] = n
        /\ \A j \in 1..Len(ctx) : j # Depth => ctx'[j] = ctx[j]
    BY <1>1, <1>3, <2>2, Zenon
  <2>4. \A c \in 1..(Len(ctx) - 1) : c \in 1..Len(ctx) /\ c # Depth
    BY <2>1 DEF Depth
  <2> QED
    BY <2>3, <2>4, Zenon
<1>5. Top' = n
  BY <1>4 DEF Top, Depth
<1>6. ctx' # <<>>
  BY <1>1, <1>4
<1> QED
  BY <1>2, <1>4, <1>5, <1>6

(* A step that replaces at alone keeps held.                               *)
LEMMA SameHeld ==
  ASSUME SpinTypeOK, NEW at \in {"run", "spin", "restore"},
         ctx' = [ctx EXCEPT ![Depth].at = at]
  PROVE  ctx' = [ctx EXCEPT ![Depth].at = at, ![Depth].held = Top.held]
<1>1. ctx[Depth] \in Context
  BY TopTyped DEF Top
<1>2. [ctx[Depth] EXCEPT !.at = at] = [ctx[Depth] EXCEPT !.at = at, !.held = ctx[Depth].held]
  BY <1>1 DEF Context
<1> QED
  BY <1>2 DEF Top

(* The thread starts outside of every section.                             *)
LEMMA SpinStarts == SpinInit => SpinIInv
<1> SUFFICES ASSUME SpinInit PROVE SpinIInv
  OBVIOUS
<1> DEFINE c == [level |-> 0, at |-> "run", held |-> <<>>]
<1>1. c \in Context /\ ctx = <<c>> /\ Top = c
  BY DEF SpinInit, Context, Top, Depth
<1>2. Top.held = <<>> /\ Top.at = "run"
  BY <1>1
<1>3. SpinTypeOK /\ BelowOpen
  <2>1. ctx \in Seq(Context) /\ ctx # <<>> /\ Len(ctx) = 1
    <3> HIDE DEF c
    <3> QED BY <1>1
  <2>2. flag \in [Lock -> BOOLEAN]
    BY Zenon DEF SpinInit
  <2>3. BelowOpen
    BY <2>1 DEF BelowOpen
  <2>4. primask \in BOOLEAN /\ pending \subseteq IrqLevel
    BY Zenon DEF SpinInit
  <2> QED
    BY <2>1, <2>2, <2>3, <2>4, Zenon DEF SpinTypeOK
<1>4. FlagsExact(flag, <<>>, "run")
  <2>1. \A l \in Lock : ~flag[l]
    BY Zenon DEF SpinInit
  <2>2. Inside(<<>>, "run") = {}
    BY DEF Inside
  <2> QED
    BY <2>1, <2>2 DEF FlagsExact
<1>5. TopSound(flag, primask, <<>>, "run")
  BY <1>4 DEF TopSound, KeysNest, LocksOnce, SpinInit
<1> QED
  BY <1>2, <1>3, <1>5 DEF SpinIInv

(* Entering a section: from here on interrupts are masked; its own flag is *)
(* not set yet.                                                            *)
LEMMA LockKeeps ==
  ASSUME SpinIInv, NEW l \in Lock \cup {NoLock}, arch_irq_lock(l)
  PROVE  SpinIInv'
<1> DEFINE e == [lock |-> l, key |-> primask]
           h == Top.held
           g == Append(h, e)
           at == IF l = NoLock THEN "run" ELSE "spin"
<1>1. /\ SpinTypeOK /\ BelowOpen /\ TopSound(flag, primask, h, Top.at)
      /\ Top.at = "run" /\ (l = NoLock \/ l \notin HeldBy(Top))
      /\ ctx' = [ctx EXCEPT ![Depth].at = at, ![Depth].held = Append(@, e)]
      /\ primask' = TRUE /\ UNCHANGED <<flag, pending>>
  BY DEF SpinIInv, arch_irq_lock
<1>2. /\ h \in Seq(Section) /\ Len(h) \in Nat /\ e \in Section
      /\ e.lock = l /\ e.key = primask
  BY <1>1, TopTyped DEF SpinTypeOK, Section
<1>3. /\ g \in Seq(Section) /\ Len(g) = Len(h) + 1 /\ g # <<>>
      /\ g[Len(h) + 1] = e /\ \A i \in 1..Len(h) : g[i] = h[i]
  <2> HIDE DEF e, h
  <2> QED BY <1>2
<1>4. ctx' = [ctx EXCEPT ![Depth].at = at, ![Depth].held = g]
  BY <1>1, SMTT(30) DEF Top
<1>5. /\ ctx' \in Seq(Context) /\ ctx' # <<>> /\ Len(ctx') = Len(ctx)
      /\ Top.held' = g /\ Top.at' = at
      /\ \A c \in 1..(Len(ctx) - 1) : ctx'[c] = ctx[c]
  BY <1>1, <1>3, <1>4, TopReplaced
<1>6. SpinTypeOK' /\ BelowOpen'
  BY <1>1, <1>5, Zenon DEF SpinTypeOK, BelowOpen
<1> HIDE DEF e, g
<1>7. KeysNest(g)
  <2>1. primask <=> Len(h) > 0
    BY <1>1, <1>2 DEF TopSound
  <2>2. ASSUME NEW i \in 1..Len(g) PROVE g[i].key <=> i > 1
    <3>1. CASE i = Len(h) + 1
      BY <1>2, <1>3, <2>1, <3>1
    <3>2. CASE i \in 1..Len(h)
      BY <1>1, <1>3, <3>2 DEF TopSound, KeysNest
    <3> QED
      BY <1>2, <1>3, <3>1, <3>2
  <2> QED
    BY <2>2 DEF KeysNest
<1>8. l \in Lock => \A i \in 1..Len(h) : h[i].lock # l
  BY <1>1, <1>2, SpinAssumption DEF HeldBy
<1>9. LocksOnce(g)
  <2> SUFFICES ASSUME NEW i \in 1..Len(g), NEW j \in 1..Len(g),
                      g[i].lock = g[j].lock, g[i].lock \in Lock
               PROVE  i = j
    BY DEF LocksOnce
  <2>1. i \in 1..Len(h) \/ i = Len(h) + 1
    BY <1>2, <1>3
  <2>2. j \in 1..Len(h) \/ j = Len(h) + 1
    BY <1>2, <1>3
  <2>3. CASE i \in 1..Len(h) /\ j \in 1..Len(h)
    BY <1>1, <1>3, <2>3 DEF TopSound, LocksOnce
  <2> QED
    BY <1>2, <1>3, <1>8, <2>1, <2>2, <2>3
<1>10. FlagsExact(flag', g, at)
  <2>1. ASSUME NEW m \in Lock
        PROVE  (\E i \in Inside(g, at) : g[i].lock = m) <=> (\E i \in Inside(h, "run") : h[i].lock = m)
    <3>1. CASE l = NoLock
      <4>1. Inside(g, at) = 1..(Len(h) + 1) /\ Inside(h, "run") = 1..Len(h)
        BY <1>3, <3>1 DEF Inside
      <4>2. g[Len(h) + 1].lock # m /\ \A i \in 1..Len(h) : g[i] = h[i]
        BY <1>2, <1>3, <3>1, SpinAssumption
      <4>3. \A i : i \in 1..(Len(h) + 1) <=> i \in 1..Len(h) \/ i = Len(h) + 1
        BY <1>2
      <4> QED
        BY <4>1, <4>2, <4>3, Zenon
    <3>2. CASE l # NoLock
      <4>1. Inside(g, at) = 1..Len(h) /\ Inside(h, "run") = 1..Len(h)
        BY <1>2, <1>3, <3>2 DEF Inside
      <4> QED
        BY <1>3, <4>1
    <3> QED
      BY <3>1, <3>2
  <2>2. FlagsExact(flag, h, "run")
    BY <1>1 DEF TopSound
  <2>3. flag' = flag
    BY <1>1
  <2> QED
    BY <2>1, <2>2, <2>3, Zenon DEF FlagsExact
<1>11. at = "spin" => g[Len(g)].lock \in Lock
  BY <1>2, <1>3
<1>12. TopSound(flag', primask', g, at)
  BY <1>1, <1>3, <1>7, <1>9, <1>10, <1>11 DEF TopSound
<1> QED
  BY <1>5, <1>6, <1>12 DEF SpinIInv

(* The flag is found clear and set: the context is inside.                 *)
LEMMA AcquireKeeps ==
  ASSUME SpinIInv, vibe_spinlock_lock
  PROVE  SpinIInv'
<1> DEFINE h == Top.held
           l == h[Len(h)].lock
<1>1. /\ SpinTypeOK /\ BelowOpen /\ TopSound(flag, primask, h, "spin")
      /\ flag' = [flag EXCEPT ![l] = TRUE] /\ ctx' = [ctx EXCEPT ![Depth].at = "run"]
      /\ UNCHANGED <<primask, pending>>
  BY DEF SpinIInv, vibe_spinlock_lock, Innermost
<1>2. h \in Seq(Section) /\ Len(h) \in Nat /\ h # <<>> /\ l \in Lock
  BY <1>1, TopTyped DEF TopSound
<1>3. ctx' = [ctx EXCEPT ![Depth].at = "run", ![Depth].held = h]
  BY <1>1, SameHeld
<1>4. /\ ctx' \in Seq(Context) /\ ctx' # <<>> /\ Len(ctx') = Len(ctx)
      /\ Top.held' = h /\ Top.at' = "run"
      /\ \A c \in 1..(Len(ctx) - 1) : ctx'[c] = ctx[c]
  BY <1>1, <1>2, <1>3, TopReplaced
<1> HIDE DEF h
<1>5. flag' \in [Lock -> BOOLEAN] /\ \A m \in Lock : flag'[m] <=> flag[m] \/ m = l
  BY <1>1, <1>2, Zenon DEF SpinTypeOK
<1>6. SpinTypeOK' /\ BelowOpen'
  BY <1>1, <1>4, <1>5, Zenon DEF SpinTypeOK, BelowOpen
<1>7. FlagsExact(flag', h, "run")
  <2>1. Inside(h, "spin") = 1..(Len(h) - 1) /\ Inside(h, "run") = 1..Len(h)
    BY DEF Inside
  <2>2. Len(h) \in 1..Len(h) /\ \A i \in 1..Len(h) : i \in 1..(Len(h) - 1) \/ i = Len(h)
    BY <1>2
  <2>3. \A i \in 1..(Len(h) - 1) : i \in 1..Len(h)
    BY <1>2
  <2>4. \A m \in Lock : flag[m] <=> \E i \in 1..(Len(h) - 1) : h[i].lock = m
    BY <1>1, <2>1, Zenon DEF TopSound, FlagsExact
  <2>5. \A m \in Lock : flag'[m] <=> \E i \in 1..Len(h) : h[i].lock = m
    BY <1>5, <2>2, <2>3, <2>4, Zenon
  <2> QED
    BY <2>1, <2>5, Zenon DEF FlagsExact
<1>8. TopSound(flag', primask', h, "run")
  BY <1>1, <1>2, <1>7 DEF TopSound
<1> QED
  BY <1>4, <1>6, <1>8 DEF SpinIInv

(* Leaving a section: the flag first.                                      *)
LEMMA ReleaseKeeps ==
  ASSUME SpinIInv, vibe_spinlock_unlock
  PROVE  SpinIInv'
<1> DEFINE h == Top.held
           l == h[Len(h)].lock
<1>1. /\ SpinTypeOK /\ BelowOpen /\ TopSound(flag, primask, h, "run") /\ h # <<>>
      /\ flag' = (IF l = NoLock THEN flag ELSE [flag EXCEPT ![l] = FALSE])
      /\ ctx' = [ctx EXCEPT ![Depth].at = "restore"]
      /\ UNCHANGED <<primask, pending>>
  BY DEF SpinIInv, vibe_spinlock_unlock, Innermost
<1>2. h \in Seq(Section) /\ Len(h) \in Nat \ {0} /\ h[Len(h)] \in Section
  BY <1>1, TopTyped
<1>l. l \in Lock \cup {NoLock}
  BY <1>2 DEF Section
<1>3. ctx' = [ctx EXCEPT ![Depth].at = "restore", ![Depth].held = h]
  BY <1>1, SameHeld
<1>4. /\ ctx' \in Seq(Context) /\ ctx' # <<>> /\ Len(ctx') = Len(ctx)
      /\ Top.held' = h /\ Top.at' = "restore"
      /\ \A c \in 1..(Len(ctx) - 1) : ctx'[c] = ctx[c]
  BY <1>1, <1>2, <1>3, TopReplaced
<1> HIDE DEF h
<1>5. flag' \in [Lock -> BOOLEAN] /\ \A m \in Lock : flag'[m] <=> flag[m] /\ m # l
  <2>1. flag \in [Lock -> BOOLEAN]
    BY <1>1 DEF SpinTypeOK
  <2>2. CASE l = NoLock
    BY <1>1, <2>1, <2>2, SpinAssumption, Zenon
  <2>3. CASE l # NoLock
    BY <1>1, <1>l, <2>1, <2>3, Zenon
  <2> QED
    BY <2>2, <2>3
<1>6. SpinTypeOK' /\ BelowOpen'
  BY <1>1, <1>4, <1>5, Zenon DEF SpinTypeOK, BelowOpen
<1>7. FlagsExact(flag', h, "restore")
  <2>1. Inside(h, "restore") = 1..(Len(h) - 1) /\ Inside(h, "run") = 1..Len(h)
    BY DEF Inside
  <2>2. \A i \in 1..Len(h) : i \in 1..(Len(h) - 1) \/ i = Len(h)
    BY <1>2
  <2>3. \A i \in 1..(Len(h) - 1) : i \in 1..Len(h) /\ (h[i].lock \in Lock => h[i].lock # l)
    BY <1>1, <1>2 DEF TopSound, LocksOnce
  <2>4. \A m \in Lock : flag[m] <=> \E i \in 1..Len(h) : h[i].lock = m
    BY <1>1, <2>1, Zenon DEF TopSound, FlagsExact
  <2>5. \A m \in Lock : flag'[m] <=> \E i \in 1..(Len(h) - 1) : h[i].lock = m
    BY <1>5, <2>2, <2>3, <2>4, Zenon
  <2> QED
    BY <2>1, <2>5, Zenon DEF FlagsExact
<1>8. TopSound(flag', primask', h, "restore")
  BY <1>1, <1>7 DEF TopSound
<1> QED
  BY <1>4, <1>6, <1>8 DEF SpinIInv

(* Then the mask: only the key of the outermost section opens it.          *)
LEMMA RestoreKeeps ==
  ASSUME SpinIInv, arch_irq_unlock
  PROVE  SpinIInv'
<1> DEFINE h == Top.held
           g == SubSeq(h, 1, Len(h) - 1)
<1>1. /\ SpinTypeOK /\ BelowOpen /\ TopSound(flag, primask, h, "restore")
      /\ primask' = h[Len(h)].key
      /\ ctx' = [ctx EXCEPT ![Depth].at = "run", ![Depth].held = SubSeq(@, 1, Len(@) - 1)]
      /\ UNCHANGED <<flag, pending>>
  BY DEF SpinIInv, arch_irq_unlock, Innermost
<1>2. h \in Seq(Section) /\ Len(h) \in Nat \ {0} /\ h[Len(h)] \in Section
  BY <1>1, TopTyped DEF TopSound
<1>3. /\ g \in Seq(Section) /\ Len(g) = Len(h) - 1 /\ \A i \in 1..Len(g) : g[i] = h[i]
  <2> HIDE DEF h
  <2>1. Len(h) - 1 \in Int /\ \A i \in 1..(Len(h) - 1) : h[i] \in Section
    BY <1>2
  <2>2. /\ g \in Seq(Section)
        /\ Len(g) = IF 1 <= Len(h) - 1 THEN (Len(h) - 1) - 1 + 1 ELSE 0
        /\ \A i \in 1..((Len(h) - 1) - 1 + 1) : g[i] = h[1 + i - 1]
    BY <2>1, SubSeqProperties
  <2> HIDE DEF g
  <2>3. Len(g) = Len(h) - 1
    <3>1. \A n \in Nat \ {0} : (IF 1 <= n - 1 THEN (n - 1) - 1 + 1 ELSE 0) = n - 1
      OBVIOUS
    <3> QED
      BY <1>2, <2>2, <3>1, Zenon
  <2>4. \A i \in 1..Len(g) : i \in 1..((Len(h) - 1) - 1 + 1) /\ 1 + i - 1 = i
    BY <1>2, <2>3
  <2>5. \A i \in 1..Len(g) : g[i] = h[i]
    BY <2>2, <2>4
  <2> QED BY <2>2, <2>3, <2>5
<1>4. ctx' = [ctx EXCEPT ![Depth].at = "run", ![Depth].held = g]
  BY <1>1 DEF Top
<1>5. /\ ctx' \in Seq(Context) /\ ctx' # <<>> /\ Len(ctx') = Len(ctx)
      /\ Top.held' = g /\ Top.at' = "run"
      /\ \A c \in 1..(Len(ctx) - 1) : ctx'[c] = ctx[c]
  BY <1>1, <1>3, <1>4, TopReplaced
<1> HIDE DEF h, g
<1>6. primask' \in BOOLEAN
  BY <1>1, <1>2 DEF Section
<1>7. SpinTypeOK' /\ BelowOpen'
  BY <1>1, <1>5, <1>6, Zenon DEF SpinTypeOK, BelowOpen
<1>8. primask' <=> g # <<>>
  <2>1. h[Len(h)].key <=> Len(h) > 1
    BY <1>1, <1>2 DEF TopSound, KeysNest
  <2>2. g # <<>> <=> Len(h) > 1
    BY <1>2, <1>3
  <2> QED
    BY <1>1, <2>1, <2>2
<1>9. KeysNest(g) /\ LocksOnce(g)
  BY <1>1, <1>2, <1>3 DEF TopSound, KeysNest, LocksOnce
<1>10. FlagsExact(flag', g, "run")
  <2>1. Inside(h, "restore") = 1..(Len(h) - 1) /\ Inside(g, "run") = 1..(Len(h) - 1)
    BY <1>3 DEF Inside
  <2>2. \A i \in 1..(Len(h) - 1) : g[i] = h[i]
    BY <1>3
  <2>3. \A m \in Lock : flag[m] <=> \E i \in 1..(Len(h) - 1) : h[i].lock = m
    BY <1>1, <2>1, Zenon DEF TopSound, FlagsExact
  <2>4. \A m \in Lock : flag'[m] <=> \E i \in 1..(Len(h) - 1) : g[i].lock = m
    BY <1>1, <2>2, <2>3, Zenon
  <2> QED
    BY <2>1, <2>4, Zenon DEF FlagsExact
<1>11. TopSound(flag', primask', g, "run")
  BY <1>8, <1>9, <1>10 DEF TopSound
<1> QED
  BY <1>5, <1>7, <1>11 DEF SpinIInv

(* A handler is entered from outside of every section, and left likewise.  *)
LEMMA EnterKeeps ==
  ASSUME SpinIInv, EnterHandler
  PROVE  SpinIInv'
<1>1. PICK p \in pending :
        /\ ctx' = Append(ctx, [level |-> p, at |-> "run", held |-> <<>>])
        /\ pending' = pending \ {p}
  BY DEF EnterHandler
<1> DEFINE n == [level |-> p, at |-> "run", held |-> <<>>]
<1>2. /\ SpinTypeOK /\ BelowOpen /\ TopSound(flag, primask, Top.held, Top.at)
      /\ ~primask /\ UNCHANGED <<primask, flag>>
  BY DEF SpinIInv, EnterHandler
<1>3. Top.held = <<>> /\ Top.at = "run"
  BY <1>2 DEF TopSound
<1>4. n \in Context /\ n.held = <<>> /\ n.at = "run"
  <2>1. pending \subseteq IrqLevel
    BY <1>2 DEF SpinTypeOK
  <2>2. p \in Nat
    BY <2>1, SpinAssumption
  <2> QED
    BY <2>2 DEF Context
<1> HIDE DEF n
<1>5. /\ ctx \in Seq(Context) /\ Len(ctx) \in Nat \ {0} /\ ctx' = Append(ctx, n)
  BY <1>1, <1>2, TopTyped DEF SpinTypeOK, n
<1>6. /\ ctx' \in Seq(Context) /\ ctx' # <<>> /\ Len(ctx') = Len(ctx) + 1
      /\ ctx'[Len(ctx) + 1] = n /\ \A c \in 1..Len(ctx) : ctx'[c] = ctx[c]
  BY <1>4, <1>5
<1>7. Top.held' = <<>> /\ Top.at' = "run"
  BY <1>4, <1>6 DEF Top, Depth
<1>8. \A c \in 1..Len(ctx) : ctx[c].held = <<>> /\ ctx[c].at = "run"
  <2>1. \A c \in 1..Len(ctx) : c \in 1..(Len(ctx) - 1) \/ c = Len(ctx)
    BY <1>5
  <2> QED
    BY <1>2, <1>3, <2>1, Zenon DEF BelowOpen, Top, Depth
<1>9. BelowOpen'
  <2>1. (Len(ctx) + 1) - 1 = Len(ctx)
    BY <1>5
  <2> QED
    BY <1>6, <1>8, <2>1, Zenon DEF BelowOpen
<1>10. SpinTypeOK'
  BY <1>1, <1>2, <1>6, Zenon DEF SpinTypeOK
<1>11. TopSound(flag', primask', <<>>, "run")
  BY <1>2, <1>3, Zenon
<1> QED
  BY <1>7, <1>9, <1>10, <1>11 DEF SpinIInv

(* A handler returns outside of every section, so what it interrupted      *)
(* finds the locks and the mask as they were.                              *)
LEMMA LeaveKeeps ==
  ASSUME SpinIInv, ReturnFromHandler
  PROVE  SpinIInv'
<1> DEFINE d == Len(ctx) - 1
<1>1. /\ SpinTypeOK /\ BelowOpen /\ TopSound(flag, primask, <<>>, "run")
      /\ Len(ctx) > 1 /\ ctx' = SubSeq(ctx, 1, d) /\ UNCHANGED <<primask, flag, pending>>
  BY DEF SpinIInv, ReturnFromHandler, Depth
<1>2. ctx \in Seq(Context) /\ d \in Nat \ {0} /\ Len(ctx) = d + 1
  BY <1>1, TopTyped DEF SpinTypeOK
<1> HIDE DEF d
<1>3. \A i \in 1..d : ctx[i] \in Context
  BY <1>2
<1>4. /\ ctx' \in Seq(Context) /\ Len(ctx') = (IF 1 <= d THEN d - 1 + 1 ELSE 0)
      /\ \A i \in 1..(d - 1 + 1) : ctx'[i] = ctx[1 + i - 1]
  BY <1>1, <1>2, <1>3, SubSeqProperties
<1>5. Len(ctx') = d /\ ctx' # <<>> /\ \A i \in 1..d : ctx'[i] = ctx[i]
  BY <1>2, <1>4
<1>6. \A c \in 1..d : ctx'[c].held = <<>> /\ ctx'[c].at = "run"
  <2>1. Len(ctx) - 1 = d
    BY <1>2
  <2> QED
    BY <1>1, <1>5, <2>1, Zenon DEF BelowOpen
<1>7. Top.held' = <<>> /\ Top.at' = "run"
  BY <1>2, <1>5, <1>6 DEF Top, Depth
<1>8. BelowOpen'
  <2>1. \A c \in 1..(d - 1) : c \in 1..d
    BY <1>2
  <2> QED
    BY <1>5, <1>6, <2>1, Zenon DEF BelowOpen
<1>9. SpinTypeOK'
  BY <1>1, <1>4, <1>5, Zenon DEF SpinTypeOK
<1>10. TopSound(flag', primask', <<>>, "run")
  BY <1>1, Zenon
<1> QED
  BY <1>7, <1>8, <1>9, <1>10 DEF SpinIInv

(* An interrupt that is raised waits and changes nothing else.             *)
LEMMA RaiseKeeps ==
  ASSUME SpinIInv, (\E p \in IrqLevel : Raise(p)) \/ UNCHANGED spinvars
  PROVE  SpinIInv'
<1>1. UNCHANGED <<primask, flag, ctx>> /\ pending' \subseteq IrqLevel
  BY DEF Raise, spinvars, SpinIInv, SpinTypeOK
<1>2. Top' = Top
  BY <1>1 DEF Top, Depth
<1>3. SpinTypeOK' /\ BelowOpen'
  BY <1>1, Zenon DEF SpinIInv, SpinTypeOK, BelowOpen
<1>4. TopSound(flag, primask, Top.held, Top.at)'
  BY <1>1, <1>2, Zenon DEF SpinIInv
<1> QED
  BY <1>3, <1>4 DEF SpinIInv

(* Both properties follow: the flags say who is inside, and whoever is     *)
(* inside of something is on top.                                          *)
LEMMA SpinSuffices == SpinIInv => NeverSpins /\ SectionsMasked
<1> SUFFICES ASSUME SpinIInv PROVE NeverSpins /\ SectionsMasked
  OBVIOUS
<1> DEFINE h == Top.held
<1>1. SpinTypeOK /\ BelowOpen /\ TopSound(flag, primask, h, Top.at)
  BY DEF SpinIInv
<1>2. /\ h \in Seq(Section) /\ Len(h) \in Nat /\ DOMAIN h = 1..Len(h)
      /\ Len(ctx) \in Nat \ {0} /\ Top.at \in {"run", "spin", "restore"}
  BY <1>1, TopTyped DEF Context
<1>3. ASSUME NEW l \in Lock
      PROVE  flag[l] <=> /\ \E i \in 1..Len(h) : h[i].lock = l
                         /\ ~(Top.at \in {"spin", "restore"} /\ h[Len(h)].lock = l)
  <2>1. flag[l] <=> \E i \in Inside(h, Top.at) : h[i].lock = l
    BY <1>1, Zenon DEF TopSound, FlagsExact
  <2>2. CASE Top.at = "run"
    <3>1. Inside(h, Top.at) = 1..Len(h)
      BY <2>2 DEF Inside
    <3> QED
      BY <2>1, <2>2, <3>1
  <2>3. CASE Top.at # "run"
    <3>1. Inside(h, Top.at) = 1..(Len(h) - 1) /\ h # <<>> /\ Len(h) > 0
      BY <1>1, <1>2, <2>3 DEF Inside, TopSound
    <3>2. \A i \in 1..(Len(h) - 1) : i \in 1..Len(h) /\ (h[i].lock = l => h[Len(h)].lock # l)
      BY <1>1, <1>2, <3>1 DEF TopSound, LocksOnce
    <3>3. \A i \in 1..Len(h) : i \in 1..(Len(h) - 1) \/ i = Len(h)
      BY <1>2
    <3>4. Top.at \in {"spin", "restore"}
      BY <1>2, <2>3
    <3> QED
      BY <2>1, <3>1, <3>2, <3>3, <3>4, Zenon
  <2> QED
    BY <2>2, <2>3
<1>4. NeverSpins
  <2> SUFFICES ASSUME Top.at = "spin" PROVE ~flag[h[Len(h)].lock]
    BY DEF NeverSpins, Innermost
  <2>1. h[Len(h)].lock \in Lock
    BY <1>1 DEF TopSound
  <2> QED
    BY <1>3, <2>1, Zenon
<1>5. \A c \in 1..(Len(ctx) - 1) : ctx[c].held = <<>>
  BY <1>1, Zenon DEF BelowOpen
<1>6. \A l \in Lock, c \in 1..(Len(ctx) - 1) : l \notin HeldBy(ctx[c])
  BY <1>5 DEF HeldBy
<1>7. \A l \in Lock : l \in HeldBy(Top) <=> \E i \in 1..Len(h) : h[i].lock = l
  BY <1>2, Zenon DEF HeldBy
<1>8. ASSUME NEW l \in Lock
      PROVE  (\E c \in 1..Depth : l \in HeldBy(ctx[c])
                /\ ~(c = Depth /\ Top.at \in {"spin", "restore"} /\ Innermost.lock = l))
             <=> /\ l \in HeldBy(Top)
                 /\ ~(Top.at \in {"spin", "restore"} /\ Innermost.lock = l)
  <2>1. Depth \in 1..Depth /\ \A c \in 1..Depth : c = Depth \/ c \in 1..(Len(ctx) - 1)
    BY <1>2 DEF Depth
  <2> QED
    BY <1>6, <2>1, Zenon DEF Top
<1>9. \A l \in Lock : flag[l] <=>
        \E c \in 1..Depth : l \in HeldBy(ctx[c])
          /\ ~(c = Depth /\ Top.at \in {"spin", "restore"} /\ Innermost.lock = l)
  BY <1>3, <1>7, <1>8, Zenon DEF Innermost
<1>10. (h # <<>> => primask) /\ (h = <<>> => ~primask)
  BY <1>1, Zenon DEF TopSound
<1>11. SectionsMasked
  BY <1>5, <1>9, <1>10, Zenon DEF SectionsMasked, Depth
<1> QED
  BY <1>4, <1>11

(* However deep sections of vibe_spinlock_lock_irqsave and vibe_irq_lock   *)
(* nest, and whatever interrupts come, no context waits for a flag that is *)
(* set, the flags name the locks of the sections somebody is inside of,    *)
(* and inside of a section interrupts are masked.                          *)
THEOREM SectionsNest == SpinSpec => [](NeverSpins /\ SectionsMasked)
<1>1. SpinInit => SpinIInv
  BY SpinStarts
<1>2. SpinIInv /\ [SpinNext]_spinvars => SpinIInv'
  BY LockKeeps, AcquireKeeps, ReleaseKeeps, RestoreKeeps, EnterKeeps, LeaveKeeps,
     RaiseKeeps DEF SpinNext, SpinRelease
<1>3. SpinIInv => NeverSpins /\ SectionsMasked
  BY SpinSuffices
<1> QED
  BY <1>1, <1>2, <1>3, PTL DEF SpinSpec

-----------------------------------------------------------------------------
(* The boot, for any table of devices                                      *)

Device == [level : Level, fn : BOOLEAN]

LEMMA StepsAre ==
  /\ Len(BootSteps) = 10 /\ DOMAIN BootSteps = 1..10
  /\ BootSteps[1] = "arch" /\ BootSteps[2] = "PRE_KERNEL_1" /\ BootSteps[3] = "PRE_KERNEL_2"
  /\ BootSteps[4] = "idle" /\ BootSteps[5] = "workq" /\ BootSteps[6] = "POST_KERNEL"
  /\ BootSteps[7] = "log" /\ BootSteps[8] = "APPLICATION" /\ BootSteps[9] = "systick"
  /\ BootSteps[10] = "sched"
BY DEF BootSteps

LEMMA OrderIs ==
  /\ Order("PRE_KERNEL_1") = 2 /\ Order("PRE_KERNEL_2") = 3
  /\ Order("POST_KERNEL") = 6 /\ Order("APPLICATION") = 8
<1>1. \A k \in 1..10 : BootSteps[k] = "PRE_KERNEL_1" <=> k = 2
  BY StepsAre
<1>2. \A k \in 1..10 : BootSteps[k] = "PRE_KERNEL_2" <=> k = 3
  BY StepsAre
<1>3. \A k \in 1..10 : BootSteps[k] = "POST_KERNEL" <=> k = 6
  BY StepsAre
<1>4. \A k \in 1..10 : BootSteps[k] = "APPLICATION" <=> k = 8
  BY StepsAre
<1> QED BY <1>1, <1>2, <1>3, <1>4, StepsAre DEF Order

(* How far the boot has come; it halts where the idle thread is missing.   *)
Reached == IF stage = 12 THEN 4 ELSE stage

(* The walk has been at a device once: in an earlier stage, or in this     *)
(* one before it came to dev.                                              *)
Visited(d) ==
  \/ Order(devices[d].level) < Reached
  \/ Order(devices[d].level) = Reached /\ d < dev

BootInv ==
  /\ devices \in Seq(Device)
  /\ stage \in 1..12 /\ dev \in Nat /\ (stage \notin {2, 3, 6, 8} => dev = 1)
  /\ result \in [1..Len(devices) -> Seq({"ok", "error"})]
  /\ \A d \in 1..Len(devices) :
       IF devices[d].fn /\ Visited(d) THEN Len(result[d]) = 1 ELSE result[d] = <<>>
  /\ "idle" \in facility <=> stage \in 5..11
  /\ "log" \in facility <=> stage \in 8..11
  /\ "sched" \in facility <=> stage = 11

LEMMA LevelIs ==
  ASSUME devices \in Seq(Device), NEW d \in 1..Len(devices)
  PROVE  /\ devices[d].level \in Level /\ devices[d].fn \in BOOLEAN
         /\ Order(devices[d].level) \in {2, 3, 6, 8}
<1>1. devices[d] \in Device
  OBVIOUS
<1>2. devices[d].level \in Level /\ devices[d].fn \in BOOLEAN
  BY <1>1 DEF Device
<1> QED BY <1>2, OrderIs DEF Level

LEMMA BootStarts ==
  ASSUME BootInit
  PROVE  BootInv
<1>1. devices \in Seq(Device) /\ stage = 1 /\ dev = 1 /\ facility = {}
  BY BootAssumption DEF BootInit, ResetState, Device
<1>2. result = [d \in 1..Len(devices) |-> <<>>]
  BY <1>1 DEF BootInit, ResetState
<1>3. \A d \in 1..Len(devices) : ~Visited(d)
  BY <1>1, LevelIs DEF Visited, Reached
<1>4. <<>> \in Seq({"ok", "error"})
  OBVIOUS
<1> QED BY <1>1, <1>2, <1>3, <1>4 DEF BootInv

(* What is visited, as the boot goes on.                                   *)
LEMMA FacilityKeeps ==
  ASSUME BootInv, NEW s \in Facilities, SetUp(s)
  PROVE  BootInv'
<1>1. devices \in Seq(Device) /\ stage \in 1..10 /\ BootSteps[stage] = s
  BY StepsAre DEF BootInv, SetUp, At
<1>2. stage \in {1, 4, 5, 7, 9, 10} /\ dev = 1
  BY <1>1, StepsAre DEF Facilities, BootInv
<1>3. UNCHANGED <<devices, dev, result>>
  BY DEF SetUp
<1>4. \/ stage' = stage + 1 /\ facility' = facility \cup {s}
      \/ stage' = stage + 1 /\ s = "workq" /\ facility' = facility
      \/ stage' = 12 /\ s = "idle" /\ facility' = facility
  BY StepsAre DEF SetUp
<1>5. \A d \in 1..Len(devices) : Visited(d)' <=> Visited(d)
  <2> TAKE d \in 1..Len(devices)
  <2>1. Order(devices[d].level) \in {2, 3, 6, 8}
    BY <1>1, LevelIs
  <2>2. s = "idle" => stage = 4
    BY <1>1, <1>2, StepsAre
  <2> DEFINE o == Order(devices[d].level)
  <2>3. Visited(d) <=> o < Reached \/ (o = Reached /\ d < 1)
    BY <1>2 DEF Visited
  <2>4. Visited(d)' <=> o < Reached' \/ (o = Reached' /\ d < 1)
    BY <1>2, <1>3 DEF Visited
  <2>5. d \in Nat \ {0}
    BY <1>1
  <2> HIDE DEF o
  <2>6. o \in {2, 3, 6, 8}
    BY <2>1 DEF o
  <2> QED BY <1>2, <1>4, <2>2, <2>3, <2>4, <2>5, <2>6 DEF Reached
<1>6. \A d \in 1..Len(devices) :
        IF devices[d].fn /\ Visited(d) THEN Len(result[d]) = 1 ELSE result[d] = <<>>
  BY DEF BootInv
<1>7. \A d \in 1..Len(devices') :
        IF devices'[d].fn /\ Visited(d)' THEN Len(result'[d]) = 1 ELSE result'[d] = <<>>
  BY <1>3, <1>5, <1>6
<1>8. /\ "idle" \in facility' <=> stage' \in 5..11
      /\ "log" \in facility' <=> stage' \in 8..11
      /\ "sched" \in facility' <=> stage' = 11
  <2>1. /\ s = "idle" <=> stage = 4
        /\ s = "log" <=> stage = 7
        /\ s = "sched" <=> stage = 10
        /\ s = "workq" <=> stage = 5
    BY <1>1, <1>2, StepsAre
  <2>2. /\ "idle" \in facility <=> stage \in 5..11
        /\ "log" \in facility <=> stage \in 8..11
        /\ "sched" \in facility <=> stage = 11
    BY DEF BootInv
  <2> QED BY <1>2, <1>4, <2>1, <2>2
<1>9. stage' \in 1..12 /\ dev' = 1
  BY <1>2, <1>3, <1>4
<1>10. devices' \in Seq(Device) /\ result' \in [1..Len(devices') -> Seq({"ok", "error"})]
  BY <1>3 DEF BootInv
<1> QED BY <1>7, <1>8, <1>9, <1>10 DEF BootInv

LEMMA DeviceKeeps ==
  ASSUME BootInv, NEW l \in Level, vibe_device_init_level(l) \/ LevelDone(l)
  PROVE  BootInv'
<1>1. devices \in Seq(Device) /\ stage \in 1..10 /\ BootSteps[stage] = l /\ dev \in Nat
  BY StepsAre DEF BootInv, vibe_device_init_level, LevelDone, At
<1>2. stage \in {2, 3, 6, 8} /\ Order(l) = stage /\ Reached = stage
  BY <1>1, StepsAre, OrderIs DEF Level, Reached
<1>3. UNCHANGED <<devices, facility>> /\ Len(devices) \in Nat /\ DOMAIN devices = 1..Len(devices)
  BY <1>1 DEF vibe_device_init_level, LevelDone
<1>4. /\ result \in [1..Len(devices) -> Seq({"ok", "error"})]
      /\ \A d \in 1..Len(devices) :
           IF devices[d].fn /\ Visited(d) THEN Len(result[d]) = 1 ELSE result[d] = <<>>
      /\ "idle" \in facility <=> stage \in 5..11
      /\ "log" \in facility <=> stage \in 8..11
      /\ "sched" \in facility <=> stage = 11
  BY DEF BootInv
<1>5. CASE LevelDone(l)
  <2>1. stage' = stage + 1 /\ dev' = 1 /\ result' = result /\ dev > Len(devices)
    BY <1>5 DEF LevelDone
  <2>2. \A d \in 1..Len(devices) : Visited(d)' <=> Visited(d)
    <3> TAKE d \in 1..Len(devices)
    <3>1. Order(devices[d].level) \in {2, 3, 6, 8}
      BY <1>1, LevelIs
    <3> DEFINE o == Order(devices[d].level)
    <3>2. Visited(d) <=> o < Reached \/ (o = Reached /\ d < dev)
      BY DEF Visited
    <3>3. Visited(d)' <=> o < Reached' \/ (o = Reached' /\ d < 1)
      BY <1>3, <2>1 DEF Visited
    <3>4. d \in Nat \ {0} /\ d < dev
      BY <1>1, <1>3, <2>1
    <3> HIDE DEF o
    <3>5. o \in {2, 3, 6, 8}
      BY <3>1 DEF o
    <3> QED BY <1>2, <2>1, <3>2, <3>3, <3>4, <3>5 DEF Reached
  <2>3. \A d \in 1..Len(devices') :
          IF devices'[d].fn /\ Visited(d)' THEN Len(result'[d]) = 1 ELSE result'[d] = <<>>
    BY <1>3, <1>4, <2>1, <2>2
  <2>4. /\ "idle" \in facility' <=> stage' \in 5..11
        /\ "log" \in facility' <=> stage' \in 8..11
        /\ "sched" \in facility' <=> stage' = 11
    BY <1>2, <1>3, <1>4, <2>1
  <2>5. stage' \in 1..12
    BY <1>2, <2>1
  <2> QED BY <1>1, <1>3, <1>4, <2>1, <2>3, <2>4, <2>5 DEF BootInv
<1>6. CASE vibe_device_init_level(l)
  <2>1. /\ dev \in 1..Len(devices) /\ dev' = dev + 1 /\ stage' = stage
        /\ IF devices[dev].level = l /\ devices[dev].fn
           THEN \E r \in {"ok", "error"} : result' = [result EXCEPT ![dev] = Append(@, r)]
           ELSE result' = result
    BY <1>3, <1>6 DEF vibe_device_init_level
  <2>2. ASSUME NEW d \in 1..Len(devices)
        PROVE  Visited(d)' <=> Visited(d) \/ (d = dev /\ devices[dev].level = l)
    <3>1. Order(devices[d].level) \in {2, 3, 6, 8} /\ (Order(devices[d].level) = stage <=> devices[d].level = l)
      BY <1>1, <1>2, LevelIs, OrderIs DEF Level
    <3> QED BY <1>1, <1>2, <1>3, <2>1, <3>1 DEF Visited, Reached
  <2>3. devices[dev].level = l => ~Visited(dev)
    BY <1>1, <1>2 DEF Visited
  <2>4. CASE devices[dev].level = l /\ devices[dev].fn
    <3>1. PICK r \in {"ok", "error"} : result' = [result EXCEPT ![dev] = Append(@, r)]
      BY <2>1, <2>4
    <3>2. result[dev] = <<>> /\ Append(<<>>, r) \in Seq({"ok", "error"}) /\ Len(Append(<<>>, r)) = 1
      BY <1>4, <2>1, <2>3, <2>4
    <3>3. result' = [result EXCEPT ![dev] = Append(<<>>, r)]
      BY <3>1, <3>2
    <3> HIDE <3>1
    <3> DEFINE one == Append(<<>>, r)
    <3>4. result' = [result EXCEPT ![dev] = one] /\ one \in Seq({"ok", "error"}) /\ Len(one) = 1
      BY <3>2, <3>3
    <3> HIDE DEF one
    <3>5. result' \in [1..Len(devices') -> Seq({"ok", "error"})]
      BY <1>3, <1>4, <3>4
    <3>6. \A d \in 1..Len(devices') :
            IF devices'[d].fn /\ Visited(d)' THEN Len(result'[d]) = 1 ELSE result'[d] = <<>>
      <4> SUFFICES ASSUME NEW d \in 1..Len(devices)
                   PROVE  IF devices[d].fn /\ Visited(d)' THEN Len(result'[d]) = 1 ELSE result'[d] = <<>>
        BY <1>3
      <4>1. CASE d = dev
        <5>1. Visited(d)' /\ result'[d] = one
          BY <1>4, <2>1, <2>2, <2>4, <3>4, <4>1
        <5> QED BY <2>4, <3>4, <4>1, <5>1
      <4>2. CASE d # dev
        <5>1. (Visited(d)' <=> Visited(d)) /\ result'[d] = result[d]
          BY <1>4, <2>2, <3>4, <4>2
        <5> QED BY <1>4, <5>1
      <4> QED BY <4>1, <4>2
    <3> QED BY <1>1, <1>2, <1>3, <1>4, <2>1, <3>5, <3>6 DEF BootInv
  <2>5. CASE ~(devices[dev].level = l /\ devices[dev].fn)
    <3>1. result' = result
      BY <2>1, <2>5
    <3>2. \A d \in 1..Len(devices') :
            IF devices'[d].fn /\ Visited(d)' THEN Len(result'[d]) = 1 ELSE result'[d] = <<>>
      BY <1>3, <1>4, <2>2, <2>5, <3>1
    <3> QED BY <1>1, <1>2, <1>3, <1>4, <2>1, <3>1, <3>2 DEF BootInv
  <2> QED BY <2>4, <2>5
<1> QED BY <1>5, <1>6

LEMMA RebootKeeps ==
  ASSUME BootInv, vibe_reboot
  PROVE  BootInv'
<1>1. /\ devices' = devices /\ devices \in Seq(Device) /\ stage' = 1 /\ dev' = 1 /\ facility' = {}
      /\ result' = [d \in DOMAIN devices |-> <<>>]
  BY DEF vibe_reboot, BootInv
<1>2. \A d \in 1..Len(devices) : ~Visited(d)'
  BY <1>1, LevelIs DEF Visited, Reached
<1>3. <<>> \in Seq({"ok", "error"}) /\ DOMAIN devices = 1..Len(devices)
  BY <1>1
<1>4. \A d \in 1..Len(devices') :
        IF devices'[d].fn /\ Visited(d)' THEN Len(result'[d]) = 1 ELSE result'[d] = <<>>
  BY <1>1, <1>2, <1>3
<1> QED BY <1>1, <1>3, <1>4 DEF BootInv

LEMMA BootSuffices ==
  ASSUME BootInv
  PROVE  DevicesInOrder /\ DevicesComplete
<1>1. devices \in Seq(Device) /\ DOMAIN devices = 1..Len(devices) /\ stage \in 1..12 /\ dev \in Nat
  BY DEF BootInv
<1>2. \A d \in 1..Len(devices) :
        IF devices[d].fn /\ Visited(d) THEN Len(result[d]) = 1 ELSE result[d] = <<>>
  BY DEF BootInv
<1>3. Len(<<>>) # 1
  OBVIOUS
<1>4. DevicesInOrder
  <2> SUFFICES ASSUME NEW d \in 1..Len(devices), result[d] # <<>>
               PROVE  /\ Len(result[d]) = 1
                      /\ \A e \in 1..Len(devices) :
                           Order(devices[e].level) < Order(devices[d].level) /\ devices[e].fn => result[e] # <<>>
                      /\ (devices[d].level \in {"POST_KERNEL", "APPLICATION"} => "idle" \in facility)
                      /\ (devices[d].level = "APPLICATION" => "log" \in facility)
    BY <1>1 DEF DevicesInOrder
  <2>1. Len(result[d]) = 1 /\ Visited(d)
    BY <1>2
  <2>2. Order(devices[d].level) <= Reached
    BY <1>1, <2>1, LevelIs DEF Visited, Reached
  <2>3. \A e \in 1..Len(devices) :
          Order(devices[e].level) < Order(devices[d].level) /\ devices[e].fn => result[e] # <<>>
    <3> SUFFICES ASSUME NEW e \in 1..Len(devices), Order(devices[e].level) < Order(devices[d].level),
                        devices[e].fn
                 PROVE  result[e] # <<>>
      OBVIOUS
    <3>1. Order(devices[e].level) \in Nat /\ Order(devices[d].level) \in Nat /\ Reached \in Nat
      BY <1>1, LevelIs DEF Reached
    <3>2. Visited(e)
      BY <2>2, <3>1 DEF Visited
    <3> QED BY <1>2, <1>3, <3>2
  <2>4. devices[d].level \in {"POST_KERNEL", "APPLICATION"} => stage \in 6..11
    BY <1>1, <2>2, OrderIs DEF Reached
  <2>5. devices[d].level = "APPLICATION" => stage \in 8..11
    BY <1>1, <2>2, OrderIs DEF Reached
  <2> QED BY <2>1, <2>3, <2>4, <2>5 DEF BootInv
<1>5. DevicesComplete
  <2> SUFFICES ASSUME ~Halted, NEW d \in 1..Len(devices), devices[d].fn,
                      Order(devices[d].level) < stage
               PROVE  result[d] # <<>>
    BY <1>1 DEF DevicesComplete
  <2>1. stage # 12
    BY StepsAre DEF Halted
  <2>2. Visited(d)
    BY <2>1 DEF Visited, Reached
  <2> QED BY <1>2, <1>3, <2>2
<1> QED BY <1>4, <1>5

(* Whatever devices the image has and wherever the linker put them,        *)
(* vibe_init calls each init function at most once, level by level, no     *)
(* POST_KERNEL device before the idle thread exists and none left out of a *)
(* level that is done, whatever init functions return; a reboot begins     *)
(* anew.                                                                   *)
THEOREM BootKeepsOrder == BootSpec => [](DevicesInOrder /\ DevicesComplete)
<1>1. BootInit => BootInv
  BY BootStarts
<1>2. BootInv /\ [BootNext]_bootvars => BootInv'
  <2> SUFFICES ASSUME BootInv, [BootNext]_bootvars PROVE BootInv'
    OBVIOUS
  <2>1. CASE UNCHANGED bootvars
    BY <2>1 DEF bootvars, BootInv, Visited, Reached
  <2>2. CASE BootNext
    BY <2>2, FacilityKeeps, DeviceKeeps, RebootKeeps DEF BootNext, BootStep
  <2> QED BY <2>1, <2>2
<1>3. BootInv => DevicesInOrder /\ DevicesComplete
  BY BootSuffices
<1> QED BY <1>1, <1>2, <1>3, PTL DEF BootSpec

=============================================================================
