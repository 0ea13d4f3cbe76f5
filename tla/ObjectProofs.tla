---------------------------- MODULE ObjectProofs ----------------------------
(***************************************************************************)
(* The kernel objects, for any threads, capacities, messages and flags:    *)
(* the wait lists they share, then each object on top of them.             *)
(***************************************************************************)
EXTENDS MCObjects, ChainProofs

-----------------------------------------------------------------------------
(* The wait lists                                                          *)

(* Whoever waits is linked into one wait list, once, and nobody else is.   *)
WaitLists ==
  /\ status \in [Thread -> {"ready", "waiting"} \cup WaitList]
  /\ waitq \in [WaitList -> Seq(Thread)]
  /\ \A t \in Thread : status[t] = "waiting" <=>
       \E l \in WaitList : \E k \in 1..Len(waitq[l]) : waitq[l][k] = t
  /\ \A l, m \in WaitList : \A j \in 1..Len(waitq[l]), k \in 1..Len(waitq[m]) :
       waitq[l][j] = waitq[m][k] => l = m /\ j = k

(* A step of another object: the list and who was woken from it stay.      *)
Untouched(l) == waitq'[l] = waitq[l] /\ Woken(l)' = Woken(l)

(* The woken threads are finitely many, and one more or one less of them   *)
(* is one token, message, slot or block more or less on its way.           *)
LEMMA WokenFinite ==
  ASSUME NEW S \in SUBSET Thread
  PROVE  /\ IsFiniteSet(S) /\ Cardinality(S) \in Nat
         /\ \A t \in Thread \ S : Cardinality(S \cup {t}) = Cardinality(S) + 1
         /\ \A t \in S : Cardinality(S \ {t}) = Cardinality(S) - 1
         /\ S # {} => Cardinality(S) > 0
<1>1. IsFiniteSet(S)
  BY ThreadAssumption, FS_Subset
<1>2. Cardinality(S) \in Nat
  BY <1>1, FS_CardinalityType
<1>3. \A t \in Thread \ S : Cardinality(S \cup {t}) = Cardinality(S) + 1
  BY <1>1, FS_AddElement
<1>4. \A t \in S : Cardinality(S \ {t}) = Cardinality(S) - 1
  BY <1>1, FS_RemoveElement
<1>5. S # {} => Cardinality(S) # 0
  BY <1>1, FS_EmptySet
<1> QED BY <1>1, <1>2, <1>3, <1>4, <1>5

(* A thread that blocks joins the end of one list.                         *)
LEMMA BlockWaits ==
  ASSUME WaitLists, NEW t \in Thread, NEW l \in WaitList, status[t] = "ready", Block(t, l)
  PROVE  /\ WaitLists' /\ \A m \in WaitList \ {l} : Untouched(m)
         /\ waitq'[l] = Append(waitq[l], t) /\ Woken(l)' = Woken(l)
<1>1. /\ waitq[l] \in Seq(Thread) /\ waitq'[l] = Append(waitq[l], t)
      /\ \A m \in WaitList \ {l} : waitq'[m] = waitq[m]
      /\ status' = [status EXCEPT ![t] = "waiting"]
      /\ waitq' \in [WaitList -> Seq(Thread)]
  BY DEF Block, WaitLists
<1>2. /\ Len(waitq'[l]) = Len(waitq[l]) + 1 /\ Len(waitq[l]) \in Nat
      /\ \A k \in 1..Len(waitq[l]) : waitq'[l][k] = waitq[l][k]
      /\ waitq'[l][Len(waitq[l]) + 1] = t
  BY <1>1
<1>3. "waiting" \notin WaitList /\ "ready" \notin WaitList
  BY DEF WaitList
<1>4. status' \in [Thread -> {"ready", "waiting"} \cup WaitList]
  BY <1>1 DEF WaitLists
<1>5. \A m \in WaitList : Woken(m)' = Woken(m)
  BY <1>1, <1>3 DEF Woken, WaitLists
<1>6. \A m \in WaitList : \A k \in 1..Len(waitq[m]) : waitq[m][k] # t
  BY DEF WaitLists
<1>7. \A u \in Thread : status'[u] = "waiting" <=>
        \E m \in WaitList : \E k \in 1..Len(waitq'[m]) : waitq'[m][k] = u
  <2> TAKE u \in Thread
  <2>1. CASE u = t
    <3>1. Len(waitq[l]) + 1 \in 1..Len(waitq'[l])
      BY <1>2
    <3> QED BY <2>1, <3>1, <1>1, <1>2 DEF WaitLists
  <2>2. CASE u # t
    <3>1. status'[u] = status[u]
      BY <2>2, <1>1 DEF WaitLists
    <3>2. ASSUME NEW m \in WaitList, NEW k \in 1..Len(waitq'[m]), waitq'[m][k] = u
          PROVE  \E n \in WaitList : \E j \in 1..Len(waitq[n]) : waitq[n][j] = u
      <4>1. CASE m = l
        <5>1. k \in 1..Len(waitq[l])
          BY <4>1, <3>2, <2>2, <1>2
        <5> QED BY <5>1, <3>2, <4>1, <1>2
      <4>2. CASE m # l
        BY <4>2, <3>2, <1>1
      <4> QED BY <4>1, <4>2
    <3>3. ASSUME NEW m \in WaitList, NEW k \in 1..Len(waitq[m]), waitq[m][k] = u
          PROVE  \E n \in WaitList : \E j \in 1..Len(waitq'[n]) : waitq'[n][j] = u
      <4>1. k \in 1..Len(waitq'[m]) /\ waitq'[m][k] = u
        BY <3>3, <1>1, <1>2, SMTT(30)
      <4> QED BY <4>1
    <3> QED BY <3>1, <3>2, <3>3 DEF WaitLists
  <2> QED BY <2>1, <2>2
<1>8. ASSUME NEW m \in WaitList, NEW n \in WaitList,
             NEW j \in 1..Len(waitq'[m]), NEW k \in 1..Len(waitq'[n]),
             waitq'[m][j] = waitq'[n][k]
      PROVE  m = n /\ j = k
  <2>1. \A o \in WaitList : \A i \in 1..Len(waitq'[o]) :
          \/ o = l /\ i = Len(waitq[l]) + 1 /\ waitq'[o][i] = t
          \/ i \in 1..Len(waitq[o]) /\ waitq'[o][i] = waitq[o][i] /\ waitq'[o][i] # t
    <3> TAKE o \in WaitList
    <3>1. CASE o = l
      BY <3>1, <1>2, <1>6
    <3>2. CASE o # l
      BY <3>2, <1>1, <1>6
    <3> QED BY <3>1, <3>2
  <2> QED BY <1>8, <2>1 DEF WaitLists
<1> QED
  BY <1>1, <1>4, <1>5, <1>7, <1>8 DEF WaitLists, Untouched

(* A woken thread that runs again was in no list and leaves none.          *)
LEMMA ResumeWaits ==
  ASSUME WaitLists, NEW t \in Thread, NEW l \in WaitList, Resume(t, l)
  PROVE  /\ WaitLists' /\ \A m \in WaitList \ {l} : Untouched(m)
         /\ waitq' = waitq /\ t \in Woken(l) /\ Woken(l)' = Woken(l) \ {t}
         /\ Cardinality(Woken(l)) \in Nat
         /\ Cardinality(Woken(l)') = Cardinality(Woken(l)) - 1
<1>1. status[t] = l /\ status' = [status EXCEPT ![t] = "ready"] /\ waitq' = waitq
  BY DEF Resume
<1>2. "waiting" \notin WaitList /\ "ready" \notin WaitList
  BY DEF WaitList
<1>3. WaitLists'
  BY <1>1, <1>2 DEF WaitLists
<1>4. /\ t \in Woken(l) /\ Woken(l)' = Woken(l) \ {t}
      /\ \A m \in WaitList \ {l} : Woken(m)' = Woken(m)
  BY <1>1, <1>2 DEF Woken, WaitLists
<1>5. /\ Cardinality(Woken(l)) \in Nat
      /\ Cardinality(Woken(l) \ {t}) = Cardinality(Woken(l)) - 1
  BY <1>4, WokenFinite DEF Woken
<1>6. Cardinality(Woken(l)') = Cardinality(Woken(l)) - 1
  BY <1>4, <1>5
<1> QED BY <1>1, <1>3, <1>4, <1>5, <1>6 DEF Untouched

(* Threads that are taken off list l and made ready.                       *)
LEMMA LeaveWaits ==
  ASSUME WaitLists, NEW l \in WaitList, NEW W, NEW r \in Seq(Thread),
         W \subseteq Elems(waitq[l]),
         status' = [t \in Thread |-> IF t \in W THEN l ELSE status[t]],
         waitq' = [waitq EXCEPT ![l] = r],
         \A x : (\E k \in 1..Len(r) : r[k] = x)
                  <=> x \notin W /\ \E k \in 1..Len(waitq[l]) : waitq[l][k] = x,
         \A j, k \in 1..Len(r) : r[j] = r[k] => j = k
  PROVE  /\ WaitLists' /\ \A m \in WaitList \ {l} : Untouched(m)
         /\ waitq'[l] = r
         /\ W \subseteq Thread /\ Woken(l)' = Woken(l) \cup W /\ W \cap Woken(l) = {}
<1>1. /\ waitq[l] \in Seq(Thread) /\ waitq'[l] = r
      /\ \A m \in WaitList \ {l} : waitq'[m] = waitq[m]
      /\ waitq' \in [WaitList -> Seq(Thread)]
  BY DEF WaitLists
<1>2. "waiting" \notin WaitList /\ "ready" \notin WaitList
  BY DEF WaitList
<1>3. W \subseteq Thread /\ \A t \in W : status[t] = "waiting" /\ \E k \in 1..Len(waitq[l]) : waitq[l][k] = t
  BY <1>1 DEF Elems, WaitLists
<1>4. status' \in [Thread -> {"ready", "waiting"} \cup WaitList]
  BY DEF WaitLists
<1>5. Woken(l)' = Woken(l) \cup W /\ W \cap Woken(l) = {}
  BY <1>2, <1>3 DEF Woken
<1>6. \A m \in WaitList \ {l} : Woken(m)' = Woken(m)
  BY <1>2, <1>3 DEF Woken
<1>7. \A t \in Thread : status'[t] = "waiting" <=>
        \E m \in WaitList : \E k \in 1..Len(waitq'[m]) : waitq'[m][k] = t
  <2> TAKE t \in Thread
  <2>1. status'[t] = "waiting" <=> status[t] = "waiting" /\ t \notin W
    BY <1>2
  <2>2. ASSUME NEW m \in WaitList, NEW k \in 1..Len(waitq'[m]), waitq'[m][k] = t
        PROVE  status[t] = "waiting" /\ t \notin W
    <3>1. CASE m = l
      BY <3>1, <2>2, <1>1 DEF WaitLists
    <3>2. CASE m # l
      <4>1. k \in 1..Len(waitq[m]) /\ waitq[m][k] = t
        BY <3>2, <2>2, <1>1
      <4>2. status[t] = "waiting"
        BY <4>1 DEF WaitLists
      <4>3. t \notin W
        BY <4>1, <3>2, <1>3 DEF WaitLists
      <4> QED BY <4>2, <4>3
    <3> QED BY <3>1, <3>2
  <2>3. ASSUME status[t] = "waiting", t \notin W
        PROVE  \E m \in WaitList : \E k \in 1..Len(waitq'[m]) : waitq'[m][k] = t
    <3>1. PICK m \in WaitList : \E k \in 1..Len(waitq[m]) : waitq[m][k] = t
      BY <2>3 DEF WaitLists
    <3>2. CASE m = l
      BY <3>1, <3>2, <2>3, <1>1
    <3>3. CASE m # l
      BY <3>1, <3>3, <1>1
    <3> QED BY <3>2, <3>3
  <2> QED BY <2>1, <2>2, <2>3
<1>8. ASSUME NEW m \in WaitList, NEW n \in WaitList,
             NEW j \in 1..Len(waitq'[m]), NEW k \in 1..Len(waitq'[n]),
             waitq'[m][j] = waitq'[n][k]
      PROVE  m = n /\ j = k
  <2>1. \A o \in WaitList : \A i \in 1..Len(waitq'[o]) :
           \E h \in 1..Len(waitq[o]) : waitq[o][h] = waitq'[o][i]
    <3> TAKE o \in WaitList
    <3>1. CASE o = l
      BY <3>1, <1>1
    <3>2. CASE o # l
      BY <3>2, <1>1
    <3> QED BY <3>1, <3>2
  <2>2. m = n
    BY <1>8, <2>1 DEF WaitLists
  <2>3. j = k
    BY <1>8, <2>2, <1>1 DEF WaitLists
  <2> QED BY <2>2, <2>3
<1> QED
  BY <1>1, <1>3, <1>4, <1>5, <1>6, <1>7, <1>8 DEF WaitLists, Untouched

(* The first waiter, if there is one, is woken.                            *)
LEMMA WakeHeadWaits ==
  ASSUME WaitLists, NEW l \in WaitList, WakeHead(l)
  PROVE  /\ WaitLists' /\ \A m \in WaitList \ {l} : Untouched(m)
         /\ Cardinality(Woken(l)) \in Nat
         /\ waitq[l] = <<>> => waitq' = waitq /\ status' = status /\ Woken(l)' = Woken(l)
         /\ waitq[l] # <<>> =>
              /\ waitq'[l] = Tail(waitq[l]) /\ Head(waitq[l]) \in Thread
              /\ Woken(l)' = Woken(l) \cup {Head(waitq[l])}
              /\ Cardinality(Woken(l)') = Cardinality(Woken(l)) + 1
<1>0. Cardinality(Woken(l)) \in Nat
  BY WokenFinite DEF Woken
<1>1. CASE waitq[l] = <<>>
  <2>1. status' = status /\ waitq' = waitq
    BY <1>1 DEF WakeHead
  <2>2. WaitLists' /\ \A m \in WaitList : Untouched(m)
    BY <2>1 DEF WaitLists, Untouched, Woken
  <2> QED BY <1>0, <1>1, <2>1, <2>2 DEF Untouched
<1>2. CASE waitq[l] # <<>>
  <2> DEFINE q == waitq[l]
             W == {q[1]}
  <2>q. q \in Seq(Thread)
    BY DEF WaitLists
  <2>1. /\ q[1] \in Thread /\ Len(q) \in Nat \ {0} /\ Head(q) = q[1]
        /\ Tail(q) \in Seq(Thread) /\ Len(Tail(q)) = Len(q) - 1
        /\ \A k \in 1..(Len(q) - 1) : Tail(q)[k] = q[k + 1]
    BY <1>2, <2>q
  <2>2. /\ status' = [status EXCEPT ![q[1]] = l]
        /\ waitq' = [waitq EXCEPT ![l] = Tail(q)]
    BY <1>2, <2>1 DEF WakeHead
  <2>3. status' = [t \in Thread |-> IF t \in W THEN l ELSE status[t]]
    BY <2>1, <2>2 DEF WaitLists
  <2>4. W \subseteq Elems(q)
    BY <2>1, <2>q DEF Elems
  <2>5. \A j, k \in 1..Len(q) : q[j] = q[k] => j = k
    BY DEF WaitLists
  <2> HIDE DEF q
  <2>6. \A j, k \in 1..Len(Tail(q)) : Tail(q)[j] = Tail(q)[k] => j = k
    <3> TAKE j, k \in 1..Len(Tail(q))
    <3>1. j + 1 \in 1..Len(q) /\ k + 1 \in 1..Len(q)
      BY <2>1
    <3>2. q[j + 1] = q[k + 1] => j + 1 = k + 1
      BY <2>5, <3>1
    <3> QED BY <2>1, <3>2
  <2>7. ASSUME NEW x
        PROVE  (\E k \in 1..Len(Tail(q)) : Tail(q)[k] = x)
                 <=> x \notin W /\ \E k \in 1..Len(q) : q[k] = x
    <3>1. ASSUME NEW k \in 1..Len(Tail(q)), Tail(q)[k] = x
          PROVE  x \notin W /\ \E i \in 1..Len(q) : q[i] = x
      <4>1. k + 1 \in 1..Len(q) /\ q[k + 1] = x /\ k + 1 # 1 /\ 1 \in 1..Len(q)
        BY <2>1, <3>1
      <4> QED BY <2>5, <4>1
    <3>2. ASSUME NEW k \in 1..Len(q), q[k] = x, x \notin W
          PROVE  \E i \in 1..Len(Tail(q)) : Tail(q)[i] = x
      <4>1. k # 1 /\ k - 1 \in 1..Len(Tail(q)) /\ (k - 1) + 1 = k
        BY <2>1, <3>2
      <4> QED BY <2>1, <3>2, <4>1
    <3> QED BY <3>1, <3>2
  <2>8. /\ WaitLists' /\ \A m \in WaitList \ {l} : Untouched(m)
        /\ waitq'[l] = Tail(q)
        /\ W \subseteq Thread /\ Woken(l)' = Woken(l) \cup W /\ W \cap Woken(l) = {}
    <3> HIDE DEF W
    <3> QED BY <2>1, <2>2, <2>3, <2>4, <2>6, <2>7, LeaveWaits DEF q
  <2>9. Cardinality(Woken(l) \cup {q[1]}) = Cardinality(Woken(l)) + 1
    BY <2>8, <2>1, WokenFinite DEF Woken
  <2>10. Cardinality(Woken(l)') = Cardinality(Woken(l)) + 1
    BY <2>8, <2>9
  <2> QED BY <1>0, <1>2, <2>1, <2>8, <2>10 DEF q
<1> QED BY <1>1, <1>2

(* Any of the waiters of a list are woken.                                 *)
LEMMA WakeWaits ==
  ASSUME WaitLists, NEW l \in WaitList, NEW W, W \subseteq Elems(waitq[l]), Wake(l, W)
  PROVE  /\ WaitLists' /\ \A m \in WaitList \ {l} : Untouched(m)
         /\ W \subseteq Thread /\ Woken(l)' = Woken(l) \cup W
         /\ \A x : (\E k \in 1..Len(waitq'[l]) : waitq'[l][k] = x)
                  <=> x \notin W /\ \E k \in 1..Len(waitq[l]) : waitq[l][k] = x
<1> DEFINE r == Remaining(waitq[l], W)
<1>1. waitq[l] \in Seq(Thread) /\ \A j, k \in 1..Len(waitq[l]) : waitq[l][j] = waitq[l][k] => j = k
  BY DEF WaitLists
<1>2. /\ r \in Seq(Thread)
      /\ \A x : (\E k \in 1..Len(r) : r[k] = x)
                  <=> x \notin W /\ \E k \in 1..Len(waitq[l]) : waitq[l][k] = x
      /\ \A j, k \in 1..Len(r) : r[j] = r[k] => j = k
  BY <1>1, RemainingIs
<1>3. /\ status' = [t \in Thread |-> IF t \in W THEN l ELSE status[t]]
      /\ waitq' = [waitq EXCEPT ![l] = r]
  BY DEF Wake, WaitLists
<1> HIDE DEF r
<1>4. /\ WaitLists' /\ \A m \in WaitList \ {l} : Untouched(m)
      /\ waitq'[l] = r
      /\ W \subseteq Thread /\ Woken(l)' = Woken(l) \cup W /\ W \cap Woken(l) = {}
  BY <1>2, <1>3, LeaveWaits
<1> QED BY <1>2, <1>4

-----------------------------------------------------------------------------
(* Semaphores                                                              *)

SemPart ==
  /\ count \in Nat /\ max_count \in Nat /\ credit \in Int /\ left \in [Thread -> Nat]
  /\ SemConserved /\ SemNoStranded

(* What a step of kernel/sem.c keeps, and leaves alone.                    *)
SemKept == WaitLists' /\ SemPart' /\ \A l \in WaitList \ {"sem"} : Untouched(l)

LEMMA SemListIs == "sem" \in WaitList
  BY DEF WaitList

(* The other objects do not touch the semaphore.                           *)
LEMMA SemFrame ==
  ASSUME SemPart, UNCHANGED semvars, Untouched("sem")
  PROVE  SemPart'
BY DEF SemPart, semvars, Untouched, SemConserved, SemNoStranded

(* vibe_sem_init, with any initial count.                                  *)
LEMMA SemStarts ==
  ASSUME InitThreads, NEW n \in Nat, NEW max \in Nat, vibe_sem_init(n, max)
  PROVE  SemPart
<1>1. waitq["sem"] = <<>> /\ Woken("sem") = {}
  BY DEF InitThreads, Woken, WaitList
<1>2. Cardinality(Woken("sem")) = 0
  BY <1>1, FS_EmptySet
<1> QED
  BY <1>1, <1>2 DEF vibe_sem_init, SemPart, SemConserved, SemNoStranded

(* A take leaves the count at zero and enters the list, or takes a token.  *)
LEMMA TakeKeeps ==
  ASSUME WaitLists, SemPart, NEW t \in Thread, NEW timeout \in Timeout, vibe_sem_take(t, timeout)
  PROVE  SemKept
<1>0. Cardinality(Woken("sem")) \in Nat
  BY WokenFinite DEF Woken
<1>1. CASE /\ count > 0 /\ count' = count - 1 /\ credit' = credit - 1
           /\ UNCHANGED <<status, waitq, left, max_count>>
  <2>1. WaitLists' /\ \A l \in WaitList : Untouched(l)
    BY <1>1 DEF WaitLists, Untouched, Woken
  <2>2. SemPart'
    BY <1>0, <1>1, <2>1, SemListIs DEF SemPart, SemConserved, SemNoStranded, Untouched
  <2> QED
    BY <2>1, <2>2 DEF SemKept
<1>2. CASE /\ count = 0 /\ timeout # 0 /\ Block(t, "sem")
           /\ left' = [left EXCEPT ![t] = timeout]
           /\ UNCHANGED <<count, credit, max_count>>
  <2>1. timeout \in Nat
    BY SemAssumption DEF Timeout, VIBE_WAIT_FOREVER
  <2>2. status[t] = "ready"
    BY DEF vibe_sem_take
  <2>3. WaitLists' /\ Woken("sem")' = Woken("sem") /\ \A l \in WaitList \ {"sem"} : Untouched(l)
    BY <1>2, <2>2, BlockWaits, SemListIs
  <2>4. left' \in [Thread -> Nat]
    BY <1>2, <2>1 DEF SemPart
  <2>5. SemPart'
    BY <1>2, <2>3, <2>4 DEF SemPart, SemConserved, SemNoStranded
  <2> QED BY <2>3, <2>5 DEF SemKept
<1> QED
  BY <1>1, <1>2 DEF vibe_sem_take

(* A woken thread returns with the token that was handed to it.            *)
LEMMA ReturnKeeps ==
  ASSUME WaitLists, SemPart, NEW t \in Thread, TakeReturns(t)
  PROVE  SemKept
<1>1. /\ WaitLists' /\ \A l \in WaitList \ {"sem"} : Untouched(l)
      /\ waitq' = waitq /\ Cardinality(Woken("sem")) \in Nat
      /\ Cardinality(Woken("sem")') = Cardinality(Woken("sem")) - 1
  BY ResumeWaits, SemListIs DEF TakeReturns
<1>2. /\ credit' = credit - 1 /\ left' = [left EXCEPT ![t] = 0]
      /\ UNCHANGED <<count, max_count>>
  BY DEF TakeReturns
<1>3. SemPart'
  BY <1>1, <1>2 DEF SemPart, SemConserved, SemNoStranded
<1> QED BY <1>1, <1>3 DEF SemKept

(* A give goes to the first waiter or into the count, never to both.       *)
LEMMA GiveKeeps ==
  ASSUME WaitLists, SemPart, vibe_sem_give
  PROVE  SemKept
<1>1. CASE waitq["sem"] # <<>>
  <2>1. WakeHead("sem") /\ credit' = credit + 1 /\ UNCHANGED <<count, left, max_count>>
    BY <1>1 DEF vibe_sem_give
  <2>2. /\ WaitLists' /\ \A l \in WaitList \ {"sem"} : Untouched(l)
        /\ Cardinality(Woken("sem")) \in Nat
        /\ Cardinality(Woken("sem")') = Cardinality(Woken("sem")) + 1
    BY <1>1, <2>1, WakeHeadWaits, SemListIs
  <2>3. SemPart'
    BY <1>1, <2>1, <2>2 DEF SemPart, SemConserved, SemNoStranded
  <2> QED BY <2>2, <2>3 DEF SemKept
<1>2. CASE waitq["sem"] = <<>>
  <2>1. /\ count' = count + 1 /\ credit' = credit + 1
        /\ UNCHANGED <<status, waitq, left, max_count>>
    BY <1>2 DEF vibe_sem_give
  <2>2. WaitLists' /\ \A l \in WaitList : Untouched(l)
    BY <2>1 DEF WaitLists, Untouched, Woken
  <2>3. Cardinality(Woken("sem")) \in Nat
    BY WokenFinite DEF Woken
  <2>4. SemPart'
    BY <1>2, <2>1, <2>2, <2>3, SemListIs DEF SemPart, SemConserved, SemNoStranded, Untouched
  <2> QED BY <2>2, <2>4 DEF SemKept
<1> QED
  BY <1>1, <1>2

(* A reset takes back what is in the count, not what was handed out; time  *)
(* passes without effect.                                                  *)
LEMMA ResetKeeps ==
  ASSUME WaitLists, SemPart, vibe_sem_reset \/ SemTick
  PROVE  SemKept
<1>1. UNCHANGED <<status, waitq, max_count>>
  BY DEF vibe_sem_reset, SemTick
<1>2. WaitLists' /\ \A l \in WaitList : Untouched(l)
  BY <1>1 DEF WaitLists, Untouched, Woken
<1>3. Cardinality(Woken("sem")) \in Nat /\ Woken("sem")' = Woken("sem")
  BY <1>2, SemListIs, WokenFinite DEF Woken, Untouched
<1>4. CASE vibe_sem_reset
  <2>1. SemPart'
    BY <1>1, <1>3, <1>4 DEF vibe_sem_reset, SemPart, SemConserved, SemNoStranded
  <2> QED BY <1>2, <2>1 DEF SemKept
<1>5. CASE SemTick
  <2>1. left' \in [Thread -> Nat]
    BY <1>5, SemAssumption DEF SemTick, SemPart
  <2>2. SemPart'
    BY <1>1, <1>3, <1>5, <2>1 DEF SemTick, SemPart, SemConserved, SemNoStranded
  <2> QED BY <1>2, <2>2 DEF SemKept
<1> QED
  BY <1>4, <1>5

(* Every call of a semaphore keeps its tokens and the wait lists.          *)
LEMMA SemStep ==
  ASSUME WaitLists, SemPart, SemNext
  PROVE  SemKept
BY TakeKeeps, ReturnKeeps, GiveKeeps, ResetKeeps DEF SemNext

-----------------------------------------------------------------------------
(* Memory pools                                                            *)

(* s is the free list, block by block.                                     *)
FreeIs(s) ==
  /\ s \in Seq(BlockId) /\ free_count = Len(s)
  /\ \A j, k \in 1..Len(s) : s[j] = s[k] => j = k
  /\ free_list = IF Len(s) = 0 THEN NoBlock ELSE s[1]
  /\ \A k \in 1..Len(s) : link[s[k]] = IF k = Len(s) THEN NoBlock ELSE s[k + 1]
  /\ \A b \in BlockId : b \in held <=> \A k \in 1..Len(s) : s[k] # b

PoolRep ==
  /\ DOMAIN link = BlockId /\ held \subseteq BlockId
  /\ \E s \in Seq(BlockId) : FreeIs(s)

PoolPart == PoolRep /\ PoolNoStranded

PoolKept == WaitLists' /\ PoolPart' /\ \A l \in WaitList \ {"pool"} : Untouched(l)

(* vibe_mem_pool_init chains the blocks in address order.                  *)
LEMMA PoolStarts ==
  ASSUME InitThreads, vibe_mem_pool_init
  PROVE  PoolPart
<1> DEFINE s == [k \in 1..num_blocks |-> k]
<1>1. s \in Seq(BlockId) /\ Len(s) = num_blocks /\ num_blocks \in Nat \ {0}
  BY PoolAssumption DEF BlockId
<1>2. \A k \in 1..num_blocks : s[k] = k
  OBVIOUS
<1>3. DOMAIN link = BlockId /\ held = {}
  BY DEF vibe_mem_pool_init
<1> HIDE DEF s
<1>4. \A k \in 1..Len(s) : link[s[k]] = IF k = Len(s) THEN NoBlock ELSE s[k + 1]
  BY <1>1, <1>2 DEF vibe_mem_pool_init, BlockId
<1>5. FreeIs(s)
  BY <1>1, <1>2, <1>4 DEF vibe_mem_pool_init, FreeIs, BlockId
<1>6. PoolNoStranded
  BY DEF PoolNoStranded, InitThreads, WaitList
<1> QED BY <1>1, <1>3, <1>5, <1>6 DEF PoolPart, PoolRep

LEMMA PoolFrame ==
  ASSUME PoolPart, UNCHANGED poolvars, Untouched("pool")
  PROVE  PoolPart'
BY DEF PoolPart, PoolRep, FreeIs, PoolNoStranded, poolvars, Untouched

(* The length of the free list says whether there is a first block.        *)
LEMMA FreeCount ==
  ASSUME PoolRep
  PROVE  free_count \in Nat /\ (free_list = NoBlock <=> free_count = 0)
<1>1. PICK s \in Seq(BlockId) : FreeIs(s)
  BY DEF PoolRep
<1>2. Len(s) # 0 => s[1] \in BlockId /\ s[1] # NoBlock
  BY PoolAssumption DEF BlockId
<1> QED BY <1>1, <1>2 DEF FreeIs

(* The first block of the list is taken.                                   *)
LEMMA TakeBlockKeeps ==
  ASSUME PoolRep, TakeBlock
  PROVE  PoolRep' /\ free_count' = free_count - 1 /\ free_count > 0
<1>1. PICK s \in Seq(BlockId) : FreeIs(s)
  BY DEF PoolRep
<1> DEFINE b == free_list
<1>2. /\ Len(s) \in Nat \ {0} /\ b = s[1] /\ b \in BlockId
      /\ link' = [link EXCEPT ![b] = NoBlock] /\ free_list' = link[b]
      /\ free_count' = free_count - 1 /\ held' = held \cup {b}
  BY <1>1 DEF TakeBlock, FreeIs
<1> DEFINE r == Tail(s)
<1>3. /\ r \in Seq(BlockId) /\ Len(r) = Len(s) - 1
      /\ \A k \in 1..(Len(s) - 1) : r[k] = s[k + 1]
  BY <1>2
<1> HIDE DEF r, b
<1>4. \A j, k \in 1..Len(s) : s[j] = s[k] => j = k
  BY <1>1 DEF FreeIs
<1>5. \A k \in 1..Len(r) : k + 1 \in 1..Len(s) /\ r[k] = s[k + 1] /\ r[k] # b
  BY <1>2, <1>3, <1>4
<1>6. \A j, k \in 1..Len(r) : r[j] = r[k] => j = k
  <2> TAKE j, k \in 1..Len(r)
  <2>1. s[j + 1] = s[k + 1] => j + 1 = k + 1
    BY <1>4, <1>5
  <2> QED BY <2>1, <1>3, <1>5
<1>7. free_list' = IF Len(r) = 0 THEN NoBlock ELSE r[1]
  BY <1>1, <1>2, <1>3 DEF FreeIs
<1>8. \A k \in 1..Len(r) : link'[r[k]] = IF k = Len(r) THEN NoBlock ELSE r[k + 1]
  <2> TAKE k \in 1..Len(r)
  <2>1. link'[r[k]] = link[s[k + 1]]
    BY <1>2, <1>3, <1>5 DEF PoolRep
  <2>2. link[s[k + 1]] = IF k + 1 = Len(s) THEN NoBlock ELSE s[(k + 1) + 1]
    BY <1>1, <1>5 DEF FreeIs
  <2>3. k + 1 # Len(s) => r[k + 1] = s[(k + 1) + 1]
    BY <1>3
  <2> QED BY <1>3, <2>1, <2>2, <2>3
<1>9. \A c \in BlockId : c \in held' <=> \A k \in 1..Len(r) : r[k] # c
  <2> TAKE c \in BlockId
  <2>1. (\E k \in 1..Len(r) : r[k] = c) => c # b /\ \E k \in 1..Len(s) : s[k] = c
    BY <1>5
  <2>2. ASSUME NEW k \in 1..Len(s), s[k] = c, c # b PROVE \E j \in 1..Len(r) : r[j] = c
    <3>1. k - 1 \in 1..Len(r) /\ r[k - 1] = s[(k - 1) + 1] /\ (k - 1) + 1 = k
      BY <1>2, <1>3, <2>2
    <3> QED BY <2>2, <3>1
  <2> QED BY <1>1, <1>2, <2>1, <2>2 DEF FreeIs
<1>10. FreeIs(r)'
  BY <1>1, <1>2, <1>3, <1>6, <1>7, <1>8, <1>9 DEF FreeIs
<1>11. DOMAIN link' = BlockId /\ held' \subseteq BlockId
  BY <1>2 DEF PoolRep
<1>12. PoolRep'
  BY <1>3, <1>10, <1>11 DEF PoolRep
<1> QED BY <1>1, <1>2, <1>12 DEF FreeIs

(* A block that somebody held is put in front.                             *)
LEMMA FreeBlockKeeps ==
  ASSUME PoolRep, NEW b \in BlockId, b \in held,
         link' = [link EXCEPT ![b] = free_list], free_list' = b,
         free_count' = free_count + 1, held' = held \ {b}
  PROVE  PoolRep'
<1>1. PICK s \in Seq(BlockId) : FreeIs(s)
  BY DEF PoolRep
<1> DEFINE r == [k \in 1..(Len(s) + 1) |-> IF k = 1 THEN b ELSE s[k - 1]]
<1>2. Len(s) \in Nat /\ r \in Seq(BlockId) /\ Len(r) = Len(s) + 1
  <2>1. \A k \in 1..(Len(s) + 1) : (IF k = 1 THEN b ELSE s[k - 1]) \in BlockId
    OBVIOUS
  <2>2. Len(s) + 1 \in Nat
    OBVIOUS
  <2> QED BY <2>1, <2>2
<1>3. r[1] = b /\ \A k \in 1..Len(s) : r[k + 1] = s[k]
  OBVIOUS
<1> HIDE DEF r
<1>4. \A k \in 1..Len(s) : s[k] # b
  BY <1>1 DEF FreeIs
<1>5. \A k \in 1..Len(r) : (k = 1 /\ r[k] = b) \/ (k - 1 \in 1..Len(s) /\ r[k] = s[k - 1] /\ k # 1)
  <2> TAKE k \in 1..Len(r)
  <2>1. k # 1 => k - 1 \in 1..Len(s) /\ (k - 1) + 1 = k
    BY <1>2
  <2> QED BY <2>1, <1>3
<1>6. \A j, k \in 1..Len(r) : r[j] = r[k] => j = k
  <2> TAKE j, k \in 1..Len(r)
  <2>1. j - 1 \in 1..Len(s) /\ k - 1 \in 1..Len(s) /\ s[j - 1] = s[k - 1] => j - 1 = k - 1
    BY <1>1 DEF FreeIs
  <2> QED BY <2>1, <1>4, <1>5
<1>7. \A k \in 1..Len(r) : link'[r[k]] = IF k = Len(r) THEN NoBlock ELSE r[k + 1]
  <2> TAKE k \in 1..Len(r)
  <2>1. CASE k = 1
    <3>1. link'[b] = free_list
      BY DEF PoolRep
    <3>2. Len(s) # 0 => r[1 + 1] = s[1]
      BY <1>2, <1>3
    <3> QED BY <1>1, <1>2, <1>3, <2>1, <3>1, <3>2 DEF FreeIs
  <2>2. CASE k # 1
    <3>1. k - 1 \in 1..Len(s) /\ r[k] = s[k - 1]
      BY <1>5, <2>2
    <3>2. link'[r[k]] = link[s[k - 1]]
      BY <1>4, <3>1 DEF PoolRep
    <3>3. link[s[k - 1]] = IF k - 1 = Len(s) THEN NoBlock ELSE s[(k - 1) + 1]
      BY <1>1, <3>1 DEF FreeIs
    <3>4. k - 1 # Len(s) => r[k + 1] = s[(k - 1) + 1]
      BY <1>2, <1>3, <3>1
    <3> QED BY <1>2, <3>1, <3>2, <3>3, <3>4
  <2> QED BY <2>1, <2>2
<1>8. \A c \in BlockId : c \in held' <=> \A k \in 1..Len(r) : r[k] # c
  <2> TAKE c \in BlockId
  <2>1. (\E k \in 1..Len(r) : r[k] = c) => c = b \/ \E k \in 1..Len(s) : s[k] = c
    BY <1>5
  <2>2. \A k \in 1..Len(s) : k + 1 \in 1..Len(r) /\ r[k + 1] = s[k]
    BY <1>2, <1>3
  <2>3. 1 \in 1..Len(r)
    BY <1>2
  <2>4. (c = b \/ \E k \in 1..Len(s) : s[k] = c) => \E k \in 1..Len(r) : r[k] = c
    BY <1>3, <2>2, <2>3
  <2> QED BY <1>1, <2>1, <2>4 DEF FreeIs
<1>9. FreeIs(r)'
  BY <1>1, <1>2, <1>3, <1>6, <1>7, <1>8, SMTT(30) DEF FreeIs
<1>10. DOMAIN link' = BlockId /\ held' \subseteq BlockId
  BY DEF PoolRep
<1> QED BY <1>2, <1>9, <1>10 DEF PoolRep

(* Every call of a pool keeps the free list, and every free block that     *)
(* somebody waits for has a woken thread.                                  *)
LEMMA PoolStep ==
  ASSUME WaitLists, PoolPart, PoolNext
  PROVE  PoolKept
<1>l. "pool" \in WaitList
  BY DEF WaitList
<1>0. Cardinality(Woken("pool")) \in Nat /\ free_count \in Nat
  BY WokenFinite, FreeCount DEF Woken, PoolPart
<1>1. ASSUME NEW t \in Thread, vibe_mem_pool_alloc(t) PROVE PoolKept
  <2>1. CASE TakeBlock /\ UNCHANGED <<status, waitq>>
    <3>1. WaitLists' /\ \A l \in WaitList : Untouched(l)
      BY <2>1 DEF WaitLists, Untouched, Woken
    <3>2. PoolRep' /\ free_count' = free_count - 1
      BY <2>1, TakeBlockKeeps DEF PoolPart
    <3>3. PoolNoStranded'
      BY <1>l, <1>0, <3>1, <3>2 DEF PoolPart, PoolNoStranded, Untouched
    <3> QED BY <3>1, <3>2, <3>3 DEF PoolKept, PoolPart
  <2>2. CASE free_list = NoBlock /\ Block(t, "pool") /\ UNCHANGED poolvars
    <3>1. WaitLists' /\ Woken("pool")' = Woken("pool") /\ \A l \in WaitList \ {"pool"} : Untouched(l)
      BY <1>l, <1>1, <2>2, BlockWaits DEF vibe_mem_pool_alloc
    <3>2. PoolRep' /\ free_count' = 0
      BY <2>2, FreeCount DEF PoolPart, PoolRep, FreeIs, poolvars
    <3>3. PoolNoStranded'
      BY <1>0, <3>1, <3>2 DEF PoolNoStranded
    <3> QED BY <3>1, <3>2, <3>3 DEF PoolKept, PoolPart
  <2> QED BY <1>1, <2>1, <2>2 DEF vibe_mem_pool_alloc
<1>2. ASSUME NEW t \in Thread, AllocResumes(t) PROVE PoolKept
  <2>1. /\ WaitLists' /\ waitq' = waitq /\ \A l \in WaitList \ {"pool"} : Untouched(l)
        /\ Cardinality(Woken("pool")') = Cardinality(Woken("pool")) - 1
        /\ Woken("pool") # {}
    BY <1>l, <1>2, ResumeWaits DEF AllocResumes
  <2>2. CASE TakeBlock
    <3>1. PoolRep' /\ free_count' = free_count - 1
      BY <2>2, TakeBlockKeeps DEF PoolPart
    <3>2. waitq["pool"] # <<>> => free_count <= Cardinality(Woken("pool"))
      BY DEF PoolPart, PoolNoStranded
    <3>3. waitq'["pool"] # <<>> => free_count' <= Cardinality(Woken("pool")')
      BY <1>0, <2>1, <3>1, <3>2
    <3>4. PoolNoStranded'
      BY <3>3 DEF PoolNoStranded
    <3> QED BY <2>1, <3>1, <3>4 DEF PoolKept, PoolPart
  <2>3. CASE free_list = NoBlock /\ UNCHANGED poolvars
    <3>1. PoolRep' /\ free_count' = 0
      BY <2>3, FreeCount DEF PoolPart, PoolRep, FreeIs, poolvars
    <3>2. Cardinality(Woken("pool")) > 0
      BY <2>1, WokenFinite DEF Woken
    <3>3. PoolNoStranded'
      BY <1>0, <2>1, <3>1, <3>2 DEF PoolNoStranded
    <3> QED BY <2>1, <3>1, <3>3 DEF PoolKept, PoolPart
  <2> QED BY <1>2, <2>2, <2>3 DEF AllocResumes
<1>3. ASSUME NEW b \in BlockId, vibe_mem_pool_free(b) PROVE PoolKept
  <2>1. PoolRep' /\ free_count' = free_count + 1 /\ WakeHead("pool")
    BY <1>3, FreeBlockKeeps DEF vibe_mem_pool_free, PoolPart
  <2>2. /\ WaitLists' /\ \A l \in WaitList \ {"pool"} : Untouched(l)
        /\ waitq["pool"] = <<>> => waitq' = waitq
        /\ waitq["pool"] # <<>> => Cardinality(Woken("pool")') = Cardinality(Woken("pool")) + 1
    BY <1>l, <2>1, WakeHeadWaits
  <2>3. PoolNoStranded'
    BY <1>0, <2>1, <2>2 DEF PoolPart, PoolNoStranded
  <2> QED BY <2>1, <2>2, <2>3 DEF PoolKept, PoolPart
<1> QED BY <1>1, <1>2, <1>3 DEF PoolNext

(* The free list as the walk of its links finds it.                        *)
LEMMA FreeListWalk ==
  ASSUME PoolRep
  PROVE  PoolPartition
<1>1. PICK s \in Seq(BlockId) : FreeIs(s)
  BY DEF PoolRep
<1>2. num_blocks \in Nat /\ NoBlock \notin BlockId
  BY PoolAssumption DEF BlockId
<1>3. IsFiniteSet(BlockId) /\ Cardinality(BlockId) = num_blocks
  BY <1>2, UptoCard DEF BlockId
<1>4. Len(s) <= num_blocks /\ Cardinality({s[k] : k \in 1..Len(s)}) = Len(s)
  <2>1. Distinct(s)
    BY <1>1 DEF FreeIs, Distinct
  <2> QED BY <1>3, <2>1, DistinctBound, Zenon
<1>5. FreeBlocks = s
  <2>1. Len(s) <= num_blocks + 1
    <3>1. Len(s) <= num_blocks
      BY <1>4, Zenon
    <3> QED BY <1>2, <3>1
  <2>2. Spells(free_list, link, NoBlock, s)
    BY <1>1 DEF FreeIs, Spells
  <2> QED BY <1>2, <2>1, <2>2, ChainIsList DEF FreeBlocks
<1>6. Elems(s) = BlockId \ held /\ Elems(s) = {s[k] : k \in 1..Len(s)}
  BY <1>1 DEF FreeIs, Elems
<1>7. IsFiniteSet(held) /\ Cardinality(held) \in Nat
  BY <1>3, FS_Subset, FS_CardinalityType DEF PoolRep
<1>8. Cardinality(BlockId \ held) = Cardinality(BlockId) - Cardinality(BlockId \cap held)
  BY <1>3, FS_Difference
<1>9. BlockId \cap held = held
  BY DEF PoolRep
<1>10. Len(s) = num_blocks - Cardinality(held)
  BY <1>3, <1>4, <1>6, <1>8, <1>9, Zenon
<1> QED BY <1>1, <1>2, <1>5, <1>6, <1>7, <1>10 DEF PoolPartition, FreeIs

-----------------------------------------------------------------------------
(* Message queues                                                          *)

Slot == 0..(max_msgs - 1)

(* head and used say where the messages are; tail is redundant, and the    *)
(* code keeps it where the next message belongs.                           *)
MqOK ==
  /\ mq = [buf |-> mq.buf, head |-> mq.head, tail |-> mq.tail, used |-> mq.used]
  /\ mq.buf = [i \in Slot |-> mq.buf[i]]
  /\ mq.head \in Slot /\ mq.used \in 0..max_msgs
  /\ mq.tail = (mq.head + mq.used) % max_msgs

FifoStep == [Messages!Push \/ Messages!Pop \/ Messages!Clear]_<<Contents, received>>

LEMMA ContentsIs == Contents = Ring(max_msgs, mq.buf, mq.head, mq.used)
  BY DEF Contents, Ring

(* A message stored at tail joins the end, and overwrites none that is     *)
(* still to be read.                                                       *)
LEMMA StorePushes ==
  ASSUME MqOK, mq.used < max_msgs, NEW m, Store(m), UNCHANGED received
  PROVE  MqOK' /\ FifoStep
<1>1. /\ max_msgs \in Nat \ {0} /\ mq.head \in Nat /\ mq.used \in Nat
      /\ mq.used + 1 \in 0..max_msgs
  BY MsgqAssumption DEF MqOK, Slot
<1>2. mq.tail \in Slot
  BY <1>1, ModOf DEF MqOK, Slot
<1>3. mq' = [buf |-> [mq.buf EXCEPT ![mq.tail] = m], head |-> mq.head,
             tail |-> (mq.tail + 1) % max_msgs, used |-> mq.used + 1]
  BY DEF Store, MqOK
<1>4. (mq.tail + 1) % max_msgs = (mq.head + (mq.used + 1)) % max_msgs
  <2>1. mq.tail = (mq.head + mq.used) % max_msgs /\ mq.head + mq.used \in Int
    BY <1>1 DEF MqOK
  <2>2. (((mq.head + mq.used) % max_msgs) + 1) % max_msgs = ((mq.head + mq.used) + 1) % max_msgs
    BY <1>1, <2>1, ModAdd
  <2>3. (mq.head + mq.used) + 1 = mq.head + (mq.used + 1)
    BY <1>1
  <2> QED BY <2>1, <2>2, <2>3
<1>5. mq'.buf = [i \in Slot |-> IF i = mq.tail THEN m ELSE mq.buf[i]]
  BY <1>3 DEF MqOK
<1>6. MqOK'
  <2>1. mq'.buf = [i \in Slot |-> mq'.buf[i]]
    BY <1>5
  <2> QED BY <1>1, <1>3, <1>4, <2>1 DEF MqOK
<1>7. \A i \in 1..mq.used : mq'.buf[(mq.head + i - 1) % max_msgs] = mq.buf[(mq.head + i - 1) % max_msgs]
  <2> TAKE i \in 1..mq.used
  <2>1. /\ mq.head + i - 1 \in Int /\ mq.head + mq.used \in Int
        /\ mq.head + i - 1 <= mq.head + mq.used /\ mq.head + i - 1 # mq.head + mq.used
        /\ mq.head + mq.used < (mq.head + i - 1) + max_msgs
    BY <1>1
  <2>2. (mq.head + i - 1) % max_msgs # mq.tail
    BY <1>1, <2>1, ModInj DEF MqOK
  <2>3. (mq.head + i - 1) % max_msgs \in Slot
    BY <1>1, <2>1, ModOf DEF Slot
  <2> QED BY <1>5, <2>2, <2>3
<1>8. /\ Len(Ring(max_msgs, mq'.buf, mq.head, mq.used + 1)) = mq.used + 1
      /\ SubSeq(Ring(max_msgs, mq'.buf, mq.head, mq.used + 1), 1, mq.used)
           = Ring(max_msgs, mq.buf, mq.head, mq.used)
  <2> DEFINE h == mq.head
             u == mq.used
             old == mq.buf
             new == mq'.buf
             one == 1
  <2>1. h \in Int /\ u \in Nat /\ one \in Nat /\ max_msgs \in Nat \ {0}
    BY <1>1
  <2>2. SameRing(max_msgs, old, new, h, u)
    BY <1>7 DEF SameRing
  <2> HIDE DEF h, u, old, new, one
  <2>3. /\ Len(Ring(max_msgs, new, h, u + one)) = u + one
        /\ SubSeq(Ring(max_msgs, new, h, u + one), 1, u) = Ring(max_msgs, old, h, u)
    BY <2>1, <2>2, RingPush
  <2> QED BY <2>3 DEF h, u, old, new, one
<1>9. Contents' = Ring(max_msgs, mq'.buf, mq.head, mq.used + 1)
  BY <1>3 DEF Contents, Ring
<1>10. Len(Contents) = mq.used
  BY <1>1 DEF Contents
<1>11. Len(Contents') \in (Len(Contents) + 1)..max_msgs /\ SubSeq(Contents', 1, Len(Contents)) = Contents
  BY <1>1, <1>8, <1>9, <1>10, ContentsIs
<1>12. Messages!Push
  BY <1>11 DEF Messages!Push
<1> QED
  BY <1>6, <1>12 DEF FifoStep

(* Taking the message at head takes the first.                             *)
LEMMA FetchPops ==
  ASSUME MqOK, mq.used > 0, Fetch
  PROVE  MqOK' /\ FifoStep
<1>1. /\ max_msgs \in Nat \ {0} /\ mq.head \in Nat /\ mq.used \in Nat \ {0}
      /\ mq.used - 1 \in 0..max_msgs /\ 1 \in 0..mq.used
  BY MsgqAssumption DEF MqOK, Slot
<1>2. mq' = [buf |-> mq.buf, head |-> (mq.head + 1) % max_msgs, tail |-> mq.tail,
             used |-> mq.used - 1]
  BY DEF Fetch, MqOK
<1>3. (mq.head + 1) % max_msgs \in Slot
  <2>1. mq.head + 1 \in Int
    BY <1>1
  <2> QED BY <1>1, <2>1, ModOf DEF Slot
<1>4. (((mq.head + 1) % max_msgs) + (mq.used - 1)) % max_msgs = (mq.head + mq.used) % max_msgs
  <2>1. mq.head + 1 \in Int /\ mq.used - 1 \in Int /\ (mq.head + 1) + (mq.used - 1) = mq.head + mq.used
    BY <1>1
  <2> QED BY <1>1, <2>1, ModAdd
<1>5. MqOK'
  BY <1>1, <1>2, <1>3, <1>4 DEF MqOK
<1>6. /\ Len(Contents) = mq.used
      /\ Ring(max_msgs, mq.buf, mq.head, 1) = SubSeq(Contents, 1, 1)
      /\ Ring(max_msgs, mq.buf, (mq.head + 1) % max_msgs, mq.used - 1) = SubSeq(Contents, 1 + 1, mq.used)
  <2> DEFINE h == mq.head
             u == mq.used
             b == mq.buf
             one == 1
  <2>1. h \in Int /\ u \in Nat /\ one \in 0..u /\ max_msgs \in Nat \ {0}
    BY <1>1
  <2> HIDE DEF h, u, b, one
  <2>2. Popped(max_msgs, b, h, u, one)
    BY <2>1, RingPop
  <2> QED BY <2>2, ContentsIs DEF h, u, b, one, Popped
<1>7. Contents' = Ring(max_msgs, mq.buf, (mq.head + 1) % max_msgs, mq.used - 1)
  BY <1>2 DEF Contents, Ring
<1>8. Ring(max_msgs, mq.buf, mq.head, 1) = <<mq.buf[mq.head]>>
  <2>1. (mq.head + 1 - 1) % max_msgs = mq.head
    <3>1. mq.head + 1 - 1 = max_msgs * 0 + mq.head /\ mq.head + 1 - 1 \in Int
      BY <1>1
    <3>2. 0 \in Int /\ mq.head \in 0..(max_msgs - 1)
      BY DEF MqOK, Slot
    <3> QED BY <1>1, <3>1, <3>2, ModIs, Zenon
  <2>2. \A i \in 1..1 : (mq.head + i - 1) % max_msgs = mq.head
    BY <2>1
  <2> QED BY <2>2 DEF Ring
<1>9. Messages!Pop
  <2>1. 1 \in 1..Len(Contents)
    BY <1>1, <1>6
  <2>2. received' = SubSeq(Contents, 1, 1) /\ Contents' = SubSeq(Contents, 1 + 1, Len(Contents))
    BY <1>6, <1>7, <1>8 DEF Fetch
  <2> QED BY <2>1, <2>2 DEF Messages!Pop
<1> QED
  BY <1>5, <1>9 DEF FifoStep

(* vibe_msgq_init.                                                         *)
LEMMA MsgqStarts ==
  ASSUME vibe_msgq_init
  PROVE  MqOK /\ Messages!FifoInit
<1>1. max_msgs \in Nat \ {0}
  BY MsgqAssumption
<1>2. (0 + 0) % max_msgs = 0
  <2>1. 0 + 0 = max_msgs * 0 + 0 /\ 0 \in 0..(max_msgs - 1)
    BY <1>1
  <2> QED BY <1>1, <2>1, ModIs
<1>3. MqOK
  BY <1>1, <1>2 DEF vibe_msgq_init, MqOK, Slot
<1>4. Contents = <<>>
  BY DEF vibe_msgq_init, Contents
<1> QED BY <1>3, <1>4 DEF vibe_msgq_init, Messages!FifoInit

(* No step of a call corrupts the ring, and each is a step of the FIFO.    *)
LEMMA MsgqFifoStep ==
  ASSUME MqOK, MsgqNext \/ UNCHANGED mqvars
  PROVE  MqOK' /\ FifoStep
<1>0. ASSUME UNCHANGED <<mq, received>> PROVE MqOK' /\ FifoStep
  BY <1>0 DEF MqOK, FifoStep, Contents
<1>n. mq.used \in Nat /\ max_msgs \in Nat
  BY MsgqAssumption DEF MqOK
<1>1. ASSUME NEW t \in Thread, PutResumes(t) PROVE MqOK' /\ FifoStep
  <2>1. CASE mq.used < max_msgs
    BY <1>1, <2>1, StorePushes DEF PutResumes
  <2>2. CASE ~(mq.used < max_msgs)
    BY <1>0, <1>1, <2>2 DEF PutResumes
  <2> QED
    BY <2>1, <2>2
<1>2. ASSUME NEW t \in Thread, GetResumes(t) PROVE MqOK' /\ FifoStep
  <2>1. CASE mq.used > 0
    BY <1>2, <2>1, FetchPops DEF GetResumes
  <2>2. CASE ~(mq.used > 0)
    BY <1>0, <1>2, <2>2 DEF GetResumes
  <2> QED
    BY <2>1, <2>2
<1>3. ASSUME NEW t \in Thread, vibe_msgq_get(t) PROVE MqOK' /\ FifoStep
  BY <1>0, <1>3, FetchPops DEF vibe_msgq_get
<1>4. ASSUME NEW t \in Thread, NEW m \in Msg, vibe_msgq_put(t, m) PROVE MqOK' /\ FifoStep
  BY <1>0, <1>4, StorePushes DEF vibe_msgq_put
<1>5. ASSUME vibe_msgq_purge PROVE MqOK' /\ FifoStep
  <2>1. mq' = [buf |-> mq.buf, head |-> 0, tail |-> 0, used |-> 0]
    BY <1>5 DEF vibe_msgq_purge, MqOK
  <2>2. 0 = (0 + 0) % max_msgs
    <3>1. max_msgs \in Nat \ {0} /\ 0 + 0 = max_msgs * 0 + 0 /\ 0 \in 0..(max_msgs - 1)
      BY MsgqAssumption
    <3> QED BY <3>1, ModIs
  <2>3. MqOK'
    BY <2>1, <2>2, MsgqAssumption DEF MqOK, Slot
  <2>4. Contents' = <<>>
    BY <2>1 DEF Contents
  <2> QED
    BY <1>5, <2>3, <2>4 DEF vibe_msgq_purge, Messages!Clear, FifoStep
<1> QED
  BY <1>0, <1>1, <1>2, <1>3, <1>4, <1>5 DEF MsgqNext, mqvars

MsgqKept ==
  /\ WaitLists' /\ \A l \in WaitList \ {"msgq_read", "msgq_write"} : Untouched(l)
  /\ MsgqNoStranded => MsgqNoStranded'

LEMMA MqFrame ==
  ASSUME MsgqNoStranded, UNCHANGED mqvars, Untouched("msgq_read"), Untouched("msgq_write")
  PROVE  MsgqNoStranded'
BY DEF MsgqNoStranded, MsgqReaders, MsgqWriters, mqvars, Untouched

LEMMA MqNumbers ==
  ASSUME MqOK
  PROVE  /\ max_msgs \in Nat \ {0} /\ mq.used \in Nat /\ mq.used <= max_msgs
         /\ Cardinality(Woken("msgq_read")) \in Nat /\ Cardinality(Woken("msgq_write")) \in Nat
BY MsgqAssumption, WokenFinite DEF MqOK, Woken

(* Who is not overlooked after a step was not before and is not now.       *)
LEMMA OverlooksIs ==
  ASSUME NEW L, Overlooks(L)
  PROVE  /\ waitq'["msgq_read"] # <<>> /\ "msgq_read" \notin overlooked' /\ mq'.used > 0
              => "msgq_read" \notin overlooked \cup L
         /\ waitq'["msgq_write"] # <<>> /\ "msgq_write" \notin overlooked' /\ mq'.used < max_msgs
              => "msgq_write" \notin overlooked \cup L
BY DEF Overlooks

(* A woken thread tries its transfer once more: if it succeeds, it is the  *)
(* one that was on its way, and those of the other side are overlooked.    *)
LEMMA MsgqResumes ==
  ASSUME WaitLists, MqOK, NEW t \in Thread, PutResumes(t) \/ GetResumes(t)
  PROVE  MsgqKept
<1>l. "msgq_read" \in WaitList /\ "msgq_write" \in WaitList /\ "msgq_read" # "msgq_write"
  BY DEF WaitList
<1>1. CASE PutResumes(t)
  <2>1. /\ WaitLists' /\ \A l \in WaitList \ {"msgq_write"} : Untouched(l)
        /\ waitq' = waitq /\ t \in Woken("msgq_write")
        /\ Cardinality(Woken("msgq_write")') = Cardinality(Woken("msgq_write")) - 1
    BY <1>1, <1>l, ResumeWaits DEF PutResumes
  <2>2. Woken("msgq_read")' = Woken("msgq_read") /\ Cardinality(Woken("msgq_write")) > 0
    <3>1. Woken("msgq_write") # {} /\ Woken("msgq_write") \subseteq Thread
      BY <2>1 DEF Woken
    <3> QED BY <1>l, <2>1, <3>1, WokenFinite DEF Untouched
  <2>3. CASE mq.used < max_msgs
    <3>1. mq'.used = mq.used + 1 /\ Overlooks({"msgq_read"})
      BY <1>1, <2>3 DEF PutResumes, Store, MqOK
    <3>2. MsgqReaders'
      BY <3>1, MqNumbers, OverlooksIs DEF MsgqReaders
    <3>3. MsgqWriters => MsgqWriters'
      BY <1>l, <2>1, <2>2, <3>1, MqNumbers, OverlooksIs DEF MsgqWriters
    <3> QED BY <2>1, <3>2, <3>3 DEF MsgqKept, MsgqNoStranded
  <2>4. CASE ~(mq.used < max_msgs)
    <3>1. mq' = mq /\ overlooked' = overlooked /\ mq.used = max_msgs
      BY <1>1, <2>4, MqNumbers DEF PutResumes
    <3>2. MsgqReaders => MsgqReaders'
      BY <2>1, <2>2, <3>1 DEF MsgqReaders
    <3>3. MsgqWriters'
      BY <2>1, <2>2, <3>1, MqNumbers DEF MsgqWriters
    <3> QED BY <2>1, <3>2, <3>3 DEF MsgqKept, MsgqNoStranded
  <2> QED BY <2>3, <2>4
<1>2. CASE GetResumes(t)
  <2>1. /\ WaitLists' /\ \A l \in WaitList \ {"msgq_read"} : Untouched(l)
        /\ waitq' = waitq /\ t \in Woken("msgq_read")
        /\ Cardinality(Woken("msgq_read")') = Cardinality(Woken("msgq_read")) - 1
    BY <1>2, <1>l, ResumeWaits DEF GetResumes
  <2>2. Woken("msgq_write")' = Woken("msgq_write") /\ Cardinality(Woken("msgq_read")) > 0
    <3>1. Woken("msgq_read") # {} /\ Woken("msgq_read") \subseteq Thread
      BY <2>1 DEF Woken
    <3> QED BY <1>l, <2>1, <3>1, WokenFinite DEF Untouched
  <2>3. CASE mq.used > 0
    <3>1. mq'.used = mq.used - 1 /\ Overlooks({"msgq_write"})
      BY <1>2, <2>3 DEF GetResumes, Fetch, MqOK
    <3>2. MsgqWriters'
      BY <3>1, MqNumbers, OverlooksIs DEF MsgqWriters
    <3>3. MsgqReaders => MsgqReaders'
      BY <1>l, <2>1, <2>2, <3>1, MqNumbers, OverlooksIs DEF MsgqReaders
    <3> QED BY <2>1, <3>2, <3>3 DEF MsgqKept, MsgqNoStranded
  <2>4. CASE ~(mq.used > 0)
    <3>1. mq' = mq /\ overlooked' = overlooked /\ mq.used = 0
      BY <1>2, <2>4, MqNumbers DEF GetResumes
    <3>2. MsgqWriters => MsgqWriters'
      BY <2>1, <2>2, <3>1 DEF MsgqWriters
    <3>3. MsgqReaders'
      BY <2>1, <2>2, <3>1, MqNumbers DEF MsgqReaders
    <3> QED BY <2>1, <3>2, <3>3 DEF MsgqKept, MsgqNoStranded
  <2> QED BY <2>3, <2>4
<1> QED BY <1>1, <1>2

(* A put that finds room wakes a reader, a get that finds a message wakes  *)
(* a writer; the others block.                                             *)
LEMMA MsgqCalls ==
  ASSUME WaitLists, MqOK, NEW t \in Thread,
         vibe_msgq_get(t) \/ \E m \in Msg : vibe_msgq_put(t, m)
  PROVE  MsgqKept
<1>l. "msgq_read" \in WaitList /\ "msgq_write" \in WaitList /\ "msgq_read" # "msgq_write"
  BY DEF WaitList
<1>o. Overlooks({})
  BY DEF vibe_msgq_get, vibe_msgq_put
<1>1. ASSUME NEW m, Store(m), WakeHead("msgq_read") PROVE MsgqKept
  <2>1. /\ WaitLists' /\ \A l \in WaitList \ {"msgq_read"} : Untouched(l)
        /\ waitq["msgq_read"] = <<>> => waitq' = waitq
        /\ waitq["msgq_read"] # <<>> => Cardinality(Woken("msgq_read")') = Cardinality(Woken("msgq_read")) + 1
    BY <1>1, <1>l, WakeHeadWaits
  <2>2. mq'.used = mq.used + 1
    BY <1>1 DEF Store, MqOK
  <2>3. waitq'["msgq_write"] = waitq["msgq_write"] /\ Woken("msgq_write")' = Woken("msgq_write")
    BY <1>l, <2>1 DEF Untouched
  <2>4. MsgqReaders => MsgqReaders'
    BY <1>o, <2>1, <2>2, MqNumbers, OverlooksIs DEF MsgqReaders
  <2>5. MsgqWriters => MsgqWriters'
    BY <1>o, <2>2, <2>3, MqNumbers, OverlooksIs DEF MsgqWriters
  <2> QED BY <2>1, <2>4, <2>5 DEF MsgqKept, MsgqNoStranded
<1>2. ASSUME Fetch, WakeHead("msgq_write") PROVE MsgqKept
  <2>1. /\ WaitLists' /\ \A l \in WaitList \ {"msgq_write"} : Untouched(l)
        /\ waitq["msgq_write"] = <<>> => waitq' = waitq
        /\ waitq["msgq_write"] # <<>> => Cardinality(Woken("msgq_write")') = Cardinality(Woken("msgq_write")) + 1
    BY <1>2, <1>l, WakeHeadWaits
  <2>2. mq'.used = mq.used - 1
    BY <1>2 DEF Fetch, MqOK
  <2>3. waitq'["msgq_read"] = waitq["msgq_read"] /\ Woken("msgq_read")' = Woken("msgq_read")
    BY <1>l, <2>1 DEF Untouched
  <2>4. MsgqReaders => MsgqReaders'
    BY <1>o, <2>2, <2>3, MqNumbers, OverlooksIs DEF MsgqReaders
  <2>5. MsgqWriters => MsgqWriters'
    BY <1>o, <2>1, <2>2, MqNumbers, OverlooksIs DEF MsgqWriters
  <2> QED BY <2>1, <2>4, <2>5 DEF MsgqKept, MsgqNoStranded
<1>3. ASSUME mq.used >= max_msgs, status[t] = "ready", Block(t, "msgq_write"), UNCHANGED mq
      PROVE  MsgqKept
  <2>1. /\ WaitLists' /\ \A l \in WaitList \ {"msgq_write"} : Untouched(l)
        /\ Woken("msgq_write")' = Woken("msgq_write")
    BY <1>3, <1>l, BlockWaits
  <2>2. waitq'["msgq_read"] = waitq["msgq_read"] /\ Woken("msgq_read")' = Woken("msgq_read")
    BY <1>l, <2>1 DEF Untouched
  <2>3. MsgqWriters'
    BY <1>3, <2>1, MqNumbers DEF MsgqWriters
  <2>4. MsgqReaders => MsgqReaders'
    BY <1>3, <1>o, <2>2, MqNumbers, OverlooksIs DEF MsgqReaders
  <2> QED BY <2>1, <2>3, <2>4 DEF MsgqKept, MsgqNoStranded
<1>4. ASSUME mq.used = 0, status[t] = "ready", Block(t, "msgq_read"), UNCHANGED mq
      PROVE  MsgqKept
  <2>1. /\ WaitLists' /\ \A l \in WaitList \ {"msgq_read"} : Untouched(l)
        /\ Woken("msgq_read")' = Woken("msgq_read")
    BY <1>4, <1>l, BlockWaits
  <2>2. waitq'["msgq_write"] = waitq["msgq_write"] /\ Woken("msgq_write")' = Woken("msgq_write")
    BY <1>l, <2>1 DEF Untouched
  <2>3. MsgqReaders'
    BY <1>4, <2>1, MqNumbers DEF MsgqReaders
  <2>4. MsgqWriters => MsgqWriters'
    BY <1>4, <1>o, <2>2, MqNumbers, OverlooksIs DEF MsgqWriters
  <2> QED BY <2>1, <2>3, <2>4 DEF MsgqKept, MsgqNoStranded
<1> QED BY <1>1, <1>2, <1>3, <1>4 DEF vibe_msgq_get, vibe_msgq_put

(* Purging empties the queue and the list of the writers.                  *)
LEMMA MsgqPurges ==
  ASSUME WaitLists, MqOK, vibe_msgq_purge
  PROVE  MsgqKept
<1>l. "msgq_read" \in WaitList /\ "msgq_write" \in WaitList /\ "msgq_read" # "msgq_write"
  BY DEF WaitList
<1> DEFINE W == Elems(waitq["msgq_write"])
<1>1. /\ WaitLists' /\ \A l \in WaitList \ {"msgq_write"} : Untouched(l)
      /\ \A x : (\E k \in 1..Len(waitq'["msgq_write"]) : waitq'["msgq_write"][k] = x)
                  <=> x \notin W /\ \E k \in 1..Len(waitq["msgq_write"]) : waitq["msgq_write"][k] = x
  <2>1. Wake("msgq_write", W) /\ W \subseteq W
    BY DEF vibe_msgq_purge
  <2> HIDE DEF W
  <2> QED BY <1>l, <2>1, WakeWaits DEF W
<1>2. waitq'["msgq_write"] = <<>>
  <2>1. waitq["msgq_write"] \in Seq(Thread) /\ waitq'["msgq_write"] \in Seq(Thread)
    BY <1>l, <1>1 DEF WaitLists
  <2>2. \A k \in 1..Len(waitq["msgq_write"]) : waitq["msgq_write"][k] \in W
    BY <2>1 DEF Elems
  <2>3. ~\E k \in 1..Len(waitq'["msgq_write"]) : TRUE
    BY <1>1, <2>2
  <2> QED BY <2>1, <2>3
<1>3. Woken("msgq_read")' = Woken("msgq_read") /\ mq'.used = 0
  BY <1>l, <1>1 DEF Untouched, vibe_msgq_purge, MqOK
<1>4. MsgqReaders' /\ MsgqWriters'
  BY <1>2, <1>3, MqNumbers DEF MsgqReaders, MsgqWriters
<1> QED BY <1>1, <1>4 DEF MsgqKept, MsgqNoStranded

(* Every call of a message queue.                                          *)
LEMMA MsgqStep ==
  ASSUME WaitLists, MqOK, MsgqNext
  PROVE  MsgqKept
BY MsgqResumes, MsgqCalls, MsgqPurges DEF MsgqNext

-----------------------------------------------------------------------------
(* Event flags                                                             *)

(* Whoever waits for flags has left its condition in its context, and the  *)
(* flags that are set do not satisfy it.                                   *)
EvPart ==
  /\ ctx \in [Thread -> [wait_flags : SUBSET Flag, wait_mode : Mode, satisfied : BOOLEAN]]
  /\ \A t \in Thread : status[t] = "waiting" =>
       ~flags_satisfied(flags, ctx[t].wait_flags, ctx[t].wait_mode)

(* One step of EventExact.                                                 *)
WokenExactly ==
  \A t \in Thread : status[t] = "waiting" =>
    (status'[t] = "event" <=> flags_satisfied(flags', ctx[t].wait_flags, ctx[t].wait_mode))

(* Clearing flags satisfies nobody.                                        *)
LEMMA ClearSatisfiesNobody ==
  ASSUME NEW f, NEW old, NEW want, NEW how, ~flags_satisfied(f, want, how)
  PROVE  ~flags_satisfied(f \ old, want, how)
BY DEF flags_satisfied

(* Every call of kernel/event.c keeps the wait lists; with TLS, a post     *)
(* wakes exactly those whose condition it satisfies, if nobody waits for   *)
(* anything else.                                                          *)
LEMMA EventStep ==
  ASSUME WaitLists, EventNext
  PROVE  /\ WaitLists' /\ \A l \in WaitList \ {"event"} : Untouched(l)
         /\ CONFIG_TLS /\ EvPart /\ (\A l \in WaitList \ {"event"} : waitq[l] = <<>>)
              => EvPart' /\ WokenExactly
<1>l. "event" \in WaitList /\ "event" # "waiting" /\ "ready" # "waiting"
  BY DEF WaitList
<1> DEFINE Alone == CONFIG_TLS /\ EvPart /\ \A l \in WaitList \ {"event"} : waitq[l] = <<>>
           Goal == /\ WaitLists' /\ \A l \in WaitList \ {"event"} : Untouched(l)
                   /\ Alone => EvPart' /\ WokenExactly
<1>1. ASSUME NEW s \in SUBSET Flag, vibe_event_post(s) PROVE Goal
  <2> DEFINE W == {t \in Elems(waitq["event"]) : Satisfied(t, flags \cup s)}
  <2>1. /\ flags' = flags \cup s /\ Wake("event", W)
        /\ ctx' = [t \in Thread |-> IF t \in W THEN [ctx[t] EXCEPT !.satisfied = TRUE] ELSE ctx[t]]
    BY <1>1 DEF vibe_event_post
  <2>2. W \subseteq Elems(waitq["event"])
    OBVIOUS
  <2>3. /\ WaitLists' /\ \A l \in WaitList \ {"event"} : Untouched(l)
    <3> HIDE DEF W
    <3> QED BY <1>l, <2>1, <2>2, WakeWaits
  <2>4. status' = [t \in Thread |-> IF t \in W THEN "event" ELSE status[t]]
    BY <2>1 DEF Wake
  <2>5. ASSUME Alone PROVE EvPart' /\ WokenExactly
    <3>1. \A t \in Thread : status[t] = "waiting" => t \in Elems(waitq["event"])
      BY <2>5 DEF WaitLists, Elems
    <3>2. \A t \in Thread : status[t] = "waiting" =>
            (t \in W <=> flags_satisfied(flags', ctx[t].wait_flags, ctx[t].wait_mode))
      BY <2>1, <2>5, <3>1 DEF Satisfied
    <3> HIDE DEF W
    <3>3. WokenExactly
      BY <1>l, <2>4, <3>2 DEF WokenExactly
    <3>4. ctx' \in [Thread -> [wait_flags : SUBSET Flag, wait_mode : Mode, satisfied : BOOLEAN]]
      BY <2>1, <2>5 DEF EvPart
    <3>5. \A t \in Thread : status'[t] = "waiting" => status[t] = "waiting" /\ t \notin W /\ ctx'[t] = ctx[t]
      BY <1>l, <2>1, <2>4
    <3> QED BY <3>2, <3>3, <3>4, <3>5 DEF EvPart
  <2> QED BY <2>3, <2>5
<1>2. ASSUME NEW s \in SUBSET Flag, vibe_event_clear(s) PROVE Goal
  <2>1. flags' = flags \ s /\ UNCHANGED <<ctx, status, waitq>>
    BY <1>2 DEF vibe_event_clear
  <2>2. WaitLists' /\ \A l \in WaitList \ {"event"} : Untouched(l)
    BY <2>1 DEF WaitLists, Untouched, Woken
  <2>3. ASSUME Alone PROVE EvPart' /\ WokenExactly
    BY <1>l, <2>1, <2>3, ClearSatisfiesNobody DEF EvPart, WokenExactly
  <2> QED BY <2>2, <2>3
<1>3. ASSUME NEW s \in SUBSET Flag, NEW t \in Thread, NEW how \in Mode, vibe_event_wait(t, s, how)
      PROVE  Goal
  <2>1. WaitLists' /\ \A l \in WaitList \ {"event"} : Untouched(l)
    BY <1>l, <1>3, BlockWaits DEF vibe_event_wait
  <2>2. /\ status[t] = "ready" /\ ~flags_satisfied(flags, s, how) /\ flags' = flags
        /\ status' = [status EXCEPT ![t] = "waiting"]
    BY <1>3 DEF vibe_event_wait, Block
  <2>3. ASSUME Alone PROVE EvPart' /\ WokenExactly
    <3>1. ctx' = [ctx EXCEPT ![t] = [wait_flags |-> s, wait_mode |-> how, satisfied |-> FALSE]]
      BY <1>3, <2>3 DEF vibe_event_wait
    <3>2. WokenExactly
      BY <1>l, <2>2, <2>3 DEF WokenExactly, EvPart, WaitLists
    <3>3. ctx' \in [Thread -> [wait_flags : SUBSET Flag, wait_mode : Mode, satisfied : BOOLEAN]]
      BY <2>3, <3>1 DEF EvPart
    <3>4. ctx'[t].wait_flags = s /\ ctx'[t].wait_mode = how
      BY <2>3, <3>1 DEF EvPart
    <3>5. \A u \in Thread : status'[u] = "waiting" =>
            ~flags_satisfied(flags', ctx'[u].wait_flags, ctx'[u].wait_mode)
      <4> TAKE u \in Thread
      <4>1. CASE u = t
        BY <4>1, <2>2, <3>4
      <4>2. CASE u # t
        BY <4>2, <2>2, <2>3, <3>1 DEF EvPart, WaitLists
      <4> QED BY <4>1, <4>2
    <3> QED BY <3>2, <3>3, <3>5 DEF EvPart
  <2> QED BY <2>1, <2>3
<1>4. ASSUME NEW t \in Thread, EventReturns(t) PROVE Goal
  <2>1. WaitLists' /\ \A l \in WaitList \ {"event"} : Untouched(l)
    BY <1>l, <1>4, ResumeWaits DEF EventReturns
  <2>2. status[t] = "event" /\ status' = [status EXCEPT ![t] = "ready"] /\ UNCHANGED <<flags, ctx>>
    BY <1>4 DEF EventReturns, Resume, evvars
  <2>3. ASSUME Alone PROVE EvPart' /\ WokenExactly
    BY <1>l, <2>2, <2>3 DEF EvPart, WokenExactly, WaitLists
  <2> QED BY <2>1, <2>3
<1> QED BY <1>1, <1>2, <1>3, <1>4 DEF EventNext

-----------------------------------------------------------------------------
(* Pipes                                                                   *)

PipeSlot == 0..(size - 1)

Call == [src : Seq(Byte), len : Nat, moved : Nat, timeout : Wait]

(* The ring is like that of a message queue; a call in progress has        *)
(* something left to move.                                                 *)
PipeOK ==
  /\ use \in PipeUses
  /\ pipe = [buf |-> pipe.buf, head |-> pipe.head, tail |-> pipe.tail, used |-> pipe.used]
  /\ pipe.buf = [i \in PipeSlot |-> pipe.buf[i]]
  /\ pipe.head \in PipeSlot /\ pipe.used \in 0..size
  /\ pipe.tail = (pipe.head + pipe.used) % size
  /\ xfer \in [Thread -> Call]
  /\ \A t \in Thread : xfer[t] # NoCall => xfer[t].moved < xfer[t].len

StreamStep == [Stream!Push \/ Stream!Pop \/ Stream!Clear]_<<InPipe, delivered>>

LEMMA InPipeIs == InPipe = Ring(size, pipe.buf, pipe.head, pipe.used)
  BY DEF InPipe, Ring

LEMMA NoCallType == NoCall \in Call
<1>1. <<>> \in Seq(Byte)
  OBVIOUS
<1> QED BY <1>1 DEF NoCall, Call, Wait

(* vibe_pipe_init.                                                         *)
LEMMA PipeStarts ==
  ASSUME vibe_pipe_init, use \in PipeUses
  PROVE  PipeOK /\ Stream!FifoInit
<1>1. size \in Nat \ {0}
  BY PipeAssumption
<1>2. (0 + 0) % size = 0
  <2>1. 0 + 0 = size * 0 + 0 /\ 0 \in 0..(size - 1)
    BY <1>1
  <2> QED BY <1>1, <2>1, ModIs
<1>3. xfer = [t \in Thread |-> NoCall] /\ xfer \in [Thread -> Call]
  BY NoCallType DEF vibe_pipe_init
<1>4. PipeOK
  BY <1>1, <1>2, <1>3 DEF vibe_pipe_init, PipeOK, PipeSlot
<1>5. InPipe = <<>>
  BY DEF vibe_pipe_init, InPipe
<1> QED BY <1>4, <1>5 DEF vibe_pipe_init, Stream!FifoInit

(* n bytes moved: the call goes on with some left, or has returned.        *)
LEMMA MovedKeeps ==
  ASSUME PipeOK, NEW t \in Thread, xfer[t] # NoCall, NEW n \in Nat,
         n <= xfer[t].len - xfer[t].moved, Moved(t, n)
  PROVE  /\ xfer' \in [Thread -> Call]
         /\ \A u \in Thread : xfer'[u] # NoCall => xfer'[u].moved < xfer'[u].len
<1> DEFINE c == xfer[t]
<1>1. c \in Call /\ c.len \in Nat /\ c.moved \in Nat
  BY DEF PipeOK, Call
<1>2. CASE c.moved + n = c.len
  <2>1. xfer' = [xfer EXCEPT ![t] = NoCall]
    BY <1>2 DEF Moved, PipeOK
  <2> QED BY <2>1, NoCallType DEF PipeOK
<1>3. CASE c.moved + n # c.len
  <2>1. xfer' = [xfer EXCEPT ![t] = [c EXCEPT !.moved = c.moved + n]]
    BY <1>3 DEF Moved, PipeOK
  <2>2. [c EXCEPT !.moved = c.moved + n] \in Call
    BY <1>1 DEF Call
  <2>3. [c EXCEPT !.moved = c.moved + n].moved = c.moved + n /\ [c EXCEPT !.moved = c.moved + n].len = c.len
    BY <1>1 DEF Call
  <2>4. c.moved + n < c.len
    BY <1>1, <1>3
  <2> QED BY <2>1, <2>2, <2>3, <2>4 DEF PipeOK
<1> QED BY <1>2, <1>3

(* A turn of vibe_pipe_write appends the bytes that fit.                   *)
LEMMA WritePushes ==
  ASSUME PipeOK, NEW t \in Thread, WriteTurn(t)
  PROVE  PipeOK' /\ StreamStep
<1> DEFINE n == ToWrite(t)
<1>1. /\ size \in Nat \ {0} /\ pipe.head \in Nat /\ pipe.used \in Nat /\ pipe.used < size
      /\ xfer[t] # NoCall /\ xfer[t].len \in Nat /\ xfer[t].moved \in Nat
      /\ xfer[t].moved < xfer[t].len
  BY PipeAssumption DEF PipeOK, PipeSlot, WriteTurn, Writing, Call
<1>2. /\ n \in Nat \ {0} /\ n <= xfer[t].len - xfer[t].moved /\ pipe.used + n <= size
  BY <1>1 DEF ToWrite, Least
<1> HIDE DEF n
<1>3. /\ pipe' = [buf |-> [i \in PipeSlot |->
                       IF \E k \in 1..n : i = (pipe.tail + k - 1) % size
                       THEN xfer[t].src[xfer[t].moved
                              + CHOOSE k \in 1..n : i = (pipe.tail + k - 1) % size]
                       ELSE pipe.buf[i]],
                  head |-> pipe.head, tail |-> (pipe.tail + n) % size, used |-> pipe.used + n]
      /\ Moved(t, n) /\ UNCHANGED <<delivered, use>>
  BY Zenon DEF WriteTurn, PipeOK, PipeSlot, n
<1>4. (pipe.tail + n) % size = (pipe.head + (pipe.used + n)) % size
  <2>1. pipe.tail = (pipe.head + pipe.used) % size /\ pipe.head + pipe.used \in Int /\ n \in Int
    BY <1>1, <1>2 DEF PipeOK
  <2>2. (((pipe.head + pipe.used) % size) + n) % size = ((pipe.head + pipe.used) + n) % size
    BY <1>1, <2>1, ModAdd
  <2>3. (pipe.head + pipe.used) + n = pipe.head + (pipe.used + n)
    BY <1>1, <1>2
  <2> QED BY <2>1, <2>2, <2>3
<1>5. pipe'.buf = [i \in PipeSlot |-> pipe'.buf[i]]
  BY <1>3, SMTT(30)
<1>6. PipeOK'
  <2>1. /\ xfer' \in [Thread -> Call]
        /\ \A u \in Thread : xfer'[u] # NoCall => xfer'[u].moved < xfer'[u].len
    BY <1>1, <1>2, <1>3, MovedKeeps
  <2>2. pipe.used + n \in 0..size
    BY <1>1, <1>2
  <2> QED BY <1>1, <1>3, <1>4, <1>5, <2>1, <2>2 DEF PipeOK
<1>7. \A i \in 1..pipe.used : pipe'.buf[(pipe.head + i - 1) % size] = pipe.buf[(pipe.head + i - 1) % size]
  <2> TAKE i \in 1..pipe.used
  <2>1. (pipe.head + i - 1) % size \in PipeSlot
    <3>1. pipe.head + i - 1 \in Int
      BY <1>1
    <3> QED BY <1>1, <3>1, ModOf DEF PipeSlot
  <2>2. ASSUME NEW k \in 1..n PROVE (pipe.head + i - 1) % size # (pipe.tail + k - 1) % size
    <3>1. /\ pipe.head + i - 1 \in Int /\ (pipe.head + pipe.used) + (k - 1) \in Int
          /\ pipe.head + i - 1 <= (pipe.head + pipe.used) + (k - 1)
          /\ pipe.head + i - 1 # (pipe.head + pipe.used) + (k - 1)
          /\ (pipe.head + pipe.used) + (k - 1) < (pipe.head + i - 1) + size
      BY <1>1, <1>2
    <3>2. (pipe.head + i - 1) % size # ((pipe.head + pipe.used) + (k - 1)) % size
      BY <1>1, <3>1, ModInj
    <3>3. (((pipe.head + pipe.used) % size) + (k - 1)) % size = ((pipe.head + pipe.used) + (k - 1)) % size
      <4>1. pipe.head + pipe.used \in Int /\ k - 1 \in Int
        BY <1>1
      <4> QED BY <1>1, <4>1, ModAdd
    <3>4. pipe.tail \in Int /\ pipe.tail = (pipe.head + pipe.used) % size
      <4>1. pipe.head + pipe.used \in Int
        BY <1>1
      <4> QED BY <1>1, <4>1, ModOf DEF PipeOK
    <3>5. pipe.tail + (k - 1) = pipe.tail + k - 1
      BY <3>4
    <3> QED BY <3>2, <3>3, <3>4, <3>5
  <2> QED BY <1>3, <2>1, <2>2
<1>8. /\ Len(Ring(size, pipe'.buf, pipe.head, pipe.used + n)) = pipe.used + n
      /\ SubSeq(Ring(size, pipe'.buf, pipe.head, pipe.used + n), 1, pipe.used)
           = Ring(size, pipe.buf, pipe.head, pipe.used)
  <2> DEFINE h == pipe.head
             u == pipe.used
             old == pipe.buf
             new == pipe'.buf
  <2>1. h \in Int /\ u \in Nat /\ n \in Nat /\ size \in Nat \ {0}
    BY <1>1, <1>2
  <2>2. SameRing(size, old, new, h, u)
    BY <1>7 DEF SameRing
  <2> HIDE DEF h, u, old, new
  <2>3. /\ Len(Ring(size, new, h, u + n)) = u + n
        /\ SubSeq(Ring(size, new, h, u + n), 1, u) = Ring(size, old, h, u)
    BY <2>1, <2>2, RingPush
  <2> QED BY <2>3 DEF h, u, old, new
<1>9. InPipe' = Ring(size, pipe'.buf, pipe.head, pipe.used + n)
  BY <1>3 DEF InPipe, Ring
<1>10. Len(InPipe) = pipe.used
  BY <1>1 DEF InPipe
<1>11. Len(InPipe') \in (Len(InPipe) + 1)..size /\ SubSeq(InPipe', 1, Len(InPipe)) = InPipe
  <2>1. Len(InPipe') = pipe.used + n /\ SubSeq(InPipe', 1, Len(InPipe)) = InPipe
    BY <1>8, <1>9, <1>10, InPipeIs, Zenon
  <2>2. pipe.used + n \in (pipe.used + 1)..size
    BY <1>1, <1>2
  <2> QED BY <1>10, <2>1, <2>2, Zenon
<1>12. Stream!Push
  BY <1>3, <1>11 DEF Stream!Push
<1> QED
  BY <1>6, <1>12 DEF StreamStep

(* A turn of vibe_pipe_read takes the first bytes.                         *)
LEMMA ReadPops ==
  ASSUME PipeOK, NEW t \in Thread, ReadTurn(t)
  PROVE  PipeOK' /\ StreamStep
<1> DEFINE n == Least(xfer[t].len - xfer[t].moved, pipe.used)
<1>1. /\ size \in Nat \ {0} /\ pipe.head \in Nat /\ pipe.used \in Nat \ {0} /\ pipe.used <= size
      /\ xfer[t] # NoCall /\ xfer[t].len \in Nat /\ xfer[t].moved \in Nat
      /\ xfer[t].moved < xfer[t].len
  BY PipeAssumption DEF PipeOK, PipeSlot, ReadTurn, Reading, Call
<1>2. n \in Nat \ {0} /\ n <= xfer[t].len - xfer[t].moved /\ n <= pipe.used
  BY <1>1 DEF Least
<1>3. /\ pipe' = [buf |-> pipe.buf, head |-> (pipe.head + n) % size, tail |-> pipe.tail,
                  used |-> pipe.used - n]
      /\ Moved(t, n) /\ delivered' = [k \in 1..n |-> pipe.buf[(pipe.head + k - 1) % size]]
      /\ UNCHANGED use
  BY DEF ReadTurn, PipeOK
<1> HIDE DEF n
<1>4. (((pipe.head + n) % size) + (pipe.used - n)) % size = (pipe.head + pipe.used) % size
  <2>1. /\ pipe.head + n \in Int /\ pipe.used - n \in Int
        /\ (pipe.head + n) + (pipe.used - n) = pipe.head + pipe.used
    BY <1>1, <1>2
  <2> QED BY <1>1, <2>1, ModAdd
<1>5. (pipe.head + n) % size \in PipeSlot
  <2>1. pipe.head + n \in Int
    BY <1>1, <1>2
  <2> QED BY <1>1, <2>1, ModOf DEF PipeSlot
<1>6. PipeOK'
  <2>1. /\ xfer' \in [Thread -> Call]
        /\ \A u \in Thread : xfer'[u] # NoCall => xfer'[u].moved < xfer'[u].len
    BY <1>1, <1>2, <1>3, MovedKeeps
  <2>2. pipe.used - n \in 0..size
    BY <1>1, <1>2
  <2> QED BY <1>3, <1>4, <1>5, <2>1, <2>2 DEF PipeOK
<1>7. /\ Len(InPipe) = pipe.used
      /\ Ring(size, pipe.buf, pipe.head, n) = SubSeq(InPipe, 1, n)
      /\ Ring(size, pipe.buf, (pipe.head + n) % size, pipe.used - n) = SubSeq(InPipe, n + 1, pipe.used)
  <2> DEFINE h == pipe.head
             u == pipe.used
             b == pipe.buf
  <2>1. h \in Int /\ u \in Nat /\ n \in 0..u /\ size \in Nat \ {0}
    BY <1>1, <1>2
  <2> HIDE DEF h, u, b
  <2>2. Popped(size, b, h, u, n)
    BY <2>1, RingPop
  <2> QED BY <2>2, InPipeIs DEF h, u, b, Popped
<1>8. InPipe' = Ring(size, pipe.buf, (pipe.head + n) % size, pipe.used - n)
  BY <1>3 DEF InPipe, Ring
<1>9. delivered' = Ring(size, pipe.buf, pipe.head, n)
  BY <1>3 DEF Ring
<1>10. Stream!Pop
  <2>1. n \in 1..Len(InPipe)
    BY <1>1, <1>2, <1>7
  <2>2. delivered' = SubSeq(InPipe, 1, n) /\ InPipe' = SubSeq(InPipe, n + 1, Len(InPipe))
    BY <1>7, <1>8, <1>9
  <2> QED BY <2>1, <2>2 DEF Stream!Pop
<1> QED
  BY <1>6, <1>10 DEF StreamStep

(* Every turn of a call keeps the ring and the call, and is a step of the  *)
(* FIFO.                                                                   *)
LEMMA PipeFifoStep ==
  ASSUME PipeOK, PipeNext \/ UNCHANGED pipevars
  PROVE  PipeOK' /\ StreamStep
<1>0. ASSUME UNCHANGED <<pipe, delivered, use>>, xfer' \in [Thread -> Call],
             \A u \in Thread : xfer'[u] # NoCall => xfer'[u].moved < xfer'[u].len
      PROVE  PipeOK' /\ StreamStep
  BY <1>0 DEF PipeOK, StreamStep, InPipe
<1>1. CASE UNCHANGED pipevars
  BY <1>0, <1>1 DEF PipeOK, pipevars
<1>2. ASSUME NEW t \in Thread, Return(t) PROVE PipeOK' /\ StreamStep
  BY <1>0, <1>2, NoCallType DEF Return, PipeOK
<1>u. use.timeouts \subseteq Wait /\ use.bytes \subseteq Byte
  BY PipeAssumption DEF PipeOK
<1>3. ASSUME NEW t \in Thread, NEW n \in 1..MaxLen, NEW timeout \in use.timeouts,
             vibe_pipe_read(t, n, timeout)
      PROVE  PipeOK' /\ StreamStep
  <2>1. xfer' = [xfer EXCEPT ![t] = [src |-> <<>>, len |-> n, moved |-> 0, timeout |-> timeout]]
    BY <1>3 DEF vibe_pipe_read
  <2>2. n \in Nat /\ 0 < n
    BY PipeAssumption
  <2>3. [src |-> <<>>, len |-> n, moved |-> 0, timeout |-> timeout] \in Call
    <3>1. <<>> \in Seq(Byte)
      OBVIOUS
    <3> QED BY <1>u, <2>2, <3>1 DEF Call
  <2>4. UNCHANGED <<pipe, delivered, use>>
    BY <1>3 DEF vibe_pipe_read
  <2> QED BY <1>0, <2>1, <2>2, <2>3, <2>4 DEF PipeOK
<1>4. ASSUME NEW t \in Thread, NEW n \in 1..MaxLen, NEW timeout \in use.timeouts,
             NEW src \in [1..n -> use.bytes], vibe_pipe_write(t, src, timeout)
      PROVE  PipeOK' /\ StreamStep
  <2>1. n \in Nat /\ 0 < n
    BY PipeAssumption
  <2>2. src \in Seq(Byte) /\ Len(src) = n
    <3>1. src \in [1..n -> Byte]
      BY <1>u
    <3> QED BY <2>1, <3>1
  <2>3. xfer' = [xfer EXCEPT ![t] = [src |-> src, len |-> n, moved |-> 0, timeout |-> timeout]]
    BY <1>4, <2>2 DEF vibe_pipe_write
  <2>4. [src |-> src, len |-> n, moved |-> 0, timeout |-> timeout] \in Call
    BY <1>u, <2>1, <2>2 DEF Call
  <2>5. UNCHANGED <<pipe, delivered, use>>
    BY <1>4 DEF vibe_pipe_write
  <2> QED BY <1>0, <2>1, <2>3, <2>4, <2>5 DEF PipeOK
<1>5. ASSUME NEW t \in Thread, Turn(t) PROVE PipeOK' /\ StreamStep
  BY <1>1, <1>2, <1>5, WritePushes, ReadPops DEF Turn, WriteFull, ReadEmpty, PipeResumes
<1> QED
  BY <1>1, <1>3, <1>4, <1>5 DEF PipeNext

(* The threads that wait in list l or have been woken from it.             *)
On(l) == Woken(l) \cup {t \in Thread : \E k \in 1..Len(waitq[l]) : waitq[l][k] = t}

(* Each of them is in the middle of a call of its side.                    *)
SidesOK ==
  /\ \A t \in On("pipe_read") : xfer[t] # NoCall /\ xfer[t].src = <<>>
  /\ \A t \in On("pipe_write") : xfer[t] # NoCall /\ xfer[t].src # <<>>

PipeWait == SidesOK /\ PipeNoStranded

PipeKept ==
  /\ WaitLists' /\ \A l \in WaitList \ {"pipe_read", "pipe_write"} : Untouched(l)
  /\ PipeWait => PipeWait'

(* Somebody is about to move bytes of its own accord.                      *)
ReaderMoves == \E t \in Thread : status[t] = "pipe_read" \/ Reading(t)
WriterMoves == \E t \in Thread : status[t] = "pipe_write" \/ Writing(t)

(* Steps of other objects, while nobody waits for a pipe.                  *)
PipeAlone == object # "pipe" => waitq["pipe_read"] = <<>> /\ waitq["pipe_write"] = <<>>

LEMMA PipeFrame ==
  ASSUME SidesOK, waitq["pipe_read"] = <<>>, waitq["pipe_write"] = <<>>,
         UNCHANGED pipevars, Untouched("pipe_read"), Untouched("pipe_write")
  PROVE  PipeWait' /\ waitq'["pipe_read"] = <<>> /\ waitq'["pipe_write"] = <<>>
<1>1. waitq'["pipe_read"] = <<>> /\ waitq'["pipe_write"] = <<>>
  BY DEF Untouched
<1>2. PipeNoStranded'
  BY <1>1 DEF PipeNoStranded
<1>3. On("pipe_read")' = On("pipe_read") /\ On("pipe_write")' = On("pipe_write")
  BY DEF On, Untouched
<1>4. SidesOK'
  BY <1>3 DEF SidesOK, pipevars
<1> QED BY <1>1, <1>2, <1>4 DEF PipeWait

(* A thread that runs neither waits nor has been woken.                    *)
LEMMA ReadyIsOff ==
  ASSUME WaitLists, NEW t \in Thread, status[t] = "ready", NEW l \in WaitList
  PROVE  t \notin On(l)
<1>1. l # "ready"
  BY DEF WaitList
<1> QED BY <1>1 DEF On, Woken, WaitLists

(* Blocking puts t on list l; waking and resuming put nobody on a list.    *)
LEMMA WhoIsOn ==
  ASSUME WaitLists, NEW t \in Thread, NEW l \in WaitList
  PROVE  /\ status[t] = "ready" /\ Block(t, l) => \A m \in WaitList : On(m)' \subseteq On(m) \cup {u \in {t} : m = l}
         /\ WakeHead(l) => \A m \in WaitList : On(m)' \subseteq On(m)
         /\ Resume(t, l) => \A m \in WaitList : On(m)' \subseteq On(m)
<1>0. \A m \in WaitList : Untouched(m) => On(m)' = On(m)
  BY DEF Untouched, On
<1>1. ASSUME status[t] = "ready", Block(t, l), NEW m \in WaitList
      PROVE  On(m)' \subseteq On(m) \cup {u \in {t} : m = l}
  <2>1. /\ \A n \in WaitList \ {l} : Untouched(n)
        /\ waitq'[l] = Append(waitq[l], t) /\ Woken(l)' = Woken(l)
    BY <1>1, BlockWaits
  <2>2. CASE m = l
    <3>1. waitq[l] \in Seq(Thread)
      BY DEF WaitLists
    <3>2. \A k \in 1..Len(waitq'[l]) :
            waitq'[l][k] = t \/ (k \in 1..Len(waitq[l]) /\ waitq'[l][k] = waitq[l][k])
      <4>1. waitq'[l] = Append(waitq[l], t)
        BY <2>1
      <4>2. Len(Append(waitq[l], t)) = Len(waitq[l]) + 1 /\ Len(waitq[l]) \in Nat
        BY <3>1
      <4> QED BY <3>1, <4>1, <4>2
    <3> QED BY <2>1, <2>2, <3>2 DEF On
  <2> QED BY <1>0, <2>1, <2>2
<1>2. ASSUME WakeHead(l), NEW m \in WaitList PROVE On(m)' \subseteq On(m)
  <2>1. /\ \A n \in WaitList \ {l} : Untouched(n)
        /\ waitq[l] = <<>> => waitq' = waitq /\ Woken(l)' = Woken(l)
        /\ waitq[l] # <<>> =>
             /\ waitq'[l] = Tail(waitq[l]) /\ Head(waitq[l]) \in Thread
             /\ Woken(l)' = Woken(l) \cup {Head(waitq[l])}
    BY <1>2, WakeHeadWaits
  <2>2. CASE m = l /\ waitq[l] # <<>>
    <3>1. waitq[l] \in Seq(Thread) /\ Len(waitq[l]) \in Nat \ {0}
      BY <2>2 DEF WaitLists
    <3>2. /\ \A k \in 1..Len(waitq'[l]) : k + 1 \in 1..Len(waitq[l]) /\ waitq'[l][k] = waitq[l][k + 1]
          /\ 1 \in 1..Len(waitq[l]) /\ Head(waitq[l]) = waitq[l][1]
      <4>1. waitq'[l] = Tail(waitq[l])
        BY <2>1, <2>2
      <4> DEFINE q == waitq[l]
      <4>2. q \in Seq(Thread) /\ Len(q) \in Nat \ {0}
        BY <3>1
      <4> HIDE DEF q
      <4>3. /\ \A k \in 1..Len(Tail(q)) : k + 1 \in 1..Len(q) /\ Tail(q)[k] = q[k + 1]
            /\ 1 \in 1..Len(q) /\ Head(q) = q[1]
        BY <4>2
      <4> QED BY <4>1, <4>3, Zenon DEF q
    <3> QED BY <2>1, <2>2, <3>2 DEF On
  <2> QED BY <1>0, <2>1, <2>2 DEF On
<1>3. ASSUME Resume(t, l), NEW m \in WaitList PROVE On(m)' \subseteq On(m)
  BY <1>0, <1>3, ResumeWaits DEF On
<1> QED BY <1>1, <1>2, <1>3

(* Threads join no list but that of the side of their call.                *)
LEMMA SidesKept ==
  ASSUME WaitLists, SidesOK, NEW t \in Thread, status[t] = "ready",
         \A u \in Thread \ {t} : xfer'[u] = xfer[u],
         On("pipe_read")' \subseteq On("pipe_read") \cup {u \in {t} : xfer'[t] # NoCall /\ xfer'[t].src = <<>>},
         On("pipe_write")' \subseteq On("pipe_write") \cup {u \in {t} : xfer'[t] # NoCall /\ xfer'[t].src # <<>>}
  PROVE  SidesOK'
<1>1. t \notin On("pipe_read") /\ t \notin On("pipe_write")
  BY ReadyIsOff DEF WaitList
<1>2. On("pipe_read") \subseteq Thread /\ On("pipe_write") \subseteq Thread
  BY DEF On, Woken
<1> QED BY <1>1, <1>2 DEF SidesOK

(* What a turn leaves of the call.                                         *)
LEMMA MovedIs ==
  ASSUME PipeOK, NEW t \in Thread, xfer[t] # NoCall, NEW n, Moved(t, n)
  PROVE  /\ \A u \in Thread \ {t} : xfer'[u] = xfer[u]
         /\ xfer'[t] # NoCall => xfer'[t].src = xfer[t].src
<1>1. xfer \in [Thread -> Call]
  BY DEF PipeOK
<1>2. xfer[t] \in Call
  BY <1>1
<1>3. [xfer[t] EXCEPT !.moved = xfer[t].moved + n].src = xfer[t].src
  BY <1>2 DEF Call
<1> QED BY <1>1, <1>3 DEF Moved

(* A head that is woken is a thread of its side about to move.             *)
LEMMA WokenMoves ==
  ASSUME WaitLists, NEW l \in WaitList, WakeHead(l), NEW t \in Thread, status[t] = "ready"
  PROVE  /\ waitq'[l] # <<>> => \E u \in Thread : status'[u] = l
         /\ status'[t] = "ready"
         /\ \A m \in WaitList \ {l} : waitq'[m] = waitq[m]
<1>1. /\ \A m \in WaitList \ {l} : Untouched(m)
      /\ waitq[l] = <<>> => waitq' = waitq /\ status' = status
      /\ waitq[l] # <<>> =>
           /\ Head(waitq[l]) \in Thread /\ Woken(l)' = Woken(l) \cup {Head(waitq[l])}
  BY WakeHeadWaits
<1>2. status'[t] = "ready"
  <2>1. CASE waitq[l] # <<>>
    <3>1. waitq[l] \in Seq(Thread) /\ 1 \in 1..Len(waitq[l]) /\ Head(waitq[l]) = waitq[l][1]
      <4>1. waitq[l] \in Seq(Thread)
        BY DEF WaitLists
      <4> QED BY <2>1, <4>1
    <3>2. status[Head(waitq[l])] = "waiting"
      BY <1>1, <2>1, <3>1 DEF WaitLists
    <3> QED BY <2>1, <3>2 DEF WakeHead, WaitLists
  <2> QED BY <1>1, <2>1
<1>3. waitq'[l] # <<>> => \E u \in Thread : status'[u] = l
  BY <1>1 DEF Woken
<1> QED BY <1>1, <1>2, <1>3 DEF Untouched

(* A turn of a write: the readers that still wait have the one that is     *)
(* woken before them; the writers have t, unless its call has ended.       *)
LEMMA WriteTurnKeeps ==
  ASSUME WaitLists, PipeOK, NEW t \in Thread, WriteTurn(t)
  PROVE  PipeKept
<1>l. "pipe_read" \in WaitList /\ "pipe_write" \in WaitList /\ "pipe_read" # "pipe_write"
  BY DEF WaitList
<1>1. /\ WakeHead("pipe_read") /\ status[t] = "ready" /\ xfer[t] # NoCall /\ xfer[t].src # <<>>
      /\ Moved(t, ToWrite(t)) /\ Leaves(t, "pipe_read", "pipe_write", pipe'.used < size)
  BY DEF WriteTurn, Writing
<1>2. WaitLists' /\ \A m \in WaitList \ {"pipe_read"} : Untouched(m)
  BY <1>l, <1>1, WakeHeadWaits
<1>3. /\ \A u \in Thread \ {t} : xfer'[u] = xfer[u]
      /\ xfer'[t] # NoCall => xfer'[t].src = xfer[t].src
  BY <1>1, MovedIs
<1>4. /\ waitq'["pipe_read"] # <<>> => \E u \in Thread : status'[u] = "pipe_read"
      /\ status'[t] = "ready" /\ waitq'["pipe_write"] = waitq["pipe_write"]
  BY <1>l, <1>1, WokenMoves
<1>5. ASSUME SidesOK PROVE SidesOK'
  <2>1. On("pipe_read")' \subseteq On("pipe_read") /\ On("pipe_write")' \subseteq On("pipe_write")
    BY <1>l, <1>1, WhoIsOn
  <2> QED BY <1>1, <1>3, <1>5, <2>1, SidesKept
<1>6. waitq'["pipe_read"] # <<>> => ReaderMoves'
  BY <1>4 DEF ReaderMoves
<1>7. waitq'["pipe_write"] # <<>> /\ pipe'.used < size /\ "pipe_write" \notin leftover' => WriterMoves'
  <2> SUFFICES ASSUME waitq'["pipe_write"] # <<>>, pipe'.used < size, "pipe_write" \notin leftover'
               PROVE  WriterMoves'
    OBVIOUS
  <2>1. xfer'[t] # NoCall
    BY <1>1, <1>4 DEF Leaves
  <2> QED BY <1>1, <1>3, <1>4, <2>1 DEF WriterMoves, Writing
<1> QED BY <1>2, <1>5, <1>6, <1>7 DEF PipeKept, PipeWait, PipeNoStranded, ReaderMoves, WriterMoves

(* A turn of a read, the other way round.                                  *)
LEMMA ReadTurnKeeps ==
  ASSUME WaitLists, PipeOK, NEW t \in Thread, ReadTurn(t)
  PROVE  PipeKept
<1>l. "pipe_read" \in WaitList /\ "pipe_write" \in WaitList /\ "pipe_read" # "pipe_write"
  BY DEF WaitList
<1> DEFINE n == Least(xfer[t].len - xfer[t].moved, pipe.used)
<1>1. /\ WakeHead("pipe_write") /\ status[t] = "ready" /\ xfer[t] # NoCall /\ xfer[t].src = <<>>
      /\ Moved(t, n) /\ Leaves(t, "pipe_write", "pipe_read", pipe'.used > 0)
  BY DEF ReadTurn, Reading
<1> HIDE DEF n
<1>2. WaitLists' /\ \A m \in WaitList \ {"pipe_write"} : Untouched(m)
  BY <1>l, <1>1, WakeHeadWaits
<1>3. /\ \A u \in Thread \ {t} : xfer'[u] = xfer[u]
      /\ xfer'[t] # NoCall => xfer'[t].src = xfer[t].src
  BY <1>1, MovedIs
<1>4. /\ waitq'["pipe_write"] # <<>> => \E u \in Thread : status'[u] = "pipe_write"
      /\ status'[t] = "ready" /\ waitq'["pipe_read"] = waitq["pipe_read"]
  BY <1>l, <1>1, WokenMoves
<1>5. ASSUME SidesOK PROVE SidesOK'
  <2>1. On("pipe_read")' \subseteq On("pipe_read") /\ On("pipe_write")' \subseteq On("pipe_write")
    BY <1>l, <1>1, WhoIsOn
  <2> QED BY <1>1, <1>3, <1>5, <2>1, SidesKept
<1>6. waitq'["pipe_write"] # <<>> => WriterMoves'
  BY <1>4 DEF WriterMoves
<1>7. waitq'["pipe_read"] # <<>> /\ pipe'.used > 0 /\ "pipe_read" \notin leftover' => ReaderMoves'
  <2> SUFFICES ASSUME waitq'["pipe_read"] # <<>>, pipe'.used > 0, "pipe_read" \notin leftover'
               PROVE  ReaderMoves'
    OBVIOUS
  <2>1. xfer'[t] # NoCall
    BY <1>1, <1>4 DEF Leaves
  <2> QED BY <1>1, <1>3, <1>4, <2>1 DEF ReaderMoves, Reading
<1> QED BY <1>2, <1>5, <1>6, <1>7 DEF PipeKept, PipeWait, PipeNoStranded, ReaderMoves, WriterMoves

(* A step of t that leaves the pipe and the lists alone: whoever was about *)
(* to move still is, except t.                                             *)
LEMMA CallKeeps ==
  ASSUME WaitLists, NEW t \in Thread, status[t] = "ready",
         UNCHANGED <<status, waitq, pipe, leftover>>,
         \A u \in Thread \ {t} : xfer'[u] = xfer[u],
         Reading(t) => pipe.used = 0, Writing(t) => pipe.used = size, pipe.used \in 0..size
  PROVE  PipeKept
<1>l. "pipe_read" \in WaitList /\ "pipe_write" \in WaitList
      /\ "ready" # "pipe_read" /\ "ready" # "pipe_write"
  BY DEF WaitList
<1>1. WaitLists' /\ \A l \in WaitList : Untouched(l) /\ On(l)' = On(l)
  BY DEF WaitLists, Untouched, Woken, On
<1>2. SidesOK => SidesOK'
  BY <1>l, <1>1, SidesKept
<1>3. ReaderMoves /\ ~Reading(t) => ReaderMoves'
  BY <1>l DEF ReaderMoves, Reading
<1>4. WriterMoves /\ ~Writing(t) => WriterMoves'
  BY <1>l DEF WriterMoves, Writing
<1>5. ASSUME PipeNoStranded PROVE PipeNoStranded'
  <2>1. waitq["pipe_read"] # <<>> /\ pipe.used > 0 /\ "pipe_read" \notin leftover => ReaderMoves'
    BY <1>3, <1>5 DEF PipeNoStranded, ReaderMoves
  <2>2. waitq["pipe_write"] # <<>> /\ pipe.used < size /\ "pipe_write" \notin leftover => WriterMoves'
    BY <1>4, <1>5 DEF PipeNoStranded, WriterMoves
  <2> QED BY <2>1, <2>2 DEF PipeNoStranded, ReaderMoves, WriterMoves
<1> QED BY <1>1, <1>2, <1>5 DEF PipeKept, PipeWait

(* A writer that blocks finds the pipe full, a reader finds it empty; the  *)
(* other side is as it was.                                                *)
LEMMA PipeBlocks ==
  ASSUME WaitLists, PipeOK, NEW t \in Thread, UNCHANGED pipevars,
         \/ Writing(t) /\ pipe.used = size /\ Block(t, "pipe_write")
         \/ Reading(t) /\ pipe.used = 0 /\ Block(t, "pipe_read")
  PROVE  PipeKept
<1>l. "pipe_read" \in WaitList /\ "pipe_write" \in WaitList /\ "pipe_read" # "pipe_write"
      /\ "ready" # "pipe_read" /\ "ready" # "pipe_write"
      /\ "waiting" # "pipe_read" /\ "waiting" # "pipe_write"
  BY DEF WaitList
<1>n. size \in Nat \ {0} /\ pipe.used \in 0..size
  BY PipeAssumption DEF PipeOK
<1>0. status[t] = "ready" /\ xfer[t] # NoCall
  BY DEF Writing, Reading
<1>x. UNCHANGED <<pipe, xfer, leftover>>
  BY DEF pipevars
<1>1. CASE Writing(t) /\ pipe.used = size /\ Block(t, "pipe_write")
  <2>1. WaitLists' /\ \A m \in WaitList \ {"pipe_write"} : Untouched(m)
    BY <1>l, <1>0, <1>1, BlockWaits
  <2>2. xfer[t].src # <<>>
    BY <1>1 DEF Writing
  <2>3. ASSUME SidesOK PROVE SidesOK'
    <3>1. \A m \in WaitList : On(m)' \subseteq On(m) \cup {u \in {t} : m = "pipe_write"}
      BY <1>l, <1>0, <1>1, WhoIsOn
    <3>2. /\ On("pipe_read")' \subseteq On("pipe_read")
          /\ On("pipe_write")' \subseteq On("pipe_write") \cup {t}
      BY <1>l, <3>1
    <3> QED BY <1>0, <1>x, <2>2, <2>3, <3>2, SidesKept
  <2>4. ReaderMoves => ReaderMoves'
    <3>1. \A u \in Thread \ {t} : status'[u] = status[u]
      BY <1>1 DEF Block, WaitLists
    <3>2. ~Reading(t) /\ status[t] # "pipe_read"
      BY <1>l, <1>0, <2>2 DEF Reading
    <3> QED BY <1>x, <3>1, <3>2 DEF ReaderMoves, Reading
  <2>5. waitq'["pipe_read"] = waitq["pipe_read"]
    BY <1>l, <2>1 DEF Untouched
  <2>6. ASSUME PipeNoStranded PROVE PipeNoStranded'
    BY <1>n, <1>x, <1>1, <2>4, <2>5, <2>6 DEF PipeNoStranded, ReaderMoves
  <2> QED BY <2>1, <2>3, <2>6 DEF PipeKept, PipeWait
<1>2. CASE Reading(t) /\ pipe.used = 0 /\ Block(t, "pipe_read")
  <2>1. WaitLists' /\ \A m \in WaitList \ {"pipe_read"} : Untouched(m)
    BY <1>l, <1>0, <1>2, BlockWaits
  <2>2. xfer[t].src = <<>>
    BY <1>2 DEF Reading
  <2>3. ASSUME SidesOK PROVE SidesOK'
    <3>1. \A m \in WaitList : On(m)' \subseteq On(m) \cup {u \in {t} : m = "pipe_read"}
      BY <1>l, <1>0, <1>2, WhoIsOn
    <3>2. /\ On("pipe_write")' \subseteq On("pipe_write")
          /\ On("pipe_read")' \subseteq On("pipe_read") \cup {t}
      BY <1>l, <3>1
    <3> QED BY <1>0, <1>x, <2>2, <2>3, <3>2, SidesKept
  <2>4. WriterMoves => WriterMoves'
    <3>1. \A u \in Thread \ {t} : status'[u] = status[u]
      BY <1>2 DEF Block, WaitLists
    <3>2. ~Writing(t) /\ status[t] # "pipe_write"
      BY <1>l, <1>0, <2>2 DEF Writing
    <3> QED BY <1>x, <3>1, <3>2 DEF WriterMoves, Writing
  <2>5. waitq'["pipe_write"] = waitq["pipe_write"]
    BY <1>l, <2>1 DEF Untouched
  <2>6. ASSUME PipeNoStranded PROVE PipeNoStranded'
    BY <1>n, <1>x, <1>2, <2>4, <2>5, <2>6 DEF PipeNoStranded, WriterMoves
  <2> QED BY <2>1, <2>3, <2>6 DEF PipeKept, PipeWait
<1> QED BY <1>1, <1>2

(* Whoever resumes is in the middle of a call of its side.                 *)
LEMMA PipeResumesKeeps ==
  ASSUME WaitLists, NEW t \in Thread, PipeResumes(t)
  PROVE  PipeKept
<1>l. "pipe_read" \in WaitList /\ "pipe_write" \in WaitList /\ "pipe_read" # "pipe_write"
      /\ "ready" # "pipe_read" /\ "ready" # "pipe_write"
  BY DEF WaitList
<1>x. UNCHANGED <<pipe, xfer, leftover>>
  BY DEF PipeResumes, pipevars
<1>1. PICK l \in {"pipe_read", "pipe_write"} : Resume(t, l)
  BY DEF PipeResumes
<1>2. /\ WaitLists' /\ \A m \in WaitList \ {l} : Untouched(m)
      /\ waitq' = waitq /\ t \in Woken(l)
      /\ \A m \in WaitList : On(m)' \subseteq On(m)
  BY <1>l, <1>1, ResumeWaits, WhoIsOn
<1>3. status'[t] = "ready" /\ status[t] = l /\ \A u \in Thread \ {t} : status'[u] = status[u]
  BY <1>1 DEF Resume, WaitLists
<1>4. ASSUME SidesOK PROVE SidesOK'
  BY <1>l, <1>x, <1>2, <1>4 DEF SidesOK
<1>5. ASSUME SidesOK PROVE (ReaderMoves => ReaderMoves') /\ (WriterMoves => WriterMoves')
  <2>1. CASE l = "pipe_read"
    <3>1. Reading(t)'
      BY <1>x, <1>2, <1>3, <1>5, <2>1 DEF SidesOK, On, Reading
    <3>2. status[t] # "pipe_write" /\ ~Writing(t)
      BY <1>l, <1>3, <2>1 DEF Writing
    <3> QED BY <1>x, <1>3, <3>1, <3>2 DEF ReaderMoves, WriterMoves, Writing
  <2>2. CASE l = "pipe_write"
    <3>1. Writing(t)'
      BY <1>x, <1>2, <1>3, <1>5, <2>2 DEF SidesOK, On, Writing
    <3>2. status[t] # "pipe_read" /\ ~Reading(t)
      BY <1>l, <1>3, <2>2 DEF Reading
    <3> QED BY <1>x, <1>3, <3>1, <3>2 DEF ReaderMoves, WriterMoves, Reading
  <2> QED BY <2>1, <2>2
<1>6. ASSUME SidesOK, PipeNoStranded PROVE PipeNoStranded'
  BY <1>x, <1>2, <1>5, <1>6 DEF PipeNoStranded, ReaderMoves, WriterMoves
<1> QED BY <1>l, <1>1, <1>2, <1>4, <1>6 DEF PipeKept, PipeWait

(* Each call of kernel/pipe.c keeps the wait lists, and whoever waits for  *)
(* what is there has somebody of its side before it.                       *)
LEMMA PipeStep ==
  ASSUME WaitLists, PipeOK, PipeNext
  PROVE  PipeKept
<1>n. pipe.used \in 0..size /\ size # 0 /\ xfer \in [Thread -> Call]
  BY PipeAssumption DEF PipeOK
<1>1. ASSUME NEW t \in Thread, WriteFull(t) PROVE PipeKept
  <2>1. Writing(t) /\ ~Reading(t) /\ pipe.used = size
    BY <1>1 DEF WriteFull, Writing, Reading
  <2>2. CASE Return(t)
    BY <1>n, <2>1, <2>2, CallKeeps DEF Return, Writing
  <2>3. CASE Block(t, "pipe_write") /\ UNCHANGED pipevars
    BY <2>1, <2>3, PipeBlocks
  <2> QED BY <1>1, <2>2, <2>3 DEF WriteFull
<1>2. ASSUME NEW t \in Thread, ReadEmpty(t) PROVE PipeKept
  <2>1. Reading(t) /\ ~Writing(t) /\ pipe.used = 0
    BY <1>2 DEF ReadEmpty, Writing, Reading
  <2>2. CASE Return(t)
    BY <1>n, <2>1, <2>2, CallKeeps DEF Return, Reading
  <2>3. CASE Block(t, "pipe_read") /\ UNCHANGED pipevars
    BY <2>1, <2>3, PipeBlocks
  <2> QED BY <1>2, <2>2, <2>3 DEF ReadEmpty
<1>3. ASSUME NEW t \in Thread, NEW n, NEW timeout,
             vibe_pipe_read(t, n, timeout) \/ vibe_pipe_write(t, n, timeout)
      PROVE  PipeKept
  <2>1. ~Reading(t) /\ ~Writing(t)
    BY <1>3 DEF vibe_pipe_read, vibe_pipe_write, Reading, Writing
  <2>2. /\ status[t] = "ready" /\ UNCHANGED <<status, waitq, pipe, leftover>>
        /\ \A u \in Thread \ {t} : xfer'[u] = xfer[u]
    BY <1>n, <1>3 DEF vibe_pipe_read, vibe_pipe_write
  <2> QED BY <1>n, <2>1, <2>2, CallKeeps
<1> QED
  BY <1>1, <1>2, <1>3, WriteTurnKeeps, ReadTurnKeeps, PipeResumesKeeps DEF PipeNext, Turn

-----------------------------------------------------------------------------
(* Work queues                                                             *)

(* s is the list of the queue, item by item.                               *)
QueuedIs(s) ==
  /\ s \in Seq(Work)
  /\ \A j, k \in 1..Len(s) : s[j] = s[k] => j = k
  /\ wq = [head |-> IF Len(s) = 0 THEN NoWork ELSE s[1],
           tail |-> IF Len(s) = 0 THEN NoWork ELSE s[Len(s)]]
  /\ \A k \in 1..Len(s) : wnext[s[k]] = IF k = Len(s) THEN NoWork ELSE s[k + 1]
  /\ \A w \in Work : pending[w] <=> \E k \in 1..Len(s) : s[k] = w

(* The tokens that are there, about to be given, or just taken.            *)
TokensAre(n) ==
  wpc # "none" => credit + Cardinality(giving) + (IF wpc = "pop" THEN 1 ELSE 0) = n

WorkRep ==
  /\ DOMAIN wnext = Work /\ pending \in [Work -> BOOLEAN] /\ giving \subseteq Thread
  /\ \E s \in Seq(Work) : QueuedIs(s) /\ TokensAre(Len(s))

(* A cancel in progress: the item is not queued while its timer runs.      *)
CancelPart ==
  /\ armed \in [Work -> BOOLEAN]
  /\ \A t \in Thread : cancelling[t] # NoWork =>
       /\ t \in Managers /\ cancelling[t] \in DWork
       /\ armed[cancelling[t]] => ~pending[cancelling[t]]

(* One step of CancelSound.                                                *)
CancelsSoundly ==
  \A t \in Thread :
    cancelling[t] # NoWork /\ cancelling'[t] = NoWork /\ armed[cancelling[t]]
      => ~pending'[cancelling[t]] /\ ~armed'[cancelling[t]]

(* The delayed items have one owner: the flag that vibe_dwork_cancel tests *)
(* without a lock is not protected against a second one.                   *)
OneManager == \A t, u \in Managers : t = u

(* vibe_workq_init, and an object that is no work queue.                   *)
LEMMA WorkStarts ==
  ASSUME NEW p, NoItems(p), vibe_sem_init(0, 0) \/ p = "none", p # "pop"
  PROVE  WorkRep /\ CancelPart
<1>1. <<>> \in Seq(Work) /\ Len(<<>>) = 0
  OBVIOUS
<1>2. QueuedIs(<<>>)
  BY <1>1 DEF QueuedIs, NoItems
<1>3. giving = {} /\ Cardinality(giving) = 0
  BY FS_EmptySet DEF NoItems
<1>4. TokensAre(0)
  BY <1>3 DEF TokensAre, NoItems, vibe_sem_init
<1>5. CancelPart
  BY WorkAssumption DEF NoItems, CancelPart
<1> QED BY <1>1, <1>2, <1>3, <1>4, <1>5 DEF NoItems, WorkRep

(* An item is linked behind the last one.                                  *)
LEMMA LinkKeeps ==
  ASSUME WorkRep, NEW s \in Seq(Work), QueuedIs(s), NEW w \in Work, LinkWork(w)
  PROVE  /\ QueuedIs(Append(s, w))' /\ Len(Append(s, w)) = Len(s) + 1
         /\ Append(s, w) \in Seq(Work)
         /\ DOMAIN wnext' = Work /\ pending' = [pending EXCEPT ![w] = TRUE]
<1> DEFINE r == Append(s, w)
<1>1. /\ r \in Seq(Work) /\ Len(r) = Len(s) + 1 /\ Len(s) \in Nat /\ r[Len(s) + 1] = w
      /\ \A k \in 1..Len(s) : r[k] = s[k] /\ s[k] \in Work
  OBVIOUS
<1> HIDE DEF r
<1>2. /\ \A k \in 1..Len(s) : s[k] # w
      /\ pending' = [pending EXCEPT ![w] = TRUE] /\ pending \in [Work -> BOOLEAN]
      /\ DOMAIN wnext = Work
  BY DEF LinkWork, QueuedIs, WorkRep
<1>3. \A j, k \in 1..Len(r) : r[j] = r[k] => j = k
  <2> TAKE j, k \in 1..Len(r)
  <2>1. /\ j \in 1..Len(s) \/ j = Len(s) + 1
        /\ k \in 1..Len(s) \/ k = Len(s) + 1
    BY <1>1
  <2> QED BY <1>1, <1>2, <2>1 DEF QueuedIs
<1>4. \A v \in Work : pending'[v] <=> \E k \in 1..Len(r) : r[k] = v
  <2> TAKE v \in Work
  <2>1. CASE v = w
    <3>1. Len(s) + 1 \in 1..Len(r)
      BY <1>1
    <3> QED BY <1>1, <1>2, <2>1, <3>1
  <2>2. CASE v # w
    <3>1. pending'[v] = pending[v]
      BY <1>2, <2>2
    <3>2. (\E k \in 1..Len(r) : r[k] = v) <=> \E k \in 1..Len(s) : s[k] = v
      BY <1>1, <2>2
    <3> QED BY <3>1, <3>2 DEF QueuedIs
  <2> QED BY <2>1, <2>2
<1>5. CASE Len(s) = 0
  <2>1. wq.tail = NoWork
    BY <1>5 DEF QueuedIs
  <2>2. /\ wq' = [head |-> w, tail |-> w] /\ wnext' = [wnext EXCEPT ![w] = NoWork]
    BY <2>1 DEF LinkWork
  <2>3. r[1] = w /\ Len(r) = 1
    BY <1>1, <1>5
  <2>4. \A k \in 1..Len(r) : wnext'[r[k]] = IF k = Len(r) THEN NoWork ELSE r[k + 1]
    BY <1>2, <2>2, <2>3
  <2>5. /\ wq' = [head |-> IF Len(r) = 0 THEN NoWork ELSE r[1],
                  tail |-> IF Len(r) = 0 THEN NoWork ELSE r[Len(r)]]
        /\ DOMAIN wnext' = Work
    BY <1>2, <2>2, <2>3
  <2>6. QueuedIs(r)'
    BY <1>1, <1>3, <1>4, <2>4, <2>5 DEF QueuedIs
  <2> QED BY <1>1, <1>2, <2>5, <2>6 DEF r
<1>6. CASE Len(s) # 0
  <2>1. /\ wq.tail = s[Len(s)] /\ wq.tail # NoWork /\ wq.head = s[1]
        /\ wq.tail \in Work /\ wq.tail # w
    BY <1>1, <1>2, <1>6, WorkAssumption DEF QueuedIs
  <2>2. /\ wq' = [head |-> wq.head, tail |-> w]
        /\ wnext' = [wnext EXCEPT ![w] = NoWork, ![wq.tail] = w]
    BY <2>1 DEF LinkWork
  <2>3. /\ wnext'[w] = NoWork /\ wnext'[s[Len(s)]] = w /\ DOMAIN wnext' = Work
        /\ \A v \in Work : v # w /\ v # s[Len(s)] => wnext'[v] = wnext[v]
    BY <1>2, <2>1, <2>2
  <2>4. \A k \in 1..Len(r) : wnext'[r[k]] = IF k = Len(r) THEN NoWork ELSE r[k + 1]
    <3> TAKE k \in 1..Len(r)
    <3>1. CASE k = Len(s) + 1
      BY <1>1, <2>3, <3>1
    <3>2. CASE k = Len(s)
      BY <1>1, <2>3, <3>2
    <3>3. CASE k \in 1..(Len(s) - 1)
      <4>1. s[k] # w /\ s[k] # s[Len(s)] /\ s[k] \in Work /\ r[k] = s[k] /\ r[k + 1] = s[k + 1]
        BY <1>1, <1>2, <1>6, <3>3 DEF QueuedIs
      <4>2. wnext[s[k]] = s[k + 1] /\ k # Len(r)
        BY <1>1, <3>3 DEF QueuedIs
      <4> QED BY <2>3, <4>1, <4>2
    <3> QED BY <1>1, <3>1, <3>2, <3>3
  <2>5. wq' = [head |-> IF Len(r) = 0 THEN NoWork ELSE r[1],
               tail |-> IF Len(r) = 0 THEN NoWork ELSE r[Len(r)]]
    BY <1>1, <1>6, <2>1, <2>2
  <2>6. QueuedIs(r)'
    BY <1>1, <1>3, <1>4, <2>4, <2>5 DEF QueuedIs
  <2> QED BY <1>1, <1>2, <2>3, <2>6 DEF r
<1> QED BY <1>5, <1>6

(* The worker unlinks the first item.                                      *)
LEMMA PopKeeps ==
  ASSUME WorkRep, NEW s \in Seq(Work), QueuedIs(s), Len(s) # 0, WorkerPops
  PROVE  /\ QueuedIs(Tail(s))' /\ Len(Tail(s)) = Len(s) - 1 /\ Tail(s) \in Seq(Work)
         /\ DOMAIN wnext' = Work /\ pending' \in [Work -> BOOLEAN] /\ wq.head # NoWork
         /\ \A v \in Work : pending'[v] => pending[v]
<1> DEFINE r == Tail(s)
<1>1. /\ r \in Seq(Work) /\ Len(r) = Len(s) - 1 /\ Len(s) \in Nat \ {0}
      /\ \A k \in 1..Len(r) : r[k] = s[k + 1]
      /\ \A k \in 1..Len(s) : s[k] \in Work
  OBVIOUS
<1> HIDE DEF r
<1>2. /\ wq.head = s[1] /\ s[1] \in Work /\ s[1] # NoWork /\ wq.tail = s[Len(s)]
      /\ wnext[s[1]] = IF Len(s) = 1 THEN NoWork ELSE s[2]
      /\ pending \in [Work -> BOOLEAN]
  BY <1>1, WorkAssumption DEF QueuedIs, WorkRep
<1>3. /\ wq' = [head |-> wnext[s[1]], tail |-> IF wnext[s[1]] = NoWork THEN NoWork ELSE wq.tail]
      /\ pending' = [u \in Work |-> pending[u] /\ u # s[1]]
      /\ wnext' = [u \in Work |-> IF u = s[1] THEN NoWork ELSE wnext[u]]
  BY <1>2 DEF WorkerPops
<1>4. \A k \in 1..Len(r) : k + 1 \in 1..Len(s) /\ r[k] # s[1]
  BY <1>1 DEF QueuedIs
<1>5. \A j, k \in 1..Len(r) : r[j] = r[k] => j = k
  <2> TAKE j, k \in 1..Len(r)
  <2>1. s[j + 1] = s[k + 1] => j + 1 = k + 1
    BY <1>4 DEF QueuedIs
  <2> QED BY <1>1, <2>1, SMTT(30)
<1>6. wq' = [head |-> IF Len(r) = 0 THEN NoWork ELSE r[1],
             tail |-> IF Len(r) = 0 THEN NoWork ELSE r[Len(r)]]
  <2>1. CASE Len(s) = 1
    BY <1>1, <1>2, <1>3, <2>1
  <2>2. CASE Len(s) # 1
    <3>1. Len(r) # 0 /\ r[1] = s[2] /\ r[Len(r)] = s[Len(s)] /\ s[2] # NoWork
      BY <1>1, <2>2, WorkAssumption
    <3> QED BY <1>2, <1>3, <2>2, <3>1
  <2> QED BY <2>1, <2>2
<1>7. \A k \in 1..Len(r) : wnext'[r[k]] = IF k = Len(r) THEN NoWork ELSE r[k + 1]
  <2> TAKE k \in 1..Len(r)
  <2>1. r[k] \in Work /\ wnext'[r[k]] = wnext[s[k + 1]]
    BY <1>1, <1>3, <1>4
  <2>2. wnext[s[k + 1]] = IF k + 1 = Len(s) THEN NoWork ELSE s[(k + 1) + 1]
    BY <1>4 DEF QueuedIs
  <2>3. k # Len(r) => r[k + 1] = s[(k + 1) + 1]
    BY <1>1
  <2> QED BY <1>1, <2>1, <2>2, <2>3
<1>8. \A v \in Work : pending'[v] <=> \E k \in 1..Len(r) : r[k] = v
  <2> TAKE v \in Work
  <2>1. ASSUME NEW k \in 1..Len(r), r[k] = v PROVE pending'[v]
    BY <1>1, <1>3, <1>4, <2>1 DEF QueuedIs
  <2>2. ASSUME pending'[v] PROVE \E k \in 1..Len(r) : r[k] = v
    <3>1. PICK k \in 1..Len(s) : s[k] = v /\ v # s[1]
      BY <1>3, <2>2 DEF QueuedIs
    <3>2. k - 1 \in 1..Len(r) /\ r[k - 1] = v
      BY <1>1, <3>1
    <3> QED BY <3>2
  <2> QED BY <2>1, <2>2
<1>9. QueuedIs(r)'
  BY <1>1, <1>5, <1>6, <1>7, <1>8 DEF QueuedIs
<1> QED BY <1>1, <1>2, <1>3, <1>9 DEF r

(* Whoever is about to give one token more or less.                        *)
LEMMA GivingCount ==
  ASSUME WorkRep
  PROVE  /\ Cardinality(giving) \in Nat
         /\ \A t \in Thread \ giving : Cardinality(giving \cup {t}) = Cardinality(giving) + 1
         /\ \A t \in giving : Cardinality(giving \ {t}) = Cardinality(giving) - 1
<1>1. giving \in SUBSET Thread
  BY DEF WorkRep
<1> QED BY <1>1, WokenFinite

WorkStepKept ==
  /\ SemKept /\ WorkRep'
  /\ OneManager /\ CancelPart => CancelPart' /\ CancelsSoundly

(* A step that leaves the list alone keeps it as it is.                    *)
LEMMA SameList ==
  ASSUME WorkRep, UNCHANGED <<wq, wnext, pending>>, giving' \subseteq Thread,
         \A n \in Nat : TokensAre(n) => TokensAre(n)'
  PROVE  WorkRep'
<1>1. PICK s \in Seq(Work) : QueuedIs(s) /\ TokensAre(Len(s))
  BY DEF WorkRep
<1>2. QueuedIs(s)'
  BY <1>1 DEF QueuedIs
<1>3. TokensAre(Len(s))'
  BY <1>1
<1> QED BY <1>1, <1>2, <1>3 DEF WorkRep

(* The worker takes a token and, a step later, the item that came with it. *)
LEMMA WorkerKeeps ==
  ASSUME WaitLists, SemPart, WorkRep, WorkerStep
  PROVE  WorkStepKept
<1>c. credit \in Nat /\ Cardinality(giving) \in Nat /\ Worker \in Thread
  BY WorkAssumption, WokenFinite, GivingCount DEF SemPart, SemConserved, Woken
<1>s. ASSUME UNCHANGED <<status, waitq, semvars>> PROVE SemKept
  BY <1>s DEF SemKept, WaitLists, Untouched, Woken, SemPart, SemConserved, SemNoStranded, semvars
<1>p. ASSUME UNCHANGED <<armed, cancelling>>, CancelPart,
             \A v \in Work : pending'[v] => pending[v]
      PROVE  CancelPart' /\ CancelsSoundly
  BY <1>p, WorkAssumption DEF CancelPart, CancelsSoundly
<1>1. CASE WorkerTakes
  <2>1. SemKept
    <3>1. VIBE_WAIT_FOREVER \in Timeout
      BY SemAssumption DEF Timeout, VIBE_WAIT_FOREVER
    <3> QED BY <1>c, <1>1, <3>1, TakeKeeps, ReturnKeeps DEF WorkerTakes
  <2>2. \A n \in Nat : TokensAre(n) => TokensAre(n)'
    <3>1. CASE wpc' = "pop"
      <4>1. credit' = credit - 1 /\ wpc = "take" /\ giving' = giving
        BY <1>1, <3>1 DEF WorkerTakes, vibe_sem_take, TakeReturns, SemPart
      <4> QED BY <1>c, <3>1, <4>1 DEF TokensAre
    <3>2. CASE wpc' # "pop"
      <4>1. credit' = credit /\ wpc = "take" /\ wpc' = "take" /\ giving' = giving
        BY <1>1, <3>2 DEF WorkerTakes, vibe_sem_take, SemPart
      <4> QED BY <1>c, <4>1 DEF TokensAre
    <3> QED BY <3>1, <3>2
  <2>3. UNCHANGED <<wq, wnext, pending, giving, armed, cancelling>>
    BY <1>1 DEF WorkerTakes
  <2>4. WorkRep'
    <3>1. giving' \subseteq Thread
      BY <2>3 DEF WorkRep
    <3> QED BY <2>2, <2>3, <3>1, SameList
  <2> QED BY <1>p, <2>1, <2>3, <2>4 DEF WorkStepKept
<1>2. CASE WorkerPops
  <2>1. PICK s \in Seq(Work) : QueuedIs(s) /\ TokensAre(Len(s))
    BY DEF WorkRep
  <2>2. wpc = "pop" /\ UNCHANGED <<status, waitq, semvars, giving, armed, cancelling>>
    BY <1>2 DEF WorkerPops
  <2>3. Len(s) # 0
    BY <1>c, <2>1, <2>2 DEF TokensAre
  <2>4. /\ QueuedIs(Tail(s))' /\ Len(Tail(s)) = Len(s) - 1 /\ Tail(s) \in Seq(Work)
        /\ DOMAIN wnext' = Work /\ pending' \in [Work -> BOOLEAN] /\ wq.head # NoWork
        /\ \A v \in Work : pending'[v] => pending[v]
    BY <1>2, <2>1, <2>3, PopKeeps
  <2>5. wpc' = "run"
    BY <1>2, <2>4 DEF WorkerPops
  <2>6. TokensAre(Len(Tail(s)))'
    BY <1>c, <2>1, <2>2, <2>4, <2>5 DEF TokensAre, semvars
  <2>7. WorkRep'
    BY <2>2, <2>4, <2>6 DEF WorkRep
  <2> QED BY <1>s, <1>p, <2>2, <2>4, <2>7 DEF WorkStepKept
<1>3. CASE HandlerReturns
  <2>1. /\ UNCHANGED <<status, waitq, semvars, wq, wnext, pending, armed, giving, cancelling>>
        /\ wpc = "run" /\ wpc' = "take"
    BY <1>3 DEF HandlerReturns
  <2>2. WorkRep'
    <3>1. giving' \subseteq Thread
      BY <2>1 DEF WorkRep
    <3>2. \A n \in Nat : TokensAre(n) => TokensAre(n)'
      BY <1>c, <2>1 DEF TokensAre, semvars
    <3> QED BY <2>1, <3>1, <3>2, SameList
  <2> QED BY <1>s, <1>p, <2>1, <2>2 DEF WorkStepKept
<1> QED BY <1>1, <1>2, <1>3 DEF WorkerStep

(* A submit links the item first and gives its token later; the callback   *)
(* of a timer does both at once.                                           *)
LEMMA SubmitKeeps ==
  ASSUME WaitLists, SemPart, WorkRep,
         \/ \E t \in Thread : SubmitSignals(t) \/ \E w \in Work \ DWork : vibe_work_submit(t, w)
         \/ \E w \in DWork : dwork_timer_cb(w)
  PROVE  WorkStepKept
<1>c. credit \in Nat /\ Cardinality(giving) \in Nat
  BY WokenFinite, GivingCount DEF SemPart, SemConserved, Woken
<1>s. ASSUME UNCHANGED <<status, waitq, semvars>> PROVE SemKept
  BY <1>s DEF SemKept, WaitLists, Untouched, Woken, SemPart, SemConserved, SemNoStranded, semvars
<1>l. PICK s \in Seq(Work) : QueuedIs(s) /\ TokensAre(Len(s))
  BY DEF WorkRep
<1>1. ASSUME NEW t \in Thread, SubmitSignals(t) PROVE WorkStepKept
  <2>1. /\ t \in giving /\ giving' = giving \ {t} /\ vibe_sem_give
        /\ UNCHANGED <<wq, wnext, pending, armed, wpc, cancelling>>
    BY <1>1 DEF SubmitSignals
  <2>2. SemKept /\ credit' = credit + 1
    BY <2>1, GiveKeeps DEF vibe_sem_give
  <2>3. Cardinality(giving') = Cardinality(giving) - 1 /\ giving' \subseteq Thread
    BY <2>1, GivingCount DEF WorkRep
  <2>4. WorkRep'
    <3>1. \A n \in Nat : TokensAre(n) => TokensAre(n)'
      BY <1>c, <2>1, <2>2, <2>3 DEF TokensAre
    <3> QED BY <2>1, <2>3, <3>1, SameList
  <2>5. CancelPart => CancelPart' /\ CancelsSoundly
    BY <2>1 DEF CancelPart, CancelsSoundly
  <2> QED BY <2>2, <2>4, <2>5 DEF WorkStepKept
<1>2. ASSUME NEW t \in Thread, NEW w \in Work \ DWork, vibe_work_submit(t, w) PROVE WorkStepKept
  <2>1. /\ t \notin giving /\ giving' = giving \cup {t} /\ LinkWork(w)
        /\ UNCHANGED <<status, waitq, semvars, armed, wpc, cancelling>>
    BY <1>2 DEF vibe_work_submit, MayCall
  <2>2. /\ QueuedIs(Append(s, w))' /\ Len(Append(s, w)) = Len(s) + 1
        /\ Append(s, w) \in Seq(Work)
        /\ DOMAIN wnext' = Work /\ pending' = [pending EXCEPT ![w] = TRUE]
    BY <1>l, <2>1, LinkKeeps
  <2>3. Cardinality(giving') = Cardinality(giving) + 1 /\ giving' \subseteq Thread
    BY <2>1, GivingCount DEF WorkRep
  <2>4. TokensAre(Len(Append(s, w)))'
    BY <1>c, <1>l, <2>1, <2>2, <2>3 DEF TokensAre, semvars
  <2>5. WorkRep'
    BY <2>2, <2>3, <2>4 DEF WorkRep
  <2>6. \A v \in DWork : pending'[v] = pending[v]
    BY <2>2, WorkAssumption DEF WorkRep
  <2>7. CancelPart => CancelPart' /\ CancelsSoundly
    BY <2>1, <2>6 DEF CancelPart, CancelsSoundly
  <2> QED BY <1>s, <2>1, <2>5, <2>7 DEF WorkStepKept
<1>3. ASSUME NEW w \in DWork, dwork_timer_cb(w) PROVE WorkStepKept
  <2>0. w \in Work
    BY WorkAssumption
  <2>1. /\ armed' = [armed EXCEPT ![w] = FALSE] /\ UNCHANGED <<wpc, current, giving, cancelling>>
    BY <1>3 DEF dwork_timer_cb
  <2>2. ASSUME CancelPart, \A v \in DWork : v # w => pending'[v] = pending[v]
        PROVE  CancelPart' /\ CancelsSoundly
    BY <2>0, <2>1, <2>2, WorkAssumption DEF CancelPart, CancelsSoundly
  <2>3. CASE pending[w]
    <3>1. UNCHANGED <<status, waitq, semvars, wq, wnext, pending>>
      BY <1>3, <2>3 DEF dwork_timer_cb
    <3>2. WorkRep'
      <4>1. giving' \subseteq Thread
        BY <2>1 DEF WorkRep
      <4>2. \A n \in Nat : TokensAre(n) => TokensAre(n)'
        BY <1>c, <2>1, <3>1 DEF TokensAre, semvars
      <4> QED BY <3>1, <4>1, <4>2, SameList
    <3> QED BY <1>s, <2>2, <3>1, <3>2 DEF WorkStepKept
  <2>4. CASE ~pending[w]
    <3>1. LinkWork(w) /\ vibe_sem_give
      BY <1>3, <2>4 DEF dwork_timer_cb
    <3>2. SemKept /\ credit' = credit + 1
      BY <3>1, GiveKeeps DEF vibe_sem_give
    <3>3. /\ QueuedIs(Append(s, w))' /\ Len(Append(s, w)) = Len(s) + 1
          /\ Append(s, w) \in Seq(Work)
          /\ DOMAIN wnext' = Work /\ pending' = [pending EXCEPT ![w] = TRUE]
      BY <1>l, <2>0, <3>1, LinkKeeps
    <3>4. TokensAre(Len(Append(s, w)))'
      BY <1>c, <1>l, <2>1, <3>2, <3>3 DEF TokensAre
    <3>5. WorkRep'
      BY <2>1, <3>3, <3>4 DEF WorkRep
    <3>6. \A v \in DWork : v # w => pending'[v] = pending[v]
      BY <3>3, WorkAssumption DEF WorkRep
    <3> QED BY <2>2, <3>2, <3>5, <3>6 DEF WorkStepKept
  <2> QED BY <2>3, <2>4
<1> QED BY <1>1, <1>2, <1>3

(* Every step of kernel/workq.c keeps the list, its tokens and, if the     *)
(* delayed items have one owner, the promise of a cancel.                  *)
LEMMA WorkStep ==
  ASSUME WaitLists, SemPart, WorkRep, WorkNext
  PROVE  WorkStepKept
<1>s. ASSUME UNCHANGED <<status, waitq, semvars>> PROVE SemKept
  BY <1>s DEF SemKept, WaitLists, Untouched, Woken, SemPart, SemConserved, SemNoStranded, semvars
<1>r. ASSUME UNCHANGED <<semvars, wq, wnext, pending, wpc, giving>> PROVE WorkRep'
  <2>1. giving' \subseteq Thread
    BY <1>r DEF WorkRep
  <2>2. \A n \in Nat : TokensAre(n) => TokensAre(n)'
    BY <1>r DEF TokensAre, semvars
  <2> QED BY <1>r, <2>1, <2>2, SameList
<1>1. ASSUME NEW t \in Thread, NEW w \in DWork, vibe_dwork_submit(t, w) PROVE WorkStepKept
  <2>1. /\ t \in Managers /\ cancelling[t] = NoWork
        /\ armed' = [armed EXCEPT ![w] = TRUE]
        /\ UNCHANGED <<status, waitq, semvars, wq, wnext, pending, wpc, giving, cancelling>>
    BY <1>1 DEF vibe_dwork_submit, MayCall
  <2>2. OneManager /\ CancelPart => CancelPart' /\ CancelsSoundly
    BY <2>1 DEF OneManager, CancelPart, CancelsSoundly
  <2> QED BY <1>s, <1>r, <2>1, <2>2 DEF WorkStepKept
<1>2. ASSUME NEW t \in Thread, NEW w \in DWork, vibe_dwork_cancel(t, w) PROVE WorkStepKept
  <2>1. /\ t \in Managers /\ cancelling[t] = NoWork /\ ~pending[w]
        /\ cancelling' = [cancelling EXCEPT ![t] = w]
        /\ UNCHANGED <<status, waitq, semvars, wq, wnext, pending, wpc, giving, armed>>
    BY <1>2 DEF vibe_dwork_cancel, MayCall
  <2>2. CancelPart => CancelPart' /\ CancelsSoundly
    BY <2>1 DEF CancelPart, CancelsSoundly
  <2> QED BY <1>s, <1>r, <2>1, <2>2 DEF WorkStepKept
<1>3. ASSUME NEW t \in Thread, CancelStops(t) PROVE WorkStepKept
  <2>1. /\ armed' = [armed EXCEPT ![cancelling[t]] = FALSE] /\ cancelling[t] # NoWork
        /\ cancelling' = [cancelling EXCEPT ![t] = NoWork]
        /\ UNCHANGED <<status, waitq, semvars, wq, wnext, pending, wpc, giving>>
    BY <1>3 DEF CancelStops
  <2>2. ASSUME CancelPart PROVE CancelPart' /\ CancelsSoundly
    <3>1. cancelling[t] \in Work
      BY <2>1, <2>2, WorkAssumption DEF CancelPart
    <3>2. /\ armed' \in [Work -> BOOLEAN] /\ ~armed'[cancelling[t]]
          /\ \A v \in Work : armed'[v] => armed[v]
      BY <2>1, <2>2, <3>1 DEF CancelPart
    <3>3. \A u \in Thread : u # t => cancelling'[u] = cancelling[u]
      BY <2>1
    <3>4. \A u \in Thread : cancelling'[u] # NoWork => cancelling'[u] = cancelling[u]
      BY <2>1
    <3> QED BY <2>1, <2>2, <3>2, <3>3, <3>4, WorkAssumption DEF CancelPart, CancelsSoundly
  <2> QED BY <1>s, <1>r, <2>1, <2>2 DEF WorkStepKept
<1> QED
  BY <1>1, <1>2, <1>3, WorkerKeeps, SubmitKeeps DEF WorkNext

(* The list as the walk of its links finds it.                             *)
LEMMA WorkListWalk ==
  ASSUME WorkRep
  PROVE  WorkListSound
<1>1. PICK s \in Seq(Work) : QueuedIs(s) /\ TokensAre(Len(s))
  BY DEF WorkRep
<1>2. IsFiniteSet(Work) /\ NoWork \notin Work /\ Cardinality(Work) \in Nat
  BY WorkAssumption, FS_CardinalityType
<1>3. Len(s) <= Cardinality(Work) /\ Cardinality({s[k] : k \in 1..Len(s)}) = Len(s)
  <2>1. Distinct(s)
    BY <1>1 DEF QueuedIs, Distinct
  <2> QED BY <1>2, <2>1, DistinctBound
<1>4. WorkList = s
  <2> DEFINE n == Cardinality(Work)
             h == wq.head
  <2>0. n \in Nat /\ Len(s) <= n
    BY <1>2, <1>3, Zenon
  <2> HIDE DEF n
  <2>1. Len(s) <= n + 1
    BY <2>0
  <2>2. Spells(h, wnext, NoWork, s)
    BY <1>1 DEF QueuedIs, Spells
  <2> HIDE DEF h
  <2>3. ChainFrom(h, wnext, NoWork, n) = s
    <3>1. NoWork \notin Work /\ n \in Nat
      BY <1>2, <2>0
    <3> QED BY <2>1, <2>2, <3>1, ChainIsList
  <2> QED BY <2>3 DEF WorkList, n, h
<1>5. Elems(s) = {w \in Work : pending[w]} /\ Elems(s) = {s[k] : k \in 1..Len(s)}
  BY <1>1 DEF QueuedIs, Elems
<1>6. wq.tail = IF s = <<>> THEN NoWork ELSE s[Len(s)]
  BY <1>1 DEF QueuedIs
<1> QED BY <1>1, <1>3, <1>4, <1>5, <1>6, Zenon DEF WorkListSound, TokensAre

-----------------------------------------------------------------------------
(* All objects                                                             *)

Core ==
  /\ WaitLists /\ SemPart /\ PoolPart /\ MqOK /\ PipeOK
  /\ WorkRep /\ (object # "workq" => wpc = "none")

(* The flags of an event are waited for in a behaviour about events only.  *)
EvAlone ==
  IF object = "event" THEN EvPart /\ \A l \in WaitList \ {"event"} : waitq[l] = <<>>
  ELSE flags = {} /\ ctx = [t \in Thread |-> NoCtx]

LEMMA StartsCore ==
  ASSUME Init
  PROVE  /\ Core /\ CancelPart /\ EvAlone /\ PipeWait /\ PipeAlone /\ MsgqNoStranded
         /\ Messages!FifoInit /\ Stream!FifoInit
<1>t. InitThreads
  BY DEF Init
<1>1. WaitLists /\ \A l \in WaitList : waitq[l] = <<>> /\ Woken(l) = {}
  <2>1. status = [t \in Thread |-> "ready"] /\ waitq = [l \in WaitList |-> <<>>]
    BY <1>t DEF InitThreads
  <2>2. "ready" \notin WaitList /\ <<>> \in Seq(Thread)
    BY DEF WaitList
  <2>3. waitq \in [WaitList -> Seq(Thread)]
    BY <2>1, <2>2
  <2>4. \A l \in WaitList : waitq[l] = <<>> /\ Len(waitq[l]) = 0 /\ Woken(l) = {}
    BY <2>1, <2>2 DEF Woken
  <2>5. status \in [Thread -> {"ready", "waiting"} \cup WaitList] /\ \A t \in Thread : status[t] # "waiting"
    BY <2>1
  <2> QED BY <2>3, <2>4, <2>5 DEF WaitLists
<1>2. \/ \E n \in Nat, max \in Nat : vibe_sem_init(n, max) /\ NoItems("none") /\ object # "workq"
      \/ vibe_sem_init(0, 0) /\ NoItems("take") /\ object = "workq"
  <2>1. CASE object = "sem"
    <3>1. SemInit /\ NoItems("none") /\ object # "workq"
      BY <2>1 DEF Init
    <3>2. PICK n \in 0..CountLimit, max \in MaxCounts : vibe_sem_init(n, max)
      BY <3>1 DEF SemInit
    <3>3. n \in Nat /\ max \in Nat
      BY SemAssumption
    <3> QED BY <3>1, <3>2, <3>3
  <2>2. CASE object = "workq"
    BY <2>2 DEF Init, vibe_workq_init
  <2>3. CASE object # "sem" /\ object # "workq"
    <3>1. vibe_sem_init(0, 0) /\ NoItems("none")
      BY <2>3 DEF Init
    <3> QED BY <2>3, <3>1
  <2> QED BY <2>1, <2>2, <2>3
<1>3. SemPart
  BY <1>t, <1>2, SemStarts
<1>4. WorkRep /\ CancelPart /\ (object # "workq" => wpc = "none")
  <2>1. CASE \E n \in Nat, max \in Nat : vibe_sem_init(n, max) /\ NoItems("none") /\ object # "workq"
    <3>1. NoItems("none") /\ object # "workq"
      BY <2>1
    <3>2. WorkRep /\ CancelPart
      BY <3>1, WorkStarts
    <3> QED BY <3>1, <3>2 DEF NoItems
  <2>2. CASE vibe_sem_init(0, 0) /\ NoItems("take") /\ object = "workq"
    BY <2>2, WorkStarts
  <2> QED BY <1>2, <2>1, <2>2
<1>5. PoolPart
  BY <1>t, PoolStarts DEF Init
<1>6. MqOK /\ Messages!FifoInit
  BY MsgqStarts DEF Init
<1>7. PipeOK /\ Stream!FifoInit
  BY PipeStarts DEF Init
<1>8. EvAlone
  <2>1. flags = {} /\ ctx = [t \in Thread |-> NoCtx]
    BY DEF Init, vibe_event_init
  <2>2. EvPart
    <3>1. NoCtx \in [wait_flags : SUBSET Flag, wait_mode : Mode, satisfied : BOOLEAN]
      BY DEF NoCtx, Mode
    <3>2. \A t \in Thread : status[t] # "waiting"
      BY <1>t DEF InitThreads
    <3> QED BY <2>1, <3>1, <3>2 DEF EvPart
  <2> QED BY <1>1, <2>1, <2>2 DEF EvAlone
<1>9. PipeWait /\ PipeAlone /\ MsgqNoStranded
  <2>1. \A l \in {"pipe_read", "pipe_write", "msgq_read", "msgq_write"} : waitq[l] = <<>> /\ Woken(l) = {}
    BY <1>1 DEF WaitList
  <2>2. On("pipe_read") = {} /\ On("pipe_write") = {}
    BY <2>1 DEF On
  <2> QED BY <2>1, <2>2 DEF PipeWait, SidesOK, PipeNoStranded, PipeAlone, MsgqNoStranded,
                           MsgqReaders, MsgqWriters
<1> QED
  BY <1>1, <1>3, <1>4, <1>5, <1>6, <1>7, <1>8, <1>9 DEF Core

(* A step that is not the work queue's.                                    *)
LEMMA WorkIdle ==
  ASSUME WorkRep, UNCHANGED workvars, wpc = "none" \/ UNCHANGED semvars
  PROVE  WorkRep' /\ (CancelPart => CancelPart' /\ CancelsSoundly)
<1>1. UNCHANGED <<wq, wnext, pending, armed, wpc, giving, cancelling>>
  BY DEF workvars
<1>2. giving' \subseteq Thread
  BY <1>1 DEF WorkRep
<1>3. \A n \in Nat : TokensAre(n) => TokensAre(n)'
  BY <1>1 DEF TokensAre, semvars
<1>4. WorkRep'
  BY <1>1, <1>2, <1>3, SameList
<1>5. CancelPart => CancelPart' /\ CancelsSoundly
  BY <1>1 DEF CancelPart, CancelsSoundly
<1> QED BY <1>4, <1>5

LEMMA CoreStep ==
  ASSUME Core, [Next]_vars
  PROVE  /\ Core' /\ FifoStep /\ StreamStep
         /\ OneManager /\ CancelPart => CancelPart' /\ CancelsSoundly
<1>0. /\ WaitLists /\ SemPart /\ PoolPart /\ MqOK /\ PipeOK /\ WorkRep
      /\ object # "workq" => wpc = "none"
      /\ "sem" \in WaitList /\ "pool" \in WaitList
  BY DEF Core, WaitList
<1>m. UNCHANGED mqvars => MqOK' /\ FifoStep
  BY <1>0, MsgqFifoStep
<1>p. UNCHANGED pipevars => PipeOK' /\ StreamStep
  BY <1>0, PipeFifoStep
<1>1. CASE InSem(SemNext)
  <2>1. SemKept /\ UNCHANGED <<object, workvars, mqvars, evvars, poolvars, pipevars>> /\ object = "sem"
    BY <1>0, <1>1, SemStep DEF InSem
  <2>2. PoolPart'
    BY <1>0, <2>1, PoolFrame DEF SemKept
  <2>3. WorkRep' /\ (CancelPart => CancelPart' /\ CancelsSoundly) /\ wpc' = wpc
    BY <1>0, <2>1, WorkIdle DEF workvars
  <2> QED BY <1>0, <1>m, <1>p, <2>1, <2>2, <2>3 DEF Core, SemKept
<1>2. CASE InWorkQ(WorkNext)
  <2>1. WorkStepKept /\ UNCHANGED <<object, mqvars, evvars, poolvars, pipevars>> /\ object = "workq"
    BY <1>0, <1>2, WorkStep DEF InWorkQ
  <2>2. PoolPart'
    BY <1>0, <2>1, PoolFrame DEF SemKept, WorkStepKept
  <2> QED BY <1>0, <1>m, <1>p, <2>1, <2>2 DEF Core, SemKept, WorkStepKept
<1>3. CASE InMsgQ(MsgqNext)
  <2>1. /\ MsgqKept /\ MqOK' /\ FifoStep
        /\ UNCHANGED <<object, semvars, workvars, evvars, poolvars, pipevars>> /\ object = "msgq"
    BY <1>0, <1>3, MsgqStep, MsgqFifoStep DEF InMsgQ
  <2>2. PoolPart' /\ SemPart'
    BY <1>0, <2>1, PoolFrame, SemFrame DEF MsgqKept
  <2>3. WorkRep' /\ (CancelPart => CancelPart' /\ CancelsSoundly) /\ wpc' = wpc
    BY <1>0, <2>1, WorkIdle DEF workvars
  <2> QED BY <1>0, <1>p, <2>1, <2>2, <2>3 DEF Core, MsgqKept
<1>4. CASE InEvent(EventNext)
  <2>1. /\ WaitLists' /\ \A l \in WaitList \ {"event"} : Untouched(l)
    BY <1>0, <1>4, EventStep DEF InEvent
  <2>2. UNCHANGED <<object, semvars, workvars, mqvars, poolvars, pipevars>> /\ object = "event"
    BY <1>4 DEF InEvent
  <2>3. PoolPart' /\ SemPart'
    BY <1>0, <2>1, <2>2, PoolFrame, SemFrame
  <2>4. WorkRep' /\ (CancelPart => CancelPart' /\ CancelsSoundly) /\ wpc' = wpc
    BY <1>0, <2>2, WorkIdle DEF workvars
  <2> QED BY <1>0, <1>m, <1>p, <2>1, <2>2, <2>3, <2>4 DEF Core
<1>5. CASE InPool(PoolNext)
  <2>1. PoolKept /\ UNCHANGED <<object, semvars, workvars, mqvars, evvars, pipevars>> /\ object = "pool"
    BY <1>0, <1>5, PoolStep DEF InPool
  <2>2. SemPart'
    BY <1>0, <2>1, SemFrame DEF PoolKept
  <2>3. WorkRep' /\ (CancelPart => CancelPart' /\ CancelsSoundly) /\ wpc' = wpc
    BY <1>0, <2>1, WorkIdle DEF workvars
  <2> QED BY <1>0, <1>m, <1>p, <2>1, <2>2, <2>3 DEF Core, PoolKept
<1>6. CASE InPipes(PipeNext)
  <2>1. /\ PipeKept /\ PipeOK' /\ StreamStep
        /\ UNCHANGED <<object, semvars, workvars, mqvars, evvars, poolvars>> /\ object = "pipe"
    BY <1>0, <1>6, PipeStep, PipeFifoStep DEF InPipes
  <2>2. PoolPart' /\ SemPart'
    BY <1>0, <2>1, PoolFrame, SemFrame DEF PipeKept
  <2>3. WorkRep' /\ (CancelPart => CancelPart' /\ CancelsSoundly) /\ wpc' = wpc
    BY <1>0, <2>1, WorkIdle DEF workvars
  <2> QED BY <1>0, <1>m, <2>1, <2>2, <2>3 DEF Core, PipeKept
<1>7. CASE UNCHANGED <<object, status, waitq, semvars, workvars, mqvars, evvars, poolvars, pipevars>>
  <2>2. WaitLists' /\ \A l \in WaitList : Untouched(l)
    BY <1>0, <1>7 DEF WaitLists, Untouched, Woken
  <2>3. PoolPart' /\ SemPart'
    BY <1>0, <1>7, <2>2, PoolFrame, SemFrame
  <2>4. WorkRep' /\ (CancelPart => CancelPart' /\ CancelsSoundly) /\ wpc' = wpc
    BY <1>0, <1>7, WorkIdle DEF workvars
  <2> QED BY <1>0, <1>m, <1>p, <1>7, <2>2, <2>3, <2>4 DEF Core
<1>8. ASSUME InTimers(TimerNext) \/ UNCHANGED vars
      PROVE  UNCHANGED <<object, status, waitq, semvars, workvars, mqvars, evvars, poolvars, pipevars>>
  BY <1>8 DEF InTimers, vars
<1> QED
  BY <1>1, <1>2, <1>3, <1>4, <1>5, <1>6, <1>7, <1>8 DEF Next

(* Nobody of either side waits in vain, step by step.                      *)
LEMMA WaitStep ==
  ASSUME Core, [Next]_vars
  PROVE  /\ MsgqNoStranded => MsgqNoStranded'
         /\ PipeWait /\ PipeAlone => PipeWait' /\ PipeAlone'
<1>0. /\ WaitLists /\ SemPart /\ PoolPart /\ MqOK /\ PipeOK /\ WorkRep
      /\ \A l \in {"sem", "pool", "event", "msgq_read", "msgq_write", "pipe_read", "pipe_write"} : l \in WaitList
  BY DEF Core, WaitList
<1>m. ASSUME UNCHANGED mqvars, Untouched("msgq_read"), Untouched("msgq_write") PROVE MsgqNoStranded => MsgqNoStranded'
  BY <1>m, MqFrame
<1>p. ASSUME UNCHANGED pipevars, Untouched("pipe_read"), Untouched("pipe_write"), object # "pipe"
      PROVE  PipeWait /\ PipeAlone => PipeWait' /\ PipeAlone'
  BY <1>p, PipeFrame DEF PipeWait, PipeAlone
<1>1. CASE InSem(SemNext)
  BY <1>0, <1>m, <1>p, <1>1, SemStep DEF InSem, SemKept
<1>2. CASE InWorkQ(WorkNext)
  BY <1>0, <1>m, <1>p, <1>2, WorkStep DEF InWorkQ, SemKept, WorkStepKept
<1>3. CASE InMsgQ(MsgqNext)
  BY <1>0, <1>p, <1>3, MsgqStep DEF InMsgQ, MsgqKept
<1>4. CASE InEvent(EventNext)
  <2>1. /\ WaitLists' /\ \A l \in WaitList \ {"event"} : Untouched(l)
    BY <1>0, <1>4, EventStep DEF InEvent
  <2> QED BY <1>0, <1>m, <1>p, <1>4, <2>1 DEF InEvent
<1>5. CASE InPool(PoolNext)
  BY <1>0, <1>m, <1>p, <1>5, PoolStep DEF InPool, PoolKept
<1>6. CASE InPipes(PipeNext)
  BY <1>0, <1>m, <1>6, PipeStep DEF InPipes, PipeKept, PipeAlone
<1>7. CASE UNCHANGED <<object, status, waitq, semvars, workvars, mqvars, evvars, poolvars, pipevars>>
  <2>1. \A l \in WaitList : Untouched(l)
    BY <1>0, <1>7 DEF Untouched, Woken
  <2>2. MsgqNoStranded => MsgqNoStranded'
    BY <1>0, <1>m, <1>7, <2>1
  <2>3. UNCHANGED <<object, status, waitq, pipe, xfer, leftover>>
    BY <1>7 DEF pipevars
  <2>4. PipeWait /\ PipeAlone => PipeWait' /\ PipeAlone'
    BY <2>3 DEF PipeWait, PipeAlone, SidesOK, On, Woken, PipeNoStranded, Reading, Writing
  <2> QED BY <2>2, <2>4
<1>8. ASSUME InTimers(TimerNext) \/ UNCHANGED vars
      PROVE  UNCHANGED <<object, status, waitq, semvars, workvars, mqvars, evvars, poolvars, pipevars>>
  BY <1>8 DEF InTimers, vars
<1> QED
  BY <1>1, <1>2, <1>3, <1>4, <1>5, <1>6, <1>7, <1>8 DEF Next

(* With TLS, a post wakes exactly those it satisfies.                      *)
LEMMA EvStep ==
  ASSUME Core, EvAlone, CONFIG_TLS, [Next]_vars
  PROVE  EvAlone' /\ (WokenExactly \/ UNCHANGED <<status, evvars>>)
<1>0. /\ WaitLists /\ SemPart /\ PoolPart /\ MqOK /\ PipeOK /\ WorkRep
      /\ "event" \in WaitList /\ "event" # "waiting"
  BY DEF Core, WaitList
<1>o. ASSUME UNCHANGED <<object, evvars>>, object # "event", Untouched("event")
      PROVE  EvAlone' /\ WokenExactly
  <2>1. flags = {} /\ flags' = {} /\ ctx = [t \in Thread |-> NoCtx] /\ ctx' = ctx
    BY <1>o DEF EvAlone, evvars
  <2>2. \A t \in Thread : ~flags_satisfied(flags', ctx[t].wait_flags, ctx[t].wait_mode)
    BY <2>1 DEF flags_satisfied, NoCtx
  <2>3. \A t \in Thread : status[t] = "waiting" => status'[t] # "event"
    BY <1>0, <1>o DEF Untouched, Woken
  <2> QED BY <1>o, <2>1, <2>2, <2>3 DEF EvAlone, WokenExactly
<1>1. CASE InSem(SemNext)
  BY <1>0, <1>o, <1>1, SemStep DEF InSem, SemKept
<1>2. CASE InWorkQ(WorkNext)
  BY <1>0, <1>o, <1>2, WorkStep DEF InWorkQ, SemKept, WorkStepKept
<1>3. CASE InMsgQ(MsgqNext)
  BY <1>0, <1>o, <1>3, MsgqStep DEF InMsgQ, MsgqKept
<1>4. CASE InEvent(EventNext)
  <2>1. object = "event" /\ object' = object /\ EvPart /\ \A l \in WaitList \ {"event"} : waitq[l] = <<>>
    BY <1>4 DEF InEvent, EvAlone
  <2>2. /\ WaitLists' /\ EvPart' /\ WokenExactly /\ \A l \in WaitList \ {"event"} : Untouched(l)
    BY <1>0, <1>4, <2>1, EventStep DEF InEvent
  <2> QED BY <2>1, <2>2 DEF EvAlone, Untouched
<1>5. CASE InPool(PoolNext)
  BY <1>0, <1>o, <1>5, PoolStep DEF InPool, PoolKept
<1>6. CASE InPipes(PipeNext)
  BY <1>0, <1>o, <1>6, PipeStep DEF InPipes, PipeKept
<1>7. CASE UNCHANGED <<object, status, waitq, semvars, workvars, mqvars, evvars, poolvars, pipevars>>
  BY <1>7 DEF EvAlone, EvPart, evvars
<1>8. ASSUME InTimers(TimerNext) \/ UNCHANGED vars
      PROVE  UNCHANGED <<object, status, waitq, semvars, workvars, mqvars, evvars, poolvars, pipevars>>
  BY <1>8 DEF InTimers, vars
<1> QED
  BY <1>1, <1>2, <1>3, <1>4, <1>5, <1>6, <1>7, <1>8 DEF Next

(* One place in one list is one element of the set that ThreadsOK counts.  *)
LEMMA ListedOnce ==
  ASSUME WaitLists
  PROVE  ThreadsOK
<1> DEFINE At(t) == {p \in WaitList \X (1..Cardinality(Thread)) :
                       p[2] <= Len(waitq[p[1]]) /\ waitq[p[1]][p[2]] = t}
<1>1. \A l \in WaitList : waitq[l] \in Seq(Thread) /\ Len(waitq[l]) <= Cardinality(Thread)
  <2> TAKE l \in WaitList
  <2> DEFINE s == waitq[l]
  <2>1. s \in Seq(Thread) /\ Distinct(s)
    BY DEF WaitLists, Distinct
  <2> HIDE DEF s
  <2>2. Len(s) <= Cardinality(Thread)
    BY <2>1, ThreadAssumption, DistinctBound
  <2> QED BY <2>1, <2>2 DEF s
<1>2. Cardinality(Thread) \in Nat
  BY ThreadAssumption, FS_CardinalityType
<1>3. ASSUME NEW t \in Thread, status[t] = "waiting" PROVE Cardinality(At(t)) = 1
  <2>1. PICK l \in WaitList : \E k \in 1..Len(waitq[l]) : waitq[l][k] = t
    BY <1>3 DEF WaitLists
  <2>2. PICK k \in 1..Len(waitq[l]) : waitq[l][k] = t
    BY <2>1
  <2>3. k \in 1..Cardinality(Thread) /\ k <= Len(waitq[l])
    BY <1>1, <1>2
  <2>4. <<l, k>> \in At(t)
    BY <2>2, <2>3
  <2>5. ASSUME NEW p \in At(t) PROVE p = <<l, k>>
    <3>1. /\ p[1] \in WaitList /\ p[2] \in 1..Len(waitq[p[1]]) /\ waitq[p[1]][p[2]] = t
          /\ p = <<p[1], p[2]>>
      BY <1>1, <1>2
    <3>2. p[1] = l /\ p[2] = k
      BY <2>2, <3>1 DEF WaitLists
    <3> QED BY <3>1, <3>2
  <2>6. At(t) = {<<l, k>>}
    BY <2>4, <2>5
  <2> QED BY <2>6, FS_Singleton
<1>4. ASSUME NEW t \in Thread, Cardinality(At(t)) = 1 PROVE status[t] = "waiting"
  <2>1. At(t) # {}
    BY <1>4, FS_EmptySet
  <2>2. PICK p : p \in At(t)
    BY <2>1
  <2>3. p[1] \in WaitList /\ p[2] \in 1..Len(waitq[p[1]]) /\ waitq[p[1]][p[2]] = t
    BY <1>1, <1>2, <2>2
  <2> QED BY <2>3 DEF WaitLists
<1>5. \A t \in Thread : status[t] = "waiting" <=> Cardinality(At(t)) = 1
  BY <1>3, <1>4
<1>6. \A l \in WaitList : Elems(waitq[l]) \subseteq Thread
  BY <1>1 DEF Elems
<1> QED BY <1>5, <1>6 DEF WaitLists, ThreadsOK

-----------------------------------------------------------------------------
(* The theorems                                                            *)

LEMMA CoreHolds == Spec => []Core
<1>1. Init => Core
  BY StartsCore
<1>2. Core /\ [Next]_vars => Core'
  BY CoreStep
<1> QED BY <1>1, <1>2, PTL DEF Spec

(* Whatever the threads block on, and however calls, wake-ups and returns  *)
(* of sem.c, msgq.c, pipe.c, event.c, mem_pool.c and workq.c interleave:   *)
(* a thread that is WAITING is linked by its one wait_node into exactly    *)
(* one wait list, and a thread that is not is in none.                     *)
THEOREM WaitersLinkedOnce == Spec => []ThreadsOK
<1>1. Core => ThreadsOK
  BY ListedOnce DEF Core
<1> QED BY <1>1, CoreHolds, PTL

(* A token of a semaphore is in its count or on its way to one woken       *)
(* thread, whatever takes, gives and resets, for any number of threads,    *)
(* also for the semaphore inside a work queue.                             *)
THEOREM TokensConserved == Spec => []SemConserved
<1>1. Core => SemConserved
  BY DEF Core, SemPart
<1> QED BY <1>1, CoreHolds, PTL

(* The free list of a memory pool, which lives in the free blocks          *)
(* themselves, holds each block that nobody has, once, and free_count is   *)
(* its length.                                                             *)
THEOREM BlocksConserved == Spec => []PoolPartition
<1>1. Core => PoolPartition
  BY FreeListWalk DEF Core, PoolPart
<1> QED BY <1>1, CoreHolds, PTL

(* Message queues and pipes of any capacity are first-in first-out, across *)
(* all wraps of their indices: each step is one of the bounded FIFO of     *)
(* module Fifo, or leaves it alone.                                        *)
THEOREM BuffersInOrder == Spec => DeliversInOrder
<1>1. Init => Messages!FifoInit /\ Stream!FifoInit
  BY StartsCore
<1>2. Core /\ [Next]_vars =>
        /\ [Messages!Push \/ Messages!Pop \/ Messages!Clear]_<<Contents, received>>
        /\ [Stream!Push \/ Stream!Pop \/ Stream!Clear]_<<InPipe, delivered>>
  BY CoreStep DEF FifoStep, StreamStep
<1> QED
  BY <1>1, <1>2, CoreHolds, PTL
     DEF Spec, DeliversInOrder, MsgqFifo, PipeFifo, Messages!FifoSpec, Stream!FifoSpec

(* Whoever waits for what is there has a woken thread, or for pipes one in *)
(* the middle of its call, before it: for any number of threads that read  *)
(* and write, take and give in any mixture, and for any capacity.  What    *)
(* escapes the code is named: those a woken thread of a message queue      *)
(* passes over (overlooked) and what the ended call of a pipe leaves to    *)
(* its own side (leftover).                                                *)
THEOREM NobodyWaitsInVain == Spec => []NobodyStranded
<1>1. Init => Core /\ MsgqNoStranded /\ PipeWait /\ PipeAlone
  BY StartsCore
<1>2. (Core /\ MsgqNoStranded /\ PipeWait /\ PipeAlone) /\ [Next]_vars
        => (Core /\ MsgqNoStranded /\ PipeWait /\ PipeAlone)'
  BY CoreStep, WaitStep
<1>3. Core /\ MsgqNoStranded /\ PipeWait => NobodyStranded
  BY DEF Core, SemPart, PoolPart, PipeWait, NobodyStranded
<1> QED BY <1>1, <1>2, <1>3, PTL DEF Spec

(* With TLS, vibe_event_post wakes exactly the waiters whose condition the *)
(* accumulated flags satisfy, for any flags, masks and modes.              *)
THEOREM PostsWakeExactly ==
  ASSUME CONFIG_TLS
  PROVE  Spec => EventExact
<1>1. Init => Core /\ EvAlone
  BY StartsCore
<1>2. (Core /\ EvAlone) /\ [Next]_vars => (Core /\ EvAlone)'
  BY CoreStep, EvStep
<1>3. (Core /\ EvAlone) /\ [Next]_vars =>
        [\A t \in Thread : status[t] = "waiting" =>
           (status'[t] = "event"
              <=> flags_satisfied(flags', ctx[t].wait_flags, ctx[t].wait_mode))
        ]_<<status, evvars>>
  BY EvStep DEF WokenExactly
<1> QED BY <1>1, <1>2, <1>3, PTL DEF Spec, EventExact

(* The list of a work queue holds the pending items, once each, with as    *)
(* many tokens of its semaphore behind them; and a delayed item whose      *)
(* cancel succeeded is neither queued nor due, if one thread manages it.   *)
THEOREM WorkQueueKept ==
  ASSUME OneManager
  PROVE  Spec => WorkKept
<1>1. Init => Core /\ CancelPart
  BY StartsCore
<1>2. (Core /\ CancelPart) /\ [Next]_vars => (Core /\ CancelPart)'
  BY CoreStep
<1>3. (Core /\ CancelPart) /\ [Next]_vars =>
        [\A t \in Thread :
           cancelling[t] # NoWork /\ cancelling'[t] = NoWork /\ armed[cancelling[t]]
             => ~pending'[cancelling[t]] /\ ~armed'[cancelling[t]]]_allwork
  BY CoreStep DEF CancelsSoundly
<1>4. Core => WorkListSound
  BY WorkListWalk DEF Core
<1> QED BY <1>1, <1>2, <1>3, <1>4, PTL DEF Spec, WorkKept, CancelSound

=============================================================================
