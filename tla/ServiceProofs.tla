---------------------------- MODULE ServiceProofs ----------------------------
(***************************************************************************)
(* What the services promise, for any sizes: the log ring, the RTT         *)
(* channel and the ring buffer are FIFOs, the job scheduler serves every   *)
(* job that is due, the memory protection unit checks what was asked for,  *)
(* a crash record that validates is whole, printk prints numerals, and the *)
(* shell gives a command the words of the line.                            *)
(***************************************************************************)
EXTENDS Log, Rtt, RingBuffer, JobScheduler, Mpu, Coredump, Printk, Shell, ChainProofs,
        SequenceTheorems

-----------------------------------------------------------------------------
(* How much a ring with indices modulo N holds between head h and tail t.  *)
Held(N, h, t) == (t + N - h) % N

LEMMA Advance ==
  ASSUME NEW N \in Nat \ {0}, NEW x \in 0..(N - 1), NEW n \in 0..N
  PROVE  (x + n) % N = IF x + n < N THEN x + n ELSE x + n - N
<1>1. CASE x + n < N
  <2>1. x + n = N * 0 + (x + n) /\ x + n \in 0..(N - 1) /\ x + n \in Int
    BY <1>1
  <2>2. \A r \in 0..(N - 1) : x + n = N * 0 + r => (x + n) % N = r
    BY <2>1, ModIs
  <2> QED BY <1>1, <2>1, <2>2
<1>2. CASE x + n >= N
  <2>1. x + n = N * 1 + (x + n - N) /\ x + n - N \in 0..(N - 1) /\ x + n \in Int
    BY <1>2
  <2>2. \A r \in 0..(N - 1) : x + n = N * 1 + r => (x + n) % N = r
    BY <2>1, ModIs
  <2> QED BY <1>2, <2>1, <2>2
<1> QED BY <1>1, <1>2

LEMMA HeldIs ==
  ASSUME NEW N \in Nat \ {0}, NEW h \in 0..(N - 1), NEW t \in 0..(N - 1)
  PROVE  /\ Held(N, h, t) \in 0..(N - 1)
         /\ Held(N, h, t) = IF h <= t THEN t - h ELSE t + N - h
         /\ (h + Held(N, h, t)) % N = t
<1>1. Held(N, h, t) = IF h <= t THEN t - h ELSE t + N - h
  <2>1. CASE h = 0
    <3>1. (t + N) % N = t
      BY Advance
    <3> QED BY <2>1, <3>1 DEF Held
  <2>2. CASE h > 0
    <3>1. N - h \in 0..N
      BY <2>2
    <3>2. (t + (N - h)) % N = IF t + (N - h) < N THEN t + (N - h) ELSE t + (N - h) - N
      BY <3>1, Advance
    <3>3. t + (N - h) = t + N - h
      OBVIOUS
    <3> QED BY <2>2, <3>2, <3>3 DEF Held
  <2> QED BY <2>1, <2>2
<1>2. Held(N, h, t) \in 0..(N - 1)
  BY <1>1
<1>3. PICK u \in 0..(N - 1) : u = Held(N, h, t)
  BY <1>2
<1>4. (h + u) % N = IF h + u < N THEN h + u ELSE h + u - N
  <2>1. u \in 0..N
    OBVIOUS
  <2> QED BY <2>1, Advance
<1>5. (h + u) % N = t
  BY <1>1, <1>3, <1>4
<1> QED BY <1>1, <1>2, <1>3, <1>5

(* Moving the tail adds.                                                   *)
LEMMA HeldPush ==
  ASSUME NEW N \in Nat \ {0}, NEW h \in 0..(N - 1), NEW t \in 0..(N - 1), NEW n \in Nat,
         Held(N, h, t) + n < N
  PROVE  (t + n) % N \in 0..(N - 1) /\ Held(N, h, (t + n) % N) = Held(N, h, t) + n
<1>1. Held(N, h, t) \in 0..(N - 1) /\ Held(N, h, t) = IF h <= t THEN t - h ELSE t + N - h
  BY HeldIs
<1>2. n \in 0..N
  BY <1>1
<1>3. PICK s \in 0..(N - 1) : s = (t + n) % N /\ s = IF t + n < N THEN t + n ELSE t + n - N
  <2>1. (t + n) % N = IF t + n < N THEN t + n ELSE t + n - N
    BY <1>2, Advance
  <2> DEFINE x == IF t + n < N THEN t + n ELSE t + n - N
  <2>2. x \in 0..(N - 1)
    BY <1>2
  <2> QED BY <2>1, <2>2
<1>4. Held(N, h, s) = IF h <= s THEN s - h ELSE s + N - h
  BY HeldIs
<1>5. Held(N, h, s) = Held(N, h, t) + n
  BY <1>1, <1>3, <1>4
<1> QED BY <1>3, <1>5

(* Moving the head takes away.                                             *)
LEMMA HeldPop ==
  ASSUME NEW N \in Nat \ {0}, NEW h \in 0..(N - 1), NEW t \in 0..(N - 1), NEW n \in Nat,
         n <= Held(N, h, t)
  PROVE  (h + n) % N \in 0..(N - 1) /\ Held(N, (h + n) % N, t) = Held(N, h, t) - n
<1>1. Held(N, h, t) \in 0..(N - 1) /\ Held(N, h, t) = IF h <= t THEN t - h ELSE t + N - h
  BY HeldIs
<1>2. n \in 0..N
  BY <1>1
<1>3. PICK s \in 0..(N - 1) : s = (h + n) % N /\ s = IF h + n < N THEN h + n ELSE h + n - N
  <2>1. (h + n) % N = IF h + n < N THEN h + n ELSE h + n - N
    BY <1>2, Advance
  <2> DEFINE x == IF h + n < N THEN h + n ELSE h + n - N
  <2>2. x \in 0..(N - 1)
    BY <1>2
  <2> QED BY <2>1, <2>2
<1>4. Held(N, s, t) = IF s <= t THEN t - s ELSE t + N - s
  BY HeldIs
<1>5. Held(N, s, t) = Held(N, h, t) - n
  BY <1>1, <1>3, <1>4
<1> QED BY <1>3, <1>5

(* The slots behind the u elements are other slots than theirs.            *)
LEMMA BehindIsFree ==
  ASSUME NEW N \in Nat \ {0}, NEW h \in Int, NEW u \in Nat, NEW j \in Nat, u + j < N,
         NEW i \in 1..u
  PROVE  (h + i - 1) % N # (h + u + j) % N
<1> DEFINE a == h + i - 1
           b == h + u + j
<1>1. a \in Int /\ b \in Int /\ a <= b /\ b < a + N /\ a # b
  OBVIOUS
<1>2. ASSUME a % N = b % N PROVE FALSE
  <2> HIDE DEF a, b
  <2>1. a = b
    BY <1>1, <1>2, ModInj
  <2> QED BY <1>1, <2>1
<1> QED BY <1>2

(* The n slots behind the u elements hold the first n of d.                *)
Written(N, new, h, u, d, n) == \A j \in 1..n : new[(h + u + j - 1) % N] = d[j]

Appended(N, old, new, h, u, d, n) ==
  Ring(N, new, h, u + n) = Ring(N, old, h, u) \o SubSeq(d, 1, n)

LEMMA RingWrite ==
  ASSUME NEW N \in Nat \ {0}, NEW h \in Int, NEW u \in Nat, NEW n \in Nat, NEW old, NEW new,
         NEW B, NEW d \in Seq(B), n <= Len(d),
         SameRing(N, old, new, h, u), Written(N, new, h, u, d, n)
  PROVE  Appended(N, old, new, h, u, d, n)
<1> DEFINE f == Ring(N, new, h, u + n)
           g == Ring(N, old, h, u)
           e == SubSeq(d, 1, n)
<1>1. f = [i \in 1..(u + n) |-> new[(h + i - 1) % N]]
  BY DEF Ring
<1>2. g = [i \in 1..u |-> old[(h + i - 1) % N]]
  BY DEF Ring
<1>3. e = [i \in 1..n |-> d[i]]
  OBVIOUS
<1> HIDE DEF f, g, e
<1>4. g \o e = [i \in 1..(u + n) |-> IF i <= u THEN g[i] ELSE e[i - u]]
  <2>1. Len(g) = u /\ Len(e) = n
    BY <1>2, <1>3
  <2>2. g \o e = [i \in 1..(Len(g) + Len(e)) |-> IF i <= Len(g) THEN g[i] ELSE e[i - Len(g)]]
    BY <1>2, <1>3
  <2> QED BY <2>1, <2>2
<1>5. \A i \in 1..u : f[i] = g[i]
  BY <1>1, <1>2 DEF SameRing
<1>6. ASSUME NEW i \in 1..(u + n), i > u PROVE f[i] = e[i - u]
  <2>1. i - u \in 1..n /\ h + u + (i - u) - 1 = h + i - 1
    BY <1>6
  <2>2. new[(h + u + (i - u) - 1) % N] = d[i - u]
    BY <2>1 DEF Written
  <2> QED BY <1>1, <1>3, <2>1, <2>2
<1>7. \A i \in 1..(u + n) : f[i] = IF i <= u THEN g[i] ELSE e[i - u]
  BY <1>5, <1>6
<1>8. f = g \o e
  BY <1>1, <1>4, <1>7
<1> QED BY <1>8 DEF f, g, e, Appended

(* Of the ring new, n elements are behind the u of the ring old.           *)
Grows(N, old, new, h, u, n) ==
  /\ Len(Ring(N, old, h, u)) = u
  /\ Len(Ring(N, new, h, u + n)) = u + n
  /\ SubSeq(Ring(N, new, h, u + n), 1, u) = Ring(N, old, h, u)

LEMMA RingGrows ==
  ASSUME NEW N \in Nat \ {0}, NEW h \in Int, NEW u \in Nat, NEW n \in Nat,
         NEW old, NEW new, SameRing(N, old, new, h, u)
  PROVE  Grows(N, old, new, h, u, n)
<1>1. /\ Len(Ring(N, new, h, u + n)) = u + n
      /\ SubSeq(Ring(N, new, h, u + n), 1, u) = Ring(N, old, h, u)
  BY RingPush
<1>2. Len(Ring(N, old, h, u)) = u
  BY DEF Ring
<1> QED BY <1>1, <1>2 DEF Grows

(* buf has a value for each of N slots.                                    *)
IsBuf(N, buf) == buf = [i \in 0..(N - 1) |-> buf[i]]

(* Putting one element into the slot at the tail, unless the ring is full. *)
LEMMA PutOne ==
  ASSUME NEW N \in Nat \ {0}, NEW h \in 0..(N - 1), NEW t \in 0..(N - 1),
         NEW buf, IsBuf(N, buf), NEW b, (t + 1) % N # h
  PROVE  /\ (t + 1) % N \in 0..(N - 1)
         /\ Held(N, h, (t + 1) % N) = Held(N, h, t) + 1
         /\ Held(N, h, t) + 1 <= N - 1
         /\ Grows(N, buf, [buf EXCEPT ![t] = b], h, Held(N, h, t), 1)
<1>1. PICK u \in 0..(N - 1) : /\ u = Held(N, h, t) /\ (h + u) % N = t
                              /\ u = IF h <= t THEN t - h ELSE t + N - h
  BY HeldIs
<1>2. (t + 1) % N = IF t + 1 < N THEN t + 1 ELSE t + 1 - N
  <2>1. 1 \in 0..N
    OBVIOUS
  <2> QED BY <2>1, Advance
<1>3. u + 1 <= N - 1
  BY <1>1, <1>2
<1>4. (t + 1) % N \in 0..(N - 1) /\ Held(N, h, (t + 1) % N) = u + 1
  <2> DEFINE one == 1
  <2>1. one \in Nat /\ Held(N, h, t) + one < N
    BY <1>1, <1>3
  <2> HIDE DEF one
  <2>2. (t + one) % N \in 0..(N - 1) /\ Held(N, h, (t + one) % N) = Held(N, h, t) + one
    BY <2>1, HeldPush
  <2> QED BY <1>1, <2>2 DEF one
<1> DEFINE new == [buf EXCEPT ![t] = b]
           one == 1
<1>5. SameRing(N, buf, new, h, u)
  <2>1. ASSUME NEW i \in 1..u PROVE (h + i - 1) % N # t
    <3>1. h \in Int /\ u \in Nat /\ 0 \in Nat /\ u + 0 < N /\ h + u + 0 = h + u
      OBVIOUS
    <3>2. (h + i - 1) % N # (h + u + 0) % N
      BY <3>1, BehindIsFree
    <3> QED BY <1>1, <3>1, <3>2
  <2>2. \A k : k # t => new[k] = buf[k]
    BY DEF IsBuf
  <2> HIDE DEF new
  <2> QED BY <2>1, <2>2 DEF SameRing
<1>6. h \in Int /\ u \in Nat /\ one \in Nat
  OBVIOUS
<1> HIDE DEF one, new
<1>7. Grows(N, buf, new, h, u, one)
  BY <1>5, <1>6, RingGrows
<1> QED BY <1>1, <1>3, <1>4, <1>7 DEF one, new

(* A run of slots from the tail on that does not wrap lies behind the      *)
(* elements.                                                               *)
LEMMA RunIsFree ==
  ASSUME NEW N \in Nat \ {0}, NEW h \in 0..(N - 1), NEW t \in 0..(N - 1), NEW j \in Nat,
         Held(N, h, t) + j < N, t + j < N
  PROVE  /\ (h + Held(N, h, t) + j) % N = t + j
         /\ \A i \in 1..Held(N, h, t) : (h + i - 1) % N # t + j
<1>1. PICK u \in 0..(N - 1) : u = Held(N, h, t) /\ (h + u) % N = t
  BY HeldIs
<1>2. (((h + u) % N) + j) % N = (h + u + j) % N
  <2>1. h + u \in Int /\ j \in Int
    OBVIOUS
  <2> QED BY <2>1, ModAdd
<1>3. (t + j) % N = t + j
  <2>1. j \in 0..N
    OBVIOUS
  <2> QED BY <2>1, Advance
<1>4. (h + u + j) % N = t + j
  BY <1>1, <1>2, <1>3
<1>5. ASSUME NEW i \in 1..u PROVE (h + i - 1) % N # t + j
  <2>1. h \in Int /\ u \in Nat /\ u + j < N
    BY <1>1
  <2>2. (h + i - 1) % N # (h + u + j) % N
    BY <2>1, BehindIsFree
  <2> QED BY <1>4, <2>2
<1> QED BY <1>1, <1>4, <1>5

LEMMA RingSame ==
  ASSUME NEW N, NEW h, NEW u \in Nat, NEW n \in 0..u, NEW old, NEW new, SameRing(N, old, new, h, u)
  PROVE  Ring(N, new, h, n) = Ring(N, old, h, n)
<1>1. ASSUME NEW i \in 1..n PROVE new[(h + i - 1) % N] = old[(h + i - 1) % N]
  <2>1. i \in 1..u
    OBVIOUS
  <2> QED BY <2>1, Zenon DEF SameRing
<1>2. \A i \in 1..n : new[(h + i - 1) % N] = old[(h + i - 1) % N]
  BY <1>1, Zenon
<1> QED BY <1>2 DEF Ring

LEMMA LeastOfIs ==
  ASSUME NEW T \in SUBSET Nat, T # {}
  PROVE  LeastOf(T) \in T /\ \A k \in T : LeastOf(T) <= k
<1>1. \E n \in T : \A k \in T : n <= k
  BY LeastNumber
<1> QED BY <1>1 DEF LeastOf

-----------------------------------------------------------------------------
(* The log.                                                                *)
-----------------------------------------------------------------------------
OneFlusher == \A f, g \in Flushers : f = g

(* A message that is being printed is still the first of the ring.         *)
LogInv ==
  /\ logidx = [head |-> logidx.head, tail |-> logidx.tail]
  /\ logidx.head \in 0..(LogSlots - 1) /\ logidx.tail \in 0..(LogSlots - 1)
  /\ IsBuf(LogSlots, ring)
  /\ flusher = [f \in Flushers |-> flusher[f]]
  /\ \A f \in Flushers :
       /\ flusher[f].at \in {"rest", "print"}
       /\ flusher[f].at = "print" =>
            logidx.head # logidx.tail /\ flusher[f].msg = ring[logidx.head]

LogHeld == Held(LogSlots, logidx.head, logidx.tail)

LEMMA LogPendingIs == LogPending = Ring(LogSlots, ring, logidx.head, LogHeld)
  BY DEF LogPending, Ring, LogHeld, Held

LEMMA LogStarts == vibe_log_init => LogInv /\ LogAbstract!FifoInit
<1> SUFFICES ASSUME vibe_log_init PROVE LogInv /\ LogAbstract!FifoInit
  OBVIOUS
<1>1. LogInv
  BY LogAssumption DEF vibe_log_init, LogInv, IsBuf, Resting
<1>2. LogHeld = 0
  BY <1>1, LogAssumption, HeldIs DEF vibe_log_init, LogHeld
<1>3. LogPending = <<>>
  BY <1>2, LogPendingIs DEF Ring
<1> QED BY <1>1, <1>3 DEF LogAbstract!FifoInit, vibe_log_init

LEMMA EmitPushes ==
  ASSUME LogInv, NEW m \in LogModule, NEW lv \in 1..MaxLevel, vibe_log_emit(m, lv)
  PROVE  LogInv' /\ LogAbstract!Push
<1> DEFINE N == LogSlots
           h == logidx.head
           t == logidx.tail
           u == LogHeld
<1>1. N \in Nat \ {0} /\ h \in 0..(N - 1) /\ t \in 0..(N - 1)
  BY LogAssumption DEF LogInv
<1>2. /\ (t + 1) % N # h
      /\ ring' = [ring EXCEPT ![t] = <<m, lv>>]
      /\ logidx' = [logidx EXCEPT !.tail = (t + 1) % N]
      /\ flusher' = flusher /\ printed' = printed
  BY DEF vibe_log_emit, LogNextSlot
<1>3. u \in 0..(N - 1) /\ u = Held(N, h, t)
  BY <1>1, HeldIs DEF LogHeld
<1>4. IsBuf(N, ring)
  BY DEF LogInv
<1> HIDE DEF N, h, t, u
<1>5. /\ (t + 1) % N \in 0..(N - 1) /\ Held(N, h, (t + 1) % N) = u + 1 /\ u + 1 <= N - 1
      /\ Grows(N, ring, ring', h, u, 1)
  <2> DEFINE r == ring
             x == <<m, lv>>
  <2>1. (t + 1) % N # h /\ IsBuf(N, r)
    BY <1>2, <1>4
  <2> HIDE DEF r, x
  <2>2. /\ (t + 1) % N \in 0..(N - 1) /\ Held(N, h, (t + 1) % N) = Held(N, h, t) + 1
        /\ Held(N, h, t) + 1 <= N - 1
        /\ Grows(N, r, [r EXCEPT ![t] = x], h, Held(N, h, t), 1)
    BY <1>1, <2>1, PutOne
  <2> QED BY <1>2, <1>3, <2>2 DEF r, x
<1>6. logidx'.head = h /\ logidx'.tail = (t + 1) % N
      /\ logidx' = [head |-> logidx'.head, tail |-> logidx'.tail]
  BY <1>2 DEF LogInv, h, t
<1>7. LogHeld' = u + 1
  BY <1>5, <1>6 DEF LogHeld, N
<1>8. LogPending = Ring(N, ring, h, u) /\ LogPending' = Ring(N, ring', h, u + 1)
  <2>1. LogPending' = Ring(LogSlots, ring', logidx'.head, LogHeld')
    BY DEF LogPending, Ring, LogHeld, Held
  <2> QED BY <2>1, <1>6, <1>7, LogPendingIs DEF N, h, u
<1>9. LogAbstract!Push
  <2>1. u + 1 \in (u + 1)..(N - 1)
    BY <1>1, <1>3, <1>5
  <2>2. Len(LogPending) = u /\ Len(LogPending') = u + 1 /\ SubSeq(LogPending', 1, u) = LogPending
    BY <1>5, <1>8 DEF Grows
  <2> QED BY <1>2, <2>1, <2>2 DEF LogAbstract!Push, N
<1>10. LogInv'
  <2>1. IsBuf(LogSlots, ring')
    BY <1>2 DEF LogInv, IsBuf
  <2>2. h # (t + 1) % N /\ (h # t => ring'[h] = ring[h])
    BY <1>1, <1>2 DEF LogInv, IsBuf, N
  <2>3. logidx'.head \in 0..(LogSlots - 1) /\ logidx'.tail \in 0..(LogSlots - 1)
    BY <1>1, <1>5, <1>6 DEF N
  <2>4. \A f \in Flushers :
       /\ flusher'[f].at \in {"rest", "print"}
       /\ flusher'[f].at = "print" =>
            logidx'.head # logidx'.tail /\ flusher'[f].msg = ring'[logidx'.head]
    BY <1>2, <1>6, <2>2 DEF LogInv, h, t
  <2> QED BY <1>2, <1>6, <2>1, <2>3, <2>4 DEF LogInv
<1> QED BY <1>9, <1>10

(* Giving the slot back takes the message that was printed.                *)
LEMMA FlushPops ==
  ASSUME OneFlusher, LogInv, NEW f \in Flushers, FlushAdvances(f)
  PROVE  LogInv' /\ LogAbstract!Pop
<1> DEFINE N == LogSlots
           h == logidx.head
           t == logidx.tail
           u == LogHeld
<1>1. N \in Nat \ {0} /\ h \in 0..(N - 1) /\ t \in 0..(N - 1) /\ h # t
  BY LogAssumption DEF LogInv, FlushAdvances
<1>2. /\ ring' = ring
      /\ logidx' = [logidx EXCEPT !.head = (h + 1) % N]
      /\ flusher' = [flusher EXCEPT ![f] = Resting] /\ printed' = <<ring[h]>>
  BY DEF FlushAdvances, LogNextSlot, LogInv
<1>3. u \in 0..(N - 1) /\ u = Held(N, h, t) /\ u = IF h <= t THEN t - h ELSE t + N - h
  BY <1>1, HeldIs DEF LogHeld
<1> HIDE DEF N, h, t, u
<1>4. u >= 1
  BY <1>1, <1>3
<1>5. (h + 1) % N \in 0..(N - 1) /\ Held(N, (h + 1) % N, t) = u - 1
  <2> DEFINE one == 1
  <2>1. one \in Nat /\ one <= Held(N, h, t)
    BY <1>3, <1>4
  <2> HIDE DEF one
  <2>2. (h + one) % N \in 0..(N - 1) /\ Held(N, (h + one) % N, t) = Held(N, h, t) - one
    BY <1>1, <2>1, HeldPop
  <2> QED BY <1>3, <2>2 DEF one
<1>6. logidx'.head = (h + 1) % N /\ logidx'.tail = t
      /\ logidx' = [head |-> logidx'.head, tail |-> logidx'.tail]
  BY <1>2 DEF LogInv, h, t
<1>7. LogHeld' = u - 1
  BY <1>5, <1>6 DEF LogHeld, N
<1>8. Popped(N, ring, h, u, 1)
  <2> DEFINE b == ring
             one == 1
  <2>1. h \in Int /\ u \in Nat /\ one \in 0..u
    BY <1>1, <1>3, <1>4
  <2> HIDE DEF b, one
  <2>2. Popped(N, b, h, u, one)
    BY <1>1, <2>1, RingPop
  <2> QED BY <2>2 DEF b, one
<1>9. LogPending = Ring(N, ring, h, u) /\ LogPending' = Ring(N, ring, (h + 1) % N, u - 1)
  <2>1. LogPending' = Ring(LogSlots, ring', logidx'.head, LogHeld')
    BY DEF LogPending, Ring, LogHeld, Held
  <2> QED BY <2>1, <1>2, <1>6, <1>7, LogPendingIs DEF N, h, u
<1>10. Ring(N, ring, h, 1) = <<ring[h]>>
  <2>1. h % N = h
    <3>1. (h + 0) % N = h
      BY <1>1, Advance
    <3> QED BY <1>1, <3>1
  <2>2. Ring(N, ring, h, 1) = [i \in 1..1 |-> ring[(h + i - 1) % N]]
    BY DEF Ring
  <2>3. \A i \in 1..1 : h + i - 1 = h
    BY <1>1
  <2>4. Ring(N, ring, h, 1) = [i \in 1..1 |-> ring[h]]
    BY <2>1, <2>2, <2>3
  <2> QED BY <2>4
<1>11. LogAbstract!Pop
  <2>1. 1 \in 1..Len(LogPending)
    BY <1>3, <1>4, <1>8, <1>9 DEF Popped
  <2>2. printed' = SubSeq(LogPending, 1, 1) /\ LogPending' = SubSeq(LogPending, 1 + 1, Len(LogPending))
    BY <1>2, <1>8, <1>9, <1>10 DEF Popped
  <2> QED BY <2>1, <2>2 DEF LogAbstract!Pop
<1>12. LogInv'
  <2>1. IsBuf(LogSlots, ring') /\ flusher' = [g \in Flushers |-> flusher'[g]]
    BY <1>2 DEF LogInv
  <2>2. logidx'.head \in 0..(LogSlots - 1) /\ logidx'.tail \in 0..(LogSlots - 1)
    BY <1>1, <1>5, <1>6 DEF N
  <2>3. \A g \in Flushers : flusher'[g].at = "rest"
    BY <1>2 DEF OneFlusher, LogInv, Resting
  <2> QED BY <1>6, <2>1, <2>2, <2>3 DEF LogInv
<1> QED BY <1>11, <1>12

LEMMA LogQuietKeeps ==
  ASSUME LogInv,
         \/ \E f \in Flushers : vibe_log_flush(f)
         \/ \E m \in LogModule, lv \in LogLevel : vibe_log_set_level(m, lv)
         \/ UNCHANGED logvars
  PROVE  LogInv' /\ UNCHANGED <<LogPending, printed>>
<1>1. logidx' = logidx /\ ring' = ring /\ printed' = printed
  BY DEF vibe_log_flush, vibe_log_set_level, logvars
<1>2. LogPending' = LogPending
  BY <1>1 DEF LogPending
<1>3. ASSUME flusher' = flusher PROVE LogInv'
  BY <1>1, <1>3 DEF LogInv
<1>4. ASSUME NEW f \in Flushers, vibe_log_flush(f) PROVE LogInv'
  BY <1>1, <1>4 DEF LogInv, vibe_log_flush
<1> QED
  BY <1>1, <1>2, <1>3, <1>4 DEF vibe_log_set_level, logvars

(* With one flusher, whatever the number of slots, modules and levels: the *)
(* lines vibe_log_flush prints are the lines vibe_log_emit has put into    *)
(* g_log_ring, each once and in order, although the flush takes no lock.   *)
THEOREM LogsInOrder ==
  ASSUME OneFlusher
  PROVE  LogSpec => LogFifo
<1> DEFINE FifoStep == LogAbstract!Push \/ LogAbstract!Pop \/ LogAbstract!Clear
<1>1. vibe_log_init => LogInv /\ LogAbstract!FifoInit
  BY LogStarts
<1>2. LogInv /\ [LogNext]_logvars => LogInv' /\ [FifoStep]_<<LogPending, printed>>
  <2> SUFFICES ASSUME LogInv, [LogNext]_logvars
               PROVE  LogInv' /\ [FifoStep]_<<LogPending, printed>>
    OBVIOUS
  <2>1. ASSUME NEW m \in LogModule, NEW lv \in 1..MaxLevel, vibe_log_emit(m, lv)
        PROVE  LogInv' /\ FifoStep
    BY <2>1, EmitPushes
  <2>2. ASSUME NEW f \in Flushers, FlushAdvances(f) PROVE LogInv' /\ FifoStep
    BY <2>2, FlushPops
  <2>3. ASSUME \/ \E f \in Flushers : vibe_log_flush(f)
               \/ \E m \in LogModule, lv \in LogLevel : vibe_log_set_level(m, lv)
               \/ UNCHANGED logvars
        PROVE  LogInv' /\ UNCHANGED <<LogPending, printed>>
    BY <2>3, LogQuietKeeps
  <2> QED BY <2>1, <2>2, <2>3 DEF LogNext
<1> QED
  BY <1>1, <1>2, PTL DEF LogSpec, LogFifo, LogAbstract!FifoSpec

-----------------------------------------------------------------------------
(* The RTT channel.                                                        *)
-----------------------------------------------------------------------------
IsChannel(b) ==
  /\ b = [buf |-> b.buf, WrOff |-> b.WrOff, RdOff |-> b.RdOff]
  /\ IsBuf(SizeOfBuffer, b.buf)
  /\ b.WrOff \in 0..(SizeOfBuffer - 1) /\ b.RdOff \in 0..(SizeOfBuffer - 1)

InChannel(b) == Held(SizeOfBuffer, b.RdOff, b.WrOff)

(* The run that vibe_rtt_write has copied but not published: it does not   *)
(* wrap, it has room however far the probe has come, and it is in place.   *)
RunInPlace(b, w) ==
  /\ w.run \in 1..Len(w.data) /\ w.run <= SizeOfBuffer - b.WrOff
  /\ InChannel(b) + w.run <= SizeOfBuffer - 1
  /\ \A j \in 1..w.run : b.buf[b.WrOff + j - 1] = w.data[j]

WriterOK(b, w) ==
  /\ w \in [at : {"idle", "copy", "publish"}, data : Seq(RttByte), run : Nat]
  /\ w.at = "publish" => RunInPlace(b, w)

(* What the probe has copied is what it is going to consume.               *)
HostOK(b, x) ==
  /\ x.at \in {"idle", "copied"}
  /\ x.at = "copied" => /\ x.run \in 1..InChannel(b)
                        /\ x.data = Ring(SizeOfBuffer, b.buf, b.RdOff, x.run)

RttInv ==
  /\ rtt = [ID |-> rtt.ID, ready |-> rtt.ready, set |-> rtt.set]
  /\ RttFoundWhole
  /\ IsChannel(up) /\ IsChannel(down)
  /\ WriterOK(up, writer) /\ HostOK(up, host)

LEMMA ContentsAre ==
  ASSUME IsChannel(up)
  PROVE  /\ vibe_rtt_up_used = InChannel(up)
         /\ UpContents = Ring(SizeOfBuffer, up.buf, up.RdOff, InChannel(up))
         /\ DownContents = Ring(SizeOfBuffer, down.buf, down.RdOff, InChannel(down))
<1>1. SizeOfBuffer \in Nat \ {0} /\ up.RdOff \in 0..(SizeOfBuffer - 1) /\ up.WrOff \in 0..(SizeOfBuffer - 1)
  BY RttAssumption DEF IsChannel
<1>2. InChannel(up) = IF up.RdOff <= up.WrOff THEN up.WrOff - up.RdOff ELSE up.WrOff + SizeOfBuffer - up.RdOff
  <2> DEFINE r == up.RdOff
             w == up.WrOff
  <2>1. r \in 0..(SizeOfBuffer - 1) /\ w \in 0..(SizeOfBuffer - 1)
    BY <1>1
  <2> HIDE DEF r, w
  <2>2. Held(SizeOfBuffer, r, w) = IF r <= w THEN w - r ELSE w + SizeOfBuffer - r
    BY <1>1, <2>1, HeldIs
  <2> QED BY <2>2 DEF r, w, InChannel
<1>3. vibe_rtt_up_used = InChannel(up)
  BY <1>1, <1>2 DEF vibe_rtt_up_used
<1> QED BY <1>3 DEF UpContents, DownContents, Ring, InChannel, Held

LEMMA ContentsAreNext ==
  ASSUME IsChannel(up)'
  PROVE  /\ UpContents' = Ring(SizeOfBuffer, up'.buf, up'.RdOff, InChannel(up'))
         /\ DownContents' = Ring(SizeOfBuffer, down'.buf, down'.RdOff, InChannel(down'))
<1>1. SizeOfBuffer \in Nat \ {0} /\ up'.RdOff \in 0..(SizeOfBuffer - 1) /\ up'.WrOff \in 0..(SizeOfBuffer - 1)
  BY RttAssumption DEF IsChannel
<1>2. InChannel(up') = IF up'.RdOff <= up'.WrOff THEN up'.WrOff - up'.RdOff ELSE up'.WrOff + SizeOfBuffer - up'.RdOff
  <2> DEFINE r == up'.RdOff
             w == up'.WrOff
  <2>1. r \in 0..(SizeOfBuffer - 1) /\ w \in 0..(SizeOfBuffer - 1)
    BY <1>1
  <2> HIDE DEF r, w
  <2>2. Held(SizeOfBuffer, r, w) = IF r <= w THEN w - r ELSE w + SizeOfBuffer - r
    BY <1>1, <2>1, HeldIs
  <2> QED BY <2>2 DEF r, w, InChannel
<1>3. vibe_rtt_up_used' = InChannel(up')
  BY <1>1, <1>2 DEF vibe_rtt_up_used
<1> QED BY <1>3 DEF UpContents, DownContents, Ring, InChannel, Held

LEMMA RttStarts ==
  ASSUME RttBoot
  PROVE  RttInv /\ UpAbstract!FifoInit /\ DownAbstract!FifoInit
<1>1. IsChannel(up) /\ IsChannel(down) /\ up.RdOff = 0 /\ up.WrOff = 0 /\ down.RdOff = 0 /\ down.WrOff = 0
  BY RttAssumption DEF RttBoot, IsChannel, IsBuf
<1>2. RttInv
  BY <1>1 DEF RttBoot, RttInv, WriterOK, HostOK, NoRttCall, RttFoundWhole
<1>3. InChannel(up) = 0 /\ InChannel(down) = 0
  <2>1. Held(SizeOfBuffer, 0, 0) = 0
    BY RttAssumption, HeldIs
  <2> QED BY <1>1, <2>1 DEF InChannel
<1>4. UpContents = <<>> /\ DownContents = <<>>
  BY <1>1, <1>3, ContentsAre DEF Ring
<1> QED BY <1>2, <1>4 DEF UpAbstract!FifoInit, DownAbstract!FifoInit, RttBoot

(* A run of d that fits, and channel b with the run copied behind what it  *)
(* holds.                                                                  *)
RunFits(b, d, run) ==
  /\ run \in Nat \ {0} /\ run <= Len(d) /\ run <= SizeOfBuffer - b.WrOff
  /\ InChannel(b) + run <= SizeOfBuffer - 1

WithRun(b, d, run) ==
  [b EXCEPT !.buf = [i \in DOMAIN @ |->
     IF i \in b.WrOff..(b.WrOff + run - 1) THEN d[i - b.WrOff + 1] ELSE @[i]]]

SameContents(b, c) ==
  /\ c.RdOff = b.RdOff /\ c.WrOff = b.WrOff
  /\ Ring(SizeOfBuffer, c.buf, c.RdOff, InChannel(c)) = Ring(SizeOfBuffer, b.buf, b.RdOff, InChannel(b))

(* Copying a run behind the contents changes nothing for the probe.        *)
LEMMA RunCopied ==
  ASSUME NEW b, IsChannel(b), NEW d \in Seq(RttByte), NEW x, NEW run, NEW c,
         HostOK(b, x), RunFits(b, d, run), c = WithRun(b, d, run)
  PROVE  /\ IsChannel(c) /\ WriterOK(c, [at |-> "publish", data |-> d, run |-> run])
         /\ HostOK(c, x) /\ SameContents(b, c)
<1> DEFINE N == SizeOfBuffer
           h == b.RdOff
           t == b.WrOff
           u == InChannel(b)
<1>1. N \in Nat \ {0} /\ h \in 0..(N - 1) /\ t \in 0..(N - 1)
  BY RttAssumption DEF IsChannel
<1>2. u \in 0..(N - 1) /\ u = Held(N, h, t) /\ run <= N - t /\ u + run <= N - 1
      /\ run \in Nat \ {0}
  BY <1>1, HeldIs DEF InChannel, RunFits
<1>3. /\ DOMAIN b.buf = 0..(N - 1)
      /\ c.buf = [i \in 0..(N - 1) |-> IF i \in t..(t + run - 1) THEN d[i - t + 1] ELSE b.buf[i]]
      /\ c.RdOff = h /\ c.WrOff = t /\ c = [buf |-> c.buf, WrOff |-> c.WrOff, RdOff |-> c.RdOff]
  BY DEF IsChannel, IsBuf, WithRun
<1> HIDE DEF N, h, t, u
<1>4. InChannel(c) = u
  BY <1>2, <1>3 DEF InChannel, N
<1>5. IsChannel(c)
  BY <1>1, <1>3 DEF IsChannel, IsBuf, N
<1>6. SameRing(N, b.buf, c.buf, h, u)
  <2>1. ASSUME NEW i \in 1..u, NEW k \in t..(t + run - 1) PROVE (h + i - 1) % N # k
    <3>1. PICK j \in Nat : k = t + j /\ j < run
      <4>1. k - t \in Nat /\ k = t + (k - t) /\ k - t < run
        BY <1>1, <1>2, SMTT(30)
      <4> QED BY <4>1
    <3>2. Held(N, h, t) + j < N /\ t + j < N
      <4>1. t \in Int /\ run \in Int /\ N \in Int /\ u \in Int /\ run <= N - t /\ u + run <= N - 1 /\ j < run
        BY <1>1, <1>2, <3>1
      <4>2. u + j < N /\ t + j < N
        BY <4>1
      <4> QED BY <1>2, <4>2
    <3>3. \A l \in 1..Held(N, h, t) : (h + l - 1) % N # t + j
      BY <1>1, <3>1, <3>2, RunIsFree
    <3> QED BY <1>2, <3>1, <3>3
  <2>2. ASSUME NEW i \in 1..u PROVE c.buf[(h + i - 1) % N] = b.buf[(h + i - 1) % N]
    <3>1. h + i - 1 \in Int
      BY <1>1, <1>2
    <3>2. (h + i - 1) % N \in 0..(N - 1)
      BY <1>1, <3>1, ModOf
    <3>3. (h + i - 1) % N \notin t..(t + run - 1)
      BY <2>1
    <3> QED BY <1>3, <3>2, <3>3
  <2> QED BY <2>2 DEF SameRing
<1>7. ASSUME NEW n \in 0..u PROVE Ring(N, c.buf, h, n) = Ring(N, b.buf, h, n)
  <2> DEFINE old == b.buf
             new == c.buf
  <2>1. SameRing(N, old, new, h, u) /\ u \in Nat
    BY <1>2, <1>6
  <2> HIDE DEF old, new
  <2>2. Ring(N, new, h, n) = Ring(N, old, h, n)
    BY <2>1, RingSame
  <2> QED BY <2>2 DEF old, new
<1>8. Ring(N, c.buf, h, u) = Ring(N, b.buf, h, u)
  BY <1>2, <1>7
<1>9. HostOK(c, x)
  <2>1. x.at = "copied" => x.run \in 0..u /\ x.data = Ring(N, b.buf, h, x.run)
    BY <1>2 DEF HostOK, u, h, N
  <2> QED BY <1>2, <1>3, <1>4, <1>7, <2>1 DEF HostOK, u, N
<1>10. WriterOK(c, [at |-> "publish", data |-> d, run |-> run])
  <2> DEFINE v == [at |-> "publish", data |-> d, run |-> run]
  <2>1. /\ v.at = "publish" /\ v.data = d /\ v.run = run
        /\ v \in [at : {"idle", "copy", "publish"}, data : Seq(RttByte), run : Nat]
    BY <1>2
  <2> HIDE DEF v
  <2>2. ASSUME NEW j \in 1..run PROVE c.buf[t + j - 1] = d[j]
    <3>1. t + j - 1 \in 0..(N - 1) /\ t + j - 1 \in t..(t + run - 1) /\ (t + j - 1) - t + 1 = j
      BY <1>1, <1>2
    <3> QED BY <1>3, <3>1
  <2>3. run \in 1..Len(d)
    BY <1>2 DEF RunFits
  <2>4. RunInPlace(c, v)
    BY <1>2, <1>3, <1>4, <2>1, <2>2, <2>3 DEF RunInPlace, N
  <2>5. WriterOK(c, v)
    BY <2>1, <2>4 DEF WriterOK
  <2> QED BY <2>5 DEF v
<1> QED BY <1>3, <1>4, <1>5, <1>8, <1>9, <1>10 DEF N, h, t, u, SameContents

LEMMA SpaceIs ==
  ASSUME IsChannel(up)
  PROVE  Space = SizeOfBuffer - 1 - InChannel(up) /\ InChannel(up) \in 0..(SizeOfBuffer - 1)
<1>1. SizeOfBuffer \in Nat \ {0} /\ up.RdOff \in 0..(SizeOfBuffer - 1) /\ up.WrOff \in 0..(SizeOfBuffer - 1)
  BY RttAssumption DEF IsChannel
<1>2. InChannel(up) = IF up.RdOff <= up.WrOff THEN up.WrOff - up.RdOff ELSE SizeOfBuffer - up.RdOff + up.WrOff
  BY <1>1, ContentsAre DEF vibe_rtt_up_used
<1> QED BY <1>1, <1>2 DEF Space

LEMMA WriteRunKeeps ==
  ASSUME RttInv, WriteRun
  PROVE  RttInv' /\ UNCHANGED <<UpContents, upOut, DownContents, downOut>> /\ up'.WrOff = up.WrOff
<1>1. /\ IsChannel(up) /\ WriterOK(up, writer) /\ HostOK(up, host) /\ IsChannel(down)
  BY DEF RttInv
<1> DEFINE T == {Space, SizeOfBuffer - up.WrOff, Len(writer.data)}
<1>2. PICK run : run = LeastOf(T)
  OBVIOUS
<1>3. /\ up' = WithRun(up, writer.data, run)
      /\ writer' = [writer EXCEPT !.at = "publish", !.run = run]
      /\ UNCHANGED <<rtt, down, host, upOut, downOut>> /\ writer.data # <<>> /\ Space > 0
  BY <1>2 DEF WriteRun, WithRun
<1>4. Space = SizeOfBuffer - 1 - InChannel(up) /\ InChannel(up) \in 0..(SizeOfBuffer - 1)
  BY <1>1, SpaceIs
<1>5. SizeOfBuffer \in Nat \ {0} /\ SizeOfBuffer - up.WrOff \in Nat \ {0} /\ Len(writer.data) \in Nat \ {0}
      /\ Space \in Nat \ {0} /\ writer.data \in Seq(RttByte)
  BY <1>1, <1>3, <1>4, RttAssumption DEF IsChannel, WriterOK
<1>6. run \in T /\ \A k \in T : run <= k
  <2>1. T \in SUBSET Nat /\ T # {}
    BY <1>5
  <2> HIDE DEF T
  <2> QED BY <1>2, <2>1, LeastOfIs
<1>7. run \in Nat \ {0} /\ run <= Len(writer.data) /\ run <= SizeOfBuffer - up.WrOff /\ run <= Space
  <2> DEFINE p == Space
             q == SizeOfBuffer - up.WrOff
             r == Len(writer.data)
  <2>1. p \in Nat \ {0} /\ q \in Nat \ {0} /\ r \in Nat \ {0} /\ T = {p, q, r}
    BY <1>5
  <2> HIDE DEF p, q, r, T
  <2>2. run \in Nat \ {0} /\ run <= p /\ run <= q /\ run <= r
    BY <1>6, <2>1
  <2> QED BY <2>2 DEF p, q, r
<1>8. RunFits(up, writer.data, run)
  BY <1>4, <1>5, <1>7 DEF RunFits
<1>9. writer' = [at |-> "publish", data |-> writer.data, run |-> run]
  BY <1>1, <1>3 DEF WriterOK
<1>10. IsChannel(up') /\ WriterOK(up', writer') /\ HostOK(up', host) /\ SameContents(up, up')
  <2> DEFINE b == up
             c == up'
             d == writer.data
             x == host
  <2>1. /\ IsChannel(b) /\ d \in Seq(RttByte) /\ HostOK(b, x) /\ RunFits(b, d, run)
        /\ c = WithRun(b, d, run)
    BY <1>1, <1>3, <1>5, <1>8
  <2> HIDE DEF b, c, d, x
  <2>2. /\ IsChannel(c) /\ WriterOK(c, [at |-> "publish", data |-> d, run |-> run])
        /\ HostOK(c, x) /\ SameContents(b, c)
    BY <2>1, RunCopied
  <2> QED BY <1>9, <2>2 DEF b, c, d, x
<1>11. IsChannel(up)'
  BY <1>10 DEF IsChannel
<1>12. UpContents' = UpContents /\ DownContents' = DownContents /\ up'.WrOff = up.WrOff
  BY <1>1, <1>3, <1>10, <1>11, ContentsAre, ContentsAreNext DEF SameContents
<1>13. RttInv'
  <2>1. WriterOK(up, writer)' /\ HostOK(up, host)' /\ IsChannel(down)'
    BY <1>1, <1>3, <1>10 DEF WriterOK, HostOK, RunInPlace, InChannel, IsChannel
  <2> QED BY <1>3, <1>11, <2>1 DEF RttInv, RttFoundWhole
<1> QED BY <1>3, <1>12, <1>13

(* Channel b with a run published: it holds n more, the first n of d.      *)
WithWrOff(b, n) ==
  [b EXCEPT !.WrOff = IF @ + n >= SizeOfBuffer THEN 0 ELSE @ + n]

HoldsMore(b, c, d, n) ==
  /\ InChannel(c) = InChannel(b) + n /\ InChannel(c) <= SizeOfBuffer - 1
  /\ c.buf = b.buf /\ c.RdOff = b.RdOff
  /\ Ring(SizeOfBuffer, b.buf, b.RdOff, InChannel(b) + n)
       = Ring(SizeOfBuffer, b.buf, b.RdOff, InChannel(b)) \o SubSeq(d, 1, n)
  /\ Grows(SizeOfBuffer, b.buf, b.buf, b.RdOff, InChannel(b), n)

(* Publishing a run appends it.                                            *)
LEMMA RunPublished ==
  ASSUME NEW b, IsChannel(b), NEW w, WriterOK(b, w), w.at = "publish", NEW x, HostOK(b, x), NEW c,
         c = WithWrOff(b, w.run)
  PROVE  IsChannel(c) /\ HostOK(c, x) /\ HoldsMore(b, c, w.data, w.run)
<1> DEFINE N == SizeOfBuffer
           h == b.RdOff
           t == b.WrOff
           u == InChannel(b)
           n == w.run
           d == w.data
           f == b.buf
<1>1. N \in Nat \ {0} /\ h \in 0..(N - 1) /\ t \in 0..(N - 1)
  BY RttAssumption DEF IsChannel
<1>2. u \in 0..(N - 1) /\ u = Held(N, h, t)
  BY <1>1, HeldIs DEF InChannel
<1>3. /\ n \in 1..Len(d) /\ n <= N - t /\ u + n <= N - 1 /\ d \in Seq(RttByte)
      /\ \A j \in 1..n : f[t + j - 1] = d[j]
  BY DEF WriterOK, RunInPlace
<1>4. /\ c.buf = f /\ c.RdOff = h /\ c.WrOff = IF t + n >= N THEN 0 ELSE t + n
      /\ c = [buf |-> c.buf, WrOff |-> c.WrOff, RdOff |-> c.RdOff]
  BY DEF IsChannel, WithWrOff
<1> HIDE DEF N, h, t, u, n, d, f
<1>5. n \in Nat \ {0} /\ n <= Len(d) /\ n \in 0..N /\ n <= N - t /\ u + n <= N - 1 /\ d \in Seq(RttByte)
  BY <1>1, <1>3
<1>6. c.WrOff = (t + n) % N
  <2>1. (t + n) % N = IF t + n < N THEN t + n ELSE t + n - N
    BY <1>1, <1>5, Advance
  <2> QED BY <1>1, <1>3, <1>4, <1>5, <2>1
<1>7. (t + n) % N \in 0..(N - 1) /\ Held(N, h, (t + n) % N) = u + n
  <2>1. Held(N, h, t) + n < N
    BY <1>1, <1>2, <1>3, <1>5
  <2> QED BY <1>1, <1>2, <1>5, <2>1, HeldPush
<1>8. InChannel(c) = u + n
  BY <1>4, <1>6, <1>7 DEF InChannel, N
<1>9. IsChannel(c)
  BY <1>1, <1>4, <1>6, <1>7 DEF IsChannel, N, f
<1>10. HostOK(c, x)
  <2>1. x.run \in 1..u => x.run \in 1..(u + n)
    BY <1>2, <1>5
  <2> QED BY <1>4, <1>8, <2>1 DEF HostOK, u, h, f
<1>11. SameRing(N, f, f, h, u)
  BY DEF SameRing
<1>12. Written(N, f, h, u, d, n)
  <2>1. ASSUME NEW j \in 1..n PROVE f[(h + u + j - 1) % N] = d[j]
    <3>1. PICK k \in Nat : k = j - 1
      BY <1>5
    <3>2. Held(N, h, t) + k < N /\ t + k < N
      <4>1. N \in Int /\ t \in Int /\ u \in Int /\ n \in Int /\ n <= N - t /\ u + n <= N - 1 /\ k < n
        BY <1>1, <1>2, <1>5, <3>1
      <4>2. u + k < N /\ t + k < N
        BY <4>1
      <4> QED BY <1>2, <4>2
    <3>3. (h + Held(N, h, t) + k) % N = t + k
      BY <1>1, <3>2, RunIsFree
    <3>4. h + u + j - 1 = h + u + k /\ t + j - 1 = t + k
      BY <1>1, <1>2, <1>5, <3>1
    <3> QED BY <1>2, <1>3, <3>3, <3>4
  <2> QED BY <2>1 DEF Written
<1>13. h \in Int /\ u \in Nat /\ n \in Nat
  BY <1>1, <1>2, <1>5
<1>14. Ring(N, f, h, u + n) = Ring(N, f, h, u) \o SubSeq(d, 1, n)
  <2>1. N \in Nat \ {0} /\ n <= Len(d) /\ d \in Seq(RttByte)
    BY <1>1, <1>5
  <2>2. Appended(N, f, f, h, u, d, n)
    BY <2>1, <1>11, <1>12, <1>13, RingWrite
  <2> QED BY <2>2 DEF Appended
<1>15. Grows(N, f, f, h, u, n)
  <2>1. N \in Nat \ {0}
    BY <1>1
  <2> QED BY <2>1, <1>11, <1>13, RingGrows
<1>16. InChannel(c) <= N - 1
  BY <1>3, <1>8
<1> QED BY <1>4, <1>8, <1>9, <1>10, <1>14, <1>15, <1>16 DEF N, h, t, u, n, d, f, HoldsMore

LEMMA PublishPushes ==
  ASSUME RttInv, PublishWrOff
  PROVE  /\ RttInv' /\ UpAbstract!Push /\ UNCHANGED <<DownContents, downOut>>
         /\ UpContents' = UpContents \o SubSeq(writer.data, 1, writer.run)
<1>1. /\ IsChannel(up) /\ WriterOK(up, writer) /\ HostOK(up, host) /\ IsChannel(down)
      /\ writer.at = "publish"
  BY DEF RttInv, PublishWrOff
<1>2. /\ up' = WithWrOff(up, writer.run)
      /\ writer' = [at |-> "copy", run |-> 0,
                    data |-> SubSeq(writer.data, writer.run + 1, Len(writer.data))]
      /\ UNCHANGED <<rtt, down, host, upOut, downOut>>
  BY DEF PublishWrOff, WithWrOff
<1>3. IsChannel(up') /\ HostOK(up', host) /\ HoldsMore(up, up', writer.data, writer.run)
  <2> DEFINE b == up
             c == up'
             w == writer
             x == host
  <2>1. /\ IsChannel(b) /\ WriterOK(b, w) /\ w.at = "publish" /\ HostOK(b, x)
        /\ c = WithWrOff(b, w.run)
    BY <1>1, <1>2
  <2> HIDE DEF b, c, w, x
  <2>2. IsChannel(c) /\ HostOK(c, x) /\ HoldsMore(b, c, w.data, w.run)
    BY <2>1, RunPublished
  <2> QED BY <2>2 DEF b, c, w, x
<1>4. IsChannel(up)' /\ HostOK(up, host)' /\ IsChannel(down)'
  BY <1>1, <1>2, <1>3 DEF IsChannel, HostOK, InChannel
<1>5. WriterOK(up, writer)'
  <2>1. writer.data \in Seq(RttByte) /\ writer.run \in 1..Len(writer.data)
    BY <1>1 DEF WriterOK, RunInPlace
  <2>2. SubSeq(writer.data, writer.run + 1, Len(writer.data)) \in Seq(RttByte)
    BY <2>1
  <2> QED BY <1>2, <2>2 DEF WriterOK
<1>6. RttInv'
  BY <1>2, <1>4, <1>5 DEF RttInv, RttFoundWhole
<1>7. /\ UpContents = Ring(SizeOfBuffer, up.buf, up.RdOff, InChannel(up))
      /\ UpContents' = Ring(SizeOfBuffer, up.buf, up.RdOff, InChannel(up) + writer.run)
  BY <1>1, <1>3, <1>4, ContentsAre, ContentsAreNext DEF HoldsMore
<1>8. Len(UpContents) = InChannel(up) /\ Len(UpContents') = InChannel(up) + writer.run
      /\ SubSeq(UpContents', 1, Len(UpContents)) = UpContents
  BY <1>3, <1>7 DEF Grows, HoldsMore
<1>9. UpAbstract!Push
  <2>1. InChannel(up) \in Nat /\ writer.run \in Nat \ {0} /\ SizeOfBuffer \in Nat
    BY <1>1, SpaceIs, RttAssumption DEF WriterOK, RunInPlace
  <2>2. InChannel(up) + writer.run <= SizeOfBuffer - 1
    BY <1>3 DEF HoldsMore
  <2>3. InChannel(up) + writer.run \in (InChannel(up) + 1)..(SizeOfBuffer - 1)
    BY <2>1, <2>2
  <2> QED BY <1>2, <1>8, <2>3 DEF UpAbstract!Push
<1>10. DownContents' = DownContents
  BY <1>2 DEF DownContents
<1> QED BY <1>2, <1>3, <1>6, <1>7, <1>9, <1>10 DEF HoldsMore

(* Channel b with n bytes taken.                                           *)
WithRdOff(b, n) == [b EXCEPT !.RdOff = (@ + n) % SizeOfBuffer]

HoldsLess(b, c, n) ==
  /\ InChannel(c) = InChannel(b) - n /\ c.buf = b.buf /\ c.WrOff = b.WrOff
  /\ Popped(SizeOfBuffer, b.buf, b.RdOff, InChannel(b), n)
  /\ c.RdOff = (b.RdOff + n) % SizeOfBuffer

(* Moving RdOff takes the first bytes, and leaves a copied run in place.   *)
LEMMA BytesTaken ==
  ASSUME NEW b, IsChannel(b), NEW n \in Nat, n <= InChannel(b), NEW c, c = WithRdOff(b, n)
  PROVE  IsChannel(c) /\ HoldsLess(b, c, n)
<1> DEFINE N == SizeOfBuffer
           h == b.RdOff
           t == b.WrOff
           u == InChannel(b)
           f == b.buf
<1>1. N \in Nat \ {0} /\ h \in 0..(N - 1) /\ t \in 0..(N - 1)
  BY RttAssumption DEF IsChannel
<1>2. u \in 0..(N - 1) /\ u = Held(N, h, t) /\ n <= u
  BY <1>1, HeldIs DEF InChannel
<1>3. /\ c.buf = f /\ c.RdOff = (h + n) % N /\ c.WrOff = t
      /\ c = [buf |-> c.buf, WrOff |-> c.WrOff, RdOff |-> c.RdOff]
  BY DEF IsChannel, WithRdOff
<1> HIDE DEF N, h, t, u, f
<1>4. (h + n) % N \in 0..(N - 1) /\ Held(N, (h + n) % N, t) = u - n
  BY <1>1, <1>2, HeldPop
<1>5. InChannel(c) = u - n
  BY <1>3, <1>4 DEF InChannel, N
<1>6. IsChannel(c)
  BY <1>1, <1>3, <1>4 DEF IsChannel, N, f
<1>7. Popped(N, f, h, u, n)
  <2>1. N \in Nat \ {0} /\ h \in Int /\ u \in Nat /\ n \in 0..u
    BY <1>1, <1>2
  <2> QED BY <2>1, RingPop
<1> QED BY <1>3, <1>5, <1>6, <1>7 DEF HoldsLess, N, h, t, u, f

LEMMA ConsumePops ==
  ASSUME RttInv, HostConsumes
  PROVE  /\ RttInv' /\ UpAbstract!Pop /\ UNCHANGED <<DownContents, downOut>>
         /\ up'.WrOff = up.WrOff
<1>1. /\ IsChannel(up) /\ WriterOK(up, writer) /\ HostOK(up, host) /\ IsChannel(down)
      /\ host.at = "copied"
  BY DEF RttInv, HostConsumes
<1>2. /\ up' = WithRdOff(up, host.run)
      /\ upOut' = host.data /\ host' = NoRttCall
      /\ UNCHANGED <<rtt, down, writer, downOut>>
  BY DEF HostConsumes, WithRdOff
<1>3. /\ host.run \in 1..InChannel(up) /\ host.data = Ring(SizeOfBuffer, up.buf, up.RdOff, host.run)
      /\ InChannel(up) \in Nat
  BY <1>1, SpaceIs DEF HostOK
<1>4. IsChannel(up') /\ HoldsLess(up, up', host.run)
  <2> DEFINE b == up
             c == up'
             n == host.run
  <2>1. IsChannel(b) /\ n \in Nat /\ n <= InChannel(b) /\ c = WithRdOff(b, n)
    BY <1>1, <1>2, <1>3
  <2> HIDE DEF b, c, n
  <2>2. IsChannel(c) /\ HoldsLess(b, c, n)
    BY <2>1, BytesTaken
  <2> QED BY <2>2 DEF b, c, n
<1>5. IsChannel(up)' /\ HostOK(up, host)' /\ IsChannel(down)'
  BY <1>1, <1>2, <1>4 DEF IsChannel, HostOK, NoRttCall
<1>6. WriterOK(up, writer)'
  <2>1. ASSUME RunInPlace(up, writer) PROVE RunInPlace(up', writer)
    <3> DEFINE u == InChannel(up)
               v == InChannel(up')
               r == writer.run
               n == host.run
    <3>1. up'.buf = up.buf /\ up'.WrOff = up.WrOff /\ v = u - n
      BY <1>4 DEF HoldsLess
    <3>2. r \in 1..Len(writer.data) /\ r <= SizeOfBuffer - up.WrOff /\ u + r <= SizeOfBuffer - 1
          /\ \A j \in 1..r : up.buf[up.WrOff + j - 1] = writer.data[j]
      BY <2>1 DEF RunInPlace
    <3>3. r \in Int /\ u \in Int /\ n \in Nat /\ SizeOfBuffer \in Int /\ u + r <= SizeOfBuffer - 1
      BY <1>1, <1>3, <3>2, RttAssumption DEF WriterOK
    <3>4. (u - n) + r <= SizeOfBuffer - 1
      <4> HIDE DEF u, n, r
      <4> QED BY <3>3
    <3> QED BY <3>1, <3>2, <3>4 DEF RunInPlace
  <2>2. RunInPlace(up, writer)' <=> RunInPlace(up', writer')
    BY DEF RunInPlace, InChannel
  <2> QED BY <1>1, <1>2, <2>1, <2>2 DEF WriterOK
<1>7. RttInv'
  BY <1>2, <1>5, <1>6 DEF RttInv, RttFoundWhole
<1>8. /\ UpContents = Ring(SizeOfBuffer, up.buf, up.RdOff, InChannel(up))
      /\ UpContents' = Ring(SizeOfBuffer, up.buf, (up.RdOff + host.run) % SizeOfBuffer, InChannel(up) - host.run)
  BY <1>1, <1>4, <1>5, ContentsAre, ContentsAreNext DEF HoldsLess
<1>9. UpAbstract!Pop
  <2>1. Popped(SizeOfBuffer, up.buf, up.RdOff, InChannel(up), host.run)
    BY <1>4 DEF HoldsLess
  <2>2. /\ Len(UpContents) = InChannel(up) /\ upOut' = SubSeq(UpContents, 1, host.run)
        /\ UpContents' = SubSeq(UpContents, host.run + 1, Len(UpContents))
    BY <1>2, <1>3, <1>8, <2>1 DEF Popped
  <2> QED BY <1>3, <2>2 DEF UpAbstract!Pop
<1>10. DownContents' = DownContents
  BY <1>2 DEF DownContents
<1> QED BY <1>2, <1>4, <1>7, <1>9, <1>10 DEF HoldsLess

(* vibe_rtt_read takes the first bytes that the probe has sent.            *)
LEMMA ReadPops ==
  ASSUME RttInv, NEW len \in Nat, vibe_rtt_read(len)
  PROVE  RttInv' /\ DownAbstract!Pop /\ UNCHANGED <<up, upOut>> /\ UpContents' = UpContents
<1>1. /\ IsChannel(up) /\ WriterOK(up, writer) /\ HostOK(up, host) /\ IsChannel(down)
  BY DEF RttInv
<1> DEFINE T == {InChannel(down), len}
<1>2. PICK n : n = LeastOf(T)
  OBVIOUS
<1>3. /\ n > 0 /\ downOut' = Ring(SizeOfBuffer, down.buf, down.RdOff, n)
      /\ down' = WithRdOff(down, n)
      /\ UNCHANGED <<rtt, up, writer, host, upOut>>
  BY <1>2 DEF vibe_rtt_read, WithRdOff, InChannel, Held, Ring
<1>4. InChannel(down) \in Nat
  <2> DEFINE r == down.RdOff
             w == down.WrOff
  <2>1. SizeOfBuffer \in Nat \ {0} /\ r \in 0..(SizeOfBuffer - 1) /\ w \in 0..(SizeOfBuffer - 1)
    BY <1>1, RttAssumption DEF IsChannel
  <2> HIDE DEF r, w
  <2>2. Held(SizeOfBuffer, r, w) \in 0..(SizeOfBuffer - 1)
    BY <2>1, HeldIs
  <2> QED BY <2>2 DEF r, w, InChannel
<1>5. n \in T /\ \A k \in T : n <= k
  <2>1. T \in SUBSET Nat /\ T # {}
    BY <1>4
  <2> HIDE DEF T
  <2> QED BY <1>2, <2>1, LeastOfIs
<1>6. n \in Nat \ {0} /\ n <= InChannel(down)
  BY <1>3, <1>4, <1>5
<1>7. IsChannel(down') /\ HoldsLess(down, down', n)
  <2> DEFINE b == down
             c == down'
  <2>1. IsChannel(b) /\ n \in Nat /\ n <= InChannel(b) /\ c = WithRdOff(b, n)
    BY <1>1, <1>3, <1>6
  <2> HIDE DEF b, c
  <2>2. IsChannel(c) /\ HoldsLess(b, c, n)
    BY <2>1, BytesTaken
  <2> QED BY <2>2 DEF b, c
<1>8. IsChannel(up)' /\ IsChannel(down)' /\ WriterOK(up, writer)' /\ HostOK(up, host)'
  BY <1>1, <1>3, <1>7 DEF IsChannel, WriterOK, HostOK, RunInPlace, InChannel
<1>9. RttInv'
  BY <1>3, <1>8 DEF RttInv, RttFoundWhole
<1>10. /\ DownContents = Ring(SizeOfBuffer, down.buf, down.RdOff, InChannel(down))
       /\ DownContents' = Ring(SizeOfBuffer, down.buf, (down.RdOff + n) % SizeOfBuffer, InChannel(down) - n)
  BY <1>1, <1>7, <1>8, ContentsAre, ContentsAreNext DEF HoldsLess
<1>11. DownAbstract!Pop
  <2>1. Popped(SizeOfBuffer, down.buf, down.RdOff, InChannel(down), n)
    BY <1>7 DEF HoldsLess
  <2>2. /\ Len(DownContents) = InChannel(down) /\ downOut' = SubSeq(DownContents, 1, n)
        /\ DownContents' = SubSeq(DownContents, n + 1, Len(DownContents))
    BY <1>3, <1>10, <2>1 DEF Popped
  <2>3. n \in 1..Len(DownContents)
    BY <1>4, <1>6, <2>2
  <2> QED BY <2>2, <2>3 DEF DownAbstract!Pop
<1>12. UpContents' = UpContents
  BY <1>3 DEF UpContents, vibe_rtt_up_used
<1> QED BY <1>3, <1>9, <1>11, <1>12

(* The probe appends one byte to the down buffer.                          *)
LEMMA HostPushes ==
  ASSUME RttInv, NEW b \in RttByte, HostWrites(b)
  PROVE  RttInv' /\ DownAbstract!Push /\ UNCHANGED <<up, upOut>> /\ UpContents' = UpContents
<1>1. /\ IsChannel(up) /\ WriterOK(up, writer) /\ HostOK(up, host) /\ IsChannel(down)
  BY DEF RttInv
<1> DEFINE N == SizeOfBuffer
           h == down.RdOff
           t == down.WrOff
           u == InChannel(down)
           f == down.buf
           g == [f EXCEPT ![t] = b]
<1>2. N \in Nat \ {0} /\ h \in 0..(N - 1) /\ t \in 0..(N - 1) /\ IsBuf(N, f) /\ u = Held(N, h, t)
  BY <1>1, RttAssumption DEF IsChannel, InChannel
<1>3. (t + 1) % N # h /\ UNCHANGED <<rtt, up, writer, host, upOut, downOut>>
  BY DEF HostWrites
<1>4. /\ down'.buf = g /\ down'.RdOff = h /\ down'.WrOff = (t + 1) % N
      /\ down' = [buf |-> down'.buf, WrOff |-> down'.WrOff, RdOff |-> down'.RdOff]
  BY <1>1 DEF HostWrites, IsChannel
<1>5. IsBuf(N, g)
  BY <1>2 DEF IsBuf
<1>6. u \in Nat
  <2> HIDE DEF N, h, t, u
  <2> QED BY <1>2, HeldIs
<1>7. /\ (t + 1) % N \in 0..(N - 1)
      /\ Held(N, h, (t + 1) % N) = u + 1 /\ u + 1 <= N - 1
      /\ Grows(N, f, g, h, u, 1)
  <2> HIDE DEF N, h, t, u, f
  <2>1. /\ (t + 1) % N \in 0..(N - 1)
        /\ Held(N, h, (t + 1) % N) = Held(N, h, t) + 1 /\ Held(N, h, t) + 1 <= N - 1
        /\ Grows(N, f, [f EXCEPT ![t] = b], h, Held(N, h, t), 1)
    BY <1>2, <1>3, PutOne
  <2> QED BY <1>2, <2>1
<1> HIDE DEF g
<1>8. InChannel(down') = u + 1
  BY <1>4, <1>7 DEF InChannel
<1>9. IsChannel(down)'
  BY <1>2, <1>4, <1>5, <1>7 DEF IsChannel
<1>10. IsChannel(up)' /\ WriterOK(up, writer)' /\ HostOK(up, host)'
  BY <1>1, <1>3 DEF IsChannel, WriterOK, HostOK, RunInPlace, InChannel
<1>11. RttInv'
  BY <1>3, <1>9, <1>10 DEF RttInv, RttFoundWhole
<1>12. DownContents = Ring(N, f, h, u) /\ DownContents' = Ring(N, g, h, u + 1)
  BY <1>1, <1>4, <1>8, <1>10, ContentsAre, ContentsAreNext
<1> HIDE DEF N, h, t, u, f
<1>13. Len(DownContents) = u /\ Len(DownContents') = u + 1 /\ SubSeq(DownContents', 1, u) = DownContents
  BY <1>7, <1>12 DEF Grows
<1>14. u + 1 \in (u + 1)..(N - 1)
  <2>1. N \in Nat /\ u \in Nat /\ u + 1 <= N - 1
    BY <1>2, <1>6, <1>7
  <2> QED BY <2>1
<1>15. DownAbstract!Push
  BY <1>3, <1>13, <1>14 DEF DownAbstract!Push, N
<1>16. UpContents' = UpContents
  BY <1>3 DEF UpContents, vibe_rtt_up_used
<1> QED BY <1>3, <1>11, <1>15, <1>16

LEMMA RttQuietKeeps ==
  ASSUME RttInv,
         \/ vibe_rtt_init \/ WriteEnds \/ HostReads \/ UNCHANGED rttvars
         \/ \E n \in 1..RttChunk : \E d \in [1..n -> RttByte] : vibe_rtt_write(d)
  PROVE  RttInv' /\ UNCHANGED <<UpContents, upOut, DownContents, downOut, up>>
<1>1. /\ IsChannel(up) /\ WriterOK(up, writer) /\ HostOK(up, host) /\ IsChannel(down)
      /\ rtt = [ID |-> rtt.ID, ready |-> rtt.ready, set |-> rtt.set] /\ RttFoundWhole
  BY DEF RttInv
<1>2. UNCHANGED <<up, down, upOut, downOut>>
  BY DEF vibe_rtt_init, WriteEnds, HostReads, rttvars, vibe_rtt_write
<1>3. UpContents' = UpContents /\ DownContents' = DownContents
  BY <1>2 DEF UpContents, DownContents, vibe_rtt_up_used
<1>4. IsChannel(up)' /\ IsChannel(down)'
  BY <1>1, <1>2 DEF IsChannel
<1>5. WriterOK(up, writer)'
  <2>1. CASE writer' = writer
    BY <1>1, <1>2, <2>1 DEF WriterOK, RunInPlace, InChannel
  <2>2. CASE writer' = NoRttCall
    BY <2>2 DEF WriterOK, NoRttCall
  <2>3. ASSUME NEW n \in 1..RttChunk, NEW d \in [1..n -> RttByte], vibe_rtt_write(d)
        PROVE  WriterOK(up, writer)'
    <3>1. d \in Seq(RttByte)
      BY RttAssumption
    <3>2. writer' = [at |-> "copy", data |-> d, run |-> 0]
      BY <2>3 DEF vibe_rtt_write
    <3> QED BY <3>1, <3>2 DEF WriterOK
  <2> QED BY <2>1, <2>2, <2>3 DEF vibe_rtt_init, WriteEnds, HostReads, rttvars
<1>6. HostOK(up, host)'
  <2>1. CASE host' = host
    BY <1>1, <1>2, <2>1 DEF HostOK, InChannel
  <2>2. ASSUME HostReads PROVE HostOK(up, host)'
    <3> DEFINE n == InChannel(up)
    <3>1. n > 0 /\ host' = [at |-> "copied", run |-> n, data |-> Ring(SizeOfBuffer, up.buf, up.RdOff, n)]
      BY <2>2 DEF HostReads, InChannel, Held, Ring
    <3>2. n \in Nat
      BY <1>1, SpaceIs
    <3>3. InChannel(up)' = n
      BY <1>2 DEF InChannel
    <3> QED BY <1>2, <3>1, <3>2, <3>3 DEF HostOK
  <2> QED BY <2>1, <2>2 DEF vibe_rtt_init, WriteEnds, rttvars, vibe_rtt_write
<1>7. (rtt = [ID |-> rtt.ID, ready |-> rtt.ready, set |-> rtt.set] /\ RttFoundWhole)'
  <2>1. CASE rtt' = rtt
    BY <1>1, <2>1 DEF RttFoundWhole
  <2>2. CASE vibe_rtt_init
    BY <1>1, <2>2 DEF vibe_rtt_init, RttFoundWhole
  <2> QED BY <2>1, <2>2 DEF WriteEnds, HostReads, rttvars, vibe_rtt_write
<1> QED BY <1>2, <1>3, <1>4, <1>5, <1>6, <1>7 DEF RttInv

(* For any buffer size and any transfers of the probe between any two      *)
(* steps of the target: the bytes the probe reads are those vibe_rtt_write *)
(* has stored, and vibe_rtt_read returns those the probe has sent, each    *)
(* once and in order; and the probe never accepts a half-filled block.     *)
THEOREM RttKeepsOrder == RttSpec => RttDelivers
<1> DEFINE UpStep == UpAbstract!Push \/ UpAbstract!Pop \/ UpAbstract!Clear
           DownStep == DownAbstract!Push \/ DownAbstract!Pop \/ DownAbstract!Clear
           Appends == up'.WrOff # up.WrOff =>
                        UpContents' = UpContents \o SubSeq(writer.data, 1, writer.run)
<1>1. RttBoot => RttInv /\ UpAbstract!FifoInit /\ DownAbstract!FifoInit
  BY RttStarts
<1>2. RttInv /\ [RttNext]_rttvars =>
        /\ RttInv' /\ [UpStep]_<<UpContents, upOut>> /\ [DownStep]_<<DownContents, downOut>>
        /\ [Appends]_rttvars
  <2> SUFFICES ASSUME RttInv, [RttNext]_rttvars
               PROVE  /\ RttInv' /\ [UpStep]_<<UpContents, upOut>>
                      /\ [DownStep]_<<DownContents, downOut>> /\ Appends
    OBVIOUS
  <2>1. CASE WriteRun
    BY <2>1, WriteRunKeeps
  <2>2. CASE PublishWrOff
    BY <2>2, PublishPushes
  <2>3. CASE HostConsumes
    BY <2>3, ConsumePops
  <2>4. ASSUME NEW n \in 1..RttChunk, vibe_rtt_read(n)
        PROVE  /\ RttInv' /\ [UpStep]_<<UpContents, upOut>>
               /\ [DownStep]_<<DownContents, downOut>> /\ Appends
    <3>1. n \in Nat
      BY RttAssumption
    <3> QED BY <2>4, <3>1, ReadPops
  <2>5. ASSUME NEW b \in RttByte, HostWrites(b)
        PROVE  /\ RttInv' /\ [UpStep]_<<UpContents, upOut>>
               /\ [DownStep]_<<DownContents, downOut>> /\ Appends
    BY <2>5, HostPushes
  <2>6. CASE \/ vibe_rtt_init \/ WriteEnds \/ HostReads \/ UNCHANGED rttvars
             \/ \E n \in 1..RttChunk : \E d \in [1..n -> RttByte] : vibe_rtt_write(d)
    BY <2>6, RttQuietKeeps
  <2> QED
    BY <2>1, <2>2, <2>3, <2>4, <2>5, <2>6 DEF RttNext, RttUpNext, RttDownNext
<1>3. RttInv => RttFoundWhole
  BY DEF RttInv
<1> QED
  BY <1>1, <1>2, <1>3, PTL
     DEF RttSpec, RttDelivers, RttUpFifo, RttDownFifo, UpAbstract!FifoSpec, DownAbstract!FifoSpec

-----------------------------------------------------------------------------
(* The ring buffer.                                                        *)
-----------------------------------------------------------------------------
(* Wrapping at a multiple of the size does not disturb the mask.           *)
LEMMA MaskOfWrapped ==
  ASSUME NEW N \in Nat \ {0}, NEW M \in Nat \ {0}, M % N = 0, NEW a \in Int, NEW b \in Int
  PROVE  ((a % M) + b) % N = (a + b) % N
<1>1. PICK k \in Int : M = N * k
  <2>0. M \in Int
    OBVIOUS
  <2>1. PICK q \in Int : M = N * q + (M % N)
    BY <2>0, ModOf, Zenon
  <2>2. M = N * q
    <3>1. N * q \in Int
      BY Z3
    <3> QED BY <2>1, <3>1
  <2> QED BY <2>2
<1>2. PICK q \in Int, m \in 0..(M - 1) : m = a % M /\ a = M * q + m
  <2>1. a % M \in 0..(M - 1) /\ \E q \in Int : a = M * q + (a % M)
    BY ModOf, Zenon
  <2> QED BY <2>1, Zenon
<1>3. m + b \in Int
  OBVIOUS
<1>4. PICK p \in Int, r \in 0..(N - 1) : r = (m + b) % N /\ m + b = N * p + r
  <2>1. (m + b) % N \in 0..(N - 1) /\ \E p \in Int : m + b = N * p + ((m + b) % N)
    BY <1>3, ModOf, Zenon
  <2> QED BY <2>1, Zenon
<1>5. a + b = N * (k * q + p) + r /\ k * q + p \in Int /\ a + b \in Int
  <2>1. M * q = N * (k * q) /\ N * (k * q) \in Int /\ k * q \in Int
    BY <1>1, Z3
  <2> DEFINE x == k * q
  <2>2. x \in Int /\ N * x \in Int /\ M * q = N * x
    BY <2>1
  <2> HIDE DEF x
  <2>3. N * (x + p) = N * x + N * p /\ N * p \in Int
    BY <2>2, Z3
  <2>4. a = N * x + m /\ m + b = N * p + r
    BY <1>2, <1>4, <2>2
  <2>5. \A y, z \in Int : a = y + m /\ m + b = z + r => a + b = (y + z) + r
    OBVIOUS
  <2>6. a + b = (N * x + N * p) + r
    BY <2>2, <2>3, <2>4, <2>5, Zenon
  <2> QED BY <2>2, <2>3, <2>6 DEF x
<1>6. (a + b) % N = r
  BY <1>5, ModIs
<1> QED BY <1>2, <1>4, <1>6

(* The j-th slot from the one that t is masked to.                         *)
LEMMA MaskedSlot ==
  ASSUME NEW N \in Nat \ {0}, NEW t \in Int, NEW j \in 1..N, NEW at \in 0..(N - 1), at = t % N
  PROVE  /\ (t + j - 1) % N = IF at + j - 1 < N THEN at + j - 1 ELSE at + j - 1 - N
         /\ (t + j - 1) % N \in 0..(N - 1)
<1>1. PICK k \in 0..N : k = j - 1
  OBVIOUS
<1>2. ((t % N) + k) % N = (t + k) % N
  <2>1. k \in Int
    OBVIOUS
  <2> QED BY <2>1, ModAdd
<1>3. (at + k) % N = IF at + k < N THEN at + k ELSE at + k - N
  BY Advance
<1>4. t + k = t + j - 1 /\ at + k = at + j - 1
  BY <1>1
<1>5. (t + k) % N = IF at + k < N THEN at + k ELSE at + k - N
  BY <1>2, <1>3
<1>6. (t + k) % N \in 0..(N - 1)
  <2>1. t + k \in Int
    OBVIOUS
  <2> QED BY <2>1, ModOf
<1>7. (t + j - 1) % N = (t + k) % N
  BY <1>4, Zenon
<1>8. (t + j - 1) % N = IF at + j - 1 < N THEN at + j - 1 ELSE at + j - 1 - N
  <2> DEFINE x == (t + j - 1) % N
  <2>1. x = IF at + k < N THEN at + k ELSE at + k - N
    BY <1>5, <1>7
  <2> HIDE DEF x
  <2>2. x = IF at + j - 1 < N THEN at + j - 1 ELSE at + j - 1 - N
    BY <1>4, <2>1
  <2> QED BY <2>2 DEF x
<1> QED BY <1>6, <1>7, <1>8

(* What the two memcpy of vibe_rb_put_buf make of buf.                     *)
TwoChunks(N, buf, t, d, n) ==
  LET at == t % N
      chunk == Lesser(N - at, n)
  IN  [i \in DOMAIN buf |-> IF i \in at..(at + chunk - 1) THEN d[i - at + 1]
                            ELSE IF i < n - chunk THEN d[chunk + i + 1] ELSE buf[i]]

(* They write the n slots from the tail on, around the end, and no other.  *)
LEMMA TwoChunksWrite ==
  ASSUME NEW N \in Nat \ {0}, NEW t \in Int, NEW n \in 0..N, NEW d, NEW buf, IsBuf(N, buf),
         NEW new, new = TwoChunks(N, buf, t, d, n)
  PROVE  /\ IsBuf(N, new)
         /\ \A j \in 1..n : new[(t + j - 1) % N] = d[j]
         /\ \A i \in 0..(N - 1) : (\A j \in 1..n : i # (t + j - 1) % N) => new[i] = buf[i]
<1>1. PICK at \in 0..(N - 1) : at = t % N
  BY ModOf
<1>2. PICK chunk \in 0..n : /\ chunk = Lesser(N - at, n) /\ chunk <= N - at
                            /\ chunk < n => chunk = N - at
  BY DEF Lesser
<1>3. new = [i \in 0..(N - 1) |-> IF i \in at..(at + chunk - 1) THEN d[i - at + 1]
                                  ELSE IF i < n - chunk THEN d[chunk + i + 1] ELSE buf[i]]
  BY <1>1, <1>2 DEF TwoChunks, IsBuf
<1>4. IsBuf(N, new)
  BY <1>3 DEF IsBuf
<1>5. \A j \in 1..n : (t + j - 1) % N = (IF at + j - 1 < N THEN at + j - 1 ELSE at + j - 1 - N)
                      /\ (t + j - 1) % N \in 0..(N - 1)
  <2> TAKE j \in 1..n
  <2>1. j \in 1..N
    OBVIOUS
  <2> QED BY <1>1, <2>1, MaskedSlot
<1>6. ASSUME NEW j \in 1..n PROVE new[(t + j - 1) % N] = d[j]
  <2>1. PICK s \in 0..(N - 1) : s = (t + j - 1) % N /\ s = (IF at + j - 1 < N THEN at + j - 1 ELSE at + j - 1 - N)
    BY <1>5
  <2>2. CASE j <= chunk
    <3>1. s \in at..(at + chunk - 1) /\ s - at + 1 = j
      BY <1>2, <2>1, <2>2
    <3> QED BY <1>3, <2>1, <3>1
  <2>3. CASE j > chunk
    <3>1. chunk = N - at
      BY <1>2, <2>3
    <3>2. s \notin at..(at + chunk - 1) /\ s < n - chunk /\ chunk + s + 1 = j
      BY <2>1, <2>3, <3>1
    <3> QED BY <1>3, <2>1, <3>2
  <2> QED BY <1>2, <2>2, <2>3
<1>7. ASSUME NEW i \in 0..(N - 1), \A j \in 1..n : i # (t + j - 1) % N
      PROVE  new[i] = buf[i]
  <2>1. i \notin at..(at + chunk - 1)
    <3>1. SUFFICES ASSUME i \in at..(at + chunk - 1) PROVE FALSE
      OBVIOUS
    <3>2. PICK j \in 1..n : j = i - at + 1
      BY <1>2, <3>1
    <3>3. (t + j - 1) % N = (IF at + j - 1 < N THEN at + j - 1 ELSE at + j - 1 - N)
      BY <1>5
    <3>4. at + j - 1 = i /\ i < N
      BY <3>2
    <3>5. (t + j - 1) % N = i
      BY <3>3, <3>4
    <3> QED BY <1>7, <3>5
  <2>2. ~(i < n - chunk)
    <3>1. SUFFICES ASSUME i < n - chunk PROVE FALSE
      OBVIOUS
    <3>2. PICK j \in 1..n : j = chunk + i + 1
      BY <1>2, <3>1
    <3>3. chunk = N - at
      BY <1>2, <3>1
    <3>4. (t + j - 1) % N = (IF at + j - 1 < N THEN at + j - 1 ELSE at + j - 1 - N)
      BY <1>5
    <3>5. at + j - 1 = N + i
      BY <3>2, <3>3
    <3>6. ~(at + j - 1 < N) /\ at + j - 1 - N = i
      BY <3>5
    <3>7. (t + j - 1) % N = i
      BY <3>4, <3>6
    <3> QED BY <1>7, <3>7
  <2> QED BY <1>3, <2>1, <2>2
<1> QED BY <1>4, <1>6, <1>7

(* What the two memcpy of vibe_rb_get_buf collect.                         *)
LEMMA TwoChunksRead ==
  ASSUME NEW N \in Nat \ {0}, NEW h \in Int, NEW n \in 0..N, NEW buf, NEW at, at = h % N,
         NEW chunk, chunk = Lesser(N - at, n)
  PROVE  [i \in 1..n |-> IF i <= chunk THEN buf[at + i - 1] ELSE buf[i - chunk - 1]]
           = Ring(N, buf, h, n)
<1>1. at \in 0..(N - 1)
  BY ModOf
<1>2. chunk \in 0..n /\ chunk <= N - at /\ (chunk < n => chunk = N - at)
  BY <1>1 DEF Lesser
<1>3. ASSUME NEW i \in 1..n
      PROVE  (h + i - 1) % N = IF i <= chunk THEN at + i - 1 ELSE i - chunk - 1
  <2>1. i \in 1..N
    OBVIOUS
  <2>2. (h + i - 1) % N = IF at + i - 1 < N THEN at + i - 1 ELSE at + i - 1 - N
    BY <1>1, <2>1, MaskedSlot
  <2> QED BY <1>1, <1>2, <2>2
<1> QED BY <1>3 DEF Ring

(* The producer has room for what it copies, and has copied it behind the  *)
(* contents by the time it publishes.                                      *)
ProducerOK ==
  /\ producer \in [pc : {"idle", "copy", "publish", "stats"}, data : Seq(RbByte), n : Nat]
  /\ producer.pc # "idle" => producer.n <= Len(producer.data)
  /\ producer.pc \in {"copy", "publish"} => vibe_rb_used + producer.n <= rb_size
  /\ producer.pc = "publish" =>
       \A j \in 1..producer.n : rb.buf[(rb.tail + j - 1) % rb_size] = producer.data[j]

(* What the consumer takes is there, and what it has copied is the first   *)
(* of it.                                                                  *)
ConsumerOK ==
  /\ consumer = [pc |-> consumer.pc, data |-> consumer.data, n |-> consumer.n]
  /\ consumer.pc \in {"idle", "copy", "publish", "stats"} /\ consumer.n \in Nat
  /\ consumer.pc \in {"copy", "publish"} => consumer.n <= vibe_rb_used
  /\ consumer.pc = "publish" => consumer.data = Ring(rb_size, rb.buf, rb.head, consumer.n)

(* The counters are the indices, from where they count and as far as they  *)
(* have been brought up to date.                                           *)
StatsOK ==
  /\ rbstats \in [peak_used : Nat, put_count : 0..(SizeMod - 1), get_count : 0..(SizeMod - 1)]
  /\ since \in [tail : 0..(SizeMod - 1), head : 0..(SizeMod - 1), put : BOOLEAN]
  /\ producer.pc # "stats" => rb.tail = (rbstats.put_count + since.tail) % SizeMod
  /\ producer.pc = "stats" =>
       /\ producer.n <= rb_size
       /\ rb.tail = (rbstats.put_count + since.tail + producer.n) % SizeMod
  /\ consumer.pc # "stats" => rb.head = (rbstats.get_count + since.head) % SizeMod
  /\ consumer.pc = "stats" =>
       /\ consumer.n <= rb_size
       /\ rb.head = (rbstats.get_count + since.head + consumer.n) % SizeMod
  /\ rbstats.peak_used <= rb_size
  /\ producer.pc # "stats" /\ since.put => vibe_rb_used <= rbstats.peak_used

IndicesOK ==
  /\ rb = [buf |-> rb.buf, head |-> rb.head, tail |-> rb.tail]
  /\ IsBuf(rb_size, rb.buf)
  /\ rb.head \in 0..(SizeMod - 1) /\ rb.tail \in 0..(SizeMod - 1)
  /\ vibe_rb_used <= rb_size

RbInv == IndicesOK /\ ProducerOK /\ ConsumerOK /\ StatsOK

(* How far a counter that wraps as the indices do is behind.               *)
LEMMA ModDiff ==
  ASSUME NEW N \in Nat \ {0}, NEW a \in Int, NEW b \in Int
  PROVE  ((a % N) + N - (b % N)) % N = (a - b) % N
<1>1. PICK p \in Int, x \in 0..(N - 1) : x = a % N /\ a = N * p + x
  <2>1. a % N \in 0..(N - 1) /\ \E q \in Int : a = N * q + (a % N)
    BY ModOf, Zenon
  <2> QED BY <2>1, Zenon
<1>2. PICK q \in Int, y \in 0..(N - 1) : y = b % N /\ b = N * q + y
  <2>1. b % N \in 0..(N - 1) /\ \E s \in Int : b = N * s + (b % N)
    BY ModOf, Zenon
  <2> QED BY <2>1, Zenon
<1>3. x + N - y \in Int
  OBVIOUS
<1>4. PICK k \in Int, r \in 0..(N - 1) : r = (x + N - y) % N /\ x + N - y = N * k + r
  <2>1. (x + N - y) % N \in 0..(N - 1) /\ \E s \in Int : x + N - y = N * s + ((x + N - y) % N)
    BY <1>3, ModOf, Zenon
  <2> QED BY <2>1, Zenon
<1>5. a - b = N * (p - q + k - 1) + r /\ p - q + k - 1 \in Int /\ a - b \in Int
  <2>1. /\ N * (p - q + k - 1) = N * p - N * q + N * k - N
        /\ N * p \in Int /\ N * q \in Int /\ N * k \in Int
    BY Z3
  <2> DEFINE np == N * p
             nq == N * q
             nk == N * k
             z == N * (p - q + k - 1)
  <2>2. z = np - nq + nk - N /\ np \in Int /\ nq \in Int /\ nk \in Int
        /\ a = np + x /\ b = nq + y /\ x + N - y = nk + r
    BY <1>1, <1>2, <1>4, <2>1
  <2> HIDE DEF np, nq, nk, z
  <2>3. a - b = z + r
    BY <2>2
  <2> QED BY <2>3 DEF z
<1>6. (a - b) % N = r
  BY <1>5, ModIs
<1> QED BY <1>1, <1>2, <1>4, <1>6

LEMMA Sizes == /\ rb_size \in Nat \ {0} /\ SizeMod \in Nat \ {0} /\ SizeMod % rb_size = 0
               /\ rb_size < SizeMod
<1>1. rb_size \in Nat \ {0} /\ SizeMod \in Nat /\ SizeMod % rb_size = 0 /\ SizeMod > rb_size
  BY RbAssumption
<1>2. SizeMod # 0
  BY <1>1
<1> QED BY <1>1, <1>2

LEMMA UsedIs ==
  ASSUME IndicesOK
  PROVE  /\ vibe_rb_used = Held(SizeMod, rb.head, rb.tail) /\ vibe_rb_used \in 0..rb_size
         /\ RbContents = Ring(rb_size, rb.buf, rb.head, vibe_rb_used)
         /\ vibe_rb_free = rb_size - vibe_rb_used
         /\ (rb.head + vibe_rb_used) % SizeMod = rb.tail
<1> DEFINE h == rb.head
           t == rb.tail
           u == vibe_rb_used
           N == rb_size
           M == SizeMod
<1>1. h \in 0..(M - 1) /\ t \in 0..(M - 1) /\ u = Held(M, h, t) /\ u <= N
  BY DEF IndicesOK, Held, vibe_rb_used
<1>2. N \in Nat \ {0} /\ M \in Nat \ {0} /\ N < M
  BY Sizes
<1>3. vibe_rb_free = Held(M, u, N)
  BY DEF vibe_rb_free, Held
<1>4. RbContents = Ring(N, rb.buf, h, u)
  BY DEF RbContents, Ring, mask
<1> HIDE DEF h, t, u, N, M
<1>5. u \in 0..(M - 1) /\ (h + u) % M = t
  BY <1>1, <1>2, HeldIs
<1>6. u \in 0..N /\ N \in 0..(M - 1)
  BY <1>1, <1>2, <1>5
<1>7. Held(M, u, N) = IF u <= N THEN N - u ELSE N + M - u
  BY <1>2, <1>5, <1>6, HeldIs
<1> QED BY <1>1, <1>3, <1>4, <1>5, <1>6, <1>7 DEF h, t, u, N, M

(* Counted from the tail or from the head, the slots are the same.         *)
LEMMA FromTail ==
  ASSUME IndicesOK, NEW j \in Int
  PROVE  (rb.tail + j - 1) % rb_size = (rb.head + vibe_rb_used + j - 1) % rb_size
<1> DEFINE a == rb.head + vibe_rb_used
           b == j - 1
           N == rb_size
           M == SizeMod
<1>1. a \in Int /\ b \in Int /\ a % M = rb.tail /\ rb.tail \in Int
  BY UsedIs DEF IndicesOK
<1>2. N \in Nat \ {0} /\ M \in Nat \ {0} /\ M % N = 0
  BY Sizes
<1>3. rb.tail + j - 1 = rb.tail + b /\ rb.head + vibe_rb_used + j - 1 = a + b
  <2>1. rb.head \in Int /\ vibe_rb_used \in Int
    BY UsedIs DEF IndicesOK
  <2> QED BY <1>1, <2>1
<1> HIDE DEF a, b, N, M
<1>4. ((a % M) + b) % N = (a + b) % N
  BY <1>1, <1>2, MaskOfWrapped, ZenonT(40)
<1> QED BY <1>1, <1>3, <1>4 DEF N

LEMMA RbStarts == vibe_rb_init => RbInv /\ RbAbstract!FifoInit
<1> SUFFICES ASSUME vibe_rb_init PROVE RbInv /\ RbAbstract!FifoInit
  OBVIOUS
<1>1. rb.head = 0 /\ rb.tail = 0 /\ rb = [buf |-> rb.buf, head |-> rb.head, tail |-> rb.tail]
      /\ IsBuf(rb_size, rb.buf)
  BY DEF vibe_rb_init, IsBuf
<1>2. vibe_rb_used = 0
  <2> DEFINE M == SizeMod
  <2>1. M \in Nat \ {0} /\ 0 \in 0..(M - 1)
    BY Sizes
  <2> HIDE DEF M
  <2>2. Held(M, 0, 0) = 0
    BY <2>1, HeldIs
  <2> QED BY <1>1, <2>2 DEF vibe_rb_used, Held, M
<1>3. IndicesOK
  BY <1>1, <1>2, Sizes DEF IndicesOK
<1>4. ProducerOK
  BY DEF vibe_rb_init, ProducerOK, NoCall
<1>5. ConsumerOK
  BY DEF vibe_rb_init, ConsumerOK, NoCall
<1>6. StatsOK
  BY <1>1, <1>2, Sizes DEF vibe_rb_init, StatsOK, NoCall
<1>7. RbContents = <<>>
  BY <1>2 DEF RbContents
<1> QED BY <1>3, <1>4, <1>5, <1>6, <1>7 DEF RbInv, RbAbstract!FifoInit, vibe_rb_init

RbStill == RbContents' = RbContents /\ delivered' = delivered /\ rb'.tail = rb.tail

LEMMA PutKeeps ==
  ASSUME RbInv, NEW d \in Seq(RbByte), vibe_rb_put_buf(d)
  PROVE  RbInv' /\ RbStill
<1>1. UNCHANGED <<rb, rbstats, consumer, delivered, since>> /\ producer.pc = "idle"
  BY DEF vibe_rb_put_buf
<1>2. producer' = [pc |-> "copy", data |-> d, n |-> Lesser(Len(d), vibe_rb_free)]
  BY DEF vibe_rb_put_buf
<1>3. vibe_rb_used' = vibe_rb_used /\ RbContents' = RbContents
  BY <1>1 DEF vibe_rb_used, RbContents
<1>4. vibe_rb_free = rb_size - vibe_rb_used /\ vibe_rb_used \in 0..rb_size
  BY UsedIs DEF RbInv
<1>5. PICK n \in Nat : n = Lesser(Len(d), vibe_rb_free) /\ n <= Len(d) /\ vibe_rb_used + n <= rb_size
  <2> DEFINE u == vibe_rb_used
             l == Len(d)
             N == rb_size
  <2>1. l \in Nat /\ u \in 0..N /\ N \in Nat
    BY <1>4, Sizes
  <2> HIDE DEF u, l, N
  <2>2. Lesser(l, N - u) \in Nat /\ Lesser(l, N - u) <= l /\ u + Lesser(l, N - u) <= N
    BY <2>1 DEF Lesser
  <2> QED BY <1>4, <2>2 DEF u, l, N
<1>6. producer' = [pc |-> "copy", data |-> d, n |-> n]
  BY <1>2, <1>5
<1>7. ProducerOK'
  BY <1>3, <1>5, <1>6 DEF ProducerOK
<1>8. IndicesOK' /\ ConsumerOK'
  BY <1>1, <1>3 DEF RbInv, IndicesOK, ConsumerOK
<1>9. StatsOK'
  BY <1>1, <1>3, <1>6 DEF RbInv, StatsOK
<1> QED BY <1>1, <1>3, <1>7, <1>8, <1>9 DEF RbInv, RbStill

LEMMA CopyInKeeps ==
  ASSUME RbInv, CopyIn
  PROVE  RbInv' /\ RbStill
<1> DEFINE N == rb_size
           h == rb.head
           t == rb.tail
           u == vibe_rb_used
           f == rb.buf
           g == rb'.buf
           d == producer.data
           n == producer.n
<1>1. /\ producer.pc = "copy" /\ UNCHANGED <<rbstats, consumer, delivered, since>>
      /\ producer' = [producer EXCEPT !.pc = "publish"]
      /\ rb' = [rb EXCEPT !.buf = TwoChunks(rb_size, rb.buf, rb.tail, producer.data, producer.n)]
  BY DEF CopyIn, TwoChunks, mask
<1>2. IndicesOK /\ ProducerOK /\ ConsumerOK /\ StatsOK
  BY DEF RbInv
<1>3. rb'.head = h /\ rb'.tail = t /\ g = TwoChunks(N, f, t, d, n)
      /\ rb' = [buf |-> rb'.buf, head |-> rb'.head, tail |-> rb'.tail]
  BY <1>1, <1>2 DEF IndicesOK
<1>4. vibe_rb_used' = u
  BY <1>3 DEF vibe_rb_used
<1>5. N \in Nat \ {0} /\ h \in Int /\ t \in Int /\ u \in 0..N /\ IsBuf(N, f)
  BY <1>2, Sizes, UsedIs DEF IndicesOK
<1>6. n \in Nat /\ u + n <= N /\ d \in Seq(RbByte) /\ n <= Len(d)
  BY <1>1, <1>2 DEF ProducerOK
<1>7. \A j \in Int : (t + j - 1) % N = (h + u + j - 1) % N
  BY <1>2, FromTail
<1> HIDE DEF N, h, t, u, f, g, d, n
<1>8. n \in 0..N
  BY <1>5, <1>6
<1>9. /\ IsBuf(N, g)
      /\ \A j \in 1..n : g[(t + j - 1) % N] = d[j]
      /\ \A i \in 0..(N - 1) : (\A j \in 1..n : i # (t + j - 1) % N) => g[i] = f[i]
  BY <1>3, <1>5, <1>8, TwoChunksWrite
<1>10. SameRing(N, f, g, h, u)
  <2>1. ASSUME NEW i \in 1..u PROVE g[(h + i - 1) % N] = f[(h + i - 1) % N]
    <3>1. ASSUME NEW j \in 1..n PROVE (h + i - 1) % N # (t + j - 1) % N
      <4>1. PICK k \in Nat : k = j - 1
        BY <1>6
      <4>2. u \in Nat /\ u + k < N /\ j \in Int
        BY <1>5, <1>6, <4>1
      <4>3. (h + i - 1) % N # (h + u + k) % N
        BY <1>5, <4>2, BehindIsFree
      <4>4. h + u + k = h + u + j - 1
        BY <1>5, <4>1
      <4>5. (t + j - 1) % N = (h + u + k) % N
        BY <1>7, <4>2, <4>4
      <4> QED BY <4>3, <4>5
    <3>2. (h + i - 1) % N \in 0..(N - 1)
      <4>1. h + i - 1 \in Int
        BY <1>5
      <4> QED BY <1>5, <4>1, ModOf
    <3> QED BY <1>9, <3>1, <3>2
  <2> QED BY <2>1 DEF SameRing
<1>11. ASSUME NEW k \in 0..u PROVE Ring(N, g, h, k) = Ring(N, f, h, k)
  <2>1. u \in Nat
    BY <1>5
  <2> QED BY <2>1, <1>10, RingSame
<1>12. Ring(N, g, h, u) = Ring(N, f, h, u)
  BY <1>5, <1>11
<1>13. RbContents' = RbContents
  <2>1. RbContents = Ring(N, f, h, u) /\ RbContents' = Ring(N, g, h, u)
    BY <1>3, <1>4 DEF RbContents, Ring, mask, N, h, u, f, g
  <2> QED BY <1>12, <2>1
<1>14. IndicesOK'
  BY <1>2, <1>3, <1>4, <1>9 DEF IndicesOK, N, h, t, u, g
<1>15. ProducerOK'
  <2>1. producer' = [pc |-> "publish", data |-> d, n |-> n]
    BY <1>1, <1>2 DEF ProducerOK, d, n
  <2>2. \A j \in 1..n : rb'.buf[(rb'.tail + j - 1) % rb_size] = d[j]
    BY <1>3, <1>9 DEF N, g
  <2> QED BY <1>4, <1>6, <2>1, <2>2 DEF ProducerOK, N
<1>16. ConsumerOK'
  <2>1. consumer.pc = "publish" => consumer.n \in 0..u /\ consumer.data = Ring(N, f, h, consumer.n)
    BY <1>2, <1>5 DEF ConsumerOK, u, N, f, h
  <2>2. consumer.pc = "publish" => consumer.data = Ring(N, g, h, consumer.n)
    BY <1>11, <2>1
  <2> QED BY <1>1, <1>2, <1>3, <1>4, <2>2 DEF ConsumerOK, N, g, u
<1>17. StatsOK'
  <2>1. producer'.pc # "stats"
    BY <1>1, <1>2 DEF ProducerOK
  <2> QED BY <1>1, <1>2, <1>3, <1>4, <2>1 DEF StatsOK, t, h, u
<1> QED BY <1>1, <1>3, <1>13, <1>14, <1>15, <1>16, <1>17 DEF RbInv, RbStill, t

(* Publishing the tail appends what has been copied, and nothing less.     *)
LEMMA PublishTailPushes ==
  ASSUME RbInv, PublishTail
  PROVE  /\ RbInv' /\ (RbAbstract!Push \/ UNCHANGED <<RbContents, delivered>>)
         /\ RbContents' = RbContents \o SubSeq(producer.data, 1, producer.n)
<1> DEFINE N == rb_size
           M == SizeMod
           h == rb.head
           t == rb.tail
           u == vibe_rb_used
           f == rb.buf
           d == producer.data
           n == producer.n
<1>1. /\ producer.pc = "publish" /\ UNCHANGED <<rbstats, consumer, delivered, since>>
      /\ producer' = [producer EXCEPT !.pc = "stats"]
      /\ rb' = [rb EXCEPT !.tail = (t + n) % M]
  BY DEF PublishTail
<1>2. IndicesOK /\ ProducerOK /\ ConsumerOK /\ StatsOK
  BY DEF RbInv
<1>3. rb'.head = h /\ rb'.tail = (t + n) % M /\ rb'.buf = f
      /\ rb' = [buf |-> rb'.buf, head |-> rb'.head, tail |-> rb'.tail]
  BY <1>1, <1>2 DEF IndicesOK
<1>4. /\ N \in Nat \ {0} /\ M \in Nat \ {0} /\ N < M /\ h \in 0..(M - 1) /\ t \in 0..(M - 1)
      /\ u \in 0..N /\ u = Held(M, h, t) /\ IsBuf(N, f)
  BY <1>2, Sizes, UsedIs DEF IndicesOK
<1>5. /\ n \in Nat /\ u + n <= N /\ d \in Seq(RbByte) /\ n <= Len(d)
      /\ \A j \in 1..n : f[(t + j - 1) % N] = d[j]
  BY <1>1, <1>2 DEF ProducerOK
<1>6. \A j \in Int : (t + j - 1) % N = (h + u + j - 1) % N
  BY <1>2, FromTail
<1>7. RbContents = Ring(N, f, h, u)
  BY <1>2, UsedIs
<1>8. vibe_rb_used' = Held(M, h, (t + n) % M)
  BY <1>3 DEF vibe_rb_used, Held
<1> HIDE DEF N, M, h, t, u, f, d, n
<1>9. (t + n) % M \in 0..(M - 1) /\ Held(M, h, (t + n) % M) = u + n
  <2>1. Held(M, h, t) + n < M
    BY <1>4, <1>5
  <2> QED BY <1>4, <1>5, <2>1, HeldPush
<1>10. vibe_rb_used' = u + n
  BY <1>8, <1>9
<1>11. RbContents' = Ring(N, f, h, u + n)
  BY <1>3, <1>10 DEF RbContents, Ring, mask, N
<1>12. u \in Nat /\ h \in Int
  BY <1>4
<1>13. SameRing(N, f, f, h, u) /\ Written(N, f, h, u, d, n)
  <2>1. \A j \in 1..n : j \in Int
    BY <1>5
  <2> QED BY <1>5, <1>6, <2>1 DEF SameRing, Written
<1>14. Ring(N, f, h, u + n) = Ring(N, f, h, u) \o SubSeq(d, 1, n)
  <2>1. /\ N \in Nat \ {0} /\ n \in Nat /\ d \in Seq(RbByte) /\ n <= Len(d)
        /\ u \in Nat /\ h \in Int /\ SameRing(N, f, f, h, u) /\ Written(N, f, h, u, d, n)
    BY <1>4, <1>5, <1>12, <1>13
  <2>2. Appended(N, f, f, h, u, d, n)
    BY <2>1, RingWrite
  <2> QED BY <2>2 DEF Appended
<1>15. Grows(N, f, f, h, u, n)
  BY <1>4, <1>5, <1>12, <1>13, RingGrows
<1>16. RbAbstract!Push \/ UNCHANGED <<RbContents, delivered>>
  <2>1. CASE n = 0
    <3>1. u + n = u
      BY <1>12, <2>1
    <3> QED BY <1>1, <1>7, <1>11, <3>1
  <2>2. CASE n # 0
    <3>1. Len(RbContents) = u /\ Len(RbContents') = u + n /\ SubSeq(RbContents', 1, u) = RbContents
      BY <1>7, <1>11, <1>15 DEF Grows
    <3>2. u + n \in (u + 1)..N
      <4>1. u \in Nat /\ N \in Nat /\ n \in Nat /\ u + n <= N
        BY <1>4, <1>5
      <4> QED BY <2>2, <4>1
    <3> QED BY <1>1, <3>1, <3>2 DEF RbAbstract!Push, N
  <2> QED BY <2>1, <2>2
<1>17. IndicesOK'
  BY <1>2, <1>3, <1>5, <1>9, <1>10 DEF IndicesOK, N, M, h, f
<1>18. producer' = [pc |-> "stats", data |-> d, n |-> n]
  BY <1>1, <1>2 DEF ProducerOK, d, n
<1>19. ProducerOK'
  BY <1>5, <1>18 DEF ProducerOK
<1>20. ConsumerOK'
  <2>1. consumer.pc \in {"copy", "publish"} => consumer.n <= u + n
    <3>1. consumer.n \in Nat /\ (consumer.pc \in {"copy", "publish"} => consumer.n <= u)
      BY <1>2 DEF ConsumerOK, u
    <3> QED BY <1>5, <1>12, <3>1
  <2> QED BY <1>1, <1>2, <1>3, <1>10, <2>1 DEF ConsumerOK, h, f
<1>21. StatsOK'
  <2>1. rbstats.put_count + since.tail \in Int /\ t = (rbstats.put_count + since.tail) % M
    BY <1>1, <1>2 DEF StatsOK, t, M
  <2> DEFINE a == rbstats.put_count + since.tail
  <2>2. (t + n) % M = (a + n) % M
    <3>1. a \in Int /\ t = a % M /\ n \in Int /\ M \in Nat \ {0}
      BY <1>4, <1>5, <2>1
    <3> HIDE DEF a
    <3> QED BY <3>1, ModAdd
  <2>3. rb'.tail = (rbstats.put_count + since.tail + n) % SizeMod
    BY <1>3, <2>2 DEF M
  <2>4. n <= rb_size
    BY <1>4, <1>5 DEF N
  <2> QED BY <1>1, <1>2, <1>3, <1>18, <2>3, <2>4 DEF StatsOK, h
<1> QED BY <1>7, <1>11, <1>14, <1>16, <1>17, <1>19, <1>20, <1>21 DEF RbInv, d, n

(* A counter that is brought up to date still follows its index.           *)
LEMMA CountedUp ==
  ASSUME NEW N \in Nat \ {0}, NEW k \in Int, NEW c \in Int, NEW n \in Int
  PROVE  (k + n) % N \in 0..(N - 1) /\ (k + c + n) % N = (((k + n) % N) + c) % N
<1> DEFINE a == k + n
<1>1. a \in Int /\ k + c + n = a + c
  OBVIOUS
<1> HIDE DEF a
<1>2. a % N \in 0..(N - 1) /\ ((a % N) + c) % N = (a + c) % N
  BY <1>1, ModOf, ModAdd
<1>3. (k + c + n) % N = (a + c) % N
  BY <1>1
<1> QED BY <1>2, <1>3 DEF a

LEMMA PutStatsKeeps ==
  ASSUME RbInv, PutStats
  PROVE  RbInv' /\ RbStill
<1>1. /\ producer.pc = "stats" /\ UNCHANGED <<rb, consumer, delivered>> /\ producer' = NoCall
      /\ since' = [since EXCEPT !.put = TRUE]
  BY DEF PutStats
<1>2. IndicesOK /\ ProducerOK /\ ConsumerOK /\ StatsOK
  BY DEF RbInv
<1>3. vibe_rb_used' = vibe_rb_used /\ RbContents' = RbContents
  BY <1>1 DEF vibe_rb_used, RbContents
<1>4. IndicesOK' /\ ConsumerOK' /\ ProducerOK'
  <2>1. IndicesOK'
    BY <1>1, <1>2, <1>3 DEF IndicesOK
  <2>2. ConsumerOK'
    BY <1>1, <1>2, <1>3 DEF ConsumerOK
  <2>3. ProducerOK'
    BY <1>1 DEF ProducerOK, NoCall
  <2> QED BY <2>1, <2>2, <2>3
<1> DEFINE u == vibe_rb_used
           p == rbstats.peak_used
           k == rbstats.put_count
           c == since.tail
           e == (k + producer.n) % SizeMod
<1>5. rbstats' = [rbstats EXCEPT !.put_count = e, !.peak_used = IF p < u THEN u ELSE p]
  BY <1>1, <1>2 DEF PutStats, StatsOK
<1>6. u \in Nat /\ p \in Nat /\ u <= rb_size /\ p <= rb_size
  BY <1>2, UsedIs, Sizes DEF StatsOK, IndicesOK
<1>7. /\ k \in 0..(SizeMod - 1) /\ c \in 0..(SizeMod - 1) /\ producer.n \in Nat
      /\ rb.tail = (k + c + producer.n) % SizeMod
  BY <1>1, <1>2 DEF StatsOK, ProducerOK
<1>8. e \in 0..(SizeMod - 1) /\ rb.tail = (e + c) % SizeMod
  <2> DEFINE n == producer.n
  <2>1. k \in Int /\ c \in Int /\ n \in Int /\ SizeMod \in Nat \ {0} /\ rb.tail = (k + c + n) % SizeMod
    BY <1>7, Sizes
  <2> HIDE DEF k, c, n
  <2>2. (k + n) % SizeMod \in 0..(SizeMod - 1) /\ (k + c + n) % SizeMod = (((k + n) % SizeMod) + c) % SizeMod
    BY <2>1, CountedUp
  <2> QED BY <2>1, <2>2 DEF n
<1> HIDE DEF e, u, p, k, c
<1>9. StatsOK'
  <2>1. rbstats' = [peak_used |-> IF p < u THEN u ELSE p, put_count |-> e,
                    get_count |-> rbstats.get_count]
    BY <1>2, <1>5 DEF StatsOK
  <2>2. PICK m \in Nat : m = (IF p < u THEN u ELSE p) /\ u <= m /\ m <= rb_size
    BY <1>6
  <2>3. since' = [tail |-> c, head |-> since.head, put |-> TRUE]
    BY <1>1, <1>2 DEF StatsOK, c
  <2>4. rb.head = rb'.head /\ consumer' = consumer /\ rb'.tail = (e + c) % SizeMod
        /\ producer'.pc = "idle" /\ c \in 0..(SizeMod - 1) /\ since.head \in 0..(SizeMod - 1)
        /\ rbstats.get_count \in 0..(SizeMod - 1) /\ vibe_rb_used' = u
    BY <1>1, <1>2, <1>3, <1>7, <1>8 DEF NoCall, StatsOK, u
  <2>5. /\ consumer.pc # "stats" => rb.head = (rbstats.get_count + since.head) % SizeMod
        /\ consumer.pc = "stats" =>
             /\ consumer.n <= rb_size
             /\ rb.head = (rbstats.get_count + since.head + consumer.n) % SizeMod
    BY <1>2 DEF StatsOK
  <2> QED BY <1>8, <2>1, <2>2, <2>3, <2>4, <2>5 DEF StatsOK
<1> QED BY <1>1, <1>3, <1>4, <1>9 DEF RbInv, RbStill

LEMMA GetKeeps ==
  ASSUME RbInv, NEW len \in Nat, vibe_rb_get_buf(len)
  PROVE  RbInv' /\ RbStill
<1>1. /\ UNCHANGED <<rb, rbstats, producer, delivered, since>> /\ consumer.pc = "idle"
      /\ consumer' = [pc |-> "copy", data |-> <<>>, n |-> Lesser(len, vibe_rb_used)]
  BY DEF vibe_rb_get_buf
<1>2. vibe_rb_used' = vibe_rb_used /\ RbContents' = RbContents
  BY <1>1 DEF vibe_rb_used, RbContents
<1>3. PICK n \in Nat : n = Lesser(len, vibe_rb_used) /\ n <= vibe_rb_used
  <2>1. vibe_rb_used \in Nat
    BY UsedIs, Sizes DEF RbInv
  <2> QED BY <2>1 DEF Lesser
<1>4. ConsumerOK'
  BY <1>1, <1>2, <1>3 DEF ConsumerOK
<1>5. IndicesOK' /\ ProducerOK'
  BY <1>1, <1>2 DEF RbInv, IndicesOK, ProducerOK
<1>6. StatsOK'
  BY <1>1, <1>2 DEF RbInv, StatsOK
<1> QED BY <1>1, <1>2, <1>4, <1>5, <1>6 DEF RbInv, RbStill

LEMMA CopyOutKeeps ==
  ASSUME RbInv, CopyOut
  PROVE  RbInv' /\ RbStill
<1> DEFINE N == rb_size
           h == rb.head
           f == rb.buf
           n == consumer.n
           at == h % N
           chunk == Lesser(N - at, n)
<1>1. /\ UNCHANGED <<rb, rbstats, producer, delivered, since>> /\ consumer.pc = "copy"
      /\ consumer' = [consumer EXCEPT !.pc = "publish", !.data =
           [i \in 1..n |-> IF i <= chunk THEN f[at + i - 1] ELSE f[i - chunk - 1]]]
  BY DEF CopyOut, mask
<1>2. vibe_rb_used' = vibe_rb_used /\ RbContents' = RbContents
  BY <1>1 DEF vibe_rb_used, RbContents
<1>3. IndicesOK /\ ProducerOK /\ ConsumerOK /\ StatsOK
  BY DEF RbInv
<1>4. N \in Nat \ {0} /\ h \in Int /\ n \in Nat /\ n <= vibe_rb_used /\ vibe_rb_used \in 0..N
  BY <1>1, <1>3, Sizes, UsedIs DEF IndicesOK, ConsumerOK
<1>5. n \in 0..N
  BY <1>4
<1> HIDE DEF N, h, f, n, chunk, at
<1>6. [i \in 1..n |-> IF i <= chunk THEN f[at + i - 1] ELSE f[i - chunk - 1]] = Ring(N, f, h, n)
  <2>1. at = h % N /\ chunk = Lesser(N - at, n)
    BY DEF at, chunk
  <2> QED BY <1>4, <1>5, <2>1, TwoChunksRead
<1>7. consumer' = [pc |-> "publish", data |-> Ring(N, f, h, n), n |-> n]
  <2>1. consumer' = [consumer EXCEPT !.pc = "publish", !.data = Ring(N, f, h, n)]
    BY <1>1, <1>6
  <2> QED BY <1>3, <2>1 DEF ConsumerOK, n
<1>8. ConsumerOK'
  <2>1. rb' = rb /\ n \in Nat /\ n <= vibe_rb_used
    BY <1>1, <1>4
  <2> QED BY <1>2, <1>7, <2>1 DEF ConsumerOK, N, f, h
<1>9. IndicesOK' /\ ProducerOK'
  BY <1>1, <1>2, <1>3 DEF IndicesOK, ProducerOK
<1>10. StatsOK'
  BY <1>1, <1>2, <1>3, <1>7 DEF StatsOK
<1> QED BY <1>1, <1>2, <1>8, <1>9, <1>10 DEF RbInv, RbStill

(* A head that wraps at a multiple of the size masks to the same slots.    *)
Wrapped(N, M, a, x, y) ==
  N \in Nat \ {0} /\ M \in Nat \ {0} /\ M % N = 0 /\ a \in Int /\ x = a % M /\ y = a % N

LEMMA RingBase ==
  ASSUME NEW N, NEW M, NEW a, NEW x, NEW y, Wrapped(N, M, a, x, y), NEW u \in Nat, NEW buf
  PROVE  Ring(N, buf, x, u) = Ring(N, buf, y, u)
<1>0. /\ N \in Nat \ {0} /\ M \in Nat \ {0} /\ M % N = 0 /\ a \in Int
      /\ x = a % M /\ y = a % N
  BY DEF Wrapped
<1>1. ASSUME NEW i \in 1..u PROVE (x + i - 1) % N = (y + i - 1) % N
  <2>1. PICK b \in Int : b = i - 1
    OBVIOUS
  <2>2. (x + b) % N = (a + b) % N
    <3>1. ((a % M) + b) % N = (a + b) % N
      BY <1>0, MaskOfWrapped
    <3> QED BY <1>0, <3>1
  <2>3. (y + b) % N = (a + b) % N
    <3>1. ((a % N) + b) % N = (a + b) % N
      BY <1>0, ModAdd
    <3> QED BY <1>0, <3>1
  <2>4. x \in Int /\ y \in Int
    BY <1>0, ModOf
  <2>5. x + i - 1 = x + b /\ y + i - 1 = y + b
    BY <2>1, <2>4
  <2> QED BY <2>2, <2>3, <2>5
<1> QED BY <1>1 DEF Ring

(* Publishing the head takes the bytes that have been copied out.          *)
LEMMA PublishHeadPops ==
  ASSUME RbInv, PublishHead
  PROVE  RbInv' /\ rb'.tail = rb.tail /\ (RbAbstract!Pop \/ UNCHANGED <<RbContents, delivered>>)
<1> DEFINE N == rb_size
           M == SizeMod
           h == rb.head
           t == rb.tail
           u == vibe_rb_used
           f == rb.buf
           n == consumer.n
<1>1. /\ consumer.pc = "publish" /\ UNCHANGED <<rbstats, producer, since>>
      /\ consumer' = [consumer EXCEPT !.pc = "stats", !.data = <<>>]
      /\ rb' = [rb EXCEPT !.head = (h + n) % M]
      /\ delivered' = IF n = 0 THEN delivered ELSE consumer.data
  BY DEF PublishHead
<1>2. IndicesOK /\ ProducerOK /\ ConsumerOK /\ StatsOK
  BY DEF RbInv
<1>3. rb'.head = (h + n) % M /\ rb'.tail = t /\ rb'.buf = f
      /\ rb' = [buf |-> rb'.buf, head |-> rb'.head, tail |-> rb'.tail]
  BY <1>1, <1>2 DEF IndicesOK
<1>4. /\ N \in Nat \ {0} /\ M \in Nat \ {0} /\ M % N = 0 /\ N < M /\ h \in 0..(M - 1)
      /\ t \in 0..(M - 1) /\ u \in 0..N /\ u = Held(M, h, t)
  BY <1>2, Sizes, UsedIs DEF IndicesOK
<1>5. n \in Nat /\ n <= u /\ consumer.data = Ring(N, f, h, n)
  BY <1>1, <1>2 DEF ConsumerOK
<1>6. RbContents = Ring(N, f, h, u)
  BY <1>2, UsedIs
<1>7. vibe_rb_used' = Held(M, (h + n) % M, t)
  BY <1>3 DEF vibe_rb_used, Held
<1> HIDE DEF N, M, h, t, u, f, n
<1>8. (h + n) % M \in 0..(M - 1) /\ Held(M, (h + n) % M, t) = u - n
  BY <1>4, <1>5, HeldPop
<1>9. vibe_rb_used' = u - n
  BY <1>7, <1>8
<1>10. u \in Nat /\ h \in Int /\ n \in 0..u /\ h + n \in Int /\ u - n \in Nat
  BY <1>4, <1>5
<1>11. RbContents' = Ring(N, f, (h + n) % N, u - n)
  <2>1. RbContents' = Ring(N, f, (h + n) % M, u - n)
    BY <1>3, <1>9 DEF RbContents, Ring, mask, N
  <2> DEFINE a == h + n
             v == u - n
  <2>2. a \in Int /\ v \in Nat
    BY <1>10
  <2> HIDE DEF a, v
  <2>3. Ring(N, f, a % M, v) = Ring(N, f, a % N, v)
    <3>1. PICK x, y : x = a % M /\ y = a % N
      OBVIOUS
    <3>2. Wrapped(N, M, a, x, y)
      BY <1>4, <2>2, <3>1 DEF Wrapped
    <3>3. Ring(N, f, x, v) = Ring(N, f, y, v)
      BY <2>2, <3>2, RingBase
    <3> QED BY <3>1, <3>3
  <2> QED BY <2>1, <2>3 DEF a, v
<1>12. Popped(N, f, h, u, n)
  BY <1>4, <1>10, RingPop
<1>13. RbAbstract!Pop \/ UNCHANGED <<RbContents, delivered>>
  <2>1. CASE n = 0
    <3>1. (h + n) % M = h /\ u - n = u
      <4>1. M \in Nat \ {0} /\ h \in 0..(M - 1) /\ n \in 0..M
        BY <1>4, <2>1
      <4>2. (h + n) % M = IF h + n < M THEN h + n ELSE h + n - M
        BY <4>1, Advance
      <4>3. h + n = h /\ h < M
        BY <2>1, <4>1
      <4> QED BY <1>10, <2>1, <4>2, <4>3
    <3>2. RbContents' = Ring(N, f, h, u)
      BY <1>3, <1>9, <3>1 DEF RbContents, Ring, mask, N
    <3> QED BY <1>1, <1>6, <2>1, <3>2 DEF n
  <2>2. CASE n # 0
    <3>1. /\ Len(RbContents) = u /\ delivered' = SubSeq(RbContents, 1, n)
          /\ RbContents' = SubSeq(RbContents, n + 1, Len(RbContents))
      BY <1>1, <1>5, <1>6, <1>11, <1>12, <2>2 DEF Popped, n
    <3>2. n \in 1..u
      BY <1>10, <2>2
    <3> QED BY <3>1, <3>2 DEF RbAbstract!Pop
  <2> QED BY <2>1, <2>2
<1>14. u - n <= u
  BY <1>10
<1>15. IndicesOK'
  <2>1. u - n <= N
    BY <1>4, <1>10
  <2> QED BY <1>2, <1>3, <1>8, <1>9, <2>1 DEF IndicesOK, N, M, t, f
<1>16. consumer' = [pc |-> "stats", data |-> <<>>, n |-> n]
  BY <1>1, <1>2 DEF ConsumerOK, n
<1>17. ConsumerOK'
  BY <1>10, <1>16 DEF ConsumerOK
<1>18. ProducerOK'
  <2>1. producer.pc \in {"copy", "publish"} => (u - n) + producer.n <= rb_size
    <3>1. producer.n \in Nat /\ (producer.pc \in {"copy", "publish"} => u + producer.n <= rb_size)
          /\ rb_size \in Nat
      BY <1>2, Sizes DEF ProducerOK, u
    <3> QED BY <1>10, <3>1
  <2> QED BY <1>1, <1>2, <1>3, <1>9, <2>1 DEF ProducerOK, t, f
<1>19. StatsOK'
  <2>0. rbstats.get_count + since.head \in Int /\ h = (rbstats.get_count + since.head) % M
    BY <1>1, <1>2 DEF StatsOK, h, M
  <2> DEFINE a == rbstats.get_count + since.head
  <2>4. (h + n) % M = (a + n) % M
    <3>1. a \in Int /\ h = a % M /\ n \in Int /\ M \in Nat \ {0}
      BY <1>4, <1>5, <2>0
    <3> HIDE DEF a
    <3> QED BY <3>1, ModAdd
  <2>1. rb'.head = (rbstats.get_count + since.head + n) % SizeMod
    BY <1>3, <2>4 DEF M
  <2>2. producer.pc # "stats" /\ since.put => u - n <= rbstats.peak_used
    <3>1. rbstats.peak_used \in Nat /\ (producer.pc # "stats" /\ since.put => u <= rbstats.peak_used)
      BY <1>2 DEF StatsOK, u
    <3> QED BY <1>10, <3>1
  <2>5. n <= rb_size
    BY <1>4, <1>5 DEF N
  <2>3. /\ rbstats' = rbstats /\ producer' = producer /\ rb'.tail = rb.tail
        /\ vibe_rb_used' = u - n /\ since' = since
    BY <1>1, <1>3, <1>9 DEF t
  <2> QED BY <1>2, <1>16, <2>1, <2>2, <2>3, <2>5 DEF StatsOK
<1> QED BY <1>3, <1>13, <1>15, <1>17, <1>18, <1>19 DEF RbInv, t

LEMMA GetStatsKeeps ==
  ASSUME RbInv, GetStats
  PROVE  RbInv' /\ RbStill
<1>1. /\ consumer.pc = "stats" /\ UNCHANGED <<rb, producer, delivered, since>> /\ consumer' = NoCall
  BY DEF GetStats
<1>2. IndicesOK /\ ProducerOK /\ ConsumerOK /\ StatsOK
  BY DEF RbInv
<1>3. vibe_rb_used' = vibe_rb_used /\ RbContents' = RbContents
  BY <1>1 DEF vibe_rb_used, RbContents
<1>4. IndicesOK' /\ ConsumerOK' /\ ProducerOK'
  BY <1>1, <1>2, <1>3 DEF IndicesOK, ConsumerOK, ProducerOK, NoCall
<1> DEFINE k == rbstats.get_count
           c == since.head
           e == (k + consumer.n) % SizeMod
<1>5. rbstats' = [rbstats EXCEPT !.get_count = e]
  BY <1>1 DEF GetStats
<1>6. /\ k \in 0..(SizeMod - 1) /\ c \in 0..(SizeMod - 1) /\ consumer.n \in Nat
      /\ rb.head = (k + c + consumer.n) % SizeMod
  BY <1>1, <1>2 DEF StatsOK, ConsumerOK
<1>7. e \in 0..(SizeMod - 1) /\ rb.head = (e + c) % SizeMod
  <2> DEFINE n == consumer.n
  <2>1. k \in Int /\ c \in Int /\ n \in Int /\ SizeMod \in Nat \ {0} /\ rb.head = (k + c + n) % SizeMod
    BY <1>6, Sizes
  <2> HIDE DEF k, c, n
  <2>2. (k + n) % SizeMod \in 0..(SizeMod - 1) /\ (k + c + n) % SizeMod = (((k + n) % SizeMod) + c) % SizeMod
    BY <2>1, CountedUp
  <2> QED BY <2>1, <2>2 DEF n
<1> HIDE DEF e, k
<1>8. StatsOK'
  BY <1>1, <1>2, <1>3, <1>5, <1>7 DEF StatsOK, NoCall
<1> QED BY <1>1, <1>3, <1>4, <1>8 DEF RbInv, RbStill

(* Whatever a side has published and not yet counted, a counter set to     *)
(* zero counts from what had been counted before.                          *)
LEMMA ResetCounts ==
  ASSUME NEW i \in 0..(SizeMod - 1), NEW call, NEW n \in 0..rb_size,
         n = IF call.pc = "stats" THEN call.n ELSE 0
  PROVE  Counted(i, call) \in 0..(SizeMod - 1) /\ i = (0 + Counted(i, call) + n) % SizeMod
<1> DEFINE M == SizeMod
           a == i + M - n
           c == Counted(i, call)
<1>1. M \in Nat \ {0} /\ n \in Int /\ a \in Int /\ a + n = M * 1 + i /\ i \in 0..(M - 1)
  <2>1. M \in Nat \ {0} /\ n \in Int /\ i \in 0..(M - 1)
    BY Sizes
  <2> HIDE DEF M
  <2>2. M * 1 = M
    BY <2>1
  <2>3. a \in Int /\ a + n = M + i
    BY <2>1
  <2> QED BY <2>1, <2>2, <2>3
<1>2. c = a % M
  BY DEF Counted
<1> HIDE DEF a, c, M
<1>3. c \in 0..(M - 1) /\ (c + n) % M = (a + n) % M
  BY <1>1, <1>2, ModOf, ModAdd
<1>4. (a + n) % M = i
  <2>1. a + n \in Int /\ 1 \in Int
    BY <1>1
  <2> QED BY <1>1, <2>1, ModIs
<1>5. 0 + c + n = c + n
  BY <1>1, <1>3
<1> QED BY <1>3, <1>4, <1>5 DEF c, M

LEMMA ResetKeeps ==
  ASSUME RbInv, vibe_rb_reset_stats
  PROVE  RbInv' /\ RbStill
<1>1. UNCHANGED <<rb, producer, consumer, delivered>>
  BY DEF vibe_rb_reset_stats
<1>2. IndicesOK /\ ProducerOK /\ ConsumerOK /\ StatsOK
  BY DEF RbInv
<1>3. vibe_rb_used' = vibe_rb_used /\ RbContents' = RbContents
  BY <1>1 DEF vibe_rb_used, RbContents
<1>4. IndicesOK' /\ ConsumerOK' /\ ProducerOK'
  BY <1>1, <1>2, <1>3 DEF IndicesOK, ConsumerOK, ProducerOK
<1>5. /\ rbstats = [peak_used |-> rbstats.peak_used, put_count |-> rbstats.put_count,
                    get_count |-> rbstats.get_count]
      /\ since = [tail |-> since.tail, head |-> since.head, put |-> since.put]
  BY <1>2 DEF StatsOK
<1>6. CASE /\ rbstats' = [rbstats EXCEPT !.peak_used = 0]
           /\ since' = [since EXCEPT !.put = FALSE]
  <2>1. /\ rbstats' = [peak_used |-> 0, put_count |-> rbstats.put_count, get_count |-> rbstats.get_count]
        /\ since' = [tail |-> since.tail, head |-> since.head, put |-> FALSE]
    BY <1>5, <1>6
  <2>2. StatsOK'
    BY <1>1, <1>2, <2>1, Sizes DEF StatsOK
  <2> QED BY <1>1, <1>3, <1>4, <2>2 DEF RbInv, RbStill
<1>7. CASE /\ rbstats' = [rbstats EXCEPT !.put_count = 0]
           /\ since' = [since EXCEPT !.tail = Counted(rb.tail, producer)]
  <2> DEFINE c == Counted(rb.tail, producer)
  <2>1. /\ rbstats' = [peak_used |-> rbstats.peak_used, put_count |-> 0, get_count |-> rbstats.get_count]
        /\ since' = [tail |-> c, head |-> since.head, put |-> since.put]
    BY <1>5, <1>7
  <2>2. PICK n \in 0..rb_size : n = IF producer.pc = "stats" THEN producer.n ELSE 0
    BY <1>2, Sizes DEF StatsOK, ProducerOK
  <2>3. c \in 0..(SizeMod - 1) /\ rb.tail = (0 + c + n) % SizeMod
    BY <1>2, <2>2, ResetCounts DEF IndicesOK
  <2>4. producer.pc # "stats" => rb.tail = (0 + c) % SizeMod
    <3>1. n = 0 => 0 + c + n = 0 + c
      BY <2>3
    <3> QED BY <2>2, <2>3, <3>1
  <2>5. 0 \in 0..(SizeMod - 1)
    BY Sizes
  <2> HIDE DEF c
  <2>6. StatsOK'
    BY <1>1, <1>2, <1>3, <2>1, <2>2, <2>3, <2>4, <2>5 DEF StatsOK
  <2> QED BY <1>1, <1>3, <1>4, <2>6 DEF RbInv, RbStill
<1>8. CASE /\ rbstats' = [rbstats EXCEPT !.get_count = 0]
           /\ since' = [since EXCEPT !.head = Counted(rb.head, consumer)]
  <2> DEFINE c == Counted(rb.head, consumer)
  <2>1. /\ rbstats' = [peak_used |-> rbstats.peak_used, put_count |-> rbstats.put_count, get_count |-> 0]
        /\ since' = [tail |-> since.tail, head |-> c, put |-> since.put]
    BY <1>5, <1>8
  <2>2. PICK n \in 0..rb_size : n = IF consumer.pc = "stats" THEN consumer.n ELSE 0
    BY <1>2, Sizes DEF StatsOK, ConsumerOK
  <2>3. c \in 0..(SizeMod - 1) /\ rb.head = (0 + c + n) % SizeMod
    BY <1>2, <2>2, ResetCounts DEF IndicesOK
  <2>4. consumer.pc # "stats" => rb.head = (0 + c) % SizeMod
    <3>1. n = 0 => 0 + c + n = 0 + c
      BY <2>3
    <3> QED BY <2>2, <2>3, <3>1
  <2>5. 0 \in 0..(SizeMod - 1)
    BY Sizes
  <2> HIDE DEF c
  <2>6. StatsOK'
    BY <1>1, <1>2, <1>3, <2>1, <2>2, <2>3, <2>4, <2>5 DEF StatsOK
  <2> QED BY <1>1, <1>3, <1>4, <2>6 DEF RbInv, RbStill
<1> QED BY <1>6, <1>7, <1>8 DEF vibe_rb_reset_stats

LEMMA RbStatsFollow ==
  ASSUME RbInv
  PROVE  RbStatsExact
<1>1. IndicesOK /\ StatsOK
  BY DEF RbInv
<1> DEFINE a == rbstats.put_count + since.tail
           b == rbstats.get_count + since.head
           d == rbstats.put_count - rbstats.get_count
           e == since.tail - since.head
           u == vibe_rb_used
<1>2. a \in Int /\ b \in Int /\ d \in Int /\ e \in Int /\ a - b - e = d
  BY <1>1 DEF StatsOK
<1>3. ASSUME producer.pc = "idle", consumer.pc = "idle"
      PROVE  d % SizeMod = (u - e) % SizeMod
  <2>1. u = ((a % SizeMod) + SizeMod - (b % SizeMod)) % SizeMod
    BY <1>1, <1>3 DEF StatsOK, vibe_rb_used
  <2> HIDE DEF a, b, d, e, u
  <2>2. u = (a - b) % SizeMod
    BY <1>2, <2>1, Sizes, ModDiff
  <2> DEFINE g == a - b
             f == 0 - e
  <2>3. g \in Int /\ f \in Int /\ g + f = d
    BY <1>2
  <2>4. ((g % SizeMod) + f) % SizeMod = (g + f) % SizeMod
    BY <2>3, Sizes, ModAdd
  <2>5. u \in Int
    BY <2>2, <2>3, Sizes, ModOf
  <2>6. u - e = u + f
    BY <1>2, <2>5
  <2> QED BY <2>2, <2>3, <2>4, <2>6
<1> QED BY <1>1, <1>3 DEF StatsOK, RbStatsExact

(* For any capacity that divides the range of size_t, and however the two  *)
(* sides interleave without a lock: the bytes vibe_rb_get_buf returns are  *)
(* those vibe_rb_put_buf has stored, each once and in order, across every  *)
(* wrap of the buffer and of the indices; and the counters, which are      *)
(* brought up to date behind the indices and may be reset with bytes in    *)
(* the ring and a call in progress, agree with them between calls.         *)
THEOREM RingBufferIsFifo == RbSpec => RbSound
<1> DEFINE Step == RbAbstract!Push \/ RbAbstract!Pop \/ RbAbstract!Clear
           Appends == rb'.tail # rb.tail =>
                        RbContents' = RbContents \o SubSeq(producer.data, 1, producer.n)
<1>1. vibe_rb_init => RbInv /\ RbAbstract!FifoInit
  BY RbStarts
<1>2. RbInv /\ [RbNext]_rbvars => RbInv' /\ [Step]_<<RbContents, delivered>> /\ [Appends]_rbvars
  <2> SUFFICES ASSUME RbInv, [RbNext]_rbvars
               PROVE  RbInv' /\ [Step]_<<RbContents, delivered>> /\ Appends
    OBVIOUS
  <2>1. ASSUME NEW d \in Chunks, vibe_rb_put_buf(d) PROVE RbInv' /\ RbStill
    <3>1. d \in Seq(RbByte)
      BY RbAssumption DEF Chunks
    <3> QED BY <2>1, <3>1, PutKeeps
  <2>2. ASSUME NEW n \in 1..MaxChunk, vibe_rb_get_buf(n) PROVE RbInv' /\ RbStill
    <3>1. n \in Nat
      BY RbAssumption
    <3> QED BY <2>2, <3>1, GetKeeps
  <2>3. CASE CopyIn \/ CopyOut \/ PutStats \/ GetStats \/ vibe_rb_reset_stats
    BY <2>3, CopyInKeeps, CopyOutKeeps, PutStatsKeeps, GetStatsKeeps, ResetKeeps DEF RbStill
  <2>4. CASE PublishTail
    BY <2>4, PublishTailPushes
  <2>5. CASE PublishHead
    BY <2>5, PublishHeadPops
  <2>6. CASE UNCHANGED rbvars
    <3>1. RbStill /\ vibe_rb_used' = vibe_rb_used
      BY <2>6 DEF rbvars, RbStill, RbContents, vibe_rb_used
    <3>2. IndicesOK' /\ ProducerOK' /\ ConsumerOK'
      BY <2>6, <3>1 DEF rbvars, RbInv, IndicesOK, ProducerOK, ConsumerOK
    <3>3. StatsOK'
      BY <2>6, <3>1 DEF rbvars, RbInv, StatsOK
    <3> QED BY <3>1, <3>2, <3>3 DEF RbInv, RbStill
  <2> QED
    BY <2>1, <2>2, <2>3, <2>4, <2>5, <2>6 DEF RbNext, RbTransfer, RbStill
<1>3. RbInv => RbStatsExact
  BY RbStatsFollow
<1> QED
  BY <1>1, <1>2, <1>3, PTL DEF RbSpec, RbSound, RbFifo, RbAbstract!FifoSpec

-----------------------------------------------------------------------------
(* The job scheduler.                                                      *)
-----------------------------------------------------------------------------
Outcome(body, r) ==
  /\ r \in [line : Int, st : {"DONE", "RUNNING", "BLOCKED"}, child : BOOLEAN]
  /\ r.st # "DONE" => r.line \in 1..Len(body)

(* The equation that defines where control comes to from each statement.  *)
Flow(body, c, kid, f) == [k \in 1..(Len(body) + 1) |-> Arrive(body, k, c, kid, f[k + 1])]

(* Control passes statement k, and where it stops from there.              *)
Passes(body, c, kid, k) ==
  k <= Len(body) /\ ((body[k] = "await" /\ c) \/ (body[k] = "await_coro" /\ kid.st = "DONE"))

Stops(body, c, kid, k) == {m \in 1..(Len(body) + 1) : k <= m /\ ~Passes(body, c, kid, m)}

FirstStop(body, c, kid, k) ==
  CHOOSE m \in Stops(body, c, kid, k) : \A j \in Stops(body, c, kid, k) : m <= j

StopsAs(body, m, seen) ==
  LET over == m > Len(body) \/ (m <= Len(body) /\ body[m] = "return")
  IN  [line |-> IF over THEN -1 ELSE m,
       st |-> IF over THEN "DONE" ELSE IF body[m] = "await" THEN "BLOCKED" ELSE "RUNNING",
       child |-> seen \/ (~over /\ body[m] = "await_coro")]

LEMMA StopSeen ==
  ASSUME NEW body, NEW m, NEW seen
  PROVE  [StopsAs(body, m, seen) EXCEPT !.child = TRUE] = StopsAs(body, m, TRUE)
<1> DEFINE over == m > Len(body) \/ (m <= Len(body) /\ body[m] = "return")
<1>1. PICK a, b : /\ a = (IF over THEN -1 ELSE m)
                  /\ b = IF over THEN "DONE" ELSE IF body[m] = "await" THEN "BLOCKED" ELSE "RUNNING"
  OBVIOUS
<1>2. PICK s : s = (seen \/ (~over /\ body[m] = "await_coro"))
  OBVIOUS
<1>3. (TRUE \/ (~over /\ body[m] = "await_coro")) = TRUE
  OBVIOUS
<1>4. StopsAs(body, m, seen) = [line |-> a, st |-> b, child |-> s]
  BY <1>1, <1>2, Zenon DEF StopsAs
<1>5. StopsAs(body, m, TRUE) = [line |-> a, st |-> b, child |-> TRUE]
  BY <1>1, <1>3, Zenon DEF StopsAs
<1>6. \A r, t : r = [line |-> a, st |-> b, child |-> s] =>
                 [r EXCEPT !.child = t] = [line |-> a, st |-> b, child |-> t]
  OBVIOUS
<1> QED BY <1>4, <1>5, <1>6, Zenon

LEMMA StopIs ==
  ASSUME NEW body \in Seq(Statement), NEW c, NEW kid, NEW k \in 1..(Len(body) + 1)
  PROVE  /\ FirstStop(body, c, kid, k) \in Stops(body, c, kid, k)
         /\ \A j \in Stops(body, c, kid, k) : FirstStop(body, c, kid, k) <= j
<1>0. Len(body) \in Nat
  OBVIOUS
<1>1. Len(body) + 1 \in Stops(body, c, kid, k) /\ Stops(body, c, kid, k) \in SUBSET Nat
  BY <1>0 DEF Stops, Passes
<1>2. \E m \in Stops(body, c, kid, k) : \A j \in Stops(body, c, kid, k) : m <= j
  BY <1>1, LeastNumber
<1> QED BY <1>2 DEF FirstStop

LEMMA StopHere ==
  ASSUME NEW body \in Seq(Statement), NEW c, NEW kid, NEW k \in 1..(Len(body) + 1),
         ~Passes(body, c, kid, k)
  PROVE  FirstStop(body, c, kid, k) = k
<1>1. k \in Stops(body, c, kid, k)
  BY DEF Stops
<1>2. FirstStop(body, c, kid, k) \in Stops(body, c, kid, k) /\ FirstStop(body, c, kid, k) <= k
  BY <1>1, StopIs
<1>3. FirstStop(body, c, kid, k) \in Int /\ k <= FirstStop(body, c, kid, k)
  BY <1>2 DEF Stops
<1> QED BY <1>2, <1>3

LEMMA StopLater ==
  ASSUME NEW body \in Seq(Statement), NEW c, NEW kid, NEW k \in 1..(Len(body) + 1),
         Passes(body, c, kid, k)
  PROVE  /\ k + 1 \in 1..(Len(body) + 1)
         /\ FirstStop(body, c, kid, k) = FirstStop(body, c, kid, k + 1)
         /\ FirstStop(body, c, kid, k) \in (k + 1)..(Len(body) + 1)
<1> DEFINE l == k + 1
           a == FirstStop(body, c, kid, k)
           b == FirstStop(body, c, kid, l)
<1>1. l \in 1..(Len(body) + 1) /\ k \in Int /\ l = k + 1
  BY DEF Passes
<1> HIDE DEF l
<1>2. \A m : m \in Stops(body, c, kid, k) <=> m \in Stops(body, c, kid, l)
  BY <1>1 DEF Stops
<1>3. a \in Stops(body, c, kid, k) /\ \A j \in Stops(body, c, kid, k) : a <= j
  BY StopIs
<1>4. b \in Stops(body, c, kid, l) /\ \A j \in Stops(body, c, kid, l) : b <= j
  BY <1>1, StopIs
<1> HIDE DEF a, b
<1>5. a <= b /\ b <= a
  BY <1>2, <1>3, <1>4
<1>6. a \in Int /\ b \in l..(Len(body) + 1)
  BY <1>1, <1>3, <1>4 DEF Stops
<1>7. a = b
  BY <1>5, <1>6
<1> QED BY <1>1, <1>6, <1>7 DEF a, b, l

(* There is a function that the recursion of Invoke defines.               *)
LEMMA FlowExists ==
  ASSUME NEW body \in Seq(Statement), NEW c \in BOOLEAN, NEW kid
  PROVE  \E f : f = Flow(body, c, kid, f)
<1> DEFINE S == 1..(Len(body) + 1)
           at(k) == FirstStop(body, c, kid, k)
           Seen(k) == \E j \in k..(at(k) - 1) : body[j] = "await_coro"
           v == [k \in S |-> StopsAs(body, at(k), Seen(k))]
<1>0. Len(body) \in Nat /\ \A k \in 1..Len(body) : body[k] \in {"yield", "await", "await_coro", "return"}
  BY DEF Statement
<1>1. ASSUME NEW k \in S PROVE v[k] = Arrive(body, k, c, kid, v[k + 1])
  <2>1. CASE ~Passes(body, c, kid, k)
    <3>1. at(k) = k
      BY <2>1, StopHere
    <3>2. Seen(k) = FALSE
      <4>1. k..(k - 1) = {}
        BY <1>0
      <4> QED BY <3>1, <4>1
    <3>3. v[k] = StopsAs(body, k, FALSE)
      BY <3>1, <3>2
    <3> HIDE DEF v
    <3>4. CASE k > Len(body) \/ (k <= Len(body) /\ body[k] = "return")
      BY <3>3, <3>4 DEF StopsAs, Arrive
    <3>5. CASE k <= Len(body) /\ body[k] = "yield"
      BY <1>0, <3>3, <3>5 DEF StopsAs, Arrive
    <3>6. CASE k <= Len(body) /\ body[k] = "await"
      BY <1>0, <2>1, <3>3, <3>6 DEF StopsAs, Arrive, Passes
    <3>7. CASE k <= Len(body) /\ body[k] = "await_coro"
      BY <1>0, <2>1, <3>3, <3>7 DEF StopsAs, Arrive, Passes
    <3> QED BY <1>0, <3>4, <3>5, <3>6, <3>7
  <2>2. CASE Passes(body, c, kid, k)
    <3>1. k + 1 \in S /\ at(k) = at(k + 1) /\ at(k) \in (k + 1)..(Len(body) + 1)
      BY <2>2, StopLater
    <3>2. v[k] = StopsAs(body, at(k), Seen(k)) /\ v[k + 1] = StopsAs(body, at(k), Seen(k + 1))
      <4> HIDE DEF at, Seen
      <4> QED BY <3>1
    <3>3. Seen(k) = (body[k] = "await_coro" \/ Seen(k + 1))
      <4>1. PICK m \in (k + 1)..(Len(body) + 1) : m = at(k) /\ m = at(k + 1)
        BY <3>1
      <4> HIDE DEF at
      <4>2. \A j : j \in k..(m - 1) <=> j = k \/ j \in (k + 1)..(m - 1)
        BY <1>0
      <4> QED BY <4>1, <4>2
    <3>4. Seen(k) \in BOOLEAN /\ Seen(k + 1) \in BOOLEAN
      OBVIOUS
    <3> HIDE DEF v, at, Seen
    <3>5. CASE k <= Len(body) /\ body[k] = "await" /\ c
      <4>1. Arrive(body, k, c, kid, v[k + 1]) = v[k + 1]
        BY <1>0, <3>5 DEF Arrive
      <4>2. Seen(k) = Seen(k + 1)
        BY <3>3, <3>4, <3>5
      <4> QED BY <3>2, <4>1, <4>2
    <3>6. CASE k <= Len(body) /\ body[k] = "await_coro" /\ kid.st = "DONE"
      <4>1. Arrive(body, k, c, kid, v[k + 1]) = [v[k + 1] EXCEPT !.child = TRUE]
        BY <1>0, <3>6 DEF Arrive
      <4>2. Seen(k) = TRUE
        BY <3>3, <3>6
      <4>3. [StopsAs(body, at(k), Seen(k + 1)) EXCEPT !.child = TRUE] = StopsAs(body, at(k), TRUE)
        BY StopSeen
      <4> QED BY <3>2, <4>1, <4>2, <4>3
    <3> QED BY <2>2, <3>5, <3>6 DEF Passes
  <2> QED BY <2>1, <2>2
<1>2. v = [k \in S |-> v[k]]
  OBVIOUS
<1> HIDE DEF v
<1>3. v = Flow(body, c, kid, v)
  BY <1>1, <1>2 DEF Flow
<1> QED BY <1>3

(* Wherever control starts, it comes to an outcome.                        *)
LEMMA FlowEnds ==
  ASSUME NEW body \in Seq(Statement), NEW c, NEW kid, NEW f, f = Flow(body, c, kid, f),
         NEW k \in 1..(Len(body) + 1)
  PROVE  Outcome(body, f[k])
<1> DEFINE n == Len(body)
           Bad == {d \in 0..n : ~Outcome(body, f[n + 1 - d])}
<1>0. n \in Nat /\ \A j \in 1..n : body[j] \in {"yield", "await", "await_coro", "return"}
  BY DEF Statement
<1>1. \A m \in 1..(n + 1) : f[m] = Arrive(body, m, c, kid, f[m + 1])
  BY DEF Flow
<1> HIDE DEF n
<1>2. SUFFICES Bad = {}
  <2>1. n + 1 - k \in 0..n /\ n + 1 - (n + 1 - k) = k
    BY <1>0 DEF n
  <2> QED BY <1>2, <2>1
<1>3. SUFFICES ASSUME Bad # {} PROVE FALSE
  OBVIOUS
<1>4. PICK d \in Bad : \A e \in Bad : d <= e
  <2>1. Bad \in SUBSET Nat
    BY <1>0
  <2> HIDE DEF Bad
  <2> QED BY <1>3, <2>1, LeastNumber
<1>5. PICK m \in 1..(n + 1) : m = n + 1 - d
  BY <1>0
<1>6. m <= n => Outcome(body, f[m + 1])
  <2>1. SUFFICES ASSUME m <= n PROVE Outcome(body, f[m + 1])
    OBVIOUS
  <2>2. d - 1 \in 0..n /\ ~(d <= d - 1) /\ n + 1 - (d - 1) = m + 1
    BY <1>0, <1>5, <2>1
  <2>3. d - 1 \notin Bad
    BY <1>4, <2>2
  <2> QED BY <2>2, <2>3
<1>7. f[m] = Arrive(body, m, c, kid, f[m + 1])
  BY <1>1
<1>8. ~Outcome(body, f[m])
  BY <1>4, <1>5
<1> HIDE DEF Bad
<1>9. CASE m > n \/ (m <= n /\ body[m] = "return")
  <2>1. f[m] = [line |-> -1, st |-> "DONE", child |-> FALSE]
    BY <1>7, <1>9 DEF Arrive, n
  <2> QED BY <1>8, <2>1 DEF Outcome
<1>10. CASE m <= n /\ body[m] \in {"yield", "await", "await_coro"}
  <2>0. m \in 1..n /\ m \in Int /\ ~(m > n)
    BY <1>0, <1>10
  <2>1. ASSUME NEW st \in {"RUNNING", "BLOCKED"}, NEW child \in BOOLEAN,
               f[m] = [line |-> m, st |-> st, child |-> child]
        PROVE  FALSE
    <3>1. Outcome(body, [line |-> m, st |-> st, child |-> child])
      BY <2>0 DEF Outcome, n
    <3> QED BY <1>8, <2>1, <3>1
  <2>2. CASE f[m] = f[m + 1]
    BY <1>6, <1>8, <1>10, <2>2
  <2>3. CASE f[m] = [f[m + 1] EXCEPT !.child = TRUE]
    <3>1. PICK r : r = f[m + 1]
      OBVIOUS
    <3>2. Outcome(body, r) /\ f[m] = [r EXCEPT !.child = TRUE]
      BY <1>6, <1>10, <2>3, <3>1
    <3>3. Outcome(body, [r EXCEPT !.child = TRUE])
      BY <3>2 DEF Outcome
    <3> QED BY <1>8, <3>2, <3>3
  <2>4. CASE body[m] = "yield"
    BY <1>7, <2>0, <2>1, <2>4 DEF Arrive, n
  <2>5. CASE body[m] = "await"
    BY <1>7, <2>0, <2>1, <2>2, <2>5 DEF Arrive, n
  <2>6. CASE body[m] = "await_coro"
    BY <1>7, <2>0, <2>1, <2>3, <2>6 DEF Arrive, n
  <2> QED BY <1>10, <2>4, <2>5, <2>6
<1>11. m > n \/ m \in 1..n
  BY <1>0
<1> QED BY <1>0, <1>9, <1>10, <1>11

(* An invocation completes the coroutine, or leaves it suspended at a      *)
(* statement of its body.                                                  *)
LEMMA InvokeEnds ==
  ASSUME NEW body \in Seq(Statement), NEW line \in 0..Len(body), NEW c \in BOOLEAN, NEW kid
  PROVE  Outcome(body, Invoke(body, line, c, kid))
<1> DEFINE reach == CHOOSE f : f = Flow(body, c, kid, f)
<1>1. reach = Flow(body, c, kid, reach)
  BY FlowExists
<1>2. Invoke(body, line, c, kid) =
        IF line = 0 THEN reach[1] ELSE IF body[line] = "yield" THEN reach[line + 1] ELSE reach[line]
  BY DEF Invoke, Flow
<1>3. 1 \in 1..(Len(body) + 1) /\ (line # 0 => line \in 1..(Len(body) + 1) /\ line + 1 \in 1..(Len(body) + 1))
  OBVIOUS
<1> HIDE DEF reach
<1>4. \A k \in 1..(Len(body) + 1) : Outcome(body, reach[k])
  BY <1>1, FlowEnds
<1> QED BY <1>2, <1>3, <1>4

IsJob(j) ==
  /\ j = [state |-> j.state, prio |-> j.prio, body |-> j.body, line |-> j.line, child |-> j.child]
  /\ j.state \in {"IDLE", "READY", "BLOCKED"}
  /\ j.state # "IDLE" => j.body \in Seq(Statement) /\ j.line \in 0..Len(j.body)

(* A job that is not idle can be invoked.                                  *)
JobsOK == IsBuf(capacity, jobs) /\ \A i \in Slot : IsJob(jobs[i])

Occupied == {i \in Slot : ~Idle(i)}

CountOK == jobstats.active \in Int /\ jobstats.active = Cardinality(Occupied)

(* While a body runs, its slot is taken.                                   *)
TickOK ==
  /\ tick \in [phase : 0..2, done : SUBSET Slot, i : 0..capacity, cur : Slot \cup {-1}]
  /\ InBody => tick.cur \in Occupied /\ tick.phase # 0
  /\ due \in SUBSET Slot /\ invoked \in [Slot -> Nat] /\ cond \in BOOLEAN

(* Phase 1 has invoked exactly the slots in done, up to the one whose body *)
(* is running, and what is due is in done or still READY.  Phase 2 invokes *)
(* a slot at most once more, when it passes it.                            *)
Served ==
  /\ tick.phase = 1 =>
       /\ due \subseteq Ready \cup tick.done
       /\ InBody => tick.cur \in tick.done
       /\ \A i \in Slot : invoked[i] = IF i \in tick.done /\ i # tick.cur THEN 1 ELSE 0
  /\ tick.phase = 2 =>
       /\ \A i \in due : invoked[i] >= 1
       /\ InBody => tick.cur < tick.i
       /\ \A i \in Slot : i >= tick.i \/ i = tick.cur => invoked[i] <= 1
  /\ \A i \in Slot : invoked[i] <= 2

JobInv == JobsOK /\ CountOK /\ TickOK /\ Served

(* What SlotStaysFree says of a step.                                      *)
StaysFree == \A i \in Slot : Idle(i) /\ ~Idle(i)' => jobs'[i].line = 0 /\ tick' = tick

LEMMA SlotsFinite == capacity \in Nat \ {0} /\ IsFiniteSet(Slot)
<1>1. capacity \in Nat \ {0} /\ 0 \in Int /\ capacity - 1 \in Int
  BY JobAssumption
<1>2. IsFiniteSet(0..(capacity - 1))
  BY <1>1, FS_Interval, Zenon
<1> QED BY <1>1, <1>2 DEF Slot

(* Slot i becomes x.                                                       *)
WithJob(b, i, x) == [b EXCEPT ![i] = x]

LEMMA SlotSet ==
  ASSUME NEW N, NEW b, IsBuf(N, b), NEW i \in 0..(N - 1), NEW x, NEW c, c = WithJob(b, i, x)
  PROVE  IsBuf(N, c) /\ c[i] = x /\ \A k \in 0..(N - 1) : k # i => c[k] = b[k]
BY DEF IsBuf, WithJob

LEMMA JobCancelled ==
  ASSUME NEW j, IsJob(j)
  PROVE  IsJob([j EXCEPT !.state = "IDLE"]) /\ [j EXCEPT !.state = "IDLE"].state = "IDLE"
<1>1. [j EXCEPT !.state = "IDLE"] =
        [state |-> "IDLE", prio |-> j.prio, body |-> j.body, line |-> j.line, child |-> j.child]
  BY DEF IsJob
<1> QED BY <1>1 DEF IsJob

(* The job j after its coroutine has returned r.                           *)
Returned(j, r, x) == [j EXCEPT !.state = AfterCall[r.st], !.line = r.line, !.child = x]

LEMMA JobCalled ==
  ASSUME NEW j, IsJob(j), j.state # "IDLE", NEW r, Outcome(j.body, r), NEW x, NEW k,
         k = Returned(j, r, x)
  PROVE  IsJob(k) /\ (k.state = "IDLE" <=> r.st = "DONE")
<1>1. k = [state |-> AfterCall[r.st], prio |-> j.prio, body |-> j.body, line |-> r.line, child |-> x]
  BY DEF IsJob, Returned
<1>2. r.st \in {"DONE", "RUNNING", "BLOCKED"} /\ (r.st # "DONE" => r.line \in 1..Len(j.body))
  BY DEF Outcome
<1>3. /\ r.st = "DONE" => AfterCall[r.st] = "IDLE"
      /\ r.st = "RUNNING" => AfterCall[r.st] = "READY"
      /\ r.st = "BLOCKED" => AfterCall[r.st] = "BLOCKED"
  BY DEF AfterCall
<1>4. k.state = "IDLE" <=> r.st = "DONE"
  BY <1>1, <1>2, <1>3
<1>5. k.state \in {"IDLE", "READY", "BLOCKED"}
  BY <1>1, <1>2, <1>3
<1>6. k.state # "IDLE" => k.body \in Seq(Statement) /\ k.line \in 0..Len(k.body)
  <2>1. j.body \in Seq(Statement)
    BY DEF IsJob
  <2>2. k.state # "IDLE" => r.line \in 0..Len(j.body)
    BY <1>2, <1>4, <2>1
  <2> QED BY <1>1, <2>1, <2>2
<1> QED BY <1>1, <1>4, <1>5, <1>6 DEF IsJob

LEMMA JobStarts == vibe_job_sched_init => JobInv
<1> SUFFICES ASSUME vibe_job_sched_init PROVE JobInv
  OBVIOUS
<1>0. capacity \in Nat \ {0}
  BY SlotsFinite
<1>1. \A i \in Slot : jobs[i] = [state |-> "IDLE", prio |-> 0, body |-> <<>>, line |-> 0, child |-> 0]
  BY DEF vibe_job_sched_init
<1>2. JobsOK
  <2>1. IsBuf(capacity, jobs)
    BY DEF vibe_job_sched_init, IsBuf, Slot
  <2> QED BY <1>1, <2>1 DEF JobsOK, IsJob
<1>3. Occupied = {}
  BY <1>1 DEF Occupied, Idle
<1>4. CountOK
  BY <1>3, FS_EmptySet DEF CountOK, vibe_job_sched_init
<1>5. TickOK
  <2>1. tick = [phase |-> 0, done |-> {}, i |-> 0, cur |-> -1] /\ due = {} /\ cond = FALSE
        /\ invoked = [i \in Slot |-> 0]
    BY DEF vibe_job_sched_init, NoTick
  <2>2. 0 \in 0..2 /\ 0 \in 0..capacity /\ {} \in SUBSET Slot /\ -1 \in Slot \cup {-1}
    BY <1>0
  <2> QED BY <2>1, <2>2 DEF TickOK, InBody
<1>6. Served
  BY DEF vibe_job_sched_init, Served, NoTick
<1> QED BY <1>2, <1>4, <1>5, <1>6 DEF JobInv

LEMMA SubmitKeeps ==
  ASSUME JobInv, NEW b \in Bodies, NEW p \in JobPrio, vibe_sched_submit(b, p)
  PROVE  JobInv' /\ StaysFree
<1>0. JobsOK /\ CountOK /\ TickOK /\ Served
  BY DEF JobInv
<1> DEFINE new == [state |-> "READY", prio |-> p, body |-> b, line |-> 0, child |-> 0]
<1>1. PICK i \in Slot : Idle(i) /\ jobs' = WithJob(jobs, i, new)
  BY DEF vibe_sched_submit, WithJob
<1>2. jobstats' = [active |-> jobstats.active + 1] /\ UNCHANGED <<tick, cond, due, invoked>>
  BY DEF vibe_sched_submit
<1>3. IsBuf(capacity, jobs') /\ jobs'[i] = new /\ \A k \in Slot : k # i => jobs'[k] = jobs[k]
  <2>1. PICK b0, x, c : b0 = jobs /\ x = new /\ c = jobs'
    OBVIOUS
  <2>2. IsBuf(capacity, b0) /\ i \in 0..(capacity - 1) /\ c = WithJob(b0, i, x)
    BY <1>0, <1>1, <2>1 DEF JobsOK, Slot
  <2>3. IsBuf(capacity, c) /\ c[i] = x /\ \A k \in 0..(capacity - 1) : k # i => c[k] = b0[k]
    BY <2>2, SlotSet
  <2> QED BY <2>1, <2>3 DEF Slot
<1>4. IsJob(new) /\ new.state = "READY" /\ new.line = 0
  <2>1. b \in Seq(Statement)
    BY JobAssumption
  <2> QED BY <2>1 DEF IsJob
<1> HIDE DEF new
<1>5. JobsOK'
  <2>1. \A k \in Slot : IsJob(jobs'[k])
    BY <1>0, <1>3, <1>4 DEF JobsOK
  <2> QED BY <1>3, <2>1 DEF JobsOK
<1>6. Occupied' = Occupied \cup {i} /\ i \notin Occupied
  BY <1>1, <1>3, <1>4 DEF Occupied, Idle
<1>7. CountOK'
  <2>1. IsFiniteSet(Occupied)
    BY SlotsFinite, FS_Subset DEF Occupied
  <2>2. Cardinality(Occupied \cup {i}) = Cardinality(Occupied) + 1
    BY <1>6, <2>1, FS_AddElement
  <2> QED BY <1>0, <1>2, <1>6, <2>2 DEF CountOK
<1>8. TickOK'
  BY <1>0, <1>2, <1>6 DEF TickOK, InBody
<1>9. Ready \subseteq Ready'
  BY <1>1, <1>3, <1>4 DEF Ready
<1>10. Served'
  BY <1>0, <1>2, <1>9 DEF Served, InBody
<1>11. StaysFree
  BY <1>2, <1>3, <1>4 DEF StaysFree, Idle
<1> QED BY <1>5, <1>7, <1>8, <1>10, <1>11 DEF JobInv

LEMMA CancelKeeps ==
  ASSUME JobInv, ~SelfCancel, NEW i \in Slot, vibe_sched_cancel(i)
  PROVE  JobInv' /\ StaysFree
<1>0. JobsOK /\ CountOK /\ TickOK /\ Served
  BY DEF JobInv
<1>1. /\ ~Idle(i) /\ i # tick.cur /\ jobs' = WithJob(jobs, i, [jobs[i] EXCEPT !.state = "IDLE"])
      /\ jobstats' = [active |-> jobstats.active - 1] /\ due' = due \ {i}
      /\ UNCHANGED <<tick, cond, invoked>>
  BY DEF vibe_sched_cancel, WithJob
<1> DEFINE new == [jobs[i] EXCEPT !.state = "IDLE"]
<1>2. IsJob(new) /\ new.state = "IDLE"
  <2>1. PICK j : j = jobs[i]
    OBVIOUS
  <2>2. IsJob(j)
    BY <1>0, <2>1 DEF JobsOK
  <2>3. IsJob([j EXCEPT !.state = "IDLE"]) /\ [j EXCEPT !.state = "IDLE"].state = "IDLE"
    BY <2>2, JobCancelled
  <2> QED BY <2>1, <2>3
<1>3. IsBuf(capacity, jobs') /\ jobs'[i] = new /\ \A k \in Slot : k # i => jobs'[k] = jobs[k]
  <2>1. PICK b0, x, c : b0 = jobs /\ x = new /\ c = jobs'
    OBVIOUS
  <2>2. IsBuf(capacity, b0) /\ i \in 0..(capacity - 1) /\ c = WithJob(b0, i, x)
    BY <1>0, <1>1, <2>1 DEF JobsOK, Slot
  <2>3. IsBuf(capacity, c) /\ c[i] = x /\ \A k \in 0..(capacity - 1) : k # i => c[k] = b0[k]
    BY <2>2, SlotSet
  <2> QED BY <2>1, <2>3 DEF Slot
<1> HIDE DEF new
<1>4. JobsOK'
  <2>1. \A k \in Slot : IsJob(jobs'[k])
    BY <1>0, <1>2, <1>3 DEF JobsOK
  <2> QED BY <1>3, <2>1 DEF JobsOK
<1>5. Occupied' = Occupied \ {i} /\ i \in Occupied
  BY <1>1, <1>2, <1>3 DEF Occupied, Idle
<1>6. CountOK'
  <2>1. IsFiniteSet(Occupied)
    BY SlotsFinite, FS_Subset DEF Occupied
  <2>2. Cardinality(Occupied \ {i}) = Cardinality(Occupied) - 1
    BY <1>5, <2>1, FS_RemoveElement
  <2> QED BY <1>0, <1>1, <1>5, <2>2 DEF CountOK
<1>7. TickOK'
  BY <1>0, <1>1, <1>5 DEF TickOK, InBody
<1>8. Ready \ {i} \subseteq Ready'
  BY <1>1, <1>3 DEF Ready
<1>9. Served'
  BY <1>0, <1>1, <1>8 DEF Served, InBody
<1>10. StaysFree
  BY <1>2, <1>3 DEF StaysFree, Idle
<1> QED BY <1>4, <1>6, <1>7, <1>9, <1>10 DEF JobInv

(* The steps of vibe_sched_run itself leave the slots alone.               *)
SlotsStay ==
  /\ JobsOK /\ CountOK /\ TickOK /\ Served /\ capacity \in Nat \ {0}
  /\ JobsOK' /\ CountOK' /\ StaysFree /\ Occupied' = Occupied /\ Ready' = Ready
  /\ Ready \subseteq Occupied /\ \A i \in Slot : jobs[i].state = "BLOCKED" => i \in Occupied
  /\ tick \in [phase : 0..2, done : SUBSET Slot, i : 0..capacity, cur : Slot \cup {-1}]

LEMMA TickLeavesSlots ==
  ASSUME JobInv, UNCHANGED <<jobs, jobstats>>
  PROVE  SlotsStay
<1>0. JobsOK /\ CountOK /\ TickOK /\ Served /\ capacity \in Nat \ {0}
  BY SlotsFinite DEF JobInv
<1>1. JobsOK'
  BY <1>0 DEF JobsOK
<1>2. Occupied' = Occupied /\ Ready' = Ready /\ StaysFree
  BY DEF Occupied, Idle, Ready, StaysFree
<1>3. CountOK'
  BY <1>0, <1>2 DEF CountOK
<1>4. Ready \subseteq Occupied /\ \A i \in Slot : jobs[i].state = "BLOCKED" => i \in Occupied
  BY DEF Ready, Occupied, Idle
<1>5. tick \in [phase : 0..2, done : SUBSET Slot, i : 0..capacity, cur : Slot \cup {-1}]
  BY <1>0 DEF TickOK
<1> QED BY <1>0, <1>1, <1>2, <1>3, <1>4, <1>5 DEF SlotsStay

LEMMA RunKeeps ==
  ASSUME JobInv, vibe_sched_run
  PROVE  JobInv' /\ StaysFree
<1>0. SlotsStay
  BY TickLeavesSlots DEF vibe_sched_run
<1>1. tick' = [phase |-> 1, done |-> {}, i |-> 0, cur |-> -1] /\ due' = Ready
      /\ invoked' = [i \in Slot |-> 0] /\ cond' = cond
  BY DEF vibe_sched_run, NoTick
<1>2. TickOK'
  BY <1>0, <1>1 DEF TickOK, InBody, Ready, SlotsStay
<1>3. Served'
  BY <1>0, <1>1 DEF Served, InBody, SlotsStay
<1> QED BY <1>0, <1>2, <1>3 DEF JobInv, SlotsStay

LEMMA SelectKeeps ==
  ASSUME JobInv, SelectReady
  PROVE  JobInv' /\ StaysFree
<1>1. /\ tick.phase = 1 /\ ~InBody /\ UNCHANGED <<jobs, jobstats, cond, due, invoked>>
  BY Zenon DEF SelectReady
<1>2. \/ \E i \in Ready \ tick.done : tick' = [tick EXCEPT !.done = @ \cup {i}, !.cur = i]
      \/ Ready \ tick.done = {} /\ tick' = [tick EXCEPT !.phase = 2]
  BY Zenon DEF SelectReady
<1>3. SlotsStay
  BY <1>1, TickLeavesSlots
<1>4. UNCHANGED <<cond, due, invoked>> /\ tick.phase = 1 /\ tick.cur = -1
  BY <1>1 DEF InBody
<1>5. ASSUME NEW i \in Ready \ tick.done, tick' = [tick EXCEPT !.done = @ \cup {i}, !.cur = i]
      PROVE  TickOK' /\ Served'
  <2>1. tick' = [phase |-> 1, done |-> tick.done \cup {i}, i |-> tick.i, cur |-> i]
    BY <1>3, <1>4, <1>5 DEF SlotsStay
  <2>2. i \in Slot /\ i \in Occupied
    BY <1>3 DEF Ready, SlotsStay
  <2>3. TickOK'
    BY <1>3, <1>4, <2>1, <2>2 DEF TickOK, InBody, SlotsStay
  <2>4. -1 \notin Slot
    BY <1>3 DEF Slot, SlotsStay
  <2>5. \A k \in Slot : invoked[k] = IF k \in tick.done THEN 1 ELSE 0
    BY <1>3, <1>4, <2>4 DEF Served, SlotsStay
  <2>6. Served'
    <3>1. due' \subseteq Ready' \cup tick'.done
      BY <1>3, <1>4, <2>1 DEF Served, SlotsStay
    <3>2. \A k \in Slot : invoked'[k] = IF k \in tick'.done /\ k # tick'.cur THEN 1 ELSE 0
      BY <1>4, <2>1, <2>5
    <3> QED BY <1>3, <1>4, <2>1, <3>1, <3>2 DEF Served, InBody, SlotsStay
  <2> QED BY <2>3, <2>6
<1>6. ASSUME Ready \ tick.done = {}, tick' = [tick EXCEPT !.phase = 2]
      PROVE  TickOK' /\ Served'
  <2>1. tick' = [phase |-> 2, done |-> tick.done, i |-> tick.i, cur |-> -1]
    BY <1>3, <1>4, <1>6 DEF SlotsStay
  <2>2. TickOK'
    BY <1>3, <1>4, <2>1 DEF TickOK, InBody, SlotsStay
  <2>3. -1 \notin Slot
    BY <1>3 DEF Slot, SlotsStay
  <2>4. \A k \in Slot : invoked[k] = IF k \in tick.done THEN 1 ELSE 0
    BY <1>3, <1>4, <2>3 DEF Served, SlotsStay
  <2>5. due \subseteq tick.done /\ due \subseteq Slot
    BY <1>3, <1>4, <1>6 DEF Served, TickOK, SlotsStay
  <2>6. Served'
    BY <1>4, <2>1, <2>4, <2>5 DEF Served, InBody
  <2> QED BY <2>2, <2>6
<1>7. TickOK' /\ Served'
  BY <1>5, <1>6, <1>2, Zenon
<1> QED BY <1>3, <1>7 DEF JobInv, SlotsStay

LEMMA ProbeKeeps ==
  ASSUME JobInv, ProbeBlocked
  PROVE  JobInv' /\ StaysFree
<1>0. SlotsStay
  BY TickLeavesSlots DEF ProbeBlocked
<1>1. UNCHANGED <<cond, due, invoked>> /\ tick.phase = 2 /\ tick.cur = -1
  BY DEF ProbeBlocked, InBody
<1>2. ASSUME tick.i < capacity,
             tick' = [tick EXCEPT !.i = @ + 1, !.cur = IF jobs[tick.i].state = "BLOCKED" THEN tick.i ELSE -1]
      PROVE  TickOK' /\ Served'
  <2>1. tick.i \in Slot /\ tick.i + 1 \in 0..capacity /\ tick.i \in Int
    BY <1>0, <1>2 DEF Slot, SlotsStay
  <2>2. PICK c : c = IF jobs[tick.i].state = "BLOCKED" THEN tick.i ELSE -1
    OBVIOUS
  <2>3. tick' = [phase |-> 2, done |-> tick.done, i |-> tick.i + 1, cur |-> c]
    BY <1>0, <1>1, <1>2, <2>2 DEF SlotsStay
  <2>4. c = -1 \/ (c = tick.i /\ c \in Slot /\ c \in Occupied)
    BY <1>0, <2>1, <2>2 DEF SlotsStay
  <2>5. TickOK'
    BY <1>0, <1>1, <2>1, <2>3, <2>4 DEF TickOK, InBody, SlotsStay
  <2>6. /\ \A k \in due : invoked[k] >= 1
        /\ \A k \in Slot : k >= tick.i => invoked[k] <= 1
        /\ \A k \in Slot : invoked[k] <= 2
    BY <1>0, <1>1 DEF Served, SlotsStay
  <2>7. \A k \in Slot : k >= tick.i + 1 \/ k = c => invoked[k] <= 1
    <3>1. \A k \in Slot : k \in Int /\ k # -1
      BY <1>0 DEF Slot, SlotsStay
    <3>2. \A k \in Slot : k >= tick.i + 1 \/ k = c => k >= tick.i
      BY <2>1, <2>4, <3>1
    <3> QED BY <2>6, <3>2
  <2>8. c # -1 => c < tick.i + 1
    BY <2>1, <2>4
  <2>9. Served'
    BY <1>1, <2>3, <2>6, <2>7, <2>8 DEF Served, InBody
  <2> QED BY <2>5, <2>9
<1>3. ASSUME tick' = NoTick PROVE TickOK' /\ Served'
  <2>1. TickOK'
    BY <1>0, <1>1, <1>3 DEF TickOK, InBody, NoTick, SlotsStay
  <2>2. Served'
    BY <1>0, <1>1, <1>3 DEF Served, NoTick, SlotsStay
  <2> QED BY <2>1, <2>2
<1>4. TickOK' /\ Served'
  BY <1>2, <1>3 DEF ProbeBlocked
<1> QED BY <1>0, <1>4 DEF JobInv, SlotsStay

LEMMA QuietKeeps ==
  ASSUME JobInv, ConditionHolds \/ UNCHANGED jobvars
  PROVE  JobInv' /\ StaysFree
<1>0. SlotsStay
  BY TickLeavesSlots DEF ConditionHolds, jobvars
<1>1. UNCHANGED <<tick, due, invoked>> /\ cond' \in BOOLEAN
  BY <1>0 DEF ConditionHolds, jobvars, TickOK, SlotsStay
<1>2. TickOK'
  BY <1>0, <1>1 DEF TickOK, InBody, SlotsStay
<1>3. Served'
  BY <1>0, <1>1 DEF Served, InBody, SlotsStay
<1> QED BY <1>0, <1>2, <1>3 DEF JobInv, SlotsStay

LEMMA ExecKeeps ==
  ASSUME JobInv, exec
  PROVE  JobInv' /\ StaysFree
<1>0. JobsOK /\ CountOK /\ TickOK /\ Served /\ capacity \in Nat \ {0}
  BY SlotsFinite DEF JobInv
<1> DEFINE i == tick.cur
           j == jobs[i]
           kid == Invoke(ChildBody, j.child, cond, [st |-> "DONE"])
           r == Invoke(j.body, j.line, cond, kid)
           x == IF r.child THEN kid.line ELSE j.child
           new == Returned(j, r, x)
<1>1. /\ InBody /\ jobs' = WithJob(jobs, i, new)
      /\ jobstats' = [active |-> jobstats.active - (IF r.st = "DONE" THEN 1 ELSE 0)]
      /\ invoked' = [invoked EXCEPT ![i] = @ + 1] /\ tick' = [tick EXCEPT !.cur = -1]
      /\ UNCHANGED <<cond, due>>
  BY DEF exec, WithJob, Returned
<1>2. i \in Slot /\ i \in Occupied /\ IsJob(j) /\ j.state # "IDLE"
  BY <1>0, <1>1 DEF TickOK, InBody, JobsOK, Occupied, Idle
<1>3. Outcome(j.body, r)
  <2> HIDE DEF kid, j
  <2>1. j.body \in Seq(Statement) /\ j.line \in 0..Len(j.body) /\ cond \in BOOLEAN
    BY <1>0, <1>2 DEF IsJob, TickOK
  <2>2. PICK b, l, c, y : b = j.body /\ l = j.line /\ c = cond /\ y = kid
    OBVIOUS
  <2>3. Outcome(b, Invoke(b, l, c, y))
    BY <2>1, <2>2, InvokeEnds
  <2> QED BY <2>2, <2>3
<1> HIDE DEF x, r, kid
<1>4. IsJob(new) /\ (new.state = "IDLE" <=> r.st = "DONE")
  <2>1. PICK a, o, y, k : a = j /\ o = r /\ y = x /\ k = new
    OBVIOUS
  <2>2. IsJob(a) /\ a.state # "IDLE" /\ Outcome(a.body, o)
        /\ k = Returned(a, o, y)
    BY <1>2, <1>3, <2>1
  <2>3. IsJob(k) /\ (k.state = "IDLE" <=> o.st = "DONE")
    BY <2>2, JobCalled
  <2> QED BY <2>1, <2>3
<1> HIDE DEF new, i, j
<1>5. IsBuf(capacity, jobs') /\ jobs'[i] = new /\ \A k \in Slot : k # i => jobs'[k] = jobs[k]
  <2>1. PICK b0, y, c, m : b0 = jobs /\ y = new /\ c = jobs' /\ m = i
    OBVIOUS
  <2>2. IsBuf(capacity, b0) /\ m \in 0..(capacity - 1) /\ c = WithJob(b0, m, y)
    BY <1>0, <1>1, <1>2, <2>1 DEF JobsOK, Slot
  <2>3. IsBuf(capacity, c) /\ c[m] = y /\ \A k \in 0..(capacity - 1) : k # m => c[k] = b0[k]
    BY <2>2, SlotSet
  <2> QED BY <2>1, <2>3 DEF Slot
<1>6. JobsOK'
  <2>1. \A k \in Slot : IsJob(jobs'[k])
    BY <1>0, <1>4, <1>5 DEF JobsOK
  <2> QED BY <1>5, <2>1 DEF JobsOK
<1>7. Occupied' = IF r.st = "DONE" THEN Occupied \ {i} ELSE Occupied
  BY <1>2, <1>4, <1>5 DEF Occupied, Idle
<1>8. CountOK'
  <2>1. IsFiniteSet(Occupied)
    BY SlotsFinite, FS_Subset DEF Occupied
  <2>2. Cardinality(Occupied \ {i}) = Cardinality(Occupied) - 1
    BY <1>2, <2>1, FS_RemoveElement
  <2>3. jobstats.active \in Int /\ jobstats.active = Cardinality(Occupied)
    BY <1>0 DEF CountOK
  <2>4. jobstats'.active = jobstats.active - (IF r.st = "DONE" THEN 1 ELSE 0)
    BY <1>1
  <2> QED BY <1>7, <2>2, <2>3, <2>4 DEF CountOK
<1>9. /\ tick' = [phase |-> tick.phase, done |-> tick.done, i |-> tick.i, cur |-> -1]
      /\ tick.phase \in 0..2 /\ tick.done \in SUBSET Slot /\ tick.i \in 0..capacity
      /\ tick.phase # 0 /\ invoked \in [Slot -> Nat]
  BY <1>0, <1>1 DEF TickOK
<1>10. /\ invoked' \in [Slot -> Nat] /\ invoked'[i] = invoked[i] + 1
       /\ \A k \in Slot : k # i => invoked'[k] = invoked[k]
  BY <1>1, <1>2, <1>9
<1>11. TickOK'
  BY <1>0, <1>1, <1>9, <1>10 DEF TickOK, InBody
<1>12. -1 \notin Slot /\ \A k \in Slot : k \in Int /\ invoked[k] \in Int
  BY <1>0, <1>9 DEF Slot
<1>13. ASSUME tick.phase = 1 PROVE Served'
  <2>1. /\ due \subseteq Ready \cup tick.done /\ i \in tick.done
        /\ \A k \in Slot : invoked[k] = IF k \in tick.done /\ k # i THEN 1 ELSE 0
    BY <1>0, <1>1, <1>13 DEF Served, i
  <2>2. \A k \in Slot : k # i => (k \in Ready <=> k \in Ready')
    BY <1>5 DEF Ready
  <2>3. due' \subseteq Ready' \cup tick'.done
    BY <1>1, <1>9, <2>1, <2>2 DEF Ready
  <2>4. \A k \in Slot : invoked'[k] = IF k \in tick.done THEN 1 ELSE 0
    BY <1>2, <1>10, <2>1
  <2>5. \A k \in Slot : invoked'[k] = (IF k \in tick'.done /\ k # tick'.cur THEN 1 ELSE 0)
                        /\ invoked'[k] <= 2
    BY <1>9, <1>12, <2>4
  <2> QED BY <1>9, <1>13, <2>3, <2>5 DEF Served, InBody
<1>14. ASSUME tick.phase = 2 PROVE Served'
  <2>1. /\ \A k \in due : invoked[k] >= 1
        /\ i < tick.i
        /\ \A k \in Slot : k >= tick.i \/ k = i => invoked[k] <= 1
        /\ \A k \in Slot : invoked[k] <= 2
    BY <1>0, <1>1, <1>14 DEF Served, i
  <2>2. due \subseteq Slot
    BY <1>0 DEF TickOK
  <2>3. \A k \in due' : invoked'[k] >= 1
    BY <1>1, <1>10, <1>12, <2>1, <2>2
  <2>4. \A k \in Slot : k >= tick'.i \/ k = tick'.cur => invoked'[k] <= 1
    <3>1. \A k \in Slot : k >= tick.i => k # i
      BY <1>2, <1>9, <1>12, <2>1
    <3> QED BY <1>9, <1>10, <1>12, <2>1, <3>1
  <2>5. \A k \in Slot : invoked'[k] <= 2
    BY <1>2, <1>10, <1>12, <2>1
  <2> QED BY <1>9, <1>14, <2>3, <2>4, <2>5 DEF Served, InBody
<1>15. StaysFree
  BY <1>2, <1>5 DEF StaysFree, Occupied, Idle
<1>16. Served'
  <2>1. tick.phase = 1 \/ tick.phase = 2
    BY <1>9
  <2> QED BY <1>13, <1>14, <2>1
<1> QED BY <1>6, <1>8, <1>11, <1>15, <1>16 DEF JobInv

(* Unless a body cancels its own job, for any number of slots, any         *)
(* priorities and any bodies: vibe_sched_run invokes every job that was    *)
(* READY when it began, stats.active is the number of occupied slots       *)
(* whatever the bodies submit and cancel meanwhile, and a slot that has    *)
(* been freed is only taken again by vibe_sched_submit.                    *)
THEOREM TickServesWhoIsDue ==
  ASSUME ~SelfCancel
  PROVE  JobSpec => JobsSound
<1>1. vibe_job_sched_init => JobInv
  BY JobStarts
<1>2. JobInv /\ [JobNext]_jobvars => JobInv' /\ [StaysFree]_jobvars
  <2> SUFFICES ASSUME JobInv, [JobNext]_jobvars PROVE JobInv' /\ StaysFree
    OBVIOUS
  <2>1. ASSUME NEW b \in Bodies, NEW p \in JobPrio, vibe_sched_submit(b, p) PROVE JobInv' /\ StaysFree
    BY <2>1, SubmitKeeps
  <2>2. ASSUME NEW i \in Slot, vibe_sched_cancel(i) PROVE JobInv' /\ StaysFree
    BY <2>2, CancelKeeps
  <2>3. CASE exec
    BY <2>3, ExecKeeps
  <2>4. CASE vibe_sched_run \/ SelectReady \/ ProbeBlocked \/ ConditionHolds \/ UNCHANGED jobvars
    BY <2>4, RunKeeps, SelectKeeps, ProbeKeeps, QuietKeeps
  <2> QED BY <2>1, <2>2, <2>3, <2>4 DEF JobNext, JobStep
<1>3. JobInv => JobsAccounted /\ TickServesAll
  <2> SUFFICES ASSUME JobInv PROVE JobsAccounted /\ TickServesAll
    OBVIOUS
  <2>1. JobsAccounted
    BY DEF JobInv, CountOK, JobsAccounted, Occupied
  <2>2. TickServesAll
    BY DEF JobInv, Served, TickServesAll
  <2> QED BY <2>1, <2>2
<1> QED BY <1>1, <1>2, <1>3, PTL DEF JobSpec, JobsSound, SlotStaysFree, StaysFree

-----------------------------------------------------------------------------
(* The memory protection unit.                                             *)
-----------------------------------------------------------------------------
(* The sizes a region can have: each is twice the one before.              *)
LEMMA Powers ==
  ASSUME NEW k \in 5..31
  PROVE  /\ 2 ^ k \in Nat \ {0} /\ 2 ^ k >= 32 /\ (2 ^ k) % 32 = 0
         /\ k < 31 => 2 ^ (k + 1) = 2 * 2 ^ k
<1> DEFINE P == [j \in 5..31 |-> 2 ^ j]
<1>1. /\ P[5] = 32 /\ P[6] = 64 /\ P[7] = 128 /\ P[8] = 256 /\ P[9] = 512 /\ P[10] = 1024
      /\ P[11] = 2048 /\ P[12] = 4096 /\ P[13] = 8192 /\ P[14] = 16384 /\ P[15] = 32768
      /\ P[16] = 65536 /\ P[17] = 131072 /\ P[18] = 262144 /\ P[19] = 524288 /\ P[20] = 1048576
      /\ P[21] = 2097152 /\ P[22] = 4194304 /\ P[23] = 8388608 /\ P[24] = 16777216
      /\ P[25] = 33554432 /\ P[26] = 67108864 /\ P[27] = 134217728 /\ P[28] = 268435456
      /\ P[29] = 536870912 /\ P[30] = 1073741824 /\ P[31] = 2147483648
  OBVIOUS
<1>2. P[k] = 2 ^ k /\ (k < 31 => P[k + 1] = 2 ^ (k + 1))
  OBVIOUS
<1> HIDE DEF P
<1>3. \/ k = 5 \/ k = 6 \/ k = 7 \/ k = 8 \/ k = 9 \/ k = 10 \/ k = 11 \/ k = 12 \/ k = 13
      \/ k = 14 \/ k = 15 \/ k = 16 \/ k = 17 \/ k = 18 \/ k = 19 \/ k = 20 \/ k = 21 \/ k = 22
      \/ k = 23 \/ k = 24 \/ k = 25 \/ k = 26 \/ k = 27 \/ k = 28 \/ k = 29 \/ k = 30 \/ k = 31
  OBVIOUS
<1>4. P[k] \in Nat \ {0} /\ P[k] >= 32 /\ P[k] % 32 = 0 /\ (k < 31 => P[k + 1] = 2 * P[k])
  BY <1>1, <1>3
<1> QED BY <1>2, <1>4

LEMMA PowersApart ==
  ASSUME NEW j \in 5..31, NEW k \in 5..31, j < k
  PROVE  2 * 2 ^ j <= 2 ^ k
<1> DEFINE P == [i \in 5..31 |-> 2 ^ i]
           Bad == {i \in (j + 1)..31 : ~(2 * P[j] <= P[i])}
<1>1. \A i \in 5..31 : P[i] \in Nat /\ (i < 31 => P[i + 1] = 2 * P[i])
  <2> TAKE i \in 5..31
  <2>1. 2 ^ i \in Nat \ {0} /\ (i < 31 => 2 ^ (i + 1) = 2 * 2 ^ i)
    BY Powers
  <2>2. P[i] = 2 ^ i /\ (i < 31 => P[i + 1] = 2 ^ (i + 1))
    OBVIOUS
  <2> QED BY <2>1, <2>2
<1>2. P[j] = 2 ^ j /\ P[k] = 2 ^ k
  OBVIOUS
<1> HIDE DEF P
<1>3. SUFFICES ASSUME Bad # {} PROVE FALSE
  <2>1. k \notin Bad => 2 * P[j] <= P[k]
    OBVIOUS
  <2> QED BY <1>2, <1>3, <2>1
<1>4. PICK i \in Bad : \A h \in Bad : i <= h
  <2>1. Bad \in SUBSET Nat
    OBVIOUS
  <2> HIDE DEF Bad
  <2> QED BY <1>3, <2>1, LeastNumber
<1>5. i \in (j + 1)..31 /\ ~(2 * P[j] <= P[i]) /\ i - 1 \notin Bad
  <2>1. i \in (j + 1)..31 /\ ~(2 * P[j] <= P[i])
    BY <1>4
  <2>2. ~(i <= i - 1)
    BY <2>1
  <2> QED BY <1>4, <2>1, <2>2
<1>6. PICK g \in j..30 : i = g + 1
  BY <1>5
<1>7. P[i] = 2 * P[g] /\ P[g] \in Nat /\ P[j] \in Nat
  <2>1. g \in 5..31 /\ g < 31
    BY <1>6
  <2>2. P[g] \in Nat /\ P[g + 1] = 2 * P[g]
    BY <1>1, <2>1
  <2>3. P[j] \in Nat
    BY <1>1
  <2> QED BY <1>6, <2>2, <2>3
<1>8. g = j \/ 2 * P[j] <= P[g]
  <2>1. i - 1 = g /\ (g = j \/ g \in (j + 1)..31)
    BY <1>6
  <2> QED BY <1>5, <2>1
<1>9. 2 * P[j] <= P[i]
  BY <1>7, <1>8
<1> QED BY <1>5, <1>9

(* The SIZE field of a power of two says which one.                        *)
LEMMA SizeIsLog ==
  ASSUME NEW k \in 5..31
  PROVE  bytes_to_mpu_size(2 ^ k) = k - 1
<1>1. \A i \in 5..31 : (2 ^ k) \div (2 ^ i) = 1 => i = k
  <2> SUFFICES ASSUME NEW i \in 5..31, (2 ^ k) \div (2 ^ i) = 1, i # k PROVE FALSE
    OBVIOUS
  <2>1. PICK b \in Nat \ {0}, l \in Nat \ {0} : b = 2 ^ k /\ l = 2 ^ i
    BY Powers
  <2>2. b = l * (b \div l) + (b % l) /\ b % l \in 0..(l - 1)
    <3>1. b \in Int
      OBVIOUS
    <3> QED BY <3>1, DivOf
  <2>3. PICK m \in 0..(l - 1) : b = l * 1 + m
    BY <2>1, <2>2
  <2>4. CASE i < k
    <3>1. 2 * l <= b
      BY <2>1, <2>4, PowersApart
    <3> QED BY <2>3, <3>1
  <2>5. CASE k < i
    <3>1. 2 * b <= l
      BY <2>1, <2>5, PowersApart
    <3> QED BY <2>3, <3>1
  <2> QED BY <2>4, <2>5
<1>2. (2 ^ k) \div (2 ^ k) = 1 /\ ~(2 ^ k < 32)
  <2>1. PICK b \in Nat \ {0} : b = 2 ^ k /\ b >= 32
    BY Powers
  <2>2. b \in Int /\ 1 \in Int /\ 0 \in 0..(b - 1) /\ b = b * 1 + 0
    BY <2>1
  <2> DEFINE one == 1
             zero == 0
  <2>3. one \in Int /\ zero \in 0..(b - 1) /\ b = b * one + zero
    BY <2>2
  <2> HIDE DEF one, zero
  <2>4. b \div b = one
    BY <2>2, <2>3, DivIs
  <2> QED BY <2>1, <2>4 DEF one
<1>3. (CHOOSE i \in 5..31 : (2 ^ k) \div (2 ^ i) = 1) = k
  BY <1>1, <1>2, Zenon
<1> QED BY <1>2, <1>3 DEF bytes_to_mpu_size

(* An address matches a base that is aligned to the size, if and only if   *)
(* it lies in the region.                                                  *)
LEMMA InRegion ==
  ASSUME NEW L \in Nat \ {0}, NEW base \in Int, base % L = 0, NEW a \in Int
  PROVE  a \div L = base \div L <=> a \in base..(base + L - 1)
<1>1. PICK m \in Int : m = base \div L /\ base = L * m
  <2>1. base \div L \in Int /\ base = L * (base \div L) + (base % L)
    BY DivOf
  <2>2. L * (base \div L) \in Int
    BY <2>1, Z3
  <2> QED BY <2>1, <2>2
<1>2. PICK q \in Int, s \in 0..(L - 1) : q = a \div L /\ a = L * q + s
  <2>1. a \div L \in Int /\ a % L \in 0..(L - 1) /\ a = L * (a \div L) + (a % L)
    BY DivOf
  <2> QED BY <2>1, Zenon
<1>3. ASSUME q = m PROVE a \in base..(base + L - 1)
  <2>1. a = base + s
    BY <1>1, <1>2, <1>3
  <2> QED BY <2>1
<1>4. ASSUME a \in base..(base + L - 1) PROVE q = m
  <2>1. PICK r \in 0..(L - 1) : a = base + r
    <3>1. a - base \in 0..(L - 1) /\ a = base + (a - base)
      BY <1>4
    <3> QED BY <3>1
  <2>2. a = L * m + r
    BY <1>1, <2>1
  <2>3. a \div L = m
    BY <2>2, DivIs
  <2> QED BY <1>2, <2>3
<1> QED BY <1>1, <1>2, <1>3, <1>4

(* RBAR has no bits below 32, and an aligned base needs none.              *)
LEMMA BaseKept ==
  ASSUME NEW L \in Nat \ {0}, L % 32 = 0, NEW base \in Int, base % L = 0
  PROVE  (base \div 32) * 32 = base
<1> DEFINE N == 32
<1>0. N \in Nat \ {0} /\ L % N = 0 /\ L \in Int
  OBVIOUS
<1> HIDE DEF N
<1>1. ((base % L) + 0) % N = (base + 0) % N
  <2>1. 0 \in Int
    OBVIOUS
  <2> DEFINE zero == 0
  <2>2. zero \in Int
    BY <2>1
  <2> HIDE DEF zero
  <2>3. ((base % L) + zero) % N = (base + zero) % N
    BY <1>0, <2>2, MaskOfWrapped
  <2> QED BY <2>3 DEF zero
<1>2. base % 32 = 0
  BY <1>1 DEF N
<1> QED BY <1>2, Z3

(* What the proof knows of a region's configuration.                       *)
LEMMA ConfigIs ==
  ASSUME NEW cfg \in MpuConfigs
  PROVE  /\ cfg # Off /\ cfg.base_addr \in Nat /\ cfg.base_addr % cfg.size_bytes = 0
         /\ cfg.size_bytes \in Nat \ {0} /\ cfg.size_bytes % 32 = 0
         /\ 2 ^ (bytes_to_mpu_size(cfg.size_bytes) + 1) = cfg.size_bytes
         /\ (cfg.base_addr \div 32) * 32 = cfg.base_addr
<1>1. PICK k \in 5..31 : cfg.size_bytes = 2 ^ k
  BY MpuAssumption
<1>2. cfg # Off /\ cfg.base_addr \in Nat /\ cfg.base_addr % cfg.size_bytes = 0
  BY MpuAssumption
<1>3. cfg.size_bytes \in Nat \ {0} /\ cfg.size_bytes % 32 = 0
  BY <1>1, Powers
<1>4. 2 ^ (bytes_to_mpu_size(cfg.size_bytes) + 1) = cfg.size_bytes
  <2>1. bytes_to_mpu_size(cfg.size_bytes) = k - 1
    BY <1>1, SizeIsLog
  <2>2. bytes_to_mpu_size(cfg.size_bytes) + 1 = k
    BY <2>1
  <2> QED BY <1>1, <2>2
<1>5. (cfg.base_addr \div 32) * 32 = cfg.base_addr
  <2>1. PICK L \in Nat \ {0}, b \in Int : L = cfg.size_bytes /\ b = cfg.base_addr
    BY <1>2, <1>3
  <2>2. L % 32 = 0 /\ b % L = 0
    BY <1>2, <1>3, <2>1
  <2>3. (b \div 32) * 32 = b
    BY <2>2, BaseKept
  <2> QED BY <2>1, <2>3
<1> QED BY <1>2, <1>3, <1>4, <1>5

(* The registers say what the calls that returned have asked for, and a    *)
(* call under way has the region to itself, which is off until its last    *)
(* write.                                                                  *)
MayAsk == MpuConfigs \cup {Off}
Asked(cfg) == Attributes(cfg)
MpuTyped == /\ mpu \in [on : BOOLEAN, RNR : Nat, RBAR : [Region -> Int],
                        RASR : [Region -> {Asked(cfg) : cfg \in MayAsk}]]
            /\ wanted \in [Region -> MayAsk]
            /\ mpucall \in [MpuCallers -> [at : {"out", "base", "attributes"}, region : Nat,
                                           cfg : MayAsk]]
RegionsAsAsked == \A r \in Region :
  /\ mpu.RASR[r] = Asked(wanted[r])
  /\ wanted[r] # Off => mpu.RBAR[r] = wanted[r].base_addr
CallAlone == \A c \in MpuCallers : mpucall[c].at # "out" =>
  /\ mpucall[c].region \in Region /\ mpucall[c].region = mpu.RNR
  /\ mpucall[c].at = "base" => mpucall[c].cfg # Off /\ wanted[mpu.RNR] = Off
  /\ mpucall[c].at = "attributes" /\ mpucall[c].cfg # Off =>
       wanted[mpu.RNR] = Off /\ mpu.RBAR[mpu.RNR] = mpucall[c].cfg.base_addr
MpuInv == MpuTyped /\ RegionsAsAsked /\ CallAlone

OneConfigurer == \A c, d \in MpuCallers : c = d

LEMMA AskedEnables ==
  ASSUME NEW cfg \in MayAsk
  PROVE  /\ Asked(cfg).enable <=> cfg # Off
         /\ cfg # Off => /\ Asked(cfg).size = bytes_to_mpu_size(cfg.size_bytes)
                         /\ Asked(cfg).ap = cfg.ap /\ Asked(cfg).xn = ~cfg.execute
BY DEF Asked, Attributes, RegionOff

LEMMA MpuInitOK ==
  ASSUME MpuReset
  PROVE  MpuInv
<1>1. Asked(Off) = RegionOff /\ Off \in MayAsk
  BY DEF Asked, Attributes, MayAsk
<1>2. MpuTyped
  BY <1>1 DEF MpuReset, MpuTyped, NoMpuCall
<1>3. RegionsAsAsked
  BY <1>1 DEF MpuReset, RegionsAsAsked
<1>4. CallAlone
  BY DEF MpuReset, CallAlone, NoMpuCall
<1> QED BY <1>2, <1>3, <1>4 DEF MpuInv

LEMMA EnableKeepsMpu ==
  ASSUME MpuInv, arch_mpu_enable
  PROVE  MpuInv'
<1>1. /\ mpu'.on \in BOOLEAN /\ mpu'.RNR = mpu.RNR /\ mpu'.RBAR = mpu.RBAR /\ mpu'.RASR = mpu.RASR
      /\ mpucall' = mpucall /\ wanted' = wanted
      /\ mpu' \in [on : BOOLEAN, RNR : Nat, RBAR : [Region -> Int],
                   RASR : [Region -> {Asked(cfg) : cfg \in MayAsk}]]
  BY DEF MpuInv, MpuTyped, arch_mpu_enable
<1>2. MpuTyped'
  BY <1>1 DEF MpuInv, MpuTyped, MayAsk
<1>3. RegionsAsAsked'
  BY <1>1 DEF MpuInv, RegionsAsAsked
<1>4. CallAlone'
  BY <1>1 DEF MpuInv, CallAlone
<1> QED BY <1>2, <1>3, <1>4 DEF MpuInv

LEMMA SelectKeepsMpu ==
  ASSUME MpuInv, OneConfigurer, NEW c \in MpuCallers, NEW r \in Region, NEW cfg \in MayAsk,
         cfg # Off => wanted[r] = Off, MpuSelect(c, r, cfg)
  PROVE  MpuInv'
<1>0. r \in Nat
  BY MpuAssumption DEF Region
<1>1. /\ mpu'.RNR = r /\ mpu'.RBAR = mpu.RBAR /\ mpu'.RASR = mpu.RASR /\ wanted' = wanted
      /\ mpu' \in [on : BOOLEAN, RNR : Nat, RBAR : [Region -> Int],
                   RASR : [Region -> {Asked(w) : w \in MayAsk}]]
  BY <1>0 DEF MpuInv, MpuTyped, MpuSelect
<1>2. /\ mpucall'[c].region = r /\ mpucall'[c].cfg = cfg
      /\ mpucall'[c].at = IF cfg = Off THEN "attributes" ELSE "base"
      /\ mpucall' \in [MpuCallers -> [at : {"out", "base", "attributes"}, region : Nat,
                                      cfg : MayAsk]]
  BY <1>0 DEF MpuInv, MpuTyped, MpuSelect
<1>3. MpuTyped'
  BY <1>1, <1>2 DEF MpuInv, MpuTyped
<1>4. RegionsAsAsked'
  BY <1>1 DEF MpuInv, RegionsAsAsked
<1>5. CallAlone'
  <2> SUFFICES ASSUME NEW d \in MpuCallers, mpucall'[d].at # "out"
               PROVE  /\ mpucall'[d].region \in Region /\ mpucall'[d].region = mpu'.RNR
                      /\ mpucall'[d].at = "base" => mpucall'[d].cfg # Off /\ wanted'[mpu'.RNR] = Off
                      /\ mpucall'[d].at = "attributes" /\ mpucall'[d].cfg # Off =>
                           wanted'[mpu'.RNR] = Off /\ mpu'.RBAR[mpu'.RNR] = mpucall'[d].cfg.base_addr
    BY DEF CallAlone
  <2>1. d = c
    BY DEF OneConfigurer
  <2> QED BY <1>1, <1>2, <2>1
<1> QED BY <1>3, <1>4, <1>5 DEF MpuInv

LEMMA WriteBaseKeepsMpu ==
  ASSUME MpuInv, OneConfigurer, NEW c \in MpuCallers, WriteBase(c)
  PROVE  MpuInv'
<1> DEFINE r == mpu.RNR
           cfg == mpucall[c].cfg
<1>1. r \in Region /\ mpucall[c].region = r /\ cfg \in MpuConfigs /\ wanted[r] = Off
  BY DEF MpuInv, MpuTyped, CallAlone, WriteBase, MayAsk
<1>2. (cfg.base_addr \div 32) * 32 = cfg.base_addr /\ cfg.base_addr \in Int
  BY <1>1, ConfigIs
<1>3. /\ mpu' = [mpu EXCEPT !.RBAR[r] = cfg.base_addr] /\ wanted' = wanted
      /\ mpucall' = [mpucall EXCEPT ![c].at = "attributes"]
  BY <1>2 DEF WriteBase
<1>4. /\ mpu'.RNR = r /\ mpu'.RASR = mpu.RASR
      /\ mpu'.RBAR[r] = cfg.base_addr /\ \A s \in Region : s # r => mpu'.RBAR[s] = mpu.RBAR[s]
      /\ mpu' \in [on : BOOLEAN, RNR : Nat, RBAR : [Region -> Int],
                   RASR : [Region -> {Asked(w) : w \in MayAsk}]]
  BY <1>1, <1>2, <1>3 DEF MpuInv, MpuTyped
<1>5. /\ mpucall'[c].region = r /\ mpucall'[c].cfg = cfg /\ mpucall'[c].at = "attributes"
      /\ mpucall' \in [MpuCallers -> [at : {"out", "base", "attributes"}, region : Nat,
                                      cfg : MayAsk]]
  BY <1>1, <1>3 DEF MpuInv, MpuTyped
<1>6. MpuTyped'
  BY <1>3, <1>4, <1>5 DEF MpuInv, MpuTyped
<1>7. RegionsAsAsked'
  BY <1>1, <1>3, <1>4 DEF MpuInv, RegionsAsAsked
<1>8. CallAlone'
  <2> SUFFICES ASSUME NEW d \in MpuCallers, mpucall'[d].at # "out"
               PROVE  /\ mpucall'[d].region \in Region /\ mpucall'[d].region = mpu'.RNR
                      /\ mpucall'[d].at = "base" => mpucall'[d].cfg # Off /\ wanted'[mpu'.RNR] = Off
                      /\ mpucall'[d].at = "attributes" /\ mpucall'[d].cfg # Off =>
                           wanted'[mpu'.RNR] = Off /\ mpu'.RBAR[mpu'.RNR] = mpucall'[d].cfg.base_addr
    BY DEF CallAlone
  <2>1. d = c
    BY DEF OneConfigurer
  <2> QED BY <1>1, <1>3, <1>4, <1>5, <2>1
<1> QED BY <1>6, <1>7, <1>8 DEF MpuInv

LEMMA WriteAttributesKeepsMpu ==
  ASSUME MpuInv, OneConfigurer, NEW c \in MpuCallers, WriteAttributes(c)
  PROVE  MpuInv'
<1> DEFINE r == mpu.RNR
           cfg == mpucall[c].cfg
<1>1. /\ r \in Region /\ mpucall[c].region = r /\ cfg \in MayAsk
      /\ cfg # Off => mpu.RBAR[r] = cfg.base_addr
  BY DEF MpuInv, MpuTyped, CallAlone, WriteAttributes
<1>2. /\ mpu' = [mpu EXCEPT !.RASR[r] = Asked(cfg)] /\ wanted' = [wanted EXCEPT ![r] = cfg]
      /\ mpucall' = [mpucall EXCEPT ![c] = NoMpuCall]
  BY <1>1 DEF WriteAttributes, Asked
<1>3. /\ mpu'.RNR = r /\ mpu'.RBAR = mpu.RBAR
      /\ mpu'.RASR[r] = Asked(cfg) /\ \A s \in Region : s # r => mpu'.RASR[s] = mpu.RASR[s]
      /\ mpu' \in [on : BOOLEAN, RNR : Nat, RBAR : [Region -> Int],
                   RASR : [Region -> {Asked(w) : w \in MayAsk}]]
  BY <1>1, <1>2 DEF MpuInv, MpuTyped
<1>4. /\ wanted' \in [Region -> MayAsk] /\ wanted'[r] = cfg
      /\ \A s \in Region : s # r => wanted'[s] = wanted[s]
  BY <1>1, <1>2 DEF MpuInv, MpuTyped
<1>5. /\ mpucall'[c].at = "out"
      /\ mpucall' \in [MpuCallers -> [at : {"out", "base", "attributes"}, region : Nat,
                                      cfg : MayAsk]]
  BY <1>2 DEF MpuInv, MpuTyped, NoMpuCall, MayAsk
<1>6. MpuTyped'
  BY <1>3, <1>4, <1>5 DEF MpuTyped
<1>7. RegionsAsAsked'
  BY <1>1, <1>3, <1>4 DEF MpuInv, RegionsAsAsked
<1>8. CallAlone'
  BY <1>5 DEF CallAlone, OneConfigurer
<1> QED BY <1>6, <1>7, <1>8 DEF MpuInv

LEMMA MpuStep ==
  ASSUME MpuInv, OneConfigurer, ~InPlace, [MpuNext]_mpuvars
  PROVE  MpuInv'
<1>1. CASE arch_mpu_enable
  BY <1>1, EnableKeepsMpu
<1>2. ASSUME NEW c \in MpuCallers, NEW r \in Region, arch_mpu_disable_region(c, r)
      PROVE  MpuInv'
  <2>1. Off \in MayAsk /\ MpuSelect(c, r, Off)
    BY <1>2 DEF MayAsk, arch_mpu_disable_region
  <2> QED BY <2>1, SelectKeepsMpu
<1>3. ASSUME NEW c \in MpuCallers, NEW r \in Region, NEW cfg \in MpuConfigs,
             arch_mpu_configure_region(c, r, cfg)
      PROVE  MpuInv'
  <2>1. cfg \in MayAsk /\ MpuSelect(c, r, cfg) /\ ~mpu.RASR[r].enable
    BY <1>3 DEF MayAsk, arch_mpu_configure_region
  <2>2. wanted[r] \in MayAsk /\ mpu.RASR[r] = Asked(wanted[r])
    BY DEF MpuInv, MpuTyped, RegionsAsAsked
  <2>3. wanted[r] = Off
    BY <2>1, <2>2, AskedEnables
  <2> QED BY <2>1, <2>3, SelectKeepsMpu
<1>4. ASSUME NEW c \in MpuCallers, WriteBase(c) PROVE MpuInv'
  BY <1>4, WriteBaseKeepsMpu
<1>5. ASSUME NEW c \in MpuCallers, WriteAttributes(c) PROVE MpuInv'
  BY <1>5, WriteAttributesKeepsMpu
<1>6. CASE UNCHANGED mpuvars
  BY <1>6 DEF mpuvars, MpuInv, MpuTyped, RegionsAsAsked, CallAlone
<1> QED BY <1>1, <1>2, <1>3, <1>4, <1>5, <1>6 DEF MpuNext

(* An address is in the same regions by the registers and by the requests. *)
LEMMA ProtectsWhatWasAsked ==
  ASSUME MpuInv, NEW a \in MpuMemory
  PROVE  Checked(a) = Meant(wanted, a)
<1> DEFINE len(r) == 2 ^ (mpu.RASR[r].size + 1)
           Hits == {r \in Region : mpu.RASR[r].enable /\ a \div len(r) = mpu.RBAR[r] \div len(r)}
           Wants == {r \in Region : wanted[r] # Off /\
                       a \in wanted[r].base_addr..(wanted[r].base_addr + wanted[r].size_bytes - 1)}
<1>1. \A r \in Region : wanted[r] \in MayAsk /\ mpu.RASR[r] = Asked(wanted[r])
  BY DEF MpuInv, MpuTyped, RegionsAsAsked
<1>2. \A r \in Region : mpu.RASR[r].enable <=> wanted[r] # Off
  BY <1>1, AskedEnables
<1>3. ASSUME NEW r \in Region, wanted[r] # Off
      PROVE  /\ a \div len(r) = mpu.RBAR[r] \div len(r) <=>
                  a \in wanted[r].base_addr..(wanted[r].base_addr + wanted[r].size_bytes - 1)
             /\ mpu.RASR[r].ap = wanted[r].ap /\ mpu.RASR[r].xn = ~wanted[r].execute
  <2>1. wanted[r] \in MpuConfigs /\ mpu.RASR[r] = Asked(wanted[r]) /\ wanted[r] \in MayAsk
    BY <1>1, <1>3 DEF MayAsk
  <2>2. /\ mpu.RASR[r].size = bytes_to_mpu_size(wanted[r].size_bytes)
        /\ mpu.RASR[r].ap = wanted[r].ap /\ mpu.RASR[r].xn = ~wanted[r].execute
    BY <1>3, <2>1, AskedEnables
  <2>3. len(r) = wanted[r].size_bytes
    BY <2>1, <2>2, ConfigIs
  <2>4. mpu.RBAR[r] = wanted[r].base_addr
    BY <1>3 DEF MpuInv, RegionsAsAsked
  <2>5. PICK L \in Nat \ {0}, b \in Int : L = wanted[r].size_bytes /\ b = wanted[r].base_addr /\ b % L = 0
    BY <2>1, ConfigIs
  <2>6. a \in Int
    BY MpuAssumption
  <2> HIDE DEF len
  <2>7. a \div L = b \div L <=> a \in b..(b + L - 1)
    BY <2>5, <2>6, InRegion
  <2> QED BY <2>2, <2>3, <2>4, <2>5, <2>7
<1> HIDE DEF len
<1>4. Hits = Wants
  BY <1>2, <1>3
<1>5. Checked(a) = IF ~mpu.on \/ Hits = {} THEN <<"default">>
                   ELSE <<mpu.RASR[Highest(Hits)].ap, mpu.RASR[Highest(Hits)].xn>>
  BY DEF Checked, len
<1>6. Meant(wanted, a) = IF ~mpu.on \/ Wants = {} THEN <<"default">>
                         ELSE <<wanted[Highest(Wants)].ap, ~wanted[Highest(Wants)].execute>>
  BY DEF Meant
<1>7. Wants # {} => Highest(Wants) \in Wants
  <2> SUFFICES ASSUME Wants # {} PROVE Highest(Wants) \in Wants
    OBVIOUS
  <2>1. Wants \subseteq Region /\ IsFiniteSet(Region) /\ Region \subseteq Int
    BY FS_Interval, MpuAssumption DEF Region
  <2>2. IsFiniteSet(Wants)
    BY <2>1, FS_Subset
  <2> HIDE DEF Wants
  <2>3. \E r \in Wants : \A q \in Wants : q <= r
    BY <2>1, <2>2, HasHighest
  <2> QED BY <2>3 DEF Highest
<1>8. Wants # {} => /\ mpu.RASR[Highest(Wants)].ap = wanted[Highest(Wants)].ap
                    /\ mpu.RASR[Highest(Wants)].xn = ~wanted[Highest(Wants)].execute
  BY <1>3, <1>7
<1> HIDE DEF Hits, Wants
<1> QED BY <1>4, <1>5, <1>6, <1>8

(* RegionsProtect: with regions that are switched off before they are      *)
(* described anew and one context that sets them up, arch_mpu_configure_   *)
(* region and arch_mpu_disable_region leave the unit checking every        *)
(* address against the regions asked for, between their register writes    *)
(* too, whatever the number, sizes and places of the regions.              *)
THEOREM RegionsProtect ==
  ASSUME OneConfigurer, ~InPlace
  PROVE  MpuSpec => []MpuProtects
<1>1. MpuReset => MpuInv
  BY MpuInitOK
<1>2. MpuInv /\ [MpuNext]_mpuvars => MpuInv'
  BY MpuStep
<1>3. MpuInv => MpuProtects
  BY ProtectsWhatWasAsked, Zenon DEF MpuProtects
<1> QED BY <1>1, <1>2, <1>3, PTL DEF MpuSpec

Kinds == {"none", "fault", "assert", "overflow"}

IsRecord(r) ==
  /\ r = [magic |-> r.magic, version |-> r.version, reason |-> r.reason,
          thread |-> r.thread, regs |-> r.regs, fault_regs |-> r.fault_regs,
          stack |-> r.stack, info |-> r.info, crc32 |-> r.crc32]
  /\ r.magic \in BOOLEAN /\ r.version \in BOOLEAN

(* Every field of the report is of capture s.                              *)
Whole(r, s) ==
  /\ r.reason.id = s /\ r.thread.by = s /\ r.fault_regs = s /\ r.stack = s
  /\ r.reason.kind = "fault" => r.regs = s
  /\ r.reason.kind = "assert" => r.info = s

(* The record between steps: it is valid exactly if it is sealed, and its  *)
(* CRC was computed by one of the n captures so far, or by none.           *)
Settled(r, s, n) ==
  /\ IsRecord(r)
  /\ vibe_coredump_is_valid(r) <=> s # 0
  /\ s # 0 => Whole(r, s)
  /\ r.crc32 # <<>> => r.crc32[3].id \in 0..n

(* What a capture at step k has written so far.  From "header" on the      *)
(* reason differs from the one the old CRC was computed over: that is why  *)
(* the magic may come back before the new CRC is there.                    *)
Progress(r, k, id, kind, s, o) ==
  /\ k <= 9 /\ r.crc32 # <<>> => r.crc32[3].id < id
  /\ k \in 2..9 /\ kind = "assert" => r.info = id
  /\ k \in 3..8 => ~r.magic
  /\ k \in 3..9 => s = 0
  /\ k \in 4..9 => r.version /\ r.reason = [kind |-> kind, id |-> id]
  /\ k \in 5..9 => r.thread.by = id
  /\ k \in 6..9 /\ kind = "fault" => r.regs = id
  /\ k \in 7..9 => r.fault_regs = id
  /\ k \in 8..9 => r.stack = id
  /\ k = 9 => (r.magic <=> ~o)

Top(c) == Active(c) /\ MayRun(c)

DumpTypeOK ==
  /\ captures \in Nat /\ sealed \in Nat /\ overtaken \in BOOLEAN
  /\ capture \in [Contexts -> [at : 0..10, id : Nat, kind : Kinds]]
  /\ \A c \in Contexts : Active(c) => capture[c].id \in 1..captures

DumpIInv ==
  /\ DumpTypeOK
  /\ Settled(g_coredump, sealed, captures)
  /\ \A c \in Contexts : Top(c) =>
       Progress(g_coredump, capture[c].at, capture[c].id, capture[c].kind, sealed, overtaken)

OneAsserter == \A s, t \in Asserters : s = t

(* What the seal becomes with a step.                                      *)
SealAfter(step, id, s, o) ==
  CASE step = "crc" -> IF o THEN 0 ELSE id [] step \in {"prologue", "invalidate"} -> 0 [] OTHER -> s

(* An empty CRC is the CRC of no record.                                   *)
LEMMA CrcNotEmpty == \A r : coredump_crc(r) # <<>> /\ coredump_crc(r)[3] = r.reason
BY DEF coredump_crc

(* A record with another CRC, or without the magic, is not valid.          *)
LEMMA OldCrc ==
  ASSUME NEW r, NEW id \in Nat, r.reason.id = id, r.crc32 # <<>> => r.crc32[3].id < id
  PROVE  ~vibe_coredump_is_valid(r)
<1>1. SUFFICES ASSUME r.crc32 = coredump_crc(r) PROVE FALSE
  BY DEF vibe_coredump_is_valid
<1>2. r.crc32 # <<>> /\ r.crc32[3] = r.reason
  BY <1>1, CrcNotEmpty
<1> QED
  BY <1>2

(* Each step of vibe_coredump_capture keeps the record settled and makes   *)
(* the progress of the next.                                               *)
LEMMA StepSettles ==
  ASSUME NEW r, NEW s \in Nat, NEW n \in Nat, NEW id \in 1..n, NEW kind \in Kinds, NEW k \in 1..9,
         NEW o \in BOOLEAN, Settled(r, s, n), Progress(r, k, id, kind, s, o)
  PROVE  LET r2 == Write(r, Steps[k], id, kind)
             s2 == SealAfter(Steps[k], id, s, o)
             o2 == o /\ Steps[k] # "magic"
         IN  Settled(r2, s2, n) /\ Progress(r2, k + 1, id, kind, s2, o2) /\ s2 \in Nat
<1> DEFINE r2 == Write(r, Steps[k], id, kind)
           s2 == SealAfter(Steps[k], id, s, o)
           o2 == o /\ Steps[k] # "magic"
<1>r. IsRecord(r)
  BY DEF Settled
<1>1. CASE k = 1
  <2>1. Steps[k] = "prologue" /\ s2 = 0
    BY <1>1 DEF Steps, SealAfter
  <2>2. r2 = IF kind = "assert"
             THEN [r EXCEPT !.magic = FALSE, !.reason = [kind |-> kind, id |-> id], !.info = id]
             ELSE [r EXCEPT !.magic = FALSE, !.thread = [by |-> id, whose |-> "named"]]
    BY <2>1 DEF Write
  <2>3. IsRecord(r2) /\ ~r2.magic /\ r2.crc32 = r.crc32 /\ (kind = "assert" => r2.info = id)
    <3>1. CASE kind = "assert"
      BY <3>1, <1>r, <2>2 DEF IsRecord
    <3>2. CASE kind # "assert"
      BY <3>2, <1>r, <2>2 DEF IsRecord
    <3> QED
      BY <3>1, <3>2
  <2> QED
    BY <1>1, <2>1, <2>3 DEF Settled, Progress, vibe_coredump_is_valid
<1>2. CASE k = 2
  <2>1. Steps[k] = "invalidate" /\ s2 = 0
    BY <1>2 DEF Steps, SealAfter
  <2>2. r2 = [r EXCEPT !.magic = FALSE]
    BY <2>1 DEF Write
  <2>3. IsRecord(r2) /\ ~r2.magic /\ r2.crc32 = r.crc32 /\ r2.info = r.info
    BY <1>r, <2>2 DEF IsRecord
  <2> QED
    BY <1>2, <2>1, <2>3 DEF Settled, Progress, vibe_coredump_is_valid
<1>3. CASE k = 3
  <2>1. Steps[k] = "header" /\ s2 = s
    BY <1>3 DEF Steps, SealAfter
  <2>2. r2 = [r EXCEPT !.version = TRUE, !.reason = [kind |-> kind, id |-> id]]
    BY <2>1 DEF Write
  <2>3. /\ IsRecord(r2) /\ r2.magic = r.magic /\ r2.crc32 = r.crc32 /\ r2.info = r.info
        /\ r2.version /\ r2.reason = [kind |-> kind, id |-> id]
    BY <1>r, <2>2 DEF IsRecord
  <2> QED
    BY <1>3, <2>1, <2>3 DEF Settled, Progress, vibe_coredump_is_valid
<1>4. CASE k \in 4..7
  <2>1. /\ Steps[k] = <<"thread", "regs", "fault_regs", "stack">>[k - 3] /\ s2 = s
        /\ s = 0
    <3>1. Steps[k] = <<"thread", "regs", "fault_regs", "stack">>[k - 3] /\ s = 0
      BY <1>4 DEF Steps, Progress
    <3>2. Steps[k] \in {"thread", "regs", "fault_regs", "stack"}
      BY <1>4 DEF Steps
    <3> QED BY <3>1, <3>2 DEF SealAfter
  <2>2. /\ k = 4 => r2 = [r EXCEPT !.thread = [by |-> id, whose |-> "current"]]
        /\ k = 5 => r2 = IF kind = "fault" THEN [r EXCEPT !.regs = id] ELSE r
        /\ k = 6 => r2 = [r EXCEPT !.fault_regs = id]
        /\ k = 7 => r2 = [r EXCEPT !.stack = id]
    BY <2>1 DEF Write
  <2>3. /\ IsRecord(r2) /\ r2.magic = r.magic /\ r2.version = r.version
        /\ r2.crc32 = r.crc32 /\ r2.info = r.info /\ r2.reason = r.reason
    BY <1>4, <1>r, <2>2 DEF IsRecord
  <2>4. /\ r2.thread = IF k = 4 THEN [by |-> id, whose |-> "current"] ELSE r.thread
        /\ r2.regs = IF k = 5 /\ kind = "fault" THEN id ELSE r.regs
        /\ r2.fault_regs = IF k = 6 THEN id ELSE r.fault_regs
        /\ r2.stack = IF k = 7 THEN id ELSE r.stack
    BY <1>4, <1>r, <2>2 DEF IsRecord
  <2>5. Settled(r2, s2, n)
    BY <1>4, <2>1, <2>3 DEF Settled, Progress, vibe_coredump_is_valid
  <2>6. Progress(r2, k + 1, id, kind, s2, o2)
    BY <1>4, <2>1, <2>3, <2>4 DEF Progress
  <2> QED
    BY <2>1, <2>5, <2>6
<1>5. CASE k = 8
  <2>1. Steps[k] = "magic" /\ s2 = s /\ s = 0 /\ ~o2
    BY <1>5 DEF Steps, SealAfter, Progress
  <2>2. r2 = [r EXCEPT !.magic = TRUE]
    BY <2>1 DEF Write
  <2>3. /\ IsRecord(r2) /\ r2.magic /\ r2.version = r.version /\ r2.crc32 = r.crc32
        /\ r2.info = r.info /\ r2.reason = r.reason /\ r2.thread = r.thread
        /\ r2.regs = r.regs /\ r2.fault_regs = r.fault_regs /\ r2.stack = r.stack
    BY <1>r, <2>2 DEF IsRecord
  <2>4. r2.reason.id = id /\ (r2.crc32 # <<>> => r2.crc32[3].id < id)
    BY <1>5, <2>3 DEF Progress
  <2>5. ~vibe_coredump_is_valid(r2)
    BY <2>4, OldCrc
  <2>6. Settled(r2, s2, n)
    BY <2>1, <2>3, <2>5 DEF Settled
  <2>7. Progress(r2, k + 1, id, kind, s2, o2)
    BY <1>5, <2>1, <2>3 DEF Progress
  <2> QED
    BY <2>1, <2>6, <2>7
<1>6. CASE k = 9
  <2>1. Steps[k] = "crc" /\ s2 = IF o THEN 0 ELSE id
    BY <1>6 DEF Steps, SealAfter
  <2>2. r2 = [r EXCEPT !.crc32 = coredump_crc(r)]
    BY <2>1 DEF Write
  <2>3. /\ IsRecord(r2) /\ r2.magic = r.magic /\ r2.version = r.version
        /\ r2.crc32 = coredump_crc(r)
        /\ r2.info = r.info /\ r2.reason = r.reason /\ r2.thread = r.thread
        /\ r2.regs = r.regs /\ r2.fault_regs = r.fault_regs /\ r2.stack = r.stack
    BY <1>r, <2>2 DEF IsRecord
  <2>4. coredump_crc(r2) = coredump_crc(r)
    BY <2>3 DEF coredump_crc
  <2>5. vibe_coredump_is_valid(r2) <=> ~o
    BY <1>6, <2>3, <2>4 DEF vibe_coredump_is_valid, Progress
  <2>6. Whole(r2, id)
    BY <1>6, <2>3 DEF Whole, Progress
  <2>7. r2.crc32[3].id = id
    BY <1>6, <2>3, CrcNotEmpty DEF Progress
  <2>8. Settled(r2, s2, n)
    BY <2>1, <2>3, <2>5, <2>6, <2>7 DEF Settled
  <2>9. Progress(r2, k + 1, id, kind, s2, o2)
    BY <1>6 DEF Progress
  <2> QED
    BY <2>1, <2>8, <2>9
<1> QED
  BY <1>1, <1>2, <1>3, <1>4, <1>5, <1>6

(* Whatever interrupted a context does not give the CPU back to it: one    *)
(* capture at a time makes progress.                                       *)
LEMMA OneWriter ==
  ASSUME OneAsserter, NEW c \in Contexts, NEW d \in Contexts, Top(c), Top(d)
  PROVE  c = d
BY DumpAssumption DEF OneAsserter, Top, MayRun, Contexts, Handlers

(* Memory that lost its power satisfies the invariant with no capture.     *)
LEMMA GarbageSettled == \A r \in Garbage : \A n \in Nat : Settled(r, 0, n)
<1> SUFFICES ASSUME NEW r \in Garbage, NEW n \in Nat PROVE Settled(r, 0, n)
  OBVIOUS
<1>1. PICK m \in BOOLEAN, v \in BOOLEAN :
        r = [magic |-> m, version |-> v, reason |-> [kind |-> "none", id |-> 0],
             thread |-> [by |-> 0, whose |-> "none"],
             regs |-> 0, fault_regs |-> 0, stack |-> 0, info |-> 0, crc32 |-> <<>>]
  BY DEF Garbage
<1>2. IsRecord(r) /\ r.crc32 = <<>>
  BY <1>1 DEF IsRecord
<1>3. ~vibe_coredump_is_valid(r)
  BY <1>2, CrcNotEmpty DEF vibe_coredump_is_valid
<1> QED
  BY <1>2, <1>3 DEF Settled

(* Between captures nothing of coredump.c is in progress: the state that a *)
(* reset leaves is well typed.                                             *)
LEMMA QuietTypes ==
  /\ Quiet \in [Contexts -> [at : 0..10, id : Nat, kind : Kinds]]
  /\ \A c \in Contexts : Quiet[c].at = 0
BY DEF Quiet, NoCapture, Kinds

(* After power-on the retained memory holds anything but a sealed record.  *)
LEMMA DumpStarts == CoredumpInit => DumpIInv
<1> SUFFICES ASSUME CoredumpInit PROVE DumpIInv
  OBVIOUS
<1>1. DumpTypeOK
  <2>1. /\ captures = 0 /\ sealed = 0 /\ overtaken = FALSE /\ capture = Quiet
    BY DEF CoredumpInit
  <2>2. \A c \in Contexts : ~(capture[c].at > 0)
    BY <2>1, QuietTypes
  <2>3. captures \in Nat /\ sealed \in Nat /\ overtaken \in BOOLEAN
    BY <2>1
  <2> QED BY <2>1, <2>2, <2>3, QuietTypes DEF DumpTypeOK, Active
<1>2. Settled(g_coredump, sealed, captures)
  BY GarbageSettled DEF CoredumpInit
<1>3. \A c \in Contexts : ~Top(c)
  BY QuietTypes DEF CoredumpInit, Top, Active
<1> QED
  BY <1>1, <1>2, <1>3 DEF DumpIInv

(* A capture begins with the record as it finds it, sealed or half-written *)
(* by what it interrupted, and with a number that no CRC has seen.         *)
LEMMA BeginKeeps ==
  ASSUME DumpIInv, OneAsserter, NEW c \in Contexts,
         NEW k \in {1, 2}, NEW kind \in Kinds \ {"none"}, Begins(c, k, kind),
         kind = "assert" => k = 1
  PROVE  DumpIInv'
<1> DEFINE n == captures + 1
<1>1. /\ captures \in Nat /\ captures' = n /\ UNCHANGED <<g_coredump, clearing, overtaken, sealed>>
      /\ MayRun(c) /\ ~Active(c)
      /\ capture' = [capture EXCEPT ![c] = [at |-> k, id |-> n, kind |-> kind]]
  BY DEF Begins, DumpIInv, DumpTypeOK
<1>2. /\ capture'[c] = [at |-> k, id |-> n, kind |-> kind]
      /\ \A d \in Contexts \ {c} : capture'[d] = capture[d]
  BY <1>1 DEF DumpIInv, DumpTypeOK
<1>3. DumpTypeOK'
  <2>1. [at |-> k, id |-> n, kind |-> kind] \in [at : 0..10, id : Nat, kind : Kinds]
    BY <1>1
  <2>2. capture' \in [Contexts -> [at : 0..10, id : Nat, kind : Kinds]]
    BY <1>1, <2>1 DEF DumpIInv, DumpTypeOK
  <2>3. \A d \in Contexts : Active(d)' => capture'[d].id \in 1..n
    BY <1>1, <1>2 DEF DumpIInv, DumpTypeOK, Active
  <2> QED
    BY <1>1, <2>2, <2>3 DEF DumpIInv, DumpTypeOK
<1>4. Settled(g_coredump, sealed, captures)'
  BY <1>1 DEF DumpIInv, Settled
<1>5. Top(c)'
  BY <1>1, <1>2, DumpAssumption DEF Top, Active, MayRun, Contexts, Handlers
<1>6. \A d \in Contexts : Top(d)' => d = c
  BY <1>1, <1>2, DumpAssumption DEF OneAsserter, Top, Active, MayRun, Contexts, Handlers
<1>7. Progress(g_coredump, k, n, kind, sealed, overtaken)
  BY <1>1 DEF DumpIInv, Settled, Progress
<1>8. Progress(g_coredump, capture[c].at, capture[c].id, capture[c].kind, sealed, overtaken)'
  BY <1>1, <1>2, <1>7
<1> QED
  BY <1>3, <1>4, <1>6, <1>8 DEF DumpIInv

(* A step of the one capture that makes progress.                          *)
LEMMA CaptureKeeps ==
  ASSUME DumpIInv, OneAsserter, NEW c \in Contexts, vibe_coredump_capture(c)
  PROVE  DumpIInv'
<1> DEFINE k == capture[c].at
           id == capture[c].id
           kind == capture[c].kind
           r2 == Write(g_coredump, Steps[k], id, kind)
           s2 == SealAfter(Steps[k], id, sealed, overtaken)
           o2 == overtaken /\ Steps[k] # "magic"
<1>1. Top(c) /\ overtaken \in BOOLEAN /\ captures \in Nat /\ sealed \in Nat /\ id \in 1..captures /\ kind \in Kinds
  BY DEF vibe_coredump_capture, Top, DumpIInv, DumpTypeOK
<1>2. k \in 1..9
  <2>1. k \in 1..10
    BY <1>1 DEF Top, Active, DumpIInv, DumpTypeOK
  <2>2. k # 10
    BY DEF vibe_coredump_capture, Steps
  <2> QED BY <2>1, <2>2
<1>3. /\ g_coredump' = r2 /\ sealed' = s2 /\ overtaken' = o2 /\ UNCHANGED <<captures, clearing>>
      /\ capture' = [capture EXCEPT ![c] =
           IF Steps[k] = "crc" /\ c \in Asserters THEN NoCapture
           ELSE [capture[c] EXCEPT !.at = k + 1]]
  BY DEF vibe_coredump_capture, SealAfter
<1>4. Settled(r2, s2, captures) /\ Progress(r2, k + 1, id, kind, s2, o2) /\ s2 \in Nat
  <2>1. Settled(g_coredump, sealed, captures) /\ Progress(g_coredump, k, id, kind, sealed, overtaken)
    BY <1>1 DEF DumpIInv
  <2> QED BY <1>1, <1>2, <2>1, StepSettles, Zenon
<1>5. /\ \A d \in Contexts \ {c} : capture'[d] = capture[d]
      /\ \/ capture'[c] = NoCapture /\ c \in Asserters
         \/ capture'[c].at = k + 1 /\ capture'[c].id = id /\ capture'[c].kind = kind
      /\ capture' \in [Contexts -> [at : 0..10, id : Nat, kind : Kinds]]
  <2>1. [capture[c] EXCEPT !.at = k + 1] \in [at : 0..10, id : Nat, kind : Kinds]
    BY <1>2 DEF DumpIInv, DumpTypeOK
  <2>2. NoCapture \in [at : 0..10, id : Nat, kind : Kinds]
    BY DEF NoCapture, Kinds
  <2>3. /\ [capture[c] EXCEPT !.at = k + 1].at = k + 1
        /\ [capture[c] EXCEPT !.at = k + 1].id = id
        /\ [capture[c] EXCEPT !.at = k + 1].kind = kind
    BY DEF DumpIInv, DumpTypeOK
  <2> QED
    BY <1>3, <2>1, <2>2, <2>3 DEF DumpIInv, DumpTypeOK
<1>6. DumpTypeOK'
  <2>1. \A d \in Contexts : Active(d)' => capture'[d].id \in 1..captures
    BY <1>1, <1>5 DEF DumpIInv, DumpTypeOK, Active, NoCapture
  <2> QED
    BY <1>1, <1>3, <1>4, <1>5, <2>1 DEF DumpIInv, DumpTypeOK
<1>7. Settled(g_coredump, sealed, captures)'
  BY <1>3, <1>4
<1>8. ASSUME NEW d \in Contexts, Top(d)'
      PROVE  d = c /\ capture'[c].at = k + 1 /\ capture'[c].id = id /\ capture'[c].kind = kind
  <2>1. Active(c) /\ MayRun(c) /\ k + 1 > 0
    BY <1>1, <1>2 DEF Top
  <2>2. \A e \in Contexts \ {c} : Active(e)' <=> Active(e)
    BY <1>5 DEF Active
  <2>3. Active(c)' \/ (capture'[c] = NoCapture /\ c \in Asserters)
    BY <1>5, <2>1 DEF Active
  <2>4. d = c
    BY <1>8, <2>1, <2>2, <2>3, DumpAssumption DEF OneAsserter, Top, MayRun, Contexts, Handlers
  <2> QED
    BY <1>5, <1>8, <2>4 DEF Top, Active, NoCapture
<1>9. \A d \in Contexts : Top(d)' =>
        Progress(g_coredump, capture[d].at, capture[d].id, capture[d].kind, sealed, overtaken)'
  BY <1>3, <1>4, <1>8
<1> QED
  BY <1>6, <1>7, <1>9 DEF DumpIInv

(* vibe_coredump_clear, a reset and a loss of power.                       *)
LEMMA OutsideKeeps ==
  ASSUME DumpIInv, vibe_coredump_clear \/ Reset \/ PowerCut \/ UNCHANGED dumpvars
  PROVE  DumpIInv'
<1>1. CASE vibe_coredump_clear
  <2>1. /\ sealed' = 0 /\ UNCHANGED <<capture, captures>>
        /\ \/ g_coredump' = [g_coredump EXCEPT !.crc32 = <<>>] /\ (overtaken' <=> overtaken)
           \/ g_coredump' = [g_coredump EXCEPT !.magic = FALSE] /\ overtaken'
    BY <1>1, Zenon DEF vibe_coredump_clear
  <2>o. overtaken' \in BOOLEAN /\ overtaken \in BOOLEAN
    BY <1>1, Zenon DEF vibe_coredump_clear, DumpIInv, DumpTypeOK
  <2>2. DumpTypeOK' /\ \A c \in Contexts : Top(c)' <=> Top(c)
    BY <2>1, <2>o DEF DumpIInv, DumpTypeOK, Top, Active, MayRun
  <2>3. IsRecord(g_coredump)
    BY DEF DumpIInv, Settled
  <2>4. /\ IsRecord(g_coredump')
        /\ g_coredump'.magic \in BOOLEAN /\ (g_coredump'.magic => g_coredump.magic)
        /\ \/ (overtaken' <=> overtaken) /\ g_coredump'.magic = g_coredump.magic
           \/ overtaken' /\ ~g_coredump'.magic
        /\ g_coredump' = [g_coredump EXCEPT !.magic = g_coredump'.magic, !.crc32 = g_coredump'.crc32]
        /\ \/ g_coredump'.crc32 = <<>>
           \/ ~g_coredump'.magic /\ g_coredump'.crc32 = g_coredump.crc32
    <3>1. CASE g_coredump' = [g_coredump EXCEPT !.crc32 = <<>>] /\ (overtaken' <=> overtaken)
      <4>1. /\ IsRecord(g_coredump') /\ g_coredump'.magic = g_coredump.magic
            /\ g_coredump'.crc32 = <<>> /\ g_coredump.magic \in BOOLEAN
            /\ g_coredump' = [g_coredump EXCEPT !.magic = g_coredump'.magic,
                                                !.crc32 = g_coredump'.crc32]
        BY <2>3, <3>1 DEF IsRecord
      <4> QED BY <3>1, <4>1, Zenon
    <3>2. CASE g_coredump' = [g_coredump EXCEPT !.magic = FALSE] /\ overtaken'
      <4>1. /\ IsRecord(g_coredump') /\ ~g_coredump'.magic /\ g_coredump'.magic \in BOOLEAN
            /\ g_coredump'.crc32 = g_coredump.crc32
            /\ g_coredump' = [g_coredump EXCEPT !.magic = g_coredump'.magic,
                                                !.crc32 = g_coredump'.crc32]
        BY <2>3, <3>2 DEF IsRecord
      <4> QED BY <3>2, <4>1, Zenon
    <3> QED BY <2>1, <3>1, <3>2, Zenon
  <2>5. ~vibe_coredump_is_valid(g_coredump')
    BY <2>4, CrcNotEmpty DEF vibe_coredump_is_valid
  <2>6. Settled(g_coredump', 0, captures)
    BY <2>4, <2>5 DEF Settled, DumpIInv
  <2>7. ASSUME NEW c \in Contexts, Top(c)'
        PROVE  Progress(g_coredump, capture[c].at, capture[c].id, capture[c].kind, sealed, overtaken)'
    <3>1. Progress(g_coredump, capture[c].at, capture[c].id, capture[c].kind, sealed, overtaken)
      BY <2>2, <2>7 DEF DumpIInv
    <3>2. /\ g_coredump'.version = g_coredump.version /\ g_coredump'.reason = g_coredump.reason
          /\ g_coredump'.thread = g_coredump.thread /\ g_coredump'.regs = g_coredump.regs
          /\ g_coredump'.fault_regs = g_coredump.fault_regs /\ g_coredump'.stack = g_coredump.stack
          /\ g_coredump'.info = g_coredump.info
      BY <2>3, <2>4 DEF IsRecord
    <3> QED
      BY <2>1, <2>o, <2>4, <3>1, <3>2 DEF Progress
  <2> QED
    BY <2>1, <2>2, <2>6, <2>7 DEF DumpIInv
<1>2. CASE Reset
  <2>1. DumpTypeOK' /\ \A c \in Contexts : ~Top(c)'
    BY <1>2, QuietTypes DEF Reset, DumpIInv, DumpTypeOK, Top, Active
  <2> QED
    BY <1>2, <2>1 DEF Reset, DumpIInv
<1>3. CASE PowerCut
  <2>1. DumpTypeOK' /\ \A c \in Contexts : ~Top(c)'
    BY <1>3, QuietTypes DEF PowerCut, DumpIInv, DumpTypeOK, Top, Active
  <2>2. Settled(g_coredump', 0, captures)
    BY <1>3, GarbageSettled DEF PowerCut, DumpIInv, DumpTypeOK
  <2> QED
    BY <1>3, <2>1, <2>2 DEF PowerCut, DumpIInv
<1>4. CASE UNCHANGED dumpvars
  BY <1>4 DEF dumpvars, DumpIInv, DumpTypeOK, Top, Active, MayRun
<1> QED
  BY <1>1, <1>2, <1>3, <1>4

(* The invariant gives both parts of the property.                         *)
LEMMA InvariantSuffices == DumpIInv => CrashRecord
<1> SUFFICES ASSUME DumpIInv PROVE CrashRecord
  OBVIOUS
<1>1. ValidIffSealed
  BY DEF DumpIInv, Settled, ValidIffSealed
<1>2. RecordWhole
  <2> SUFFICES ASSUME vibe_coredump_is_valid(g_coredump)
               PROVE  vibe_coredump_dump(
                        [g_coredump EXCEPT !.regs =
                           IF g_coredump.reason.kind = "fault" THEN @ ELSE sealed]) = {sealed}
    BY DEF RecordWhole
  <2> DEFINE r == [g_coredump EXCEPT !.regs =
                     IF g_coredump.reason.kind = "fault" THEN @ ELSE sealed]
  <2>1. IsRecord(g_coredump) /\ Whole(g_coredump, sealed)
    BY <1>1 DEF ValidIffSealed, DumpIInv, Settled
  <2>2. /\ r.reason = g_coredump.reason /\ r.thread.by = sealed /\ r.regs = sealed
        /\ r.fault_regs = sealed /\ r.stack = sealed /\ r.info = g_coredump.info
    BY <2>1 DEF IsRecord, Whole
  <2>3. r.reason.id = sealed /\ (r.reason.kind = "assert" => r.info = sealed)
    BY <2>1, <2>2 DEF Whole
  <2> HIDE DEF r
  <2> QED
    BY <2>2, <2>3 DEF vibe_coredump_dump, r
<1> QED
  BY <1>1, <1>2 DEF CrashRecord

(* With one asserting thread at a time: the next boot accepts exactly the  *)
(* complete records, and each describes one crash, whatever resets, losses *)
(* of power and faults cut the captures of src/subsys/coredump short, and  *)
(* wherever vibe_coredump_clear comes in between.                          *)
THEOREM RecordsAreWhole ==
  ASSUME OneAsserter
  PROVE  CoredumpSpec => []CrashRecord
<1>1. CoredumpInit => DumpIInv
  BY DumpStarts
<1>2. DumpIInv /\ [CoredumpNext]_dumpvars => DumpIInv'
  <2> SUFFICES ASSUME DumpIInv, [CoredumpNext]_dumpvars PROVE DumpIInv'
    OBVIOUS
  <2>1. ASSUME NEW c \in Contexts, FAULT_HANDLER_NAKED(c) PROVE DumpIInv'
    BY <2>1, BeginKeeps DEF FAULT_HANDLER_NAKED, Kinds
  <2>2. ASSUME NEW c \in Contexts, vibe_coredump_capture_assert(c) PROVE DumpIInv'
    BY <2>2, BeginKeeps DEF vibe_coredump_capture_assert, Kinds
  <2>3. ASSUME NEW c \in Contexts, vibe_coredump_capture_stack_overflow(c) PROVE DumpIInv'
    BY <2>3, BeginKeeps DEF vibe_coredump_capture_stack_overflow, Kinds
  <2>4. ASSUME NEW c \in Contexts, vibe_coredump_capture(c) PROVE DumpIInv'
    BY <2>4, CaptureKeeps
  <2>5. CASE vibe_coredump_clear \/ Reset \/ PowerCut \/ UNCHANGED dumpvars
    BY <2>5, OutsideKeeps
  <2> QED
    BY <2>1, <2>2, <2>3, <2>4, <2>5 DEF CoredumpNext
<1>3. DumpIInv => CrashRecord
  BY InvariantSuffices
<1> QED
  BY <1>1, <1>2, <1>3, PTL DEF CoredumpSpec

-----------------------------------------------------------------------------
(* Formatted output: powers of ten                                         *)

(* The n-th power of ten.                                                  *)
TenTo(n) == LET p[k \in 0..n] == IF k = 0 THEN 1 ELSE 10 * p[k - 1] IN p[n]

(* The buffer of _fmt_putuint has room for the decimal digits of any word. *)
NumbersFit == WordMod <= TenTo(NumBuf - 1)

(* The formats callers pass: text without NUL, and arguments of the type   *)
(* the directive names.                                                    *)
Directive ==
  [dir : {"lit", "s"}, arg : Seq(Nat)] \cup [dir : {"u", "x"}, arg : Nat] \cup
  [dir : {"d"}, arg : {i \in Int : -WordMod <= 2 * i /\ 2 * i < WordMod}]

FormatsTyped == Formats \subseteq Seq(Directive)

(* The powers of B up to the n-th.                                         *)
IsPower(p, B, n) == p \in [0..n -> Nat] /\ p[0] = 1 /\ \A k \in 1..n : p[k] = B * p[k - 1]

(* They exist: a recursive function has its values one after the other.    *)
LEMMA PowersExist ==
  ASSUME NEW B \in Nat, NEW n \in Nat
  PROVE  \E p : IsPower(p, B, n)
<1> DEFINE G == [x \in (1..n) \X Nat |-> B * x[2]]
<1>1. G \in [(1..n) \X Nat -> Nat]
  <2>1. \A x \in (1..n) \X Nat : B * x[2] \in Nat
    <3> TAKE x \in (1..n) \X Nat
    <3>1. PICK y \in Nat : y = x[2]
      OBVIOUS
    <3>2. B * y \in Nat
      BY Z3
    <3> QED BY <3>1, <3>2
  <2> QED BY <2>1
<1>2. PICK p : Recurses(n, Nat, 1, G, p)
  BY <1>1, Recursion
<1>3. p \in [0..n -> Nat] /\ p[0] = 1
  BY <1>2 DEF Recurses
<1>4. ASSUME NEW k \in 1..n PROVE p[k] = B * p[k - 1]
  <2>1. k - 1 \in 0..n
    OBVIOUS
  <2>2. PICK y \in Nat : y = p[k - 1]
    BY <1>3, <2>1
  <2>3. p[k] = G[<<k, y>>]
    BY <1>2, <2>2 DEF Recurses
  <2> QED BY <2>2, <2>3
<1> QED BY <1>3, <1>4 DEF IsPower

(* TenTo is the power it is defined as.                                    *)
LEMMA TenToIs ==
  ASSUME NEW n \in Nat
  PROVE  \E p : IsPower(p, 10, n) /\ TenTo(n) = p[n]
<1> DEFINE F(w) == [k \in 0..n |-> IF k = 0 THEN 1 ELSE 10 * w[k - 1]]
           p == CHOOSE f : f = F(f)
<1>1. PICK q : IsPower(q, 10, n)
  BY PowersExist
<1>2. q = F(q)
  <2>1. \A k \in 0..n : k = 0 \/ k \in 1..n
    OBVIOUS
  <2> QED BY <1>1, <2>1 DEF IsPower
<1>3. p = F(p)
  BY <1>2, Zenon
<1>4. TenTo(n) = p[n]
  BY DEF TenTo
<1> HIDE DEF p
<1>5. p[0] = 1 /\ \A k \in 1..n : p[k] = 10 * p[k - 1]
  <2>1. \A k \in 1..n : k \in 0..n /\ k # 0
    OBVIOUS
  <2>2. 0 \in 0..n
    OBVIOUS
  <2> QED BY <1>3, <2>1, <2>2
<1>6. \A k \in 0..n : p[k] \in Nat
  <2> DEFINE T == {k \in Nat : p[k] \in Nat}
  <2>1. 0 \in T
    BY <1>5
  <2>2. \A k \in 1..n : k - 1 \in T => k \in T
    BY <1>5
  <2> HIDE DEF T
  <2>3. \A k \in 0..n : k \in T
    BY <2>1, <2>2, Upward
  <2> QED BY <2>3 DEF T
<1>7. p \in [0..n -> Nat]
  <2>1. DOMAIN p = 0..n /\ p = [k \in 0..n |-> p[k]]
    BY <1>3
  <2> QED BY <1>6, <2>1
<1> QED BY <1>4, <1>5, <1>7 DEF IsPower

(* The number that digits denote, by Horner's rule.                        *)
Horner(f, s, B) ==
  /\ f \in [0..Len(s) -> Nat] /\ f[0] = 0
  /\ \A n \in 1..Len(s) : f[n] = f[n - 1] * B + s[n]

(* Value computes it.                                                      *)
LEMMA ValueIs ==
  ASSUME NEW s \in Seq(Nat), NEW B \in Nat
  PROVE  \E f : Horner(f, s, B) /\ Value(s, B) = f[Len(s)]
<1> DEFINE F(w) == [n \in 0..Len(s) |-> IF n = 0 THEN 0 ELSE w[n - 1] * B + s[n]]
           p == CHOOSE f : f = F(f)
           G == [x \in (1..Len(s)) \X Nat |-> x[2] * B + s[x[1]]]
<1>0. Len(s) \in Nat /\ \A k \in 1..Len(s) : s[k] \in Nat
  OBVIOUS
<1>1. G \in [(1..Len(s)) \X Nat -> Nat]
  <2>1. \A x \in (1..Len(s)) \X Nat : x[2] * B + s[x[1]] \in Nat
    <3> TAKE x \in (1..Len(s)) \X Nat
    <3>1. PICK y \in Nat, z \in Nat : y = x[2] /\ z = s[x[1]]
      BY <1>0
    <3>2. y * B + z \in Nat
      <4>1. y * B \in Nat
        BY Z3
      <4> QED BY <4>1
    <3> QED BY <3>1, <3>2
  <2> QED BY <2>1
<1>2. PICK q : Recurses(Len(s), Nat, 0, G, q)
  BY <1>0, <1>1, Recursion
<1>3. q = F(q)
  <2>1. ASSUME NEW k \in 1..Len(s) PROVE q[k] = q[k - 1] * B + s[k]
    <3>1. PICK y \in Nat : y = q[k - 1]
      BY <1>0, <1>2 DEF Recurses
    <3>2. q[k] = G[<<k, y>>]
      BY <1>2, <3>1 DEF Recurses
    <3> QED BY <3>1, <3>2
  <2>2. \A k \in 0..Len(s) : k = 0 \/ k \in 1..Len(s)
    BY <1>0
  <2> QED BY <1>2, <2>1, <2>2 DEF Recurses
<1>4. p = F(p)
  BY <1>3, Zenon
<1>5. Value(s, B) = p[Len(s)]
  BY DEF Value
<1> HIDE DEF p
<1>6. p[0] = 0 /\ \A k \in 1..Len(s) : p[k] = p[k - 1] * B + s[k]
  <2>1. \A k \in 1..Len(s) : k \in 0..Len(s) /\ k # 0
    BY <1>0
  <2>2. 0 \in 0..Len(s)
    BY <1>0
  <2> QED BY <1>4, <2>1, <2>2
<1>7. \A k \in 0..Len(s) : p[k] \in Nat
  <2> DEFINE T == {k \in Nat : p[k] \in Nat}
  <2>1. 0 \in T
    BY <1>6
  <2>2. ASSUME NEW k \in 1..Len(s), k - 1 \in T PROVE k \in T
    <3>1. PICK y \in Nat, z \in Nat : y = p[k - 1] /\ z = s[k] /\ p[k] = y * B + z
      BY <1>0, <1>6, <2>2
    <3>2. PICK m \in Nat : m = y * B
      <4>1. y * B \in Nat
        BY Z3
      <4> QED BY <4>1
    <3>3. p[k] = m + z
      BY <3>1, <3>2, Zenon
    <3>4. p[k] \in Nat /\ k \in Nat
      BY <1>0, <3>3
    <3> QED BY <3>4
  <2> HIDE DEF T
  <2>3. \A k \in 0..Len(s) : k \in T
    BY <1>0, <2>1, <2>2, Upward
  <2> QED BY <2>3 DEF T
<1>8. p \in [0..Len(s) -> Nat]
  <2>1. DOMAIN p = 0..Len(s) /\ p = [k \in 0..Len(s) |-> p[k]]
    BY <1>4
  <2> QED BY <1>7, <2>1
<1> QED BY <1>5, <1>6, <1>8 DEF Horner

(* It is a number,                                                         *)
LEMMA ValueType ==
  ASSUME NEW s \in Seq(Nat), NEW B \in Nat
  PROVE  Value(s, B) \in Nat
<1>1. PICK f : Horner(f, s, B) /\ Value(s, B) = f[Len(s)]
  BY ValueIs
<1>2. Len(s) \in 0..Len(s)
  OBVIOUS
<1> QED BY <1>1, <1>2 DEF Horner

(* and that of one digit is the digit.                                     *)
LEMMA ValueOne ==
  ASSUME NEW d \in Nat, NEW B \in Nat
  PROVE  Value(<<>>, B) = 0 /\ Value(<<d>>, B) = d
<1>1. <<>> \in Seq(Nat) /\ Len(<<>>) = 0
  OBVIOUS
<1>2. PICK f : Horner(f, <<>>, B) /\ Value(<<>>, B) = f[0]
  BY <1>1, ValueIs
<1>3. PICK s : s = <<d>> /\ s \in Seq(Nat) /\ Len(s) = 1 /\ s[1] = d
  <2>1. <<d>> \in Seq(Nat) /\ Len(<<d>>) = 1 /\ <<d>>[1] = d
    OBVIOUS
  <2> QED BY <2>1, Zenon
<1>4. PICK g : Horner(g, s, B) /\ Value(s, B) = g[1]
  BY <1>3, ValueIs
<1>5. g[1] = g[0] * B + d /\ g[0] = 0
  <2>1. 1 \in 1..1 /\ 1 - 1 = 0
    OBVIOUS
  <2> QED BY <1>3, <1>4, <2>1 DEF Horner
<1> QED BY <1>2, <1>3, <1>4, <1>5 DEF Horner

(* A digit in front moves the others one place on.                         *)
LEMMA ConsNat ==
  ASSUME NEW s \in Seq(Nat), NEW d \in Nat
  PROVE  /\ <<d>> \o s \in Seq(Nat) /\ Len(<<d>> \o s) = Len(s) + 1
         /\ (<<d>> \o s)[1] = d /\ \A n \in 1..Len(s) : (<<d>> \o s)[n + 1] = s[n]
<1>1. InFront(<<d>> \o s, Nat, s, d)
  BY ConsIs, Zenon
<1> QED BY <1>1 DEF InFront

(* A digit in front counts the power of the base that the others leave it. *)
LEMMA ValueCons ==
  ASSUME NEW s \in Seq(Nat), NEW d \in Nat, NEW B \in Nat, NEW N \in Nat, NEW p, IsPower(p, B, N),
         Len(s) <= N
  PROVE  Value(<<d>> \o s, B) = d * p[Len(s)] + Value(s, B)
<1>1. PICK L \in Nat, t \in Seq(Nat) : L = Len(s) /\ t = <<d>> \o s
  <2>1. Len(s) \in Nat /\ <<d>> \o s \in Seq(Nat)
    BY ConsNat
  <2> QED BY <2>1, Zenon
<1>2. Len(t) = L + 1 /\ t[1] = d /\ (\A n \in 1..L : t[n + 1] = s[n] /\ s[n] \in Nat)
  BY <1>1, ConsNat
<1>3. PICK f : Horner(f, s, B) /\ Value(s, B) = f[L]
  BY <1>1, ValueIs
<1>4. PICK g : Horner(g, t, B) /\ Value(t, B) = g[L + 1]
  BY <1>2, ValueIs
<1> DEFINE T == {n \in Nat : g[n + 1] = d * p[n] + f[n]}
<1>5. 0 \in T
  <2>1. g[1] = g[0] * B + d /\ g[0] = 0 /\ g[0 + 1] = g[1]
    <3>1. 1 \in 1..Len(t) /\ 1 - 1 = 0
      BY <1>2
    <3> QED BY <1>2, <1>4, <3>1 DEF Horner
  <2>2. p[0] = 1 /\ f[0] = 0
    BY <1>3 DEF IsPower, Horner
  <2> QED BY <2>1, <2>2
<1>6. ASSUME NEW n \in 1..L, n - 1 \in T PROVE n \in T
  <2>1. n + 1 \in 1..Len(t) /\ n + 1 - 1 = n /\ n \in 1..Len(s) /\ n \in 1..N /\ n - 1 + 1 = n
    BY <1>1, <1>2
  <2>2. g[n + 1] = g[n] * B + s[n] /\ f[n] = f[n - 1] * B + s[n] /\ p[n] = B * p[n - 1]
    <3>1. g[n + 1] = g[n] * B + t[n + 1]
      BY <1>4, <2>1 DEF Horner
    <3> QED BY <1>2, <1>3, <2>1, <3>1 DEF Horner, IsPower
  <2>3. g[n] = d * p[n - 1] + f[n - 1]
    BY <1>6, <2>1
  <2>4. PICK x \in Nat, y \in Nat, z \in Nat : x = p[n - 1] /\ y = f[n - 1] /\ z = s[n]
    <3>1. n - 1 \in 0..N /\ n - 1 \in 0..Len(s)
      BY <1>1, <2>1
    <3> QED BY <1>2, <1>3, <3>1 DEF IsPower, Horner
  <2>5. (d * x + y) * B + z = d * (B * x) + (y * B + z)
    BY Z3
  <2>6. g[n + 1] = d * p[n] + f[n]
    BY <2>2, <2>3, <2>4, <2>5
  <2> QED BY <2>6
<1> HIDE DEF T
<1>7. L \in 0..L
  OBVIOUS
<1>8. L \in T
  BY <1>5, <1>6, <1>7, Upward
<1> QED BY <1>1, <1>3, <1>4, <1>8 DEF T

-----------------------------------------------------------------------------
(* Digits                                                                  *)

(* Where the loop of _fmt_putuint stands: what is left, and the digits.    *)
State == [v : Nat, s : Seq(Nat)]

(* In a base of ten or more a quotient has one decimal digit less.         *)
LEMMA Shorter ==
  ASSUME NEW B \in Nat, B >= 10, NEW q \in Nat, NEW r \in Nat, NEW x \in Nat, NEW y \in Nat,
         x = B * q + r, x < 10 * y
  PROVE  q < y
<1>1. PICK m \in Int : m = B * q /\ 10 * q <= m
  <2>1. B * q \in Int /\ 10 * q <= B * q
    BY Z3
  <2> QED BY <2>1
<1>2. x = m + r
  BY <1>1
<1> QED BY <1>1, <1>2

(* Moving a digit from the number to the numeral.                          *)
LEMMA Nonlinear ==
  ASSUME NEW B \in Nat, NEW q \in Nat, NEW r \in Nat, NEW P \in Nat, NEW V \in Nat
  PROVE  (B * q + r) * P + V = q * (B * P) + (r * P + V)
BY Z3

(* One round of the loop takes a digit off.                                *)
TakeDigit(x, B, s) == [v |-> x \div B, s |-> <<x % B>> \o s]

OffIs(x, B, s, q, r, t) == x = B * q + r /\ t = <<r>> \o s

(* It is the remainder, and the quotient is left.                          *)
LEMMA DigitOff ==
  ASSUME NEW x \in Nat, NEW B \in Nat, B > 0, NEW s \in Seq(Nat)
  PROVE  \E q \in Nat, r \in Nat, t \in Seq(Nat) :
           /\ OffIs(x, B, s, q, r, t) /\ r < B
           /\ TakeDigit(x, B, s) = [v |-> q, s |-> t] /\ TakeDigit(x, B, s) \in State
<1>1. B \in Nat \ {0} /\ x \in Int
  OBVIOUS
<1>2. PICK q, r : q = x \div B /\ r = x % B
  OBVIOUS
<1>3. q \in Int /\ r \in 0..(B - 1) /\ x = B * q + r
  BY <1>1, <1>2, DivOf
<1>4. q \in Nat
  <2>1. CASE q < 0
    <3>1. B * q <= -B /\ B * q \in Int
      BY <1>3, <2>1, Z3
    <3> QED BY <1>3, <3>1
  <2> QED BY <1>3, <2>1
<1>5. r \in Nat /\ r < B
  BY <1>3
<1>6. PICK t : t = <<r>> \o s
  OBVIOUS
<1>7. t \in Seq(Nat)
  BY <1>5, <1>6, ConsNat
<1>8. OffIs(x, B, s, q, r, t)
  BY <1>3, <1>6 DEF OffIs
<1>9. TakeDigit(x, B, s) = [v |-> q, s |-> t]
  BY <1>2, <1>6 DEF TakeDigit
<1>10. TakeDigit(x, B, s) \in State
  <2>1. [v |-> q, s |-> t] \in State
    BY <1>4, <1>7 DEF State
  <2> QED BY <1>9, <2>1
<1> QED BY <1>4, <1>5, <1>7, <1>8, <1>9, <1>10, Zenon

(* After n rounds for the number v: what is left is x, the digits are s.   *)
Round(x, s, v, B, n, N, p, ten) ==
  /\ Len(s) <= n
  /\ v = x * p[Len(s)] + Value(s, B)
  /\ x < ten[N - n]
  /\ x = 0 => Len(s) > 0 /\ s[1] # 0

(* Each round hands it on.                                                 *)
LEMMA RoundOn ==
  ASSUME NEW v \in Nat, NEW B \in Nat, B >= 10, NEW N \in Nat, NEW n \in 1..N,
         NEW p, IsPower(p, B, N), NEW ten, IsPower(ten, 10, N),
         NEW x \in Nat, NEW s \in Seq(Nat), NEW q \in Nat, NEW r \in Nat, NEW t \in Seq(Nat),
         Round(x, s, v, B, n - 1, N, p, ten), x # 0, OffIs(x, B, s, q, r, t), r < B
  PROVE  Round(q, t, v, B, n, N, p, ten)
<1>1. PICK L \in Nat : L = Len(s)
  OBVIOUS
<1>2. Len(t) = L + 1 /\ t[1] = r /\ x = B * q + r
  BY <1>1, ConsNat DEF OffIs
<1>3. L <= n - 1 /\ L + 1 \in 1..N /\ L \in 0..N /\ L <= N /\ L + 1 - 1 = L
  <2>1. L <= n - 1
    BY <1>1 DEF Round
  <2> QED BY <1>1, <2>1
<1>4. PICK P \in Nat, V \in Nat : P = p[L] /\ V = Value(s, B)
  <2>1. p[L] \in Nat
    BY <1>3 DEF IsPower
  <2>2. Value(s, B) \in Nat
    BY ValueType
  <2> QED BY <2>1, <2>2, Zenon
<1>5. p[L + 1] = B * P
  BY <1>3, <1>4 DEF IsPower
<1>6. Value(t, B) = r * P + V
  <2>1. Len(s) <= N
    BY <1>1, <1>3
  <2>2. Value(<<r>> \o s, B) = r * p[Len(s)] + Value(s, B)
    BY <2>1, ValueCons
  <2> QED BY <1>1, <1>4, <2>2 DEF OffIs
<1>7. v = q * p[L + 1] + Value(t, B)
  <2>1. v = x * P + V
    BY <1>1, <1>4 DEF Round
  <2>2. (B * q + r) * P + V = q * (B * P) + (r * P + V)
    BY Nonlinear
  <2> QED BY <1>2, <1>5, <1>6, <2>1, <2>2, Zenon
<1>8. q < ten[N - n]
  <2>1. PICK k \in Nat, y \in Nat : k = N - n /\ y = ten[k] /\ k + 1 = N - (n - 1)
    <3>1. N - n \in 0..N /\ N - n \in Nat /\ (N - n) + 1 = N - (n - 1)
      OBVIOUS
    <3>2. ten[N - n] \in Nat
      BY <3>1 DEF IsPower
    <3> QED BY <3>1, <3>2, Zenon
  <2>2. ten[k + 1] = 10 * y
    <3>1. k + 1 \in 1..N /\ k + 1 - 1 = k
      BY <2>1
    <3> QED BY <2>1, <3>1 DEF IsPower
  <2>3. x < 10 * y
    BY <1>1, <2>1, <2>2 DEF Round
  <2> QED BY <1>2, <2>1, <2>3, Shorter
<1>9. q = 0 => r # 0
  <2> SUFFICES ASSUME q = 0 PROVE r # 0
    OBVIOUS
  <2>1. B * q = 0
    OBVIOUS
  <2> QED BY <1>2, <2>1
<1>10. Len(t) <= n /\ Len(t) > 0
  BY <1>2, <1>3
<1> QED BY <1>2, <1>7, <1>8, <1>9, <1>10 DEF Round

(* The digits of a number denote it and have no leading zero, whenever the *)
(* buffer is as long as its decimal numeral.                               *)
LEMMA DigitsExact ==
  ASSUME NEW v \in Nat, v < TenTo(NumBuf - 1), NEW B \in {10, 16}
  PROVE  \E s \in Seq(Nat) : /\ fmt_putuint(v, B) = s /\ Len(s) > 0 /\ Value(s, B) = v
                             /\ Len(s) > 1 => s[1] # 0
<1>1. PICK N \in Nat : N = NumBuf - 1
  BY PrintkAssumption
<1>2. B \in Nat /\ B >= 10 /\ B > 0
  OBVIOUS
<1>3. CASE v = 0
  <2>1. PICK s \in Seq(Nat) : s = <<0>> /\ Len(s) = 1
    <3>1. <<0>> \in Seq(Nat) /\ Len(<<0>>) = 1
      OBVIOUS
    <3> QED BY <3>1, Zenon
  <2>2. fmt_putuint(v, B) = s
    BY <1>3, <2>1 DEF fmt_putuint
  <2>3. Value(s, B) = v
    BY <1>2, <1>3, <2>1, ValueOne
  <2>4. Len(s) > 0 /\ ~(Len(s) > 1)
    BY <2>1
  <2> QED BY <2>2, <2>3, <2>4
<1>4. CASE v # 0
  <2> DEFINE F(w) == [n \in 0..(NumBuf - 1) |->
                        IF n = 0 THEN [v |-> v, s |-> <<>>]
                        ELSE LET d == w[n - 1] IN
                             IF d.v = 0 THEN d
                             ELSE [v |-> d.v \div B, s |-> <<d.v % B>> \o d.s]]
             dig == CHOOSE f : f = F(f)
             After(d) == IF d.v = 0 THEN d ELSE TakeDigit(d.v, B, d.s)
             G == [x \in (1..N) \X State |-> After(x[2])]
  <2>1. G \in [(1..N) \X State -> State]
    <3>1. ASSUME NEW d \in State PROVE After(d) \in State
      <4>1. CASE d.v = 0
        BY <4>1
      <4>2. CASE d.v # 0
        <5>1. d.v \in Nat /\ d.s \in Seq(Nat)
          BY DEF State
        <5>2. TakeDigit(d.v, B, d.s) \in State
          BY <1>2, <5>1, DigitOff
        <5> QED BY <4>2, <5>2
      <4> QED BY <4>1, <4>2
    <3> HIDE DEF After
    <3> QED BY <3>1
  <2>2. [v |-> v, s |-> <<>>] \in State
    BY DEF State
  <2>3. PICK g : Recurses(N, State, [v |-> v, s |-> <<>>], G, g)
    BY <2>1, <2>2, Recursion
  <2>4. g = F(g)
    <3>1. ASSUME NEW k \in 1..N PROVE g[k] = After(g[k - 1])
      <4>1. PICK y \in State : y = g[k - 1]
        BY <1>1, <2>3 DEF Recurses
      <4>2. g[k] = G[<<k, y>>]
        BY <2>3, <4>1 DEF Recurses
      <4> HIDE DEF After
      <4> QED BY <4>1, <4>2
    <3>2. \A k \in 0..N : k = 0 \/ k \in 1..N
      OBVIOUS
    <3> QED BY <1>1, <2>3, <3>1, <3>2 DEF Recurses, TakeDigit
  <2>5. dig = F(dig)
    BY <2>4, Zenon
  <2>6. fmt_putuint(v, B) = dig[NumBuf - 1].s
    BY <1>4 DEF fmt_putuint
  <2> HIDE DEF dig
  <2>7. dig[0] = [v |-> v, s |-> <<>>] /\ \A k \in 1..N : dig[k] = After(dig[k - 1])
    <3>1. \A k \in 1..N : k \in 0..(NumBuf - 1) /\ k # 0
      BY <1>1
    <3>2. 0 \in 0..(NumBuf - 1)
      BY <1>1
    <3> QED BY <2>5, <3>1, <3>2 DEF TakeDigit
  <2> HIDE DEF F, G
  <2>8. PICK p : IsPower(p, B, N)
    BY <1>2, PowersExist
  <2>9. PICK ten : IsPower(ten, 10, N) /\ TenTo(N) = ten[N]
    BY TenToIs
  <2> DEFINE Done(x, s, k) == /\ x = 0 /\ Len(s) <= k /\ v = Value(s, B)
                              /\ Len(s) > 0 /\ s[1] # 0
             Is(d, k) == \E x \in Nat, s \in Seq(Nat) :
                           /\ d = [v |-> x, s |-> s]
                           /\ Round(x, s, v, B, k, N, p, ten) \/ Done(x, s, k)
             U == {k \in Nat : Is(dig[k], k)}
  <2>r. ASSUME NEW x \in Nat, NEW s \in Seq(Nat), NEW k \in 0..N, x = 0,
               Round(x, s, v, B, k, N, p, ten)
        PROVE  Done(x, s, k)
    <3>1. Len(s) \in 0..N
      <4>1. Len(s) \in Nat /\ Len(s) <= k
        BY <2>r DEF Round
      <4> QED BY <4>1
    <3>2. p[Len(s)] \in Nat /\ Value(s, B) \in Nat
      BY <1>2, <2>8, <3>1, ValueType DEF IsPower
    <3>3. v = 0 * p[Len(s)] + Value(s, B)
      BY <2>r DEF Round
    <3>4. v = Value(s, B)
      BY <3>2, <3>3
    <3> QED BY <2>r, <3>4 DEF Round
  <2>u. \A k \in 1..N : Is(dig[k], k) => k \in U
    <3>1. \A k \in 1..N : k \in Nat
      OBVIOUS
    <3> HIDE DEF Is
    <3> QED BY <3>1
  <2>10. 0 \in U
    <3>1. PICK s \in Seq(Nat) : s = <<>> /\ Len(s) = 0
      <4>1. <<>> \in Seq(Nat) /\ Len(<<>>) = 0
        OBVIOUS
      <4> QED BY <4>1, Zenon
    <3>2. p[0] = 1 /\ v * 1 + 0 = v /\ N - 0 = N
      BY <2>8 DEF IsPower
    <3>3. Value(s, B) = 0
      BY <1>2, <3>1, ValueOne
    <3>4. Round(v, s, v, B, 0, N, p, ten)
      BY <1>1, <1>4, <2>9, <3>1, <3>2, <3>3 DEF Round
    <3>5. Is(dig[0], 0)
      BY <2>7, <3>1, <3>4
    <3> QED BY <3>5
  <2>11. ASSUME NEW k \in 1..N, k - 1 \in U PROVE k \in U
    <3>1. PICK x \in Nat, s \in Seq(Nat) :
            /\ dig[k - 1] = [v |-> x, s |-> s]
            /\ Round(x, s, v, B, k - 1, N, p, ten) \/ Done(x, s, k - 1)
      BY <2>11, Zenon
    <3>2. dig[k] = After(dig[k - 1]) /\ dig[k - 1].v = x /\ dig[k - 1].s = s
      BY <2>7, <3>1
    <3>3. CASE x = 0
      <4>1. dig[k] = [v |-> x, s |-> s]
        BY <3>1, <3>2, <3>3
      <4>2. k - 1 \in 0..N
        OBVIOUS
      <4>3. Done(x, s, k - 1)
        BY <2>r, <3>1, <3>3, <4>2, Zenon
      <4>4. Done(x, s, k)
        <5>1. Len(s) \in Nat
          OBVIOUS
        <5> QED BY <4>3, <5>1
      <4>5. Is(dig[k], k)
        BY <4>1, <4>4
      <4> QED BY <2>u, <4>5
    <3>4. CASE x # 0
      <4>1. Round(x, s, v, B, k - 1, N, p, ten)
        BY <3>1, <3>4
      <4>2. dig[k] = TakeDigit(x, B, s)
        BY <3>2, <3>4
      <4>3. PICK q \in Nat, r \in Nat, t \in Seq(Nat) :
              OffIs(x, B, s, q, r, t) /\ r < B /\ TakeDigit(x, B, s) = [v |-> q, s |-> t]
        BY <1>2, DigitOff
      <4>4. Round(q, t, v, B, k, N, p, ten)
        BY <1>2, <2>8, <2>9, <3>4, <4>1, <4>3, RoundOn
      <4>5. Is(dig[k], k)
        BY <4>2, <4>3, <4>4
      <4> QED BY <2>u, <4>5
    <3> QED BY <3>3, <3>4
  <2>12. N \in U
    <3> HIDE DEF U
    <3>1. N \in 0..N
      OBVIOUS
    <3> QED BY <2>10, <2>11, <3>1, Upward
  <2>13. PICK x \in Nat, s \in Seq(Nat) :
           /\ dig[N] = [v |-> x, s |-> s]
           /\ Round(x, s, v, B, N, N, p, ten) \/ Done(x, s, N)
    BY <2>12, Zenon
  <2>14. Done(x, s, N)
    <3>1. CASE Round(x, s, v, B, N, N, p, ten)
      <4>1. N - N = 0 /\ ten[0] = 1 /\ N \in 0..N
        BY <2>9 DEF IsPower
      <4>2. x < 1
        BY <3>1, <4>1 DEF Round
      <4>3. x = 0
        BY <4>2
      <4> QED BY <2>r, <3>1, <4>1, <4>3
    <3> QED BY <2>13, <3>1
  <2>15. fmt_putuint(v, B) = s
    BY <1>1, <2>6, <2>13
  <2> QED BY <2>14, <2>15
<1> QED BY <1>3, <1>4

-----------------------------------------------------------------------------
(* What a directive emits                                                  *)

(* The cast to uint32_t.                                                   *)
LEMMA UnsignedIs ==
  /\ \A i \in Int : Unsigned(i) \in Nat /\ Unsigned(i) < WordMod
  /\ \A i \in 0..(WordMod - 1) : Unsigned(i) = i
<1>1. WordMod \in Nat \ {0}
  BY PrintkAssumption
<1>2. ASSUME NEW i \in Int PROVE Unsigned(i) \in Nat /\ Unsigned(i) < WordMod
  <2>1. PICK q, r : q = i \div WordMod /\ r = i % WordMod
    OBVIOUS
  <2>2. r \in 0..(WordMod - 1)
    BY <1>1, <2>1, DivOf
  <2> QED BY <1>1, <2>1, <2>2 DEF Unsigned
<1>3. ASSUME NEW i \in 0..(WordMod - 1) PROVE Unsigned(i) = i
  BY <1>1, SMT DEF Unsigned
<1> QED BY <1>2, <1>3

(* Words print as themselves.                                              *)
LEMMA WordPrints ==
  ASSUME NumbersFit, NEW i \in Int, NEW B \in {10, 16}
  PROVE  \E s \in Seq(Nat) : /\ fmt_putuint(Unsigned(i), B) = s /\ Len(s) > 0
                             /\ Value(s, B) = Unsigned(i) /\ (Len(s) > 1 => s[1] # 0)
<1>1. PICK v \in Nat : v = Unsigned(i) /\ v < WordMod
  BY UnsignedIs
<1>2. PICK T \in Nat : T = TenTo(NumBuf - 1)
  <2>1. NumBuf - 1 \in Nat
    BY PrintkAssumption
  <2>2. NumBuf - 1 \in 0..(NumBuf - 1)
    BY <2>1
  <2> QED BY <2>1, <2>2, TenToIs DEF IsPower
<1>3. v < TenTo(NumBuf - 1)
  BY <1>1, <1>2, PrintkAssumption DEF NumbersFit
<1> QED BY <1>1, <1>3, DigitsExact

(* A sign in front is what Tail takes off.                                 *)
LEMMA MinusFirst ==
  ASSUME NEW s \in Seq(Nat)
  PROVE  \E t \in Seq(Nat) : t = <<Minus>> \o s /\ t[1] = Minus /\ Tail(t) = s
<1>1. Minus \in Nat
  BY DEF Minus
<1>2. PICK t : t = <<Minus>> \o s
  OBVIOUS
<1>3. t \in Seq(Nat) /\ Len(t) = Len(s) + 1 /\ t[1] = Minus /\ \A n \in 1..Len(s) : t[n + 1] = s[n]
  BY <1>1, <1>2, ConsNat
<1>4. Tail(t) = s
  <2>1. t # <<>> /\ Len(s) \in Nat
    BY <1>3
  <2>2. Tail(t) \in Seq(Nat) /\ Len(Tail(t)) = Len(s) /\ \A n \in 1..Len(s) : Tail(t)[n] = t[n + 1]
    <3>1. Tail(t) \in Seq(Nat) /\ Len(Tail(t)) = Len(t) - 1 /\ \A n \in 1..Len(Tail(t)) : Tail(t)[n] = t[n + 1]
      BY <1>3, <2>1
    <3>2. Len(Tail(t)) = Len(s)
      BY <1>3, <2>1, <3>1
    <3> QED BY <3>1, <3>2
  <2>3. \A n \in 1..Len(s) : Tail(t)[n] = s[n]
    BY <1>3, <2>2
  <2> QED BY <2>2, <2>3, SeqEqual
<1> QED BY <1>2, <1>3, <1>4, Zenon

(* A directive emits characters, and a number's are its numeral.           *)
NumeralOf(d, s) ==
  LET neg == d.dir = "d" /\ d.arg < 0
      digits == IF neg THEN Tail(s) ELSE s
      base == IF d.dir = "x" THEN 16 ELSE 10
  IN  /\ neg => s[1] = Minus
      /\ Value(digits, base) = (IF neg THEN -d.arg ELSE Unsigned(d.arg))
      /\ Len(digits) > 1 => digits[1] # 0

LEMMA DirectivePrints ==
  ASSUME NumbersFit, NEW d \in Directive
  PROVE  /\ fmt_core(d) \in Seq(Nat)
         /\ d.dir \in {"d", "u", "x"} => NumeralOf(d, fmt_core(d))
<1>0. d.dir \in {"lit", "s", "u", "x", "d"}
  BY DEF Directive
<1>1. CASE d.dir \in {"lit", "s"}
  <2>1. d.arg \in Seq(Nat)
    BY <1>1 DEF Directive
  <2>2. fmt_core(d) = d.arg
    BY <1>1 DEF fmt_core
  <2> QED BY <1>1, <2>1, <2>2
<1>2. CASE d.dir \in {"u", "x"}
  <2>1. d.arg \in Int
    BY <1>2 DEF Directive
  <2>2. PICK a \in Int, B \in {10, 16} : a = d.arg /\ B = IF d.dir = "x" THEN 16 ELSE 10
    BY <2>1
  <2>3. PICK s \in Seq(Nat) : /\ fmt_putuint(Unsigned(a), B) = s /\ Len(s) > 0
                              /\ Value(s, B) = Unsigned(a) /\ (Len(s) > 1 => s[1] # 0)
    BY WordPrints
  <2>4. fmt_core(d) = s
    BY <1>2, <2>2, <2>3 DEF fmt_core
  <2>5. NumeralOf(d, s)
    BY <1>2, <2>2, <2>3 DEF NumeralOf
  <2> QED BY <2>4, <2>5
<1>3. CASE d.dir = "d"
  <2>1. PICK a \in Int : a = d.arg /\ -WordMod <= 2 * a
    BY <1>3 DEF Directive
  <2>2. CASE a < 0
    <3>1. -a \in 0..(WordMod - 1) /\ -a \in Int
      <4>1. WordMod \in Nat
        BY PrintkAssumption
      <4> QED BY <2>1, <2>2, <4>1
    <3>2. PICK s \in Seq(Nat) : /\ fmt_putuint(Unsigned(-a), 10) = s /\ Len(s) > 0
                                /\ Value(s, 10) = Unsigned(-a) /\ (Len(s) > 1 => s[1] # 0)
      BY <3>1, WordPrints
    <3>3. Value(s, 10) = -a
      BY <3>1, <3>2, UnsignedIs
    <3>4. PICK t \in Seq(Nat) : t = <<Minus>> \o s /\ t[1] = Minus /\ Tail(t) = s
      BY MinusFirst
    <3>5. fmt_core(d) = t
      BY <1>3, <2>1, <2>2, <3>2, <3>4 DEF fmt_core
    <3>6. NumeralOf(d, t)
      BY <1>3, <2>1, <2>2, <3>2, <3>3, <3>4 DEF NumeralOf
    <3> QED BY <3>5, <3>6
  <2>3. CASE ~(a < 0)
    <3>1. PICK s \in Seq(Nat) : /\ fmt_putuint(Unsigned(a), 10) = s /\ Len(s) > 0
                                /\ Value(s, 10) = Unsigned(a) /\ (Len(s) > 1 => s[1] # 0)
      BY WordPrints
    <3>2. fmt_core(d) = s
      BY <1>3, <2>1, <2>3, <3>1 DEF fmt_core
    <3>3. NumeralOf(d, s)
      BY <1>3, <2>1, <2>3, <3>1 DEF NumeralOf
    <3> QED BY <3>2, <3>3
  <2> QED BY <2>2, <2>3
<1> QED BY <1>0, <1>1, <1>2, <1>3

-----------------------------------------------------------------------------
(* The buffer                                                              *)

(* What is in the buffer while characters come.                            *)
Stored == \A i \in DOMAIN sbuf :
            sbuf[i] = IF i < pos /\ i + 1 < size THEN console[i + 1] ELSE Untouched

(* And when it is closed.                                                  *)
Cut == LET n == IF Len(console) < size THEN Len(console) ELSE size - 1 IN
       /\ pos = Len(console)
       /\ \A i \in DOMAIN sbuf :
            sbuf[i] = IF i < n THEN console[i + 1] ELSE IF i = n THEN Terminator ELSE Untouched

(* The inductive invariant: the buffer is open or closed.                  *)
FmtType ==
  /\ todo \in Seq(Directive) /\ text \in Seq(Nat) /\ console \in Seq(Nat)
  /\ size \in Nat /\ pos = Len(console) /\ DOMAIN sbuf = 0..(size - 1)

FmtInv == FmtType /\ (Stored \/ (Finished /\ Cut))

(* With NumbersFit the invariant says what callers see;                    *)
LEMMA FmtInvSound ==
  ASSUME NumbersFit, FmtInv
  PROVE  FormatsExact
<1>1. SnprintkCuts
  <2> SUFFICES ASSUME Finished, Terminated \/ size = 0 PROVE Cut
    BY DEF SnprintkCuts, Cut
  <2>1. CASE Stored /\ size > 0
    <3>1. PICK i \in DOMAIN sbuf : sbuf[i] = Terminator
      BY <2>1 DEF Terminated
    <3>2. i \in Nat /\ pos \in Nat /\ (i < pos => console[i + 1] \in Nat)
      BY DEF FmtInv, FmtType
    <3>3. sbuf[i] = IF i < pos /\ i + 1 < size THEN console[i + 1] ELSE Untouched
      BY <2>1 DEF Stored
    <3> QED BY <3>1, <3>2, <3>3 DEF Terminator, Untouched
  <2>2. CASE size = 0
    BY <2>2 DEF FmtInv, FmtType, Cut
  <2> QED BY <2>1, <2>2 DEF FmtInv, FmtType
<1>2. NumbersExact
  <2> SUFFICES ASSUME todo # <<>>, Head(todo).dir \in {"d", "u", "x"}
               PROVE  NumeralOf(Head(todo), fmt_core(Head(todo)))
    BY DEF NumbersExact, NumeralOf
  <2>1. Head(todo) \in Directive
    BY DEF FmtInv, FmtType
  <2> QED BY <2>1, DirectivePrints
<1> QED BY <1>1, <1>2 DEF FormatsExact

(* it holds at first,                                                      *)
LEMMA FmtInvInit ==
  ASSUME FormatsTyped, FmtInit
  PROVE  FmtInv
<1>1. todo \in Seq(Directive) /\ size \in Nat
  BY PrintkAssumption DEF FmtInit, FormatsTyped
<1>2. text \in Seq(Nat) /\ console \in Seq(Nat) /\ pos = Len(console)
  BY DEF FmtInit
<1>3. DOMAIN sbuf = 0..(size - 1)
  BY DEF FmtInit
<1>4. Stored
  BY <1>1 DEF FmtInit, Stored
<1> QED BY <1>1, <1>2, <1>3, <1>4 DEF FmtInv, FmtType

(* and every step keeps it.                                                *)
LEMMA FmtInvStep ==
  ASSUME NumbersFit, FmtInv, [FmtNext]_fmtvars
  PROVE  FmtInv'
<1>1. CASE NextDirective
  <2>1. Head(todo) \in Directive /\ Tail(todo) \in Seq(Directive)
    BY <1>1 DEF NextDirective, FmtInv, FmtType
  <2>2. text' \in Seq(Nat) /\ todo' \in Seq(Directive)
    BY <1>1, <2>1, DirectivePrints DEF NextDirective
  <2>3. Stored
    BY <1>1 DEF NextDirective, FmtInv, Finished
  <2>4. Stored'
    BY <1>1, <2>3 DEF NextDirective, Stored
  <2>5. FmtType'
    BY <1>1, <2>2 DEF NextDirective, FmtInv, FmtType
  <2> QED BY <2>4, <2>5 DEF FmtInv
<1>2. CASE buffer_emit
  <2>1. PICK c \in Nat : c = Head(text)
    BY <1>2 DEF buffer_emit, FmtInv, FmtType
  <2>2. text' \in Seq(Nat)
    BY <1>2 DEF buffer_emit, FmtInv, FmtType
  <2>3. PICK k \in Seq(Nat), t \in Seq(Nat) : k = console /\ t = console'
    <3>1. console \in Seq(Nat) /\ console' = Append(console, c)
      BY <1>2, <2>1 DEF buffer_emit, FmtInv, FmtType
    <3>2. Append(console, c) \in Seq(Nat)
      BY <3>1
    <3> QED BY <3>1, <3>2, Zenon
  <2>4. t = Append(k, c) /\ pos = Len(k) /\ pos' = Len(k) + 1
    BY <1>2, <2>1, <2>3 DEF buffer_emit, FmtInv, FmtType
  <2>5. Len(k) \in Nat /\ Len(t) = Len(k) + 1 /\ t[Len(k) + 1] = c /\ \A n \in 1..Len(k) : t[n] = k[n]
    BY <2>4
  <2>6. FmtType'
    <3>1. DOMAIN sbuf' = DOMAIN sbuf /\ UNCHANGED <<todo, size>>
      BY <1>2 DEF buffer_emit
    <3> QED BY <2>2, <2>3, <2>4, <2>5, <3>1 DEF FmtInv, FmtType
  <2>7. Stored
    BY <1>2 DEF buffer_emit, FmtInv, Finished
  <2>8. ASSUME NEW i \in DOMAIN sbuf'
        PROVE  sbuf'[i] = IF i < pos' /\ i + 1 < size' THEN t[i + 1] ELSE Untouched
    <3>1. i \in DOMAIN sbuf /\ i \in Nat /\ size \in Nat /\ size' = size /\ DOMAIN sbuf = 0..(size - 1)
      BY <1>2, <2>6 DEF buffer_emit, FmtInv, FmtType
    <3>2. sbuf[i] = IF i < pos /\ i + 1 < size THEN k[i + 1] ELSE Untouched
      BY <2>3, <2>7, <3>1 DEF Stored
    <3>3. i < pos => i + 1 \in 1..Len(k) /\ t[i + 1] = k[i + 1]
      BY <2>4, <2>5, <3>1
    <3>4. sbuf'[i] = IF i = pos /\ pos + 1 < size THEN c ELSE sbuf[i]
      BY <1>2, <2>1, <3>1 DEF buffer_emit
    <3>5. i < pos' <=> i < pos \/ i = pos
      BY <2>4, <2>5, <3>1
    <3>6. CASE i = pos
      BY <2>4, <2>5, <3>1, <3>2, <3>4, <3>5, <3>6
    <3>7. CASE i # pos
      BY <2>4, <2>5, <3>1, <3>2, <3>3, <3>4, <3>5, <3>7
    <3> QED BY <3>6, <3>7
  <2>9. Stored'
    BY <2>3, <2>8 DEF Stored
  <2> QED BY <2>6, <2>9 DEF FmtInv
<1>3. CASE vibe_vsnprintk
  <2>1. PICK n : n = IF pos < size - 1 THEN pos ELSE size - 1
    OBVIOUS
  <2>2. /\ sbuf' = [sbuf EXCEPT ![n] = Terminator] /\ UNCHANGED <<todo, text, size, pos, console>>
        /\ Finished /\ ~Terminated /\ size > 0
    BY <1>3, <2>1 DEF vibe_vsnprintk
  <2>3. DOMAIN sbuf' = DOMAIN sbuf /\ \A i \in DOMAIN sbuf : sbuf'[i] = IF i = n THEN Terminator ELSE sbuf[i]
    BY <2>2
  <2>4. FmtType'
    BY <2>2, <2>3 DEF FmtInv, FmtType
  <2>5. pos \in Nat /\ size \in Nat /\ n \in DOMAIN sbuf /\ DOMAIN sbuf = 0..(size - 1) /\ pos = Len(console)
    BY <2>1, <2>2 DEF FmtInv, FmtType
  <2>6. Stored
    <3>1. CASE Finished /\ Cut
      <4>1. sbuf[n] = Terminator
        BY <2>1, <2>5, <3>1 DEF Cut
      <4> QED BY <2>2, <2>5, <4>1 DEF Terminated
    <3> QED BY <3>1 DEF FmtInv
  <2>7. n = IF Len(console) < size THEN Len(console) ELSE size - 1
    BY <2>1, <2>5
  <2>8. ASSUME NEW i \in DOMAIN sbuf
        PROVE  sbuf'[i] = IF i < n THEN console[i + 1] ELSE IF i = n THEN Terminator ELSE Untouched
    <3>1. sbuf[i] = IF i < pos /\ i + 1 < size THEN console[i + 1] ELSE Untouched
      BY <2>6 DEF Stored
    <3>2. i < n <=> i < pos /\ i + 1 < size
      BY <2>1, <2>5
    <3>3. n \in Int
      BY <2>5
    <3> QED BY <2>3, <3>1, <3>2, <3>3, <2>5
  <2>9. Finished' /\ Cut'
    BY <2>2, <2>3, <2>5, <2>7, <2>8 DEF Finished, Cut
  <2> QED BY <2>4, <2>9 DEF FmtInv
<1>4. CASE FormatReturns
  <2>1. FmtType'
    BY <1>4 DEF FormatReturns, FmtType
  <2>2. Stored'
    BY <1>4 DEF FormatReturns, Stored
  <2> QED BY <2>1, <2>2 DEF FmtInv
<1>5. CASE UNCHANGED fmtvars
  BY <1>5 DEF fmtvars, FmtInv, FmtType, Stored, Cut, Finished
<1> QED BY <1>1, <1>2, <1>3, <1>4, <1>5 DEF FmtNext

(* Whatever formats callers pass, with arguments of the types the          *)
(* directives name: every number prints as its numeral, and the buffer     *)
(* holds the text cut in front of one NUL (kernel/init.c).                 *)
THEOREM FormatsPrint == ASSUME NumbersFit, FormatsTyped PROVE FmtSpec => []FormatsExact
<1>1. FmtInit => FmtInv
  BY FmtInvInit
<1>2. FmtInv /\ [FmtNext]_fmtvars => FmtInv'
  BY FmtInvStep
<1>3. FmtInv => FormatsExact
  BY FmtInvSound
<1> QED BY <1>1, <1>2, <1>3, PTL DEF FmtSpec

-----------------------------------------------------------------------------
(* The shell.                                                              *)
LastCell == CONFIG_SHELL_BUF_SIZE - 1
LineChar == Word \cup {" "}
Cells == LineChar \cup {NUL}

LEMMA CharsDiffer ==
  /\ LastCell \in Nat /\ NUL \notin LineChar /\ NUL \notin Blank /\ " " \in Blank
  /\ \A c \in LineChar : c \in Blank <=> c = " "
  /\ Erase \notin LineChar /\ Newline \notin LineChar /\ Newline # Erase /\ Newline # Other
  /\ Erase # Other /\ Other \notin LineChar
<1>1. \A c \in Word : c \notin {" ", "tab", "newline", "erase", "NUL"}
  BY ShellAssumption
<1>2. LastCell \in Nat
  <2>1. CONFIG_SHELL_BUF_SIZE \in Nat \ {0}
    BY ShellAssumption, Zenon
  <2> QED BY <2>1 DEF LastCell
<1> QED BY <1>1, <1>2 DEF LineChar, Blank, NUL, Erase, Newline, Other

(* The buffer b holds a line of len characters behind a NUL.               *)
IsLine(b, len) ==
  /\ len \in 0..LastCell /\ b \in [0..LastCell -> Cells] /\ b[len] = NUL
  /\ \A i \in 0..(len - 1) : b[i] \in LineChar

LEMMA LenNat ==
  ASSUME NEW b, NEW len, IsLine(b, len)
  PROVE  len \in Nat /\ LastCell \in Nat /\ len \in 0..LastCell
<1>1. len \in 0..LastCell
  BY Zenon DEF IsLine
<1>2. LastCell \in Nat
  BY CharsDiffer, Zenon
<1> QED BY <1>1, <1>2

LineOf(b, len) == [i \in 1..len |-> b[i - 1]]

(* The characters from i to j are a word of it.                            *)
WordAt(b, len, i, j) ==
  /\ i <= j /\ (\A k \in i..j : b[k - 1] # " ")
  /\ (i = 1 \/ b[i - 2] = " ") /\ (j = len \/ b[j] = " ")

LineWords(b, len) == {w \in (1..len) \X (1..len) : WordAt(b, len, w[1], w[2])}

LEMMA WordsAre ==
  ASSUME NEW b, NEW len, IsLine(b, len)
  PROVE  /\ LineOf(b, len) \in Seq(LineChar) /\ Len(LineOf(b, len)) = len
         /\ WordsOf(LineOf(b, len)) = LineWords(b, len)
<1>0. len \in Nat /\ len \in 0..LastCell /\ LastCell \in Nat
  BY LenNat
<1> DEFINE s == LineOf(b, len)
<1>1. s \in Seq(LineChar) /\ Len(s) = len
  <2>1. \A i \in 0..(len - 1) : b[i] \in LineChar
    BY Zenon DEF IsLine
  <2>2. \A i \in 1..len : i - 1 \in 0..(len - 1)
    BY <1>0
  <2>3. \A i \in 1..len : b[i - 1] \in LineChar
    BY <2>1, <2>2, Zenon
  <2> QED BY <1>0, <2>3 DEF LineOf
<1>2. ASSUME NEW i \in 1..len, NEW j \in 1..len, i <= j
      PROVE  IsWord(s, i, j) <=> WordAt(b, len, i, j)
  <2>1. \A k \in 1..len : s[k] = b[k - 1]
    BY DEF LineOf
  <2>2. i # 1 => i - 1 \in 1..len /\ i - 1 - 1 = i - 2
    BY <1>0
  <2>3. j # len => j + 1 \in 1..len /\ j + 1 - 1 = j
    BY <1>0
  <2>4. \A k \in i..j : k \in 1..len
    BY <1>0
  <2> HIDE DEF s
  <2>5. i = 1 \/ s[i - 1] = b[i - 2]
    BY <2>1, <2>2
  <2>6. j = len \/ s[j + 1] = b[j]
    BY <2>1, <2>3
  <2> QED BY <1>1, <1>2, <2>1, <2>4, <2>5, <2>6 DEF IsWord, WordAt
<1> HIDE DEF s
<1>3. WordsOf(s) = LineWords(b, len)
  <2>1. ASSUME NEW w \in (1..len) \X (1..len)
        PROVE (w[1] <= w[2] /\ IsWord(s, w[1], w[2])) <=> WordAt(b, len, w[1], w[2])
    <3>1. w[1] \in 1..len /\ w[2] \in 1..len
      OBVIOUS
    <3> QED BY <1>2, <3>1 DEF WordAt
  <2> QED BY <1>1, <2>1 DEF WordsOf, LineWords
<1> QED BY <1>1, <1>3 DEF s

(* What the loop has done in front of p.                                   *)
Before(b, len, p) == {w \in LineWords(b, len) : w[2] <= p}

(* Where a round may start.                                                *)
AtGap(b, len, p) == p \in 0..len /\ (p = 0 \/ p = len \/ b[p - 1] = " ")

(* No word lies across such a place.                                       *)
LEMMA Gap ==
  ASSUME NEW b, NEW len, IsLine(b, len), NEW p, AtGap(b, len, p),
         NEW w \in LineWords(b, len), ~(w[2] <= p)
  PROVE  w[1] > p
<1>1. PICK i \in 1..len, j \in 1..len : w[1] = i /\ w[2] = j /\ WordAt(b, len, i, j)
  BY DEF LineWords
<1>2. len \in Nat /\ p \in 0..len
  BY LenNat DEF AtGap
<1>3. ~(i <= p)
  <2> SUFFICES ASSUME i <= p PROVE FALSE
    OBVIOUS
  <2>1. p \in i..j /\ p # 0 /\ p # len
    BY <1>1, <1>2
  <2> QED BY <1>1, <2>1 DEF AtGap, WordAt
<1> QED BY <1>1, <1>2, <1>3

(* Words with the same start are the same, and a word does not start       *)
(* inside another.                                                         *)
LEMMA WordsApart ==
  ASSUME NEW b, NEW len, IsLine(b, len),
         NEW v \in LineWords(b, len), NEW w \in LineWords(b, len), v[1] <= w[1], w[1] <= v[2]
  PROVE  v = w
<1>1. PICK i \in 1..len, j \in 1..len : v = <<i, j>> /\ WordAt(b, len, i, j)
  BY DEF LineWords
<1>2. PICK x \in 1..len, y \in 1..len : w = <<x, y>> /\ WordAt(b, len, x, y)
  BY DEF LineWords
<1>3. len \in Nat /\ i <= x /\ x <= j
  BY <1>1, <1>2, LenNat
<1>a. i <= j /\ (\A k \in i..j : b[k - 1] # " ") /\ (j = len \/ b[j] = " ")
  BY <1>1, Zenon DEF WordAt
<1>b. /\ x <= y /\ (\A k \in x..y : b[k - 1] # " ")
      /\ (x = 1 \/ b[x - 2] = " ") /\ (y = len \/ b[y] = " ")
  BY <1>2, Zenon DEF WordAt
<1>c. x <= y
  BY <1>b
<1>4. i = x
  <2> SUFFICES ASSUME i # x PROVE FALSE
    OBVIOUS
  <2>1. x - 1 \in i..j /\ x - 1 - 1 = x - 2 /\ x # 1
    BY <1>3
  <2> QED BY <1>a, <1>b, <2>1
<1>5. ~(j < y)
  <2> SUFFICES ASSUME j < y PROVE FALSE
    OBVIOUS
  <2>1. PICK z \in x..y : z - 1 = j /\ j # len
    <3>1. j + 1 \in x..y /\ j + 1 - 1 = j /\ j # len
      BY <1>3
    <3> QED BY <3>1
  <2> QED BY <1>a, <1>b, <2>1, Zenon
<1>6. ~(y < j)
  <2> SUFFICES ASSUME y < j PROVE FALSE
    OBVIOUS
  <2>1. PICK z \in i..j : z - 1 = y /\ y # len
    <3>1. y + 1 \in i..j /\ y + 1 - 1 = y /\ y # len
      BY <1>3, <1>4, <1>c
    <3> QED BY <3>1
  <2> QED BY <1>a, <1>b, <2>1, Zenon
<1>7. j = y
  BY <1>5, <1>6
<1> QED BY <1>1, <1>2, <1>4, <1>7

LEMMA WordsFinite ==
  ASSUME NEW b, NEW len, IsLine(b, len)
  PROVE  IsFiniteSet(LineWords(b, len))
<1>1. len \in Nat
  BY LenNat
<1>2. IsFiniteSet(1..len)
  BY <1>1, UptoCard, Zenon
<1>3. IsFiniteSet((1..len) \X (1..len))
  BY <1>2, FS_Product, Zenon
<1>4. LineWords(b, len) \in SUBSET ((1..len) \X (1..len))
  BY DEF LineWords
<1> QED BY <1>3, <1>4, FS_Subset, Zenon

(* The first place from p on where f has a character of C.                 *)
Finds(f, p, len, C, a) == a \in p..len /\ f[a] \in C /\ \A k \in p..(a - 1) : f[k] \notin C

LEMMA FirstPlace ==
  ASSUME NEW f, NEW len \in Nat, NEW p \in 0..len, NEW C, f[len] \in C
  PROVE  \E a \in p..len : Finds(f, p, len, C, a)
<1> DEFINE T == {k \in p..len : f[k] \in C}
<1>1. T \in SUBSET Nat /\ len \in T
  OBVIOUS
<1>2. PICK a \in T : \A k \in T : a <= k
  BY <1>1, LeastNumber
<1>3. ASSUME NEW k \in p..(a - 1) PROVE f[k] \notin C
  <2>1. k \in p..len /\ ~(a <= k)
    OBVIOUS
  <2> QED BY <1>2, <2>1
<1> QED BY <1>2, <1>3 DEF Finds

LEMMA SkipIs ==
  ASSUME NEW f \in [0..LastCell -> Cells], NEW len \in 0..LastCell, NEW p \in 0..len, f[len] = NUL
  PROVE  Finds(f, p, len, Cells \ Blank, SkipBlanks(f, p))
<1>0. LastCell \in Nat /\ NUL \in Cells \ Blank
  BY CharsDiffer, Zenon DEF Cells
<1> DEFINE P(n) == /\ n >= p /\ f[n] \notin Blank
                   /\ \A k \in p..(n - 1) : f[k] \in Blank
<1>a. len \in Nat /\ f[len] \in Cells \ Blank
  BY <1>0
<1>1. PICK a \in p..len : Finds(f, p, len, Cells \ Blank, a)
  BY <1>a, FirstPlace, Zenon
<1>2. a \in 0..LastCell /\ P(a)
  <2>1. a \in 0..LastCell /\ a >= p /\ f[a] \notin Blank
    BY <1>0, <1>1 DEF Finds
  <2>2. ASSUME NEW k \in p..(a - 1) PROVE f[k] \in Blank
    <3>1. k \in 0..LastCell
      BY <1>0
    <3> QED BY <1>1, <3>1 DEF Finds
  <2> QED BY <2>1, <2>2
<1>3. SkipBlanks(f, p) = CHOOSE n \in 0..LastCell : P(n)
  BY DEF SkipBlanks
<1>4. PICK n \in 0..LastCell : n = SkipBlanks(f, p) /\ P(n)
  BY <1>2, <1>3
<1>5. ~(len < n)
  <2> SUFFICES ASSUME len < n PROVE FALSE
    OBVIOUS
  <2>1. len \in p..(n - 1)
    BY <1>0
  <2> QED BY <1>0, <1>4, <2>1
<1>6. n \in p..len
  BY <1>0, <1>4, <1>5
<1>7. f[n] \in Cells \ Blank
  BY <1>4
<1>8. \A k \in p..(n - 1) : f[k] \notin Cells \ Blank
  BY <1>4
<1> QED BY <1>4, <1>6, <1>7, <1>8, Zenon DEF Finds

LEMMA EndIs ==
  ASSUME NEW f \in [0..LastCell -> Cells], NEW len \in 0..LastCell, NEW p \in 0..len, f[len] = NUL
  PROVE  Finds(f, p, len, Blank \cup {NUL}, TokenEnd(f, p))
<1>0. LastCell \in Nat
  BY CharsDiffer, Zenon
<1> DEFINE C == Blank \cup {NUL}
           P(n) == n >= p /\ f[n] \in C /\ \A k \in p..(n - 1) : f[k] \notin C
<1>a. len \in Nat /\ f[len] \in C
  BY <1>0
<1>1. PICK a \in p..len : Finds(f, p, len, C, a)
  BY <1>a, FirstPlace, Zenon
<1>2. a \in 0..LastCell /\ P(a)
  BY <1>0, <1>1 DEF Finds
<1>3. TokenEnd(f, p) = CHOOSE n \in 0..LastCell : P(n)
  BY DEF TokenEnd
<1>4. PICK n \in 0..LastCell : n = TokenEnd(f, p) /\ P(n)
  BY <1>2, <1>3
<1>5. ~(len < n)
  <2> SUFFICES ASSUME len < n PROVE FALSE
    OBVIOUS
  <2>1. len \in p..(n - 1)
    BY <1>0
  <2> QED BY <1>0, <1>4, <2>1
<1>6. n \in p..len
  BY <1>0, <1>4, <1>5
<1> QED BY <1>4, <1>6 DEF Finds

(* The string at p that ends at stop.                                      *)
LEMMA StringIs ==
  ASSUME NEW f \in [0..LastCell -> Cells], NEW p \in 0..LastCell, NEW stop \in p..LastCell,
         f[stop] = NUL, \A k \in p..(stop - 1) : f[k] # NUL
  PROVE  StringAt(f, p) = [i \in 1..(stop - p) |-> f[p + i - 1]]
<1>0. LastCell \in Nat
  BY CharsDiffer, Zenon
<1> DEFINE P(n) == n >= p /\ f[n] = NUL /\ \A k \in p..(n - 1) : f[k] # NUL
           m == CHOOSE n \in 0..LastCell : P(n)
<1>1. stop \in 0..LastCell /\ P(stop)
  BY <1>0
<1>2. StringAt(f, p) = [i \in 1..(m - p) |-> f[p + i - 1]]
  BY DEF StringAt
<1>3. PICK n \in 0..LastCell : n = m /\ P(n)
  BY <1>1
<1> HIDE DEF m
<1>4. ~(n < stop)
  <2> SUFFICES ASSUME n < stop PROVE FALSE
    OBVIOUS
  <2>1. n \in p..(stop - 1)
    BY <1>0, <1>3
  <2> QED BY <1>3, <2>1
<1>5. ~(stop < n)
  <2> SUFFICES ASSUME stop < n PROVE FALSE
    OBVIOUS
  <2>1. stop \in p..(n - 1)
    BY <1>0, <1>1
  <2> QED BY <1>3, <2>1
<1>6. n = stop
  BY <1>0, <1>4, <1>5
<1> QED BY <1>2, <1>3, <1>6

(* Behind the last word there is nothing to find.                          *)
AllBlank(b, p, len) == \A k \in p..(len - 1) : b[k] = " "

LEMMA NoneLeft ==
  ASSUME NEW b, NEW len, IsLine(b, len), NEW p, AtGap(b, len, p),
         AllBlank(b, p, len)
  PROVE  Before(b, len, p) = LineWords(b, len) /\ Before(b, len, len) = LineWords(b, len)
<1>0. len \in Nat /\ p \in 0..len
  BY LenNat DEF AtGap
<1>1. ASSUME NEW w \in LineWords(b, len) PROVE w[2] <= p /\ w[2] <= len
  <2>1. PICK i \in 1..len, j \in 1..len : w[1] = i /\ w[2] = j /\ WordAt(b, len, i, j)
    BY DEF LineWords
  <2>2. ~(j <= p) => i > p
    BY <2>1, Gap
  <2>3. i <= j /\ (\A k \in i..j : b[k - 1] # " ")
    BY <2>1, Zenon DEF WordAt
  <2>4. b[i - 1] # " "
    <3>1. i <= j
      BY <2>3
    <3>2. i \in i..j
      BY <1>0, <3>1
    <3> QED BY <2>3, <3>2, Zenon
  <2>5. i > p => i - 1 \in p..(len - 1)
    BY <1>0
  <2>6. ~(i > p)
    BY <2>4, <2>5, Zenon DEF AllBlank
  <2> QED BY <1>0, <2>1, <2>2, <2>6
<1> QED BY <1>1 DEF Before

(* A run of characters behind blanks, from a to e.                         *)
Token(b, len, p, a, e) ==
  /\ a \in p..(len - 1) /\ e \in (a + 1)..len
  /\ (\A k \in p..(a - 1) : b[k] = " ") /\ (\A k \in a..(e - 1) : b[k] # " ")
  /\ (e = len \/ b[e] = " ")

Behind(len, e) == IF e = len THEN e ELSE e + 1

LEMMA TokenNat ==
  ASSUME NEW b, NEW len, IsLine(b, len), NEW p, AtGap(b, len, p),
         NEW a, NEW e, Token(b, len, p, a, e)
  PROVE  /\ len \in Nat /\ p \in 0..len /\ a \in 0..(len - 1) /\ e \in 1..len
         /\ p <= a /\ a < e /\ a + 1 \in 1..len
<1>1. len \in Nat
  BY LenNat
<1>2. p \in 0..len /\ a \in p..(len - 1) /\ e \in (a + 1)..len
  BY Zenon DEF AtGap, Token
<1> QED BY <1>1, <1>2

(* It is the next word of the line.                                        *)
LEMMA TokenIsWord ==
  ASSUME NEW b, NEW len, IsLine(b, len), NEW p, AtGap(b, len, p),
         NEW a, NEW e, Token(b, len, p, a, e)
  PROVE  <<a + 1, e>> \in LineWords(b, len) /\ ~(e <= p)
<1>0. /\ len \in Nat /\ p \in 0..len /\ a \in 0..(len - 1) /\ e \in 1..len
      /\ p <= a /\ a < e /\ a + 1 \in 1..len
  BY TokenNat, Zenon
<1>1. \A k \in (a + 1)..e : b[k - 1] # " "
  <2>1. \A k \in a..(e - 1) : b[k] # " "
    BY Zenon DEF Token
  <2>2. \A k \in (a + 1)..e : k - 1 \in a..(e - 1)
    BY <1>0
  <2> QED BY <2>1, <2>2, Zenon
<1>2. a + 1 = 1 \/ b[(a + 1) - 2] = " "
  <2>1. (a + 1) - 2 = a - 1
    BY <1>0
  <2>2. CASE p < a
    <3>1. a - 1 \in p..(a - 1)
      BY <1>0, <2>2
    <3> QED BY <2>1, <3>1 DEF Token
  <2>3. CASE p = a
    <3>1. p # len /\ (p = 0 => a + 1 = 1)
      BY <1>0, <2>3
    <3> QED BY <2>1, <2>3, <3>1, Zenon DEF AtGap
  <2>4. p < a \/ p = a
    BY <1>0
  <2> QED BY <2>2, <2>3, <2>4, Zenon
<1>3. e = len \/ b[e] = " "
  BY Zenon DEF Token
<1>4. a + 1 <= e
  BY <1>0
<1>5. WordAt(b, len, a + 1, e)
  BY <1>1, <1>2, <1>3, <1>4, Zenon DEF WordAt
<1>6. <<a + 1, e>> \in LineWords(b, len)
  BY <1>0, <1>5 DEF LineWords
<1> QED BY <1>0, <1>6

(* No word that is not yet done starts in front of it.                     *)
LEMMA NextStart ==
  ASSUME NEW b, NEW len, IsLine(b, len), NEW p, AtGap(b, len, p),
         NEW a, NEW e, Token(b, len, p, a, e), NEW w \in LineWords(b, len), ~(w[2] <= p)
  PROVE  w[1] >= a + 1
<1>0. /\ len \in Nat /\ p \in 0..len /\ a \in 0..(len - 1)
  BY TokenNat, Zenon
<1>1. PICK i \in 1..len, j \in 1..len : w[1] = i /\ w[2] = j /\ WordAt(b, len, i, j)
  BY DEF LineWords
<1>2. i > p
  BY <1>1, Gap
<1>3. b[i - 1] # " "
  <2>1. i <= j /\ (\A k \in i..j : b[k - 1] # " ")
    BY <1>1, Zenon DEF WordAt
  <2>a. i <= j
    BY <2>1
  <2>2. i \in i..j
    BY <2>a
  <2> QED BY <2>1, <2>2, Zenon
<1>4. ~(i - 1 < a)
  <2> SUFFICES ASSUME i - 1 < a PROVE FALSE
    OBVIOUS
  <2>1. i - 1 \in p..(a - 1)
    BY <1>0, <1>2
  <2> QED BY <1>3, <2>1 DEF Token
<1> QED BY <1>0, <1>1, <1>4

(* So behind it one word more is done, and its rank is their number.       *)
LEMMA OneMore ==
  ASSUME NEW b, NEW len, IsLine(b, len), NEW p, AtGap(b, len, p),
         NEW a, NEW e, Token(b, len, p, a, e)
  PROVE  /\ AtGap(b, len, Behind(len, e))
         /\ Before(b, len, Behind(len, e)) = Before(b, len, p) \cup {<<a + 1, e>>}
         /\ Cardinality(Before(b, len, Behind(len, e))) = Cardinality(Before(b, len, p)) + 1
         /\ Rank(LineWords(b, len), <<a + 1, e>>) = Cardinality(Before(b, len, p)) + 1
<1> DEFINE W == LineWords(b, len)
           v == <<a + 1, e>>
           q == Behind(len, e)
<1>0. /\ len \in Nat /\ p \in 0..len /\ a \in 0..(len - 1) /\ e \in 1..len
      /\ p <= a /\ a < e /\ a + 1 \in 1..len
  BY TokenNat, Zenon
<1>1. v \in W /\ ~(e <= p)
  BY TokenIsWord, Zenon
<1>q. q \in e..len /\ (q # len => q = e + 1) /\ (q = e + 1 => q - 1 = e /\ e # len)
      /\ (q = e \/ q = e + 1)
  BY <1>0 DEF Behind
<1>2. AtGap(b, len, q)
  <2>1. e = len \/ b[e] = " "
    BY Zenon DEF Token
  <2>2. q \in 0..len
    BY <1>0, <1>q
  <2> QED BY <1>q, <2>1, <2>2 DEF AtGap
<1>v. v[1] = a + 1 /\ v[2] = e
  OBVIOUS
<1> HIDE DEF q, v
<1>3. ASSUME NEW w \in W, w[2] <= q, ~(w[2] <= p) PROVE w = v
  <2>1. w[1] >= a + 1
    BY <1>3, NextStart
  <2>2. PICK i \in 1..len, j \in 1..len : w = <<i, j>> /\ WordAt(b, len, i, j)
    BY DEF LineWords
  <2>3. i >= a + 1 /\ j <= q
    BY <1>3, <2>1, <2>2
  <2>4. i <= j /\ (\A k \in i..j : b[k - 1] # " ")
    BY <2>2, Zenon DEF WordAt
  <2>a. i <= j
    BY <2>4
  <2>5. ~(e < i)
    <3> SUFFICES ASSUME e < i PROVE FALSE
      OBVIOUS
    <3>1. j = e + 1 /\ q = e + 1 /\ j - 1 = e /\ j \in i..j
      BY <1>0, <1>q, <2>3, <2>a
    <3>2. b[j - 1] = " "
      BY <1>q, <3>1 DEF Token
    <3> QED BY <2>4, <3>1, <3>2
  <2>6. v[1] <= w[1] /\ w[1] <= v[2]
    BY <1>0, <1>v, <2>2, <2>3, <2>5
  <2> QED BY <1>1, <2>6, WordsApart
<1>4. Before(b, len, q) = Before(b, len, p) \cup {v}
  <2>1. ASSUME NEW w \in W PROVE w[2] <= q <=> (w[2] <= p \/ w = v)
    <3>1. w[2] \in 1..len
      BY DEF LineWords
    <3> QED BY <1>0, <1>q, <1>v, <1>3, <3>1
  <2> QED BY <1>1, <2>1 DEF Before
<1>5. IsFiniteSet(Before(b, len, p))
  <2>1. Before(b, len, p) \in SUBSET W
    BY DEF Before
  <2> QED BY <2>1, WordsFinite, FS_Subset, Zenon
<1>6. v \notin Before(b, len, p)
  BY <1>1, <1>v DEF Before
<1>7. Cardinality(Before(b, len, p) \cup {v}) = Cardinality(Before(b, len, p)) + 1
  BY <1>5, <1>6, FS_AddElement, Zenon
<1>8. {u \in W : u[1] <= v[1]} = Before(b, len, p) \cup {v}
  <2>1. ASSUME NEW u \in W PROVE u[1] <= v[1] <=> (u[2] <= p \/ u = v)
    <3>1. u[1] \in 1..len /\ u[2] \in 1..len /\ u[1] <= u[2]
      BY DEF LineWords, WordAt
    <3>2. u[2] <= p => u[1] <= v[1]
      BY <1>0, <1>v, <3>1
    <3>3. ASSUME u[1] <= v[1], ~(u[2] <= p) PROVE u = v
      <4>1. u[1] >= a + 1
        BY <3>3, NextStart
      <4>2. v[1] <= u[1] /\ u[1] <= v[2]
        BY <1>0, <1>v, <3>1, <3>3, <4>1
      <4> QED BY <1>1, <4>2, WordsApart
    <3>4. v[1] <= v[1]
      BY <1>0, <1>v
    <3> QED BY <3>2, <3>3, <3>4
  <2> QED BY <1>1, <2>1 DEF Before
<1> QED BY <1>2, <1>4, <1>7, <1>8, Zenon DEF Rank, q, v

(* A word that is done is in argv at its place, and terminated.            *)
Noted(b, len, f, g, w) ==
  LET k == Rank(LineWords(b, len), w) IN
  /\ k \in 1..Len(g) /\ g[k] = w[1] - 1 /\ f[w[2]] = NUL
  /\ \A i \in (w[1] - 1)..(w[2] - 1) : f[i] = b[i]

(* What holds between the rounds of _shell_dispatch: f is the buffer, g    *)
(* the pointers to the words in front of p.                                *)
Scanned(b, len, f, g, p) ==
  /\ f \in [0..LastCell -> Cells] /\ g \in Seq(Nat) /\ AtGap(b, len, p)
  /\ \A i \in p..len : f[i] = b[i]
  /\ Len(g) = Cardinality(Before(b, len, p))
  /\ \A w \in Before(b, len, p) : Noted(b, len, f, g, w)

LEMMA LineCells ==
  ASSUME NEW b, NEW len, IsLine(b, len)
  PROVE  /\ b[len] = NUL
         /\ \A i \in 0..(len - 1) : b[i] \in Cells /\ b[i] # NUL /\ (b[i] \in Blank <=> b[i] = " ")
<1>1. b[len] = NUL /\ \A i \in 0..(len - 1) : b[i] \in LineChar
  BY Zenon DEF IsLine
<1>2. NUL \notin LineChar /\ \A c \in LineChar : c \in Blank <=> c = " "
  BY CharsDiffer, Zenon
<1>3. \A c \in LineChar : c \in Cells
  BY DEF Cells
<1> QED BY <1>1, <1>2, <1>3, Zenon

(* A round finds the next word, or that there is none.                     *)
Found(b, len, f, p, a) ==
  \/ a = len /\ f[a] = NUL /\ AllBlank(b, p, len)
  \/ f[a] # NUL /\ Token(b, len, p, a, TokenEnd(f, a))

LEMMA RoundFinds ==
  ASSUME NEW b, NEW len, IsLine(b, len), NEW f, NEW g, NEW p, Scanned(b, len, f, g, p)
  PROVE  Found(b, len, f, p, SkipBlanks(f, p))
<1>0. /\ len \in Nat /\ LastCell \in Nat /\ len \in 0..LastCell /\ p \in 0..len
      /\ f \in [0..LastCell -> Cells] /\ (\A i \in p..len : f[i] = b[i])
  <2>1. p \in 0..len /\ f \in [0..LastCell -> Cells] /\ (\A i \in p..len : f[i] = b[i])
    BY Zenon DEF Scanned, AtGap
  <2> QED BY <2>1, LenNat
<1>1. f[len] = NUL
  <2>1. len \in p..len
    BY <1>0
  <2> QED BY <1>0, <2>1, LineCells
<1>2. PICK a \in p..len : a = SkipBlanks(f, p) /\ Finds(f, p, len, Cells \ Blank, a)
  BY <1>0, <1>1, SkipIs DEF Finds
<1>b. \A k \in p..(a - 1) : b[k] = " "
  <2> SUFFICES ASSUME NEW k \in p..(a - 1) PROVE b[k] = " "
    OBVIOUS
  <2>1. k \in p..len /\ k \in 0..(len - 1)
    BY <1>0
  <2>2. f[k] = b[k] /\ f[k] \notin Cells \ Blank
    BY <1>0, <1>2, <2>1, Zenon DEF Finds
  <2>3. b[k] \in Cells /\ (b[k] \in Blank <=> b[k] = " ")
    BY <2>1, LineCells, Zenon
  <2> QED BY <2>2, <2>3, Zenon
<1>3. CASE a = len
  <2>1. AllBlank(b, p, len)
    BY <1>3, <1>b, Zenon DEF AllBlank
  <2> QED BY <1>1, <1>2, <1>3, <2>1, Zenon DEF Found
<1>4. CASE a # len
  <2>1. a \in p..(len - 1) /\ a \in 0..(len - 1) /\ a \in 0..len
    BY <1>0, <1>4
  <2>2. f[a] = b[a] /\ f[a] \notin Blank
    BY <1>0, <1>2, <2>1, Zenon DEF Finds
  <2>3. f[a] # NUL
    BY <2>1, <2>2, LineCells, Zenon
  <2>4. PICK e \in a..len : e = TokenEnd(f, a) /\ Finds(f, a, len, Blank \cup {NUL}, e)
    BY <1>0, <1>1, <2>1, EndIs DEF Finds
  <2>5. f[e] \in Blank \cup {NUL} /\ \A k \in a..(e - 1) : f[k] \notin Blank \cup {NUL}
    BY <2>4, Zenon DEF Finds
  <2>6. e # a
    BY <2>2, <2>3, <2>5
  <2>7. e \in (a + 1)..len
    BY <1>0, <2>1, <2>6
  <2>8. ASSUME NEW k \in a..(e - 1) PROVE b[k] # " "
    <3>1. k \in p..len
      BY <1>0, <2>1
    <3>2. f[k] = b[k] /\ f[k] \notin Blank
      BY <1>0, <2>5, <3>1
    <3> QED BY <3>2, CharsDiffer, Zenon
  <2>9. e = len \/ b[e] = " "
    <3> SUFFICES ASSUME e # len PROVE b[e] = " "
      OBVIOUS
    <3>1. e \in 0..(len - 1) /\ e \in p..len
      BY <1>0, <2>1
    <3>2. f[e] = b[e]
      BY <1>0, <3>1
    <3>3. b[e] # NUL /\ (b[e] \in Blank <=> b[e] = " ")
      BY <3>1, LineCells, Zenon
    <3> QED BY <2>5, <3>2, <3>3
  <2>10. Token(b, len, p, a, e)
    BY <1>b, <2>1, <2>7, <2>8, <2>9, Zenon DEF Token
  <2> QED BY <1>2, <2>3, <2>4, <2>10, Zenon DEF Found
<1> QED BY <1>3, <1>4

Scan(f, g, p) == [buf |-> f, argv |-> g, p |-> p]

LEMMA ScanIs ==
  ASSUME NEW f, NEW g, NEW p
  PROVE  Scan(f, g, p).buf = f /\ Scan(f, g, p).argv = g /\ Scan(f, g, p).p = p
BY DEF Scan

(* The round that finds the word from a to e.                              *)
LEMMA RoundNotes ==
  ASSUME NEW b, NEW len, IsLine(b, len), NEW f, NEW g, NEW p, Scanned(b, len, f, g, p),
         NEW a, NEW e, Token(b, len, p, a, e)
  PROVE  /\ Scanned(b, len, [f EXCEPT ![e] = NUL], Append(g, a), Behind(len, e))
         /\ Behind(len, e) = IF f[e] = NUL THEN e ELSE e + 1
<1> DEFINE W == LineWords(b, len)
           v == <<a + 1, e>>
           q == Behind(len, e)
           f2 == [f EXCEPT ![e] = NUL]
           g2 == Append(g, a)
<1>0. /\ AtGap(b, len, p) /\ f \in [0..LastCell -> Cells] /\ g \in Seq(Nat)
      /\ (\A i \in p..len : f[i] = b[i]) /\ Len(g) = Cardinality(Before(b, len, p))
      /\ \A w \in Before(b, len, p) : Noted(b, len, f, g, w)
  BY Zenon DEF Scanned
<1>1. /\ len \in Nat /\ p \in 0..len /\ a \in 0..(len - 1) /\ e \in 1..len
      /\ p <= a /\ a < e /\ a + 1 \in 1..len
  BY <1>0, TokenNat, Zenon
<1>2. len \in 0..LastCell /\ LastCell \in Nat
  BY LenNat
<1>3. /\ AtGap(b, len, q) /\ Before(b, len, q) = Before(b, len, p) \cup {v}
      /\ Cardinality(Before(b, len, q)) = Len(g) + 1 /\ Rank(W, v) = Len(g) + 1
  <2>1. AtGap(b, len, p)
    BY <1>0
  <2>2. /\ AtGap(b, len, q) /\ Before(b, len, q) = Before(b, len, p) \cup {v}
        /\ Cardinality(Before(b, len, q)) = Cardinality(Before(b, len, p)) + 1
        /\ Rank(W, v) = Cardinality(Before(b, len, p)) + 1
    BY <2>1, OneMore
  <2>3. Len(g) = Cardinality(Before(b, len, p))
    BY <1>0
  <2> HIDE DEF W, v, q
  <2> QED BY <2>2, <2>3, Zenon
<1>4. e \in 0..LastCell /\ f2 \in [0..LastCell -> Cells] /\ f2[e] = NUL
      /\ \A i \in 0..LastCell : i # e => f2[i] = f[i]
  <2>1. NUL \in Cells
    BY DEF Cells
  <2> QED BY <1>0, <1>1, <1>2, <2>1
<1>5. /\ g2 \in Seq(Nat) /\ Len(g2) = Len(g) + 1 /\ g2[Len(g) + 1] = a /\ Len(g) \in Nat
      /\ \A k \in 1..Len(g) : k \in 1..Len(g2) /\ g2[k] = g[k]
  BY <1>0, <1>1
<1>6. b[len] = NUL /\ \A i \in 0..(len - 1) : b[i] # NUL
  BY LineCells, Zenon
<1>7. q = IF f[e] = NUL THEN e ELSE e + 1
  <2>1. f[e] = b[e]
    BY <1>0, <1>1
  <2>2. e # len => e \in 0..(len - 1)
    BY <1>1
  <2> QED BY <1>6, <2>1, <2>2 DEF Behind
<1>8. ASSUME NEW i \in q..len PROVE f2[i] = b[i]
  <2>1. q \in e..len /\ (q = e => e = len)
    BY <1>1 DEF Behind
  <2> HIDE DEF q, f2
  <2>2. i \in p..len /\ i \in 0..LastCell /\ (i = e => i = len)
    BY <1>1, <1>2, <2>1
  <2> QED BY <1>0, <1>4, <1>6, <2>2
<1>9. ASSUME NEW w \in Before(b, len, p) PROVE Noted(b, len, f2, g2, w)
  <2>1. PICK k : /\ k = Rank(W, w) /\ k \in 1..Len(g) /\ g[k] = w[1] - 1 /\ f[w[2]] = NUL
                 /\ \A i \in (w[1] - 1)..(w[2] - 1) : f[i] = b[i]
    BY <1>0, Zenon DEF Noted
  <2>2. PICK x \in 1..len, y \in 1..len : w[1] = x /\ w[2] = y /\ y <= p
    BY DEF Before, LineWords
  <2> HIDE DEF f2, g2
  <2>3. y \in 0..LastCell /\ y # e /\ \A i \in (x - 1)..(y - 1) : i \in 0..LastCell /\ i # e
    BY <1>1, <1>2, <2>2
  <2>4. f2[w[2]] = NUL /\ \A i \in (w[1] - 1)..(w[2] - 1) : f2[i] = b[i]
    BY <1>4, <2>1, <2>2, <2>3
  <2>5. k \in 1..Len(g2) /\ g2[k] = w[1] - 1
    BY <1>5, <2>1
  <2> QED BY <2>1, <2>4, <2>5, Zenon DEF Noted
<1>10. Noted(b, len, f2, g2, v)
  <2>1. v[1] = a + 1 /\ v[2] = e /\ v[1] - 1 = a
    BY <1>1
  <2> HIDE DEF f2, g2, v
  <2>2. Len(g) + 1 \in 1..Len(g2) /\ g2[Len(g) + 1] = v[1] - 1
    BY <1>5, <2>1
  <2>3. ASSUME NEW i \in (v[1] - 1)..(v[2] - 1) PROVE f2[i] = b[i]
    <3>1. i \in a..(e - 1)
      BY <2>1
    <3>2. i \in p..len /\ i \in 0..LastCell /\ i # e
      BY <1>1, <1>2, <3>1
    <3> QED BY <1>0, <1>4, <3>2
  <2>4. f2[v[2]] = NUL
    BY <1>4, <2>1
  <2> QED BY <1>3, <2>2, <2>3, <2>4, Zenon DEF Noted
<1> HIDE DEF f2, g2, v, q
<1>11. \A w \in Before(b, len, q) : Noted(b, len, f2, g2, w)
  BY <1>3, <1>9, <1>10
<1>12. Len(g2) = Cardinality(Before(b, len, q))
  BY <1>3, <1>5, Zenon
<1>13. Scanned(b, len, f2, g2, q)
  BY <1>3, <1>4, <1>5, <1>8, <1>11, <1>12, Zenon DEF Scanned
<1> QED BY <1>7, <1>13 DEF f2, g2, q

(* Every round keeps what holds between the rounds, and either notes one   *)
(* word more or has come to the end.                                       *)
Rounded(b, len, g, s) ==
  /\ Scanned(b, len, s.buf, s.argv, s.p)
  /\ s = Scan(s.buf, s.argv, s.p)
  /\ \/ Len(s.argv) = Len(g) + 1
     \/ s.argv = g /\ Before(b, len, s.p) = LineWords(b, len)

LEMMA RoundIs ==
  ASSUME NEW b, NEW len, IsLine(b, len), NEW f, NEW g, NEW p, Scanned(b, len, f, g, p)
  PROVE  Rounded(b, len, g, NextToken(Scan(f, g, p)))
<1> DEFINE s == Scan(f, g, p)
<1>s. s.buf = f /\ s.argv = g /\ s.p = p
  BY DEF Scan
<1>1. PICK a : a = SkipBlanks(f, p) /\ Found(b, len, f, p, a)
  BY RoundFinds
<1>2. CASE f[a] = NUL
  <2>1. a = len /\ AllBlank(b, p, len)
    BY <1>1, <1>2, Zenon DEF Found
  <2>2. NextToken(s) = Scan(f, g, a)
    BY <1>1, <1>2 DEF NextToken, Scan
  <2>a. /\ AtGap(b, len, p) /\ f \in [0..LastCell -> Cells] /\ g \in Seq(Nat)
        /\ (\A i \in p..len : f[i] = b[i]) /\ Len(g) = Cardinality(Before(b, len, p))
        /\ \A w \in Before(b, len, p) : Noted(b, len, f, g, w)
    BY Zenon DEF Scanned
  <2>3. Before(b, len, p) = LineWords(b, len) /\ Before(b, len, a) = LineWords(b, len)
    BY <2>1, <2>a, NoneLeft, Zenon
  <2>4. len \in Nat /\ p \in 0..len
    BY <2>a, LenNat DEF AtGap
  <2>5. AtGap(b, len, a) /\ \A i \in a..len : i \in p..len
    <3>1. a \in 0..len
      BY <2>1, <2>4
    <3>2. AtGap(b, len, a)
      BY <2>1, <3>1, Zenon DEF AtGap
    <3> QED BY <2>1, <2>4, <3>2
  <2>6. \A i \in a..len : f[i] = b[i]
    BY <2>a, <2>5, Zenon
  <2>7. Len(g) = Cardinality(Before(b, len, a))
    BY <2>a, <2>3, Zenon
  <2>8. \A w \in Before(b, len, a) : Noted(b, len, f, g, w)
    BY <2>a, <2>3, Zenon
  <2>9. Scanned(b, len, f, g, a)
    BY <2>a, <2>5, <2>6, <2>7, <2>8, Zenon DEF Scanned
  <2>10. Scan(f, g, a).buf = f /\ Scan(f, g, a).argv = g /\ Scan(f, g, a).p = a
    BY ScanIs
  <2> QED BY <2>2, <2>3, <2>9, <2>10, Zenon DEF Rounded
<1>3. CASE f[a] # NUL
  <2> DEFINE e == TokenEnd(f, a)
             q == IF f[e] = NUL THEN e ELSE e + 1
             f2 == [f EXCEPT ![e] = NUL]
             g2 == Append(g, a)
  <2>1. Token(b, len, p, a, e)
    BY <1>1, <1>3, Zenon DEF Found
  <2>2. NextToken(s) = Scan(f2, g2, q)
    BY <1>1, <1>3 DEF NextToken, Scan
  <2>3. Scanned(b, len, f2, g2, q)
    <3> HIDE DEF e
    <3>1. Scanned(b, len, f2, g2, Behind(len, e)) /\ Behind(len, e) = q
      BY <2>1, RoundNotes
    <3> QED BY <3>1, Zenon
  <2>4. Len(g2) = Len(g) + 1
    <3>1. g \in Seq(Nat)
      BY Zenon DEF Scanned
    <3> HIDE DEF e
    <3> QED BY <3>1
  <2> HIDE DEF e, f2, g2, q
  <2>5. Scan(f2, g2, q).buf = f2 /\ Scan(f2, g2, q).argv = g2 /\ Scan(f2, g2, q).p = q
    BY ScanIs
  <2> QED BY <2>2, <2>3, <2>4, <2>5, Zenon DEF Rounded
<1> QED BY <1>2, <1>3

Rounds == CONFIG_SHELL_MAX_ARGS - 1

LEMMA RoundsNat == Rounds \in Nat
<1>1. CONFIG_SHELL_MAX_ARGS \in Nat \ {0}
  BY ShellAssumption, Zenon
<1> QED BY <1>1 DEF Rounds

(* The states between rounds.                                              *)
Scans(b, len) ==
  {s \in [buf : [0..LastCell -> Cells], argv : Seq(Nat), p : Nat] : Scanned(b, len, s.buf, s.argv, s.p)}

LEMMA ScansAre ==
  ASSUME NEW b, NEW len, IsLine(b, len), NEW s \in Scans(b, len)
  PROVE  s = Scan(s.buf, s.argv, s.p) /\ Scanned(b, len, s.buf, s.argv, s.p)
BY DEF Scans, Scan

LEMMA ScansHave ==
  ASSUME NEW b, NEW len, IsLine(b, len), NEW f, NEW g, NEW p, Scanned(b, len, f, g, p)
  PROVE  Scan(f, g, p) \in Scans(b, len)
<1>1. f \in [0..LastCell -> Cells] /\ g \in Seq(Nat) /\ p \in 0..len
  BY Zenon DEF Scanned, AtGap
<1>2. len \in Nat
  BY LenNat
<1>3. p \in Nat
  BY <1>1, <1>2
<1>4. Scan(f, g, p) \in [buf : [0..LastCell -> Cells], argv : Seq(Nat), p : Nat]
  BY <1>1, <1>3 DEF Scan
<1>5. Scan(f, g, p).buf = f /\ Scan(f, g, p).argv = g /\ Scan(f, g, p).p = p
  BY ScanIs
<1> QED BY <1>4, <1>5, Zenon DEF Scans

LEMMA FirstScan ==
  ASSUME NEW b, NEW len, IsLine(b, len)
  PROVE  Scanned(b, len, b, <<>>, 0)
<1>1. len \in Nat /\ b \in [0..LastCell -> Cells]
  <2>1. b \in [0..LastCell -> Cells]
    BY Zenon DEF IsLine
  <2> QED BY <2>1, LenNat
<1>2. AtGap(b, len, 0)
  <2>1. 0 \in 0..len
    BY <1>1
  <2> QED BY <2>1, Zenon DEF AtGap
<1>3. Before(b, len, 0) = {}
  <2>1. ASSUME NEW w \in LineWords(b, len) PROVE ~(w[2] <= 0)
    BY <1>1 DEF LineWords
  <2> QED BY <2>1 DEF Before
<1>4. <<>> \in Seq(Nat) /\ Len(<<>>) = 0
  OBVIOUS
<1>5. Len(<<>>) = Cardinality(Before(b, len, 0))
  BY <1>3, <1>4, FS_EmptySet, Zenon
<1> QED BY <1>1, <1>2, <1>3, <1>4, <1>5, Zenon DEF Scanned

(* The rounds are over, or they have found all words.                      *)
Split(b, len, f, g, p) ==
  /\ Scanned(b, len, f, g, p)
  /\ Len(g) <= Rounds /\ (Len(g) = Rounds \/ Before(b, len, p) = LineWords(b, len))

Strings(f, g) == [buf |-> f, argv |-> [i \in DOMAIN g |-> StringAt(f, g[i])]]

LEMMA TokensAre ==
  ASSUME NEW b, NEW len, IsLine(b, len)
  PROVE  \E f, g, p : Split(b, len, f, g, p) /\ Tokens(b) = Strings(f, g)
<1> DEFINE S == Scans(b, len)
           s0 == Scan(b, <<>>, 0)
           F(w) == [n \in 0..Rounds |-> IF n = 0 THEN s0 ELSE NextToken(w[n - 1])]
           h == CHOOSE w : w = F(w)
           G == [x \in (1..Rounds) \X S |-> NextToken(x[2])]
<1>0. Rounds \in Nat
  BY RoundsNat
<1>1. s0 \in S
  BY FirstScan, ScansHave
<1>2. ASSUME NEW s \in S PROVE NextToken(s) \in S /\ Rounded(b, len, s.argv, NextToken(s))
  <2>1. s = Scan(s.buf, s.argv, s.p) /\ Scanned(b, len, s.buf, s.argv, s.p)
    BY ScansAre
  <2>2. Rounded(b, len, s.argv, NextToken(s))
    <3>1. Rounded(b, len, s.argv, NextToken(Scan(s.buf, s.argv, s.p)))
      BY <2>1, RoundIs, Zenon
    <3> QED BY <2>1, <3>1, Zenon
  <2>3. PICK t : t = NextToken(s)
    OBVIOUS
  <2>4. t = Scan(t.buf, t.argv, t.p) /\ Scanned(b, len, t.buf, t.argv, t.p)
    BY <2>2, <2>3, Zenon DEF Rounded
  <2>5. Scan(t.buf, t.argv, t.p) \in S
    BY <2>4, ScansHave, Zenon
  <2> QED BY <2>2, <2>3, <2>4, <2>5, Zenon
<1> HIDE DEF S, s0
<1>3. G \in [(1..Rounds) \X S -> S]
  BY <1>2
<1>4. PICK q : Recurses(Rounds, S, s0, G, q)
  BY <1>0, <1>1, <1>3, Recursion
<1>5. q \in [0..Rounds -> S] /\ q[0] = s0
  BY <1>4, Zenon DEF Recurses
<1>6. ASSUME NEW k \in 1..Rounds PROVE q[k] = NextToken(q[k - 1]) /\ k - 1 \in 0..Rounds
  <2>1. k - 1 \in 0..Rounds
    BY <1>0
  <2>2. PICK y \in S : y = q[k - 1]
    BY <1>5, <2>1
  <2>3. q[k] = G[<<k, y>>]
    BY <1>4, <2>2 DEF Recurses
  <2> QED BY <2>1, <2>2, <2>3
<1>7. q = F(q)
  <2>1. \A k \in 0..Rounds : k = 0 \/ k \in 1..Rounds
    BY <1>0
  <2> QED BY <1>5, <1>6, <2>1
<1>8. h = F(h)
  BY <1>7, Zenon
<1>9. Tokens(b) = Strings(h[Rounds].buf, h[Rounds].argv)
  BY DEF Tokens, Strings, Rounds, s0, Scan
<1> HIDE DEF h, G
<1>10. h[0] = s0 /\ \A k \in 1..Rounds : h[k] = NextToken(h[k - 1])
  <2>1. \A k \in 1..Rounds : k \in 0..Rounds /\ k # 0
    BY <1>0
  <2>2. 0 \in 0..Rounds
    BY <1>0
  <2> QED BY <1>8, <2>1, <2>2
<1> HIDE DEF F
<1> DEFINE Fine(k) == /\ h[k] \in S /\ Len(h[k].argv) \in 0..k
                      /\ (Len(h[k].argv) = k \/ Before(b, len, h[k].p) = LineWords(b, len))
           T == {k \in Nat : Fine(k)}
<1>11. 0 \in T
  <2>1. h[0] \in S
    BY <1>1, <1>10, Zenon
  <2>2. h[0].argv = <<>> /\ Len(<<>>) = 0
    BY <1>10 DEF s0, Scan
  <2> QED BY <2>1, <2>2
<1>12. ASSUME NEW k \in 1..Rounds, k - 1 \in T PROVE k \in T
  <2>1. Fine(k - 1) /\ k - 1 \in Nat /\ k \in Nat
    BY <1>0, <1>12
  <2>2. PICK s \in S : s = h[k - 1]
    BY <2>1
  <2>3. PICK t \in S : t = h[k] /\ Rounded(b, len, s.argv, t)
    BY <1>2, <1>10, <2>2
  <2>4. CASE Len(t.argv) = Len(s.argv) + 1
    <3>1. CASE Len(s.argv) = k - 1
      <4>1. Len(t.argv) = k
        BY <2>1, <2>4, <3>1
      <4> QED BY <2>1, <2>3, <4>1
    <3>2. CASE Len(s.argv) # k - 1
      <4>1. Before(b, len, s.p) = LineWords(b, len)
        BY <2>1, <2>2, <3>2
      <4>2. /\ Scanned(b, len, t.buf, t.argv, t.p) /\ Scanned(b, len, s.buf, s.argv, s.p)
        BY ScansAre DEF S
      <4>3. Len(t.argv) = Cardinality(Before(b, len, t.p)) /\ Len(s.argv) = Cardinality(LineWords(b, len))
        BY <4>1, <4>2, Zenon DEF Scanned
      <4>4. Before(b, len, t.p) \in SUBSET LineWords(b, len)
        BY DEF Before
      <4>5. Cardinality(Before(b, len, t.p)) <= Cardinality(LineWords(b, len))
        BY <4>4, WordsFinite, FS_Subset, Zenon
      <4>6. Len(s.argv) \in Nat
        BY <2>1, <2>2
      <4> QED BY <2>4, <4>3, <4>5, <4>6
    <3> QED BY <3>1, <3>2
  <2>5. CASE t.argv = s.argv /\ Before(b, len, t.p) = LineWords(b, len)
    <3>1. Len(t.argv) \in 0..k
      BY <2>1, <2>2, <2>5
    <3> QED BY <2>1, <2>3, <2>5, <3>1
  <2> QED BY <2>3, <2>4, <2>5, Zenon DEF Rounded
<1> HIDE DEF T
<1>13. Rounds \in T
  <2>1. \A k \in 0..Rounds : k \in T
    BY <1>0, <1>11, <1>12, Upward
  <2>2. Rounds \in 0..Rounds
    BY <1>0
  <2> QED BY <2>1, <2>2, Zenon
<1>14. Fine(Rounds)
  BY <1>13 DEF T
<1>15. PICK s \in S : s = h[Rounds]
  BY <1>14
<1>16. Scanned(b, len, s.buf, s.argv, s.p)
  BY ScansAre DEF S
<1>17. Len(s.argv) <= Rounds /\ (Len(s.argv) = Rounds \/ Before(b, len, s.p) = LineWords(b, len))
  BY <1>0, <1>14, <1>15
<1>18. Split(b, len, s.buf, s.argv, s.p)
  BY <1>16, <1>17, Zenon DEF Split
<1> QED BY <1>9, <1>15, <1>18, Zenon

(* As many words as fit in front of the NULL pointer.                      *)
LEMMA SplitCounts ==
  ASSUME NEW b, NEW len, IsLine(b, len), NEW f, NEW g, NEW p, Split(b, len, f, g, p)
  PROVE  /\ Cardinality(LineWords(b, len)) \in Nat /\ g \in Seq(Nat) /\ f \in [0..LastCell -> Cells]
         /\ Len(g) = IF Cardinality(LineWords(b, len)) < CONFIG_SHELL_MAX_ARGS
                     THEN Cardinality(LineWords(b, len)) ELSE CONFIG_SHELL_MAX_ARGS - 1
<1> DEFINE W == LineWords(b, len)
           B == Before(b, len, p)
<1>1. /\ f \in [0..LastCell -> Cells] /\ g \in Seq(Nat) /\ Len(g) = Cardinality(B)
      /\ Len(g) <= Rounds /\ (Len(g) = Rounds \/ B = W)
  BY Zenon DEF Split, Scanned
<1>2. IsFiniteSet(W) /\ B \in SUBSET W
  BY WordsFinite DEF Before
<1>3. Cardinality(W) \in Nat
  BY <1>2, FS_CardinalityType, Zenon
<1>4. Cardinality(B) <= Cardinality(W)
  BY <1>2, FS_Subset, Zenon
<1>5. CONFIG_SHELL_MAX_ARGS \in Nat \ {0}
  BY ShellAssumption, Zenon
<1>6. B = W => Cardinality(B) = Cardinality(W)
  OBVIOUS
<1> HIDE DEF W, B
<1>7. Len(g) \in Nat
  BY <1>1
<1>8. Len(g) = IF Cardinality(W) < CONFIG_SHELL_MAX_ARGS THEN Cardinality(W) ELSE CONFIG_SHELL_MAX_ARGS - 1
  <2>1. PICK n \in Nat, m \in Nat \ {0}, x \in Nat :
            n = Cardinality(W) /\ m = CONFIG_SHELL_MAX_ARGS /\ x = Len(g)
    BY <1>3, <1>5, <1>7
  <2>2. x <= m - 1 /\ x <= n /\ (x = m - 1 \/ x = n)
    BY <1>1, <1>4, <1>6, <2>1 DEF Rounds
  <2> QED BY <2>1, <2>2
<1> QED BY <1>1, <1>3, <1>8 DEF W

(* Only words that are done have a rank in argv.                           *)
LEMMA RankDone ==
  ASSUME NEW b, NEW len, IsLine(b, len), NEW f, NEW g, NEW p, Scanned(b, len, f, g, p),
         NEW w \in LineWords(b, len)
  PROVE  /\ Rank(LineWords(b, len), w) \in Nat \ {0}
         /\ Rank(LineWords(b, len), w) <= Len(g) => w \in Before(b, len, p)
<1> DEFINE W == LineWords(b, len)
           B == Before(b, len, p)
           U == {v \in W : v[1] <= w[1]}
<1>0. AtGap(b, len, p) /\ Len(g) = Cardinality(B) /\ len \in Nat /\ p \in 0..len
  <2>1. AtGap(b, len, p) /\ Len(g) = Cardinality(B)
    BY Zenon DEF Scanned
  <2> QED BY <2>1, LenNat DEF AtGap
<1>1. IsFiniteSet(W)
  BY WordsFinite
<1>2. \A v \in W : v[1] \in 1..len /\ v[2] \in 1..len /\ v[1] <= v[2]
  BY DEF LineWords, WordAt
<1>3. w \in U /\ U \in SUBSET W
  BY <1>0, <1>2
<1>4. IsFiniteSet(U) /\ Cardinality(U) \in Nat /\ Cardinality(U) # 0
  <2>1. IsFiniteSet(U)
    BY <1>1, <1>3, FS_Subset, Zenon
  <2>2. U # {}
    BY <1>3
  <2> HIDE DEF U
  <2> QED BY <2>1, <2>2, FS_CardinalityType, FS_EmptySet, Zenon
<1>5. ASSUME w \notin B PROVE ~(Cardinality(U) <= Len(g))
  <2>1. w[1] > p
    <3>1. ~(w[2] <= p)
      BY <1>5 DEF Before
    <3> QED BY <1>0, <3>1, Gap
  <2>2. B \in SUBSET W /\ \A v \in B : v[1] <= w[1]
    <3>1. \A v \in B : v \in W /\ v[2] <= p
      BY DEF Before
    <3>2. \A v \in B : v[1] <= w[1]
      BY <1>0, <1>2, <2>1, <3>1
    <3> QED BY <3>1, <3>2
  <2>3. B \cup {w} \in SUBSET U
    BY <1>3, <2>2
  <2>4. IsFiniteSet(B)
    BY <1>1, <2>2, FS_Subset, Zenon
  <2>5. Cardinality(B \cup {w}) = Cardinality(B) + 1
    BY <1>5, <2>4, FS_AddElement, Zenon
  <2>6. Cardinality(B \cup {w}) <= Cardinality(U)
    BY <1>4, <2>3, FS_Subset, Zenon
  <2>7. Cardinality(B) \in Nat
    BY <2>4, FS_CardinalityType, Zenon
  <2> QED BY <1>0, <1>4, <2>5, <2>6, <2>7
<1>6. Rank(W, w) = Cardinality(U)
  BY DEF Rank
<1> QED BY <1>4, <1>5, <1>6

(* And its string is the word.                                             *)
LEMMA ArgvIs ==
  ASSUME NEW b, NEW len, IsLine(b, len), NEW f, NEW g, NEW p, Scanned(b, len, f, g, p),
         NEW w \in LineWords(b, len), Rank(LineWords(b, len), w) <= Len(g)
  PROVE  /\ Rank(LineWords(b, len), w) \in 1..Len(g)
         /\ StringAt(f, g[Rank(LineWords(b, len), w)]) = SubSeq(LineOf(b, len), w[1], w[2])
<1>1. w \in Before(b, len, p)
  BY RankDone
<1>2. Noted(b, len, f, g, w) /\ f \in [0..LastCell -> Cells]
  BY <1>1, Zenon DEF Scanned
<1>3. PICK k : /\ k = Rank(LineWords(b, len), w) /\ k \in 1..Len(g)
               /\ g[k] = w[1] - 1 /\ f[w[2]] = NUL
               /\ \A i \in (w[1] - 1)..(w[2] - 1) : f[i] = b[i]
  BY <1>2, Zenon DEF Noted
<1>4. PICK x \in 1..len, y \in 1..len : w[1] = x /\ w[2] = y /\ x <= y
  BY DEF LineWords, WordAt
<1>5. len \in Nat /\ len \in 0..LastCell /\ LastCell \in Nat
  BY LenNat
<1>6. \A i \in (x - 1)..(y - 1) : i \in 0..(len - 1)
  BY <1>5
<1>7. \A i \in (x - 1)..(y - 1) : f[i] = b[i]
  BY <1>3, <1>4
<1>8. \A i \in (x - 1)..(y - 1) : f[i] # NUL
  BY <1>6, <1>7, LineCells, Zenon
<1>9. x - 1 \in 0..LastCell /\ y \in (x - 1)..LastCell /\ f[y] = NUL
  BY <1>3, <1>4, <1>5
<1>10. StringAt(f, x - 1) = [i \in 1..(y - (x - 1)) |-> f[(x - 1) + i - 1]]
  BY <1>2, <1>8, <1>9, StringIs
<1> DEFINE s == LineOf(b, len)
<1>11. s \in Seq(LineChar) /\ Len(s) = len /\ \A i \in 1..len : s[i] = b[i - 1] /\ s[i] \in LineChar
  <2>1. s \in Seq(LineChar) /\ Len(s) = len
    BY WordsAre, Zenon
  <2>2. \A i \in 1..len : s[i] = b[i - 1]
    BY DEF LineOf
  <2> HIDE DEF s
  <2> QED BY <2>1, <2>2
<1> HIDE DEF s
<1>12. /\ SubSeq(s, x, y) \in Seq(LineChar)
       /\ Len(SubSeq(s, x, y)) = IF x <= y THEN y - x + 1 ELSE 0
       /\ \A i \in 1..(y - x + 1) : SubSeq(s, x, y)[i] = s[x + i - 1]
  <2>1. x \in Int /\ y \in Int /\ \A i \in x..y : i \in 1..len
    BY <1>5
  <2>2. \A i \in x..y : s[i] \in LineChar
    BY <1>11, <2>1
  <2> QED BY <2>1, <2>2, SubSeqProperties
<1>13. StringAt(f, x - 1) = SubSeq(s, x, y)
  <2>1. PICK t \in Seq(LineChar) : t = SubSeq(s, x, y)
    BY <1>12
  <2>2. Len(t) = y - x + 1 /\ \A i \in 1..(y - x + 1) : t[i] = s[x + i - 1]
    BY <1>4, <1>12, <2>1
  <2>3. t = [i \in 1..(y - x + 1) |-> t[i]]
    BY <2>2
  <2>4. ASSUME NEW i \in 1..(y - x + 1) PROVE f[(x - 1) + i - 1] = t[i]
    <3>1. x + i - 1 \in 1..len /\ x + i - 1 - 1 \in (x - 1)..(y - 1) /\ (x - 1) + i - 1 = x + i - 1 - 1
      BY <1>5
    <3>2. s[x + i - 1] = b[x + i - 1 - 1]
      BY <1>11, <3>1
    <3> QED BY <1>7, <2>2, <3>1, <3>2
  <2>5. y - (x - 1) = y - x + 1
    BY <1>5
  <2>6. StringAt(f, x - 1) = [i \in 1..(y - x + 1) |-> t[i]]
    BY <1>10, <2>4, <2>5
  <2> QED BY <2>1, <2>3, <2>6
<1> QED BY <1>3, <1>4, <1>13 DEF s

Key == LineChar \cup {Erase}

LEMMA AfterKeyIs ==
  ASSUME NEW s \in Seq(LineChar), NEW c \in Key
  PROVE  AfterKey(s, c) \in Seq(LineChar)
<1>1. Len(s) \in Nat /\ \A i \in 1..(Len(s) - 1) : s[i] \in LineChar
  OBVIOUS
<1>2. CASE c = Erase
  <2>1. 1 \in Int /\ Len(s) - 1 \in Int
    BY <1>1
  <2>2. SubSeq(s, 1, Len(s) - 1) \in Seq(LineChar)
    BY <1>1, <2>1, SubSeqProperties
  <2> QED BY <1>2, <2>2, Zenon DEF AfterKey
<1>3. CASE c # Erase
  <2>1. c \in LineChar
    BY <1>3 DEF Key
  <2>2. Append(s, c) \in Seq(LineChar)
    BY <2>1
  <2> QED BY <1>3, <2>2, Zenon DEF AfterKey
<1> QED BY <1>2, <1>3

(* The lines after each of the keys.                                       *)
Edits(ks, h) ==
  /\ h \in [0..Len(ks) -> Seq(LineChar)] /\ h[0] = <<>>
  /\ \A n \in 1..Len(ks) : h[n] = AfterKey(h[n - 1], ks[n])

LEMMA EditedIs ==
  ASSUME NEW ks \in Seq(Key)
  PROVE  \E h : Edits(ks, h) /\ Edited(ks) = h[Len(ks)]
<1> DEFINE S == Seq(LineChar)
           N == Len(ks)
           F(w) == [n \in 0..N |-> IF n = 0 THEN <<>> ELSE AfterKey(w[n - 1], ks[n])]
           p == CHOOSE w : w = F(w)
           G == [x \in (1..N) \X S |-> AfterKey(x[2], ks[x[1]])]
<1>0. N \in Nat /\ <<>> \in S /\ \A n \in 1..N : ks[n] \in Key
  OBVIOUS
<1>1. G \in [(1..N) \X S -> S]
  <2>1. \A x \in (1..N) \X S : AfterKey(x[2], ks[x[1]]) \in S
    <3> TAKE x \in (1..N) \X S
    <3>1. x[2] \in S /\ ks[x[1]] \in Key
      OBVIOUS
    <3> HIDE DEF S
    <3> QED BY <3>1, AfterKeyIs DEF S
  <2> HIDE DEF S, N
  <2> QED BY <2>1
<1> HIDE DEF N
<1>2. PICK q : Recurses(N, S, <<>>, G, q)
  BY <1>0, <1>1, Recursion
<1>3. q \in [0..N -> S] /\ q[0] = <<>>
  BY <1>2, Zenon DEF Recurses
<1>4. ASSUME NEW k \in 1..N PROVE q[k] = AfterKey(q[k - 1], ks[k]) /\ k - 1 \in 0..N
  <2>1. k - 1 \in 0..N
    BY <1>0
  <2>2. PICK y \in S : y = q[k - 1]
    BY <1>3, <2>1
  <2>3. q[k] = G[<<k, y>>]
    BY <1>2, <2>2 DEF Recurses
  <2> HIDE DEF S
  <2> QED BY <2>1, <2>2, <2>3
<1> HIDE DEF S, G
<1>5. q = F(q)
  <2>1. \A k \in 0..N : k = 0 \/ k \in 1..N
    BY <1>0
  <2> QED BY <1>3, <1>4, <2>1
<1>6. p = F(p)
  BY <1>5, Zenon
<1>7. Edited(ks) = p[N]
  BY DEF Edited, N
<1> HIDE DEF p
<1>8. p[0] = <<>> /\ \A k \in 1..N : p[k] = AfterKey(p[k - 1], ks[k])
  <2>1. \A k \in 1..N : k \in 0..N /\ k # 0
    BY <1>0
  <2>2. 0 \in 0..N
    BY <1>0
  <2> QED BY <1>6, <2>1, <2>2
<1> HIDE DEF F
<1> DEFINE T == {k \in Nat : p[k] = q[k]}
<1>9. 0 \in T
  BY <1>3, <1>8
<1>10. \A k \in 1..N : k - 1 \in T => k \in T
  BY <1>0, <1>4, <1>8
<1> HIDE DEF T
<1>11. \A k \in 0..N : k \in T
  BY <1>0, <1>9, <1>10, Upward
<1>12. p[N] = q[N]
  <2>1. N \in 0..N
    BY <1>0
  <2> QED BY <1>11, <2>1 DEF T
<1>13. Edits(ks, q)
  BY <1>3, <1>4, Zenon DEF Edits, N, S
<1> QED BY <1>7, <1>12, <1>13, Zenon DEF N

LEMMA EditedStep ==
  /\ Edited(<<>>) = <<>>
  /\ \A ks \in Seq(Key), c \in Key :
       /\ Edited(ks) \in Seq(LineChar)
       /\ Edited(Append(ks, c)) = AfterKey(Edited(ks), c)
<1>1. Edited(<<>>) = <<>>
  <2>1. <<>> \in Seq(Key) /\ Len(<<>>) = 0
    OBVIOUS
  <2>2. PICK h : Edits(<<>>, h) /\ Edited(<<>>) = h[Len(<<>>)]
    BY <2>1, EditedIs, Zenon
  <2> QED BY <2>1, <2>2, Zenon DEF Edits
<1>2. ASSUME NEW ks \in Seq(Key), NEW c \in Key
      PROVE  Edited(ks) \in Seq(LineChar) /\ Edited(Append(ks, c)) = AfterKey(Edited(ks), c)
  <2> DEFINE N == Len(ks)
             ls == Append(ks, c)
  <2>1. N \in Nat /\ ls \in Seq(Key) /\ Len(ls) = N + 1 /\ ls[N + 1] = c
        /\ \A n \in 1..N : ls[n] = ks[n]
    OBVIOUS
  <2>2. PICK h : Edits(ks, h) /\ Edited(ks) = h[N]
    BY EditedIs
  <2>3. PICK g : Edits(ls, g) /\ Edited(ls) = g[Len(ls)]
    BY <2>1, EditedIs
  <2>4. h \in [0..N -> Seq(LineChar)] /\ h[0] = <<>> /\ \A n \in 1..N : h[n] = AfterKey(h[n - 1], ks[n])
    BY <2>2, Zenon DEF Edits
  <2> HIDE DEF N, ls
  <2>5. g[0] = <<>> /\ \A n \in 1..(N + 1) : g[n] = AfterKey(g[n - 1], ls[n])
    BY <2>1, <2>3 DEF Edits
  <2> DEFINE T == {k \in Nat : h[k] = g[k]}
  <2>6. 0 \in T
    BY <2>4, <2>5
  <2>7. \A k \in 1..N : k - 1 \in T => k \in T
    <3>1. \A k \in 1..N : k \in 1..(N + 1) /\ k \in Nat
      BY <2>1
    <3> QED BY <2>1, <2>4, <2>5, <3>1
  <2> HIDE DEF T
  <2>8. \A k \in 0..N : k \in T
    BY <2>1, <2>6, <2>7, Upward
  <2>9. N \in 0..N /\ N + 1 \in 1..(N + 1) /\ N + 1 - 1 = N
    BY <2>1
  <2>10. h[N] = g[N]
    BY <2>8, <2>9 DEF T
  <2>11. g[N + 1] = AfterKey(g[N], c)
    BY <2>1, <2>5, <2>9
  <2>12. h[N] \in Seq(LineChar)
    BY <2>4, <2>9
  <2> QED BY <2>1, <2>2, <2>3, <2>10, <2>11, <2>12, Zenon DEF ls
<1> QED BY <1>1, <1>2

(* What the command gets.                                                  *)
ArgvOf(b, len, argv) ==
  /\ Len(argv) = IF Cardinality(LineWords(b, len)) < CONFIG_SHELL_MAX_ARGS
                 THEN Cardinality(LineWords(b, len)) ELSE CONFIG_SHELL_MAX_ARGS - 1
  /\ \A w \in LineWords(b, len) :
       Rank(LineWords(b, len), w) <= Len(argv) =>
         argv[Rank(LineWords(b, len), w)] = SubSeq(LineOf(b, len), w[1], w[2])

LEMMA TokensGive ==
  ASSUME NEW b, NEW len, IsLine(b, len)
  PROVE  /\ Tokens(b).buf \in [0..LastCell -> Cells] /\ ArgvOf(b, len, Tokens(b).argv)
         /\ Rounds = 0 => Tokens(b).argv = <<>>
<1>1. PICK f, g, p : Split(b, len, f, g, p) /\ Tokens(b) = Strings(f, g)
  BY TokensAre
<1>2. /\ Cardinality(LineWords(b, len)) \in Nat /\ g \in Seq(Nat) /\ f \in [0..LastCell -> Cells]
      /\ Len(g) = IF Cardinality(LineWords(b, len)) < CONFIG_SHELL_MAX_ARGS
                  THEN Cardinality(LineWords(b, len)) ELSE CONFIG_SHELL_MAX_ARGS - 1
  BY <1>1, SplitCounts, Zenon
<1>3. Scanned(b, len, f, g, p) /\ Len(g) <= Rounds
  BY <1>1, Zenon DEF Split
<1>4. PICK argv : argv = Tokens(b).argv
  OBVIOUS
<1>5. Tokens(b).buf = f /\ argv = [i \in DOMAIN g |-> StringAt(f, g[i])]
  BY <1>1, <1>4 DEF Strings
<1>6. DOMAIN g = 1..Len(g) /\ Len(g) \in Nat
  BY <1>2
<1>7. argv = [i \in 1..Len(g) |-> StringAt(f, g[i])]
  BY <1>5, <1>6, Zenon
<1>8. Len(argv) = Len(g)
  BY <1>6, <1>7
<1>9. ASSUME NEW w \in LineWords(b, len), Rank(LineWords(b, len), w) <= Len(argv)
      PROVE  argv[Rank(LineWords(b, len), w)] = SubSeq(LineOf(b, len), w[1], w[2])
  <2>1. Rank(LineWords(b, len), w) <= Len(g)
    BY <1>8, <1>9
  <2>2. /\ Rank(LineWords(b, len), w) \in 1..Len(g)
        /\ StringAt(f, g[Rank(LineWords(b, len), w)]) = SubSeq(LineOf(b, len), w[1], w[2])
    BY <1>3, <2>1, ArgvIs, Zenon
  <2> QED BY <1>7, <2>2
<1>10. ArgvOf(b, len, argv)
  BY <1>2, <1>8, <1>9, Zenon DEF ArgvOf
<1>11. Rounds = 0 => argv = <<>>
  <2>1. Rounds = 0 => Len(g) = 0
    BY <1>3, <1>6
  <2> QED BY <1>7, <2>1
<1> QED BY <1>2, <1>4, <1>5, <1>10, <1>11, Zenon

LEMMA DispatchGives ==
  ASSUME NEW b, NEW len, IsLine(b, len), Rounds = 0 => last.argv = <<>>
  PROVE  /\ Rounds = 0 => shell_dispatch(b).argv = <<>>
         /\ LineWords(b, len) # {} => ArgvOf(b, len, shell_dispatch(b).argv)
<1>1. PICK argv : argv = Tokens(b).argv /\ ArgvOf(b, len, argv) /\ (Rounds = 0 => argv = <<>>)
  BY TokensGive
<1>2. CASE argv # <<>>
  <2>1. shell_dispatch(b).argv = argv
    BY <1>1, <1>2 DEF shell_dispatch
  <2> QED BY <1>1, <2>1, Zenon
<1>3. CASE argv = <<>>
  <2>1. shell_dispatch(b) = last
    BY <1>1, <1>3 DEF shell_dispatch
  <2> SUFFICES ASSUME LineWords(b, len) # {} PROVE ArgvOf(b, len, last.argv)
    BY <2>1, Zenon
  <2>2. Len(argv) = 0
    BY <1>3
  <2>3. Cardinality(LineWords(b, len)) \in Nat \ {0}
    <3>1. IsFiniteSet(LineWords(b, len))
      BY WordsFinite
    <3>2. Cardinality(LineWords(b, len)) \in Nat
      BY <3>1, FS_CardinalityType, Zenon
    <3>3. Cardinality(LineWords(b, len)) # 0
      BY <3>1, FS_EmptySet, Zenon
    <3> QED BY <3>2, <3>3
  <2>4. Rounds = 0
    <3>1. Len(argv) = IF Cardinality(LineWords(b, len)) < CONFIG_SHELL_MAX_ARGS
                      THEN Cardinality(LineWords(b, len)) ELSE CONFIG_SHELL_MAX_ARGS - 1
      BY <1>1, Zenon DEF ArgvOf
    <3> QED BY <2>2, <2>3, <3>1 DEF Rounds
  <2> QED BY <1>1, <1>3, <2>4, Zenon
<1> QED BY <1>2, <1>3

ShellInv ==
  /\ g_line_len \in 0..LastCell /\ g_line_buf \in [0..LastCell -> Cells] /\ typed \in Seq(Key)
  /\ \A i \in 0..(g_line_len - 1) : g_line_buf[i] \in LineChar
  /\ LineOf(g_line_buf, g_line_len) = Edited(typed)
  /\ Rounds = 0 => last.argv = <<>>

LineShown == [i \in 1..g_line_len |-> g_line_buf[i - 1]] = Edited(typed)

LEMMA ShellInit == vibe_shell_init => ShellInv /\ LineShown
<1> SUFFICES ASSUME vibe_shell_init PROVE ShellInv /\ LineShown
  OBVIOUS
<1>1. g_line_len = 0 /\ typed = <<>> /\ last = [argv |-> <<>>, ran |-> FALSE]
  BY DEF vibe_shell_init
<1>2. g_line_buf \in [0..LastCell -> Cells]
  <2>1. g_line_buf = [i \in 0..LastCell |-> NUL] /\ NUL \in Cells
    BY DEF vibe_shell_init, LastCell, Cells
  <2> QED BY <2>1
<1>3. g_line_len \in 0..LastCell /\ typed \in Seq(Key)
  <2>1. LastCell \in Nat
    BY CharsDiffer, Zenon
  <2> QED BY <1>1, <2>1
<1>4. LineOf(g_line_buf, g_line_len) = Edited(typed)
  <2>1. LineOf(g_line_buf, 0) = <<>>
    BY DEF LineOf
  <2> QED BY <1>1, <2>1, EditedStep
<1>5. \A i \in 0..(g_line_len - 1) : g_line_buf[i] \in LineChar
  BY <1>1
<1>6. last.argv = <<>>
  BY <1>1
<1>7. LineShown
  BY <1>4, Zenon DEF LineShown, LineOf
<1> QED BY <1>2, <1>3, <1>4, <1>5, <1>6, <1>7, Zenon DEF ShellInv

(* Enter.                                                                  *)
LEMMA EnterKeeps ==
  ASSUME ShellInv, Enter
  PROVE  ShellInv' /\ Dispatched
<1>0. /\ g_line_len \in 0..LastCell /\ g_line_buf \in [0..LastCell -> Cells] /\ typed \in Seq(Key)
      /\ \A i \in 0..(g_line_len - 1) : g_line_buf[i] \in LineChar
      /\ LineOf(g_line_buf, g_line_len) = Edited(typed)
      /\ Rounds = 0 => last.argv = <<>>
  BY Zenon DEF ShellInv
<1>n. LastCell \in Nat
  BY CharsDiffer, Zenon
<1> DEFINE len == g_line_len
           b == [g_line_buf EXCEPT ![g_line_len] = NUL]
<1>1. g_line_len' = 0 /\ typed' = <<>>
  BY Zenon DEF Enter
<1>2. /\ g_line_len > 0 => last' = shell_dispatch(b) /\ g_line_buf' = Tokens(b).buf
      /\ ~(g_line_len > 0) => last' = last /\ g_line_buf' = g_line_buf
  BY DEF Enter
<1>3. IsLine(b, len) /\ LineOf(b, len) = LineOf(g_line_buf, len)
  <2>1. b \in [0..LastCell -> Cells] /\ b[len] = NUL /\ \A i \in 0..(len - 1) : b[i] = g_line_buf[i]
    <3>1. NUL \in Cells /\ \A i \in 0..(len - 1) : i \in 0..LastCell /\ i # len
      BY <1>0, <1>n DEF Cells
    <3> QED BY <1>0, <3>1
  <2> HIDE DEF b
  <2>2. \A i \in 1..len : b[i - 1] = g_line_buf[i - 1]
    <3>1. \A i \in 1..len : i - 1 \in 0..(len - 1)
      BY <1>0, <1>n
    <3> QED BY <2>1, <3>1, Zenon
  <2>3. \A i \in 0..(len - 1) : b[i] \in LineChar
    BY <1>0, <2>1
  <2> QED BY <1>0, <2>1, <2>2, <2>3 DEF IsLine, LineOf
<1> HIDE DEF b, len
<1>4. g_line_buf' \in [0..LastCell -> Cells]
  <2>1. Tokens(b).buf \in [0..LastCell -> Cells]
    BY <1>3, TokensGive
  <2> QED BY <1>0, <1>2, <2>1, Zenon
<1>5. /\ Rounds = 0 => shell_dispatch(b).argv = <<>>
      /\ LineWords(b, len) # {} => ArgvOf(b, len, shell_dispatch(b).argv)
  BY <1>0, <1>3, DispatchGives, Zenon
<1>6. Rounds = 0 => last'.argv = <<>>
  BY <1>0, <1>2, <1>5, Zenon
<1>7. ShellInv'
  <2>1. g_line_len' \in 0..LastCell /\ typed' \in Seq(Key)
    BY <1>1, <1>n
  <2>2. \A i \in 0..(g_line_len' - 1) : g_line_buf'[i] \in LineChar
    BY <1>1
  <2>3. LineOf(g_line_buf', g_line_len') = Edited(typed')
    <3>1. LineOf(g_line_buf', 0) = <<>>
      BY DEF LineOf
    <3> QED BY <1>1, <3>1, EditedStep, Zenon
  <2> QED BY <1>4, <1>6, <2>1, <2>2, <2>3, Zenon DEF ShellInv
<1>8. Dispatched
  <2> SUFFICES ASSUME g_line_len > 0, WordsOf(Edited(typed)) # {}
               PROVE  ArgvOf(b, len, last'.argv)
    <3>1. Edited(typed) = LineOf(b, len) /\ WordsOf(Edited(typed)) = LineWords(b, len)
      BY <1>0, <1>3, WordsAre DEF len
    <3> QED BY <3>1, Zenon DEF Dispatched, ArgvOf
  <2>1. WordsOf(Edited(typed)) = LineWords(b, len)
    BY <1>0, <1>3, WordsAre DEF len
  <2> QED BY <1>2, <1>5, <2>1, Zenon
<1> QED BY <1>7, <1>8

(* The line seen, and a key more.                                          *)
LEMMA KeyIs ==
  ASSUME ShellInv, NEW c \in Key, typed' = Append(typed, c)
  PROVE  /\ g_line_len \in 0..LastCell /\ g_line_buf \in [0..LastCell -> Cells] /\ LastCell \in Nat
         /\ \A i \in 0..(g_line_len - 1) : g_line_buf[i] \in LineChar
         /\ LineOf(g_line_buf, g_line_len) \in Seq(LineChar)
         /\ Len(LineOf(g_line_buf, g_line_len)) = g_line_len
         /\ typed' \in Seq(Key) /\ typed' # <<>>
         /\ Edited(typed') = AfterKey(LineOf(g_line_buf, g_line_len), c)
<1>1. /\ g_line_len \in 0..LastCell /\ g_line_buf \in [0..LastCell -> Cells] /\ typed \in Seq(Key)
      /\ \A i \in 0..(g_line_len - 1) : g_line_buf[i] \in LineChar
      /\ LineOf(g_line_buf, g_line_len) = Edited(typed)
  BY Zenon DEF ShellInv
<1>2. LastCell \in Nat
  BY CharsDiffer, Zenon
<1>3. typed' \in Seq(Key) /\ typed' # <<>>
  <2>1. typed' \in Seq(Key) /\ Len(typed') = Len(typed) + 1 /\ Len(typed) \in Nat
    BY <1>1
  <2> QED BY <2>1
<1>4. LineOf(g_line_buf, g_line_len) \in Seq(LineChar) /\ Edited(typed') = AfterKey(LineOf(g_line_buf, g_line_len), c)
  <2>1. Edited(typed) \in Seq(LineChar) /\ Edited(Append(typed, c)) = AfterKey(Edited(typed), c)
    BY <1>1, EditedStep, Zenon
  <2> QED BY <1>1, <2>1, Zenon
<1>5. Len(LineOf(g_line_buf, g_line_len)) = g_line_len
  BY <1>1, <1>2 DEF LineOf
<1> QED BY <1>1, <1>2, <1>3, <1>4, <1>5, Zenon

LEMMA BackspaceKeeps ==
  ASSUME ShellInv, typed' = Append(typed, Erase), Backspace
  PROVE  ShellInv' /\ Dispatched
<1> DEFINE s == LineOf(g_line_buf, g_line_len)
<1>0. Erase \in Key
  BY DEF Key
<1>1. /\ g_line_len \in 0..LastCell /\ g_line_buf \in [0..LastCell -> Cells] /\ LastCell \in Nat
      /\ \A i \in 0..(g_line_len - 1) : g_line_buf[i] \in LineChar
      /\ s \in Seq(LineChar) /\ Len(s) = g_line_len
      /\ typed' \in Seq(Key) /\ typed' # <<>> /\ Edited(typed') = AfterKey(s, Erase)
  BY <1>0, KeyIs
<1>2. /\ g_line_len' = (IF g_line_len > 0 THEN g_line_len - 1 ELSE 0)
      /\ g_line_buf' = g_line_buf /\ last' = last
  BY DEF Backspace
<1>3. PICK n \in Nat : n = g_line_len' /\ n <= g_line_len /\ n \in 0..LastCell
                       /\ (g_line_len > 0 => n = g_line_len - 1) /\ (g_line_len = 0 => n = 0)
  BY <1>1, <1>2
<1>4. AfterKey(s, Erase) = SubSeq(s, 1, g_line_len - 1)
  BY <1>1 DEF AfterKey
<1>5. \A i \in 1..g_line_len : s[i] = g_line_buf[i - 1] /\ s[i] \in LineChar
  <2>1. \A i \in 1..g_line_len : s[i] = g_line_buf[i - 1] /\ i - 1 \in 0..(g_line_len - 1)
    BY <1>1
       DEF LineOf
  <2> HIDE DEF s
  <2> QED BY <1>1, <2>1
<1> HIDE DEF s
<1>6. SubSeq(s, 1, g_line_len - 1) = LineOf(g_line_buf, n)
  <2>1. 1 \in Int /\ g_line_len - 1 \in Int /\ \A i \in 1..(g_line_len - 1) : s[i] \in LineChar
    BY <1>1, <1>5
  <2>2. /\ SubSeq(s, 1, g_line_len - 1) \in Seq(LineChar)
        /\ Len(SubSeq(s, 1, g_line_len - 1)) = (IF 1 <= g_line_len - 1 THEN g_line_len - 1 - 1 + 1 ELSE 0)
        /\ \A i \in 1..(g_line_len - 1 - 1 + 1) : SubSeq(s, 1, g_line_len - 1)[i] = s[1 + i - 1]
    BY <2>1, SubSeqProperties
  <2>3. PICK t \in Seq(LineChar) : t = SubSeq(s, 1, g_line_len - 1)
    BY <2>2
  <2>4. Len(t) = n
    BY <1>1, <1>3, <2>2, <2>3
  <2>5. \A i \in 1..n : t[i] = g_line_buf[i - 1]
    <3>1. \A i \in 1..n : i \in 1..(g_line_len - 1 - 1 + 1) /\ 1 + i - 1 = i /\ i \in 1..g_line_len
      BY <1>1, <1>3
    <3>2. \A i \in 1..n : t[i] = s[i]
      BY <2>2, <2>3, <3>1
    <3> QED BY <1>5, <3>1, <3>2
  <2>6. t = [i \in 1..n |-> t[i]]
    BY <2>4
  <2> QED BY <2>3, <2>5, <2>6 DEF LineOf
<1>7. LineOf(g_line_buf', g_line_len') = Edited(typed')
  BY <1>1, <1>2, <1>3, <1>4, <1>6, Zenon
<1>8. \A i \in 0..(g_line_len' - 1) : g_line_buf'[i] \in LineChar
  <2>1. \A i \in 0..(n - 1) : i \in 0..(g_line_len - 1)
    <3>1. g_line_len \in Nat /\ n \in Nat /\ n <= g_line_len
      BY <1>1, <1>3
    <3> QED BY <3>1
  <2> QED BY <1>1, <1>2, <1>3, <2>1, Zenon
<1>9. Rounds = 0 => last'.argv = <<>>
  BY <1>2, Zenon DEF ShellInv
<1>10. ShellInv'
  BY <1>1, <1>2, <1>3, <1>7, <1>8, <1>9, Zenon DEF ShellInv
<1> QED BY <1>1, <1>10, Zenon DEF Dispatched

LEMMA AppendKeeps ==
  ASSUME ShellInv, NEW c \in LineChar, typed' = Append(typed, c), AppendChar(c)
  PROVE  ShellInv' /\ Dispatched
<1> DEFINE s == LineOf(g_line_buf, g_line_len)
<1>0. c \in Key /\ c # Erase /\ c \in Cells
  <2>1. c # Erase
    BY CharsDiffer, Zenon
  <2> QED BY <2>1 DEF Key, Cells
<1>1. /\ g_line_len \in 0..LastCell /\ g_line_buf \in [0..LastCell -> Cells] /\ LastCell \in Nat
      /\ \A i \in 0..(g_line_len - 1) : g_line_buf[i] \in LineChar
      /\ s \in Seq(LineChar) /\ Len(s) = g_line_len
      /\ typed' \in Seq(Key) /\ typed' # <<>> /\ Edited(typed') = AfterKey(s, c)
  BY <1>0, KeyIs
<1>9. Rounds = 0 => last'.argv = <<>>
  BY Zenon DEF ShellInv, AppendChar
<1>2. CASE g_line_len < CONFIG_SHELL_BUF_SIZE - 1
  <2>1. g_line_buf' = [g_line_buf EXCEPT ![g_line_len] = c] /\ g_line_len' = g_line_len + 1
    BY <1>2 DEF AppendChar
  <2>2. Edited(typed') = Append(s, c)
    BY <1>0, <1>1, <1>2 DEF AfterKey
  <2>3. \A i \in 1..g_line_len : s[i] = g_line_buf[i - 1]
    BY DEF LineOf
  <2> HIDE DEF s
  <2>4. PICK n \in 0..LastCell : n = g_line_len /\ n + 1 \in 0..LastCell
    BY <1>1, <1>2 DEF LastCell
  <2>5. PICK f : f = g_line_buf'
    OBVIOUS
  <2>6. f \in [0..LastCell -> Cells] /\ f[n] = c /\ \A i \in 0..(n - 1) : f[i] = g_line_buf[i] /\ f[i] \in LineChar
    <3>1. \A i \in 0..(n - 1) : i \in 0..LastCell /\ i # n
      BY <1>1
    <3> QED BY <1>0, <1>1, <2>1, <2>4, <2>5, <3>1
  <2>7. Append(s, c) = LineOf(f, n + 1)
    <3>a. s \in Seq(LineChar) /\ Len(s) = g_line_len
      BY <1>1
    <3>b. Append(s, c) \in Seq(LineChar)
      BY <3>a
    <3>1. PICK t \in Seq(LineChar) : t = Append(s, c)
      BY <3>b
    <3>2. Len(t) = n + 1 /\ t[n + 1] = c /\ \A i \in 1..n : t[i] = s[i]
      BY <1>1, <2>4, <3>1
    <3>3. ASSUME NEW i \in 1..(n + 1) PROVE t[i] = f[i - 1]
      <4>1. CASE i = n + 1
        <5>1. i - 1 = n
          BY <1>1, <4>1
        <5> QED BY <2>6, <3>2, <4>1, <5>1, Zenon
      <4>2. CASE i # n + 1
        <5>1. i \in 1..n /\ i - 1 \in 0..(n - 1)
          BY <1>1, <4>2
        <5> QED BY <2>3, <2>4, <2>6, <3>2, <5>1, Zenon
      <4> QED BY <4>1, <4>2
    <3>4. t = [i \in 1..(n + 1) |-> t[i]]
      BY <3>2
    <3> QED BY <3>1, <3>3, <3>4 DEF LineOf
  <2>8. \A i \in 0..(n + 1 - 1) : f[i] \in LineChar
    <3>1. \A i \in 0..(n + 1 - 1) : i = n \/ i \in 0..(n - 1)
      BY <1>1
    <3> QED BY <2>6, <3>1
  <2>9. g_line_len' = n + 1
    BY <2>1, <2>4
  <2>10. ShellInv'
    <3>1. g_line_len' \in 0..LastCell /\ g_line_buf' \in [0..LastCell -> Cells]
      BY <2>4, <2>5, <2>6, <2>9, Zenon
    <3>2. LineOf(g_line_buf', g_line_len') = Edited(typed')
      BY <2>2, <2>5, <2>7, <2>9, Zenon
    <3>3. \A i \in 0..(g_line_len' - 1) : g_line_buf'[i] \in LineChar
      BY <2>5, <2>8, <2>9
    <3> QED BY <1>1, <1>9, <3>1, <3>2, <3>3, Zenon DEF ShellInv
  <2> QED BY <1>1, <2>10, Zenon DEF Dispatched
<1>3. CASE ~(g_line_len < CONFIG_SHELL_BUF_SIZE - 1)
  <2>1. g_line_buf' = g_line_buf /\ g_line_len' = g_line_len
    BY <1>3 DEF AppendChar
  <2>2. Edited(typed') = s
    BY <1>0, <1>1, <1>3 DEF AfterKey
  <2>3. ShellInv'
    BY <1>1, <1>9, <2>1, <2>2, Zenon DEF ShellInv
  <2> QED BY <1>1, <2>3, Zenon DEF Dispatched
<1> QED BY <1>2, <1>3

LEMMA ShellStep ==
  ASSUME ShellInv, [ShellNext]_shellvars
  PROVE  ShellInv' /\ [Dispatched]_shellvars
<1>1. CASE UNCHANGED shellvars
  <2>1. g_line_buf' = g_line_buf /\ g_line_len' = g_line_len /\ last' = last /\ typed' = typed
    BY <1>1 DEF shellvars
  <2>2. ShellInv'
    BY <2>1, Zenon DEF ShellInv
  <2> QED BY <1>1, <2>2
<1>2. ASSUME NEW c \in Word \cup {" ", Newline, Erase, Other}, vibe_shell_process(c)
      PROVE  (ShellInv' /\ Dispatched) \/ UNCHANGED shellvars
  <2>1. CASE c = Newline /\ Enter
    BY <2>1, EnterKeeps
  <2>2. CASE typed' = Append(typed, c) /\ c = Erase /\ Backspace
    BY <2>2, BackspaceKeeps
  <2>3. CASE typed' = Append(typed, c) /\ c \in Word \cup {" "} /\ AppendChar(c)
    BY <2>3, AppendKeeps DEF LineChar
  <2>4. CASE UNCHANGED shellvars
    BY <2>4
  <2> QED BY <1>2, <2>1, <2>2, <2>3, <2>4, Zenon DEF vibe_shell_process
<1>3. CASE ShellNext
  BY <1>1, <1>2, <1>3 DEF ShellNext
<1> QED BY <1>1, <1>3

(* The shell edits the line the user sees, and the command gets its words  *)
(* in order, for any size of buffer and argv and any printable characters. *)
THEOREM LinesDispatched == ShellSpec => ShellSound
<1>1. vibe_shell_init => ShellInv
  BY ShellInit
<1>2. ShellInv /\ [ShellNext]_shellvars => ShellInv' /\ [Dispatched]_shellvars
  BY ShellStep
<1>3. ShellInv => LineShown
  BY Zenon DEF ShellInv, LineShown, LineOf
<1> QED BY <1>1, <1>2, <1>3, PTL DEF ShellSpec, ShellSound, LineShown

=============================================================================
