----------------------------- MODULE TimerProofs -----------------------------
(***************************************************************************)
(* Software timers: the list of _vibe_timer_tick, and the service it       *)
(* implements, for any number of timers and any durations.                 *)
(***************************************************************************)
EXTENDS Timer, ChainProofs

-----------------------------------------------------------------------------
(* The list                                                                *)

(* The list that begins at h and goes on by nxt is s.                      *)
Chained(h, nxt, s) ==
  /\ s \in Seq(Timer) /\ nxt \in [Timer -> Timer \cup {NULL}]
  /\ h = IF Len(s) = 0 THEN NULL ELSE s[1]
  /\ \A k \in 1..Len(s) : nxt[s[k]] = IF k = Len(s) THEN NULL ELSE s[k + 1]
  /\ \A j, k \in 1..Len(s) : s[j] = s[k] => j = k

Has(s, t) == \E k \in 1..Len(s) : s[k] = t

(* The timers of s from the k-th on.                                       *)
From(s, k) == {s[j] : j \in k..Len(s)}

(* The k-th timer of s; behind the last one there is NULL.                 *)
Nth(s, k) == IF k = Len(s) + 1 THEN NULL ELSE s[k]

LEMMA WholeList ==
  ASSUME NEW h, NEW nxt, NEW s, Chained(h, nxt, s)
  PROVE  ListFrom(h, nxt) = s
<1>1. /\ s \in Seq(Timer) /\ Len(s) \in Nat /\ IsFiniteSet(Timer) /\ NULL \notin Timer
  BY TimerAssumption DEF Chained
<1>2. Distinct(s)
  BY DEF Chained, Distinct
<1>3. Len(s) <= Cardinality(Timer) + 1 /\ Cardinality(Timer) \in Nat
  <2>1. Len(s) <= Cardinality(Timer) /\ Cardinality(Timer) \in Nat
    BY <1>1, <1>2, DistinctBound, FS_CardinalityType
  <2> QED BY <1>1, <2>1
<1>4. Spells(h, nxt, NULL, s)
  BY DEF Chained, Spells
<1> QED BY <1>1, <1>3, <1>4, ChainIsList DEF ListFrom

LEMMA WalkMeets ==
  ASSUME NEW h, NEW nxt, NEW s, Chained(h, nxt, s), NEW k \in 1..(Len(s) + 1), NEW c, c = Nth(s, k)
  PROVE  Members(ListFrom(c, nxt)) = From(s, k)
<1> DEFINE r == [j \in 1..(Len(s) + 1 - k) |-> s[j + k - 1]]
<1>1. /\ s \in Seq(Timer) /\ Len(s) \in Nat /\ IsFiniteSet(Timer) /\ NULL \notin Timer
      /\ \A j \in 1..Len(s) : s[j] \in Timer /\ nxt[s[j]] = IF j = Len(s) THEN NULL ELSE s[j + 1]
  BY TimerAssumption DEF Chained
<1>2. r \in Seq(Timer) /\ Len(r) = Len(s) + 1 - k /\ DOMAIN r = 1..Len(r)
  <2>1. \A j \in 1..(Len(s) + 1 - k) : s[j + k - 1] \in Timer
    BY <1>1
  <2>2. Len(s) + 1 - k \in Nat
    BY <1>1
  <2> QED BY <2>1, <2>2
<1>3. \A j \in 1..Len(r) : r[j] = s[j + k - 1] /\ j + k - 1 \in 1..Len(s)
  BY <1>1, <1>2
<1> HIDE DEF r
<1>4. c = IF Len(r) = 0 THEN NULL ELSE r[1]
  BY <1>1, <1>2, <1>3 DEF Nth
<1>5. \A j \in 1..Len(r) : nxt[r[j]] = IF j = Len(r) THEN NULL ELSE r[j + 1]
  <2> TAKE j \in 1..Len(r)
  <2>1. CASE j = Len(r)
    BY <1>1, <1>2, <1>3, <2>1
  <2>2. CASE j # Len(r)
    <3>0. j \in Nat /\ k \in Nat /\ Len(s) \in Nat /\ Len(r) = Len(s) + 1 - k /\ j <= Len(r) /\ 1 <= j
      BY <1>1, <1>2
    <3>1. j + 1 \in 1..Len(r) /\ j + k - 1 # Len(s) /\ (j + k - 1) + 1 = (j + 1) + k - 1
      BY <2>2, <3>0, Z3
    <3>2. nxt[s[j + k - 1]] = s[(j + k - 1) + 1]
      BY <1>1, <1>3, <3>1
    <3>3. r[j + 1] = s[(j + 1) + k - 1] /\ r[j] = s[j + k - 1]
      BY <1>3, <3>1
    <3> QED BY <2>2, <3>1, <3>2, <3>3
  <2> QED BY <2>1, <2>2
<1>6. ListFrom(c, nxt) = r
  <2>1. \A i, j \in 1..Len(r) : r[i] = r[j] => i = j
    <3> SUFFICES ASSUME NEW i \in 1..Len(r), NEW j \in 1..Len(r), r[i] = r[j] PROVE i = j
      OBVIOUS
    <3>1. i + k - 1 = j + k - 1
      BY <1>3 DEF Chained
    <3> QED BY <1>2, <3>1
  <2>2. Chained(c, nxt, r)
    BY <1>2, <1>4, <1>5, <2>1 DEF Chained
  <2> QED BY <2>2, WholeList
<1>7. {r[j] : j \in 1..Len(r)} = {s[j] : j \in k..Len(s)}
  <2>1. \A j \in k..Len(s) : j - k + 1 \in 1..Len(r) /\ r[j - k + 1] = s[j]
    BY <1>1, <1>2, <1>3, SMTT(30)
  <2>2. \A j \in 1..Len(r) : j + k - 1 \in k..Len(s)
    BY <1>1, <1>2
  <2>3. \A x \in {r[j] : j \in 1..Len(r)} : x \in {s[j] : j \in k..Len(s)}
    BY <1>3, <2>2
  <2>4. \A x \in {s[j] : j \in k..Len(s)} : x \in {r[j] : j \in 1..Len(r)}
    BY <2>1
  <2> QED BY <2>3, <2>4
<1> QED BY <1>2, <1>6, <1>7 DEF Members, From

(* Taking the k-th timer off, as vibe_timer_stop and the tick do.          *)
TakesOff(h, nxt, s, k, h2, nxt2) ==
  /\ h2 = IF k = 1 THEN nxt[s[1]] ELSE h
  /\ nxt2 = [u \in Timer |-> IF u = s[k] THEN NULL
                             ELSE IF k > 1 /\ u = s[k - 1] THEN nxt[s[k]] ELSE nxt[u]]

LEMMA TakeOff ==
  ASSUME NEW h, NEW nxt, NEW s, Chained(h, nxt, s), NEW k \in 1..Len(s),
         NEW h2, NEW nxt2, TakesOff(h, nxt, s, k, h2, nxt2)
  PROVE  Chained(h2, nxt2, Without(s, k))
<1> DEFINE r == Without(s, k)
<1>1. /\ s \in Seq(Timer) /\ Len(s) \in Nat /\ NULL \notin Timer
      /\ \A j \in 1..Len(s) : s[j] \in Timer /\ nxt[s[j]] = IF j = Len(s) THEN NULL ELSE s[j + 1]
      /\ \A i, j \in 1..Len(s) : s[i] = s[j] => i = j
      /\ h = IF Len(s) = 0 THEN NULL ELSE s[1]
      /\ nxt \in [Timer -> Timer \cup {NULL}]
  BY TimerAssumption DEF Chained
<1>2. r \in Seq(Timer) /\ Len(r) = Len(s) - 1
  BY <1>1, WithoutSeq
<1>3. \A j \in 1..Len(r) : /\ r[j] = IF j < k THEN s[j] ELSE s[j + 1]
                           /\ j + 1 \in 1..Len(s) /\ j \in 1..Len(s)
  BY <1>1, <1>2 DEF Without
<1> HIDE DEF r
<1>4. /\ nxt2 \in [Timer -> Timer \cup {NULL}]
      /\ \A j \in 1..Len(s) : nxt2[s[j]] = IF j = k THEN NULL ELSE IF j = k - 1 THEN nxt[s[k]] ELSE nxt[s[j]]
  <2>1. nxt2 = [u \in Timer |-> IF u = s[k] THEN NULL
                             ELSE IF k > 1 /\ u = s[k - 1] THEN nxt[s[k]] ELSE nxt[u]]
    BY DEF TakesOff
  <2>2. nxt2 \in [Timer -> Timer \cup {NULL}]
    BY <1>1, <2>1
  <2>3. ASSUME NEW j \in 1..Len(s)
        PROVE  nxt2[s[j]] = IF j = k THEN NULL ELSE IF j = k - 1 THEN nxt[s[k]] ELSE nxt[s[j]]
    <3>1. s[j] = s[k] <=> j = k
      BY <1>1
    <3>2. k > 1 => (s[j] = s[k - 1] <=> j = k - 1)
      BY <1>1
    <3>3. s[j] \in Timer
      BY <1>1
    <3> QED BY <1>1, <2>1, <3>1, <3>2, <3>3
  <2> QED BY <2>2, <2>3
<1>5. \A j \in 1..Len(r) : nxt2[r[j]] = IF j = Len(r) THEN NULL ELSE r[j + 1]
  <2> TAKE j \in 1..Len(r)
  <2>0. j \in Nat /\ k \in Nat /\ Len(s) \in Nat /\ Len(r) = Len(s) - 1
    BY <1>1, <1>2
  <2>1. CASE j < k - 1
    <3>1. r[j] = s[j] /\ j \in 1..Len(s) /\ nxt2[s[j]] = nxt[s[j]] /\ nxt[s[j]] = s[j + 1]
      BY <1>1, <1>2, <1>3, <1>4, <2>1
    <3>2. j + 1 \in 1..Len(r) /\ r[j + 1] = s[j + 1] /\ j # Len(r)
      BY <1>2, <1>3, <2>0, <2>1
    <3> QED BY <3>1, <3>2
  <2>2. CASE j = k - 1
    <3>1. r[j] = s[k - 1] /\ k - 1 \in 1..Len(s) /\ nxt2[s[k - 1]] = nxt[s[k]]
      BY <1>3, <1>4, <2>0, <2>2
    <3>2. CASE k = Len(s)
      BY <1>1, <2>0, <2>2, <3>1, <3>2
    <3>3. CASE k # Len(s)
      <4>1. j + 1 \in 1..Len(r) /\ ~(j + 1 < k) /\ j # Len(r)
        BY <2>0, <2>2, <3>3
      <4>2. r[j + 1] = s[(j + 1) + 1] /\ (j + 1) + 1 = k + 1
        BY <1>3, <2>0, <2>2, <4>1
      <4>3. nxt[s[k]] = s[k + 1]
        BY <1>1, <3>3
      <4> QED BY <3>1, <4>1, <4>2, <4>3
    <3> QED BY <3>2, <3>3
  <2>3. CASE j > k - 1
    <3>1. r[j] = s[j + 1] /\ j + 1 \in 1..Len(s) /\ j + 1 # k /\ j + 1 # k - 1
      BY <1>3, <2>0, <2>3
    <3>2. nxt2[s[j + 1]] = nxt[s[j + 1]]
      BY <1>4, <3>1
    <3>3. CASE j = Len(r)
      BY <1>1, <2>0, <3>1, <3>2, <3>3
    <3>4. CASE j # Len(r)
      <4>1. j + 1 \in 1..Len(r) /\ ~(j + 1 < k) /\ j + 1 # Len(s)
        BY <2>0, <2>3, <3>4
      <4>2. r[j + 1] = s[(j + 1) + 1] /\ nxt[s[j + 1]] = s[(j + 1) + 1]
        BY <1>1, <1>3, <3>1, <4>1
      <4> QED BY <3>1, <3>2, <3>4, <4>2
    <3> QED BY <3>3, <3>4
  <2> QED BY <2>0, <2>1, <2>2, <2>3
<1>6. \A i, j \in 1..Len(r) : r[i] = r[j] => i = j
  <2> SUFFICES ASSUME NEW i \in 1..Len(r), NEW j \in 1..Len(r), r[i] = r[j] PROVE i = j
    OBVIOUS
  <2> DEFINE x == IF i < k THEN i ELSE i + 1
             y == IF j < k THEN j ELSE j + 1
  <2>1. x \in 1..Len(s) /\ y \in 1..Len(s) /\ s[x] = s[y]
    BY <1>3
  <2>2. x = y
    <3> HIDE DEF x, y
    <3> QED BY <1>1, <2>1
  <2> QED BY <1>1, <1>2, <2>2
<1>7. h2 = IF Len(r) = 0 THEN NULL ELSE r[1]
  <2>0. h2 = IF k = 1 THEN nxt[s[1]] ELSE h
    BY DEF TakesOff
  <2>1. CASE k = 1
    <3>0. 1 \in 1..Len(s) /\ 1 + 1 = 2
      BY <2>1
    <3>1. nxt[s[1]] = IF 1 = Len(s) THEN NULL ELSE s[2]
      BY <1>1, <3>0
    <3>2. Len(r) # 0 => r[1] = s[2]
      BY <1>1, <1>2, <1>3, <2>1
    <3> QED BY <1>1, <1>2, <2>0, <2>1, <3>1, <3>2
  <2>2. CASE k # 1
    <3>1. Len(r) # 0 /\ 1 \in 1..Len(r) /\ 1 < k
      BY <1>1, <1>2, <2>2
    <3> QED BY <1>1, <1>3, <2>0, <2>2, <3>1
  <2> QED BY <2>1, <2>2
<1> QED BY <1>2, <1>4, <1>5, <1>6, <1>7 DEF Chained, r

(* A timer put in front.                                                   *)
LEMMA PutFirst ==
  ASSUME NEW h, NEW nxt, NEW s, Chained(h, nxt, s), NEW t \in Timer, ~Has(s, t)
  PROVE  Chained(t, [nxt EXCEPT ![t] = h], With(s, 1, t))
<1> DEFINE r == With(s, 1, t)
           n2 == [nxt EXCEPT ![t] = h]
<1>1. /\ s \in Seq(Timer) /\ Len(s) \in Nat /\ NULL \notin Timer
      /\ \A j \in 1..Len(s) : /\ s[j] \in Timer /\ s[j] # t
                              /\ nxt[s[j]] = IF j = Len(s) THEN NULL ELSE s[j + 1]
      /\ \A i, j \in 1..Len(s) : s[i] = s[j] => i = j
      /\ h = IF Len(s) = 0 THEN NULL ELSE s[1]
      /\ nxt \in [Timer -> Timer \cup {NULL}]
  BY TimerAssumption DEF Chained, Has
<1>2. r \in Seq(Timer) /\ Len(r) = Len(s) + 1
  <2>1. 1 \in 1..(Len(s) + 1)
    BY <1>1
  <2> QED BY <1>1, <2>1, WithSeq
<1>3. /\ r[1] = t
      /\ \A j \in 2..Len(r) : r[j] = s[j - 1] /\ j - 1 \in 1..Len(s)
  BY <1>1, <1>2 DEF With
<1>4. n2 \in [Timer -> Timer \cup {NULL}]
  <2>1. h \in Timer \cup {NULL}
    BY <1>1
  <2> QED BY <1>1, <2>1
<1> HIDE DEF r
<1>5. n2[t] = h /\ \A j \in 1..Len(s) : n2[s[j]] = nxt[s[j]]
  BY <1>1
<1> HIDE DEF n2
<1>6. \A j \in 1..Len(r) : n2[r[j]] = IF j = Len(r) THEN NULL ELSE r[j + 1]
  <2> TAKE j \in 1..Len(r)
  <2>1. CASE j = 1
    <3>0. 1 # Len(r) => 2 \in 2..Len(r)
      BY <1>1, <1>2
    <3>1. 1 # Len(r) => r[2] = s[1]
      <4>1. 2 - 1 = 1
        OBVIOUS
      <4> QED BY <1>3, <3>0, <4>1
    <3> QED BY <1>1, <1>2, <1>3, <1>5, <2>1, <3>1
  <2>2. CASE j # 1
    <3>1. r[j] = s[j - 1] /\ j - 1 \in 1..Len(s) /\ n2[s[j - 1]] = nxt[s[j - 1]]
      BY <1>2, <1>3, <1>5, <2>2
    <3>2. j # Len(r) => j + 1 \in 2..Len(r) /\ r[j + 1] = s[j] /\ j - 1 # Len(s)
      BY <1>2, <1>3, <2>2
    <3>3. nxt[s[j - 1]] = IF j - 1 = Len(s) THEN NULL ELSE s[(j - 1) + 1]
      BY <1>1, <3>1
    <3> QED BY <1>2, <3>1, <3>2, <3>3
  <2> QED BY <2>1, <2>2
<1>7. \A i, j \in 1..Len(r) : r[i] = r[j] => i = j
  <2> SUFFICES ASSUME NEW i \in 1..Len(r), NEW j \in 1..Len(r), r[i] = r[j] PROVE i = j
    OBVIOUS
  <2>1. i # 1 => i \in 2..Len(r) /\ r[i] = s[i - 1] /\ i - 1 \in 1..Len(s)
    BY <1>2, <1>3
  <2>2. j # 1 => j \in 2..Len(r) /\ r[j] = s[j - 1] /\ j - 1 \in 1..Len(s)
    BY <1>2, <1>3
  <2>3. CASE i = 1 \/ j = 1
    BY <1>1, <1>3, <2>1, <2>2, <2>3
  <2>4. CASE i # 1 /\ j # 1
    <3>1. i - 1 = j - 1
      BY <1>1, <2>1, <2>2, <2>4
    <3> QED BY <1>2, <3>1
  <2> QED BY <2>3, <2>4
<1>8. t = IF Len(r) = 0 THEN NULL ELSE r[1]
  BY <1>1, <1>2, <1>3
<1> QED BY <1>2, <1>4, <1>6, <1>7, <1>8 DEF Chained, r, n2

(* The search of vibe_timer_stop finds the timer and takes it off.         *)
LEMMA UnlinkTakes ==
  ASSUME NEW h, NEW nxt, NEW s, Chained(h, nxt, s), NEW k \in 1..Len(s)
  PROVE  LET L == Unlink(s[k], [head |-> h, next |-> nxt])
         IN  TakesOff(h, nxt, s, k, L.head, L.next)
<1> DEFINE t == s[k]
           before == {u \in Members(ListFrom(h, nxt)) : nxt[u] = t}
<1>1. /\ s \in Seq(Timer) /\ Len(s) \in Nat /\ NULL \notin Timer
      /\ \A j \in 1..Len(s) : s[j] \in Timer /\ nxt[s[j]] = IF j = Len(s) THEN NULL ELSE s[j + 1]
      /\ \A i, j \in 1..Len(s) : s[i] = s[j] => i = j
      /\ h = IF Len(s) = 0 THEN NULL ELSE s[1]
  BY TimerAssumption DEF Chained
<1>2. ListFrom(h, nxt) = s /\ Members(s) = {s[j] : j \in 1..Len(s)}
  BY <1>1, WholeList DEF Members
<1>3. h = t <=> k = 1
  <2>1. h = s[1] /\ 1 \in 1..Len(s)
    BY <1>1
  <2> QED BY <1>1, <2>1
<1>4. k > 1 => before = {s[k - 1]}
  <2> SUFFICES ASSUME k > 1 PROVE before = {s[k - 1]}
    OBVIOUS
  <2>1. k - 1 \in 1..Len(s) /\ k - 1 # Len(s) /\ (k - 1) + 1 = k
    BY <1>1
  <2>2. nxt[s[k - 1]] = t /\ s[k - 1] \in Members(s)
    BY <1>1, <1>2, <2>1
  <2>3. ASSUME NEW u \in Members(s), nxt[u] = t PROVE u = s[k - 1]
    <3>1. PICK j \in 1..Len(s) : u = s[j]
      BY <1>2
    <3>2. j # Len(s)
      BY <1>1, <2>3, <3>1
    <3>3. s[j + 1] = s[k] /\ j + 1 \in 1..Len(s)
      BY <1>1, <2>3, <3>1, <3>2
    <3>4. j + 1 = k
      BY <1>1, <3>3
    <3> QED BY <3>1, <3>4
  <2> QED BY <1>2, <2>2, <2>3
<1>5. Unlink(t, [head |-> h, next |-> nxt]) =
        [head |-> IF h = t THEN nxt[t] ELSE h,
         next |-> [u \in Timer |->
                     IF u = t THEN NULL
                     ELSE IF h # t /\ u \in before THEN nxt[t]
                     ELSE nxt[u]]]
  BY DEF Unlink
<1>6. [u \in Timer |-> IF u = t THEN NULL ELSE IF h # t /\ u \in before THEN nxt[t] ELSE nxt[u]]
      = [u \in Timer |-> IF u = s[k] THEN NULL
                         ELSE IF k > 1 /\ u = s[k - 1] THEN nxt[s[k]] ELSE nxt[u]]
  <2> HIDE DEF before
  <2>1. CASE k = 1
    BY <1>3, <2>1
  <2>2. CASE k > 1
    BY <1>3, <1>4, <2>2
  <2>3. k = 1 \/ k > 1
    BY <1>1
  <2> QED BY <2>1, <2>2, <2>3
<1>7. (IF h = t THEN nxt[t] ELSE h) = (IF k = 1 THEN nxt[s[1]] ELSE h)
  BY <1>3
<1> HIDE DEF before
<1> QED BY <1>5, <1>6, <1>7 DEF TakesOff

(* From its k-th timer on s goes on as r does from its m-th.               *)
GoesOn(s, k, r, m) == m \in 1..(Len(r) + 1) /\ Nth(r, m) = Nth(s, k) /\ From(r, m) = From(s, k)

SameButLess(s, r, t) == \A u : Has(r, u) <=> Has(s, u) /\ u # t

SameButMore(s, r, t) == \A u : Has(r, u) <=> Has(s, u) \/ u = t

LEMMA WithoutGoesOn ==
  ASSUME NEW h, NEW nxt, NEW s, Chained(h, nxt, s), NEW k \in 1..(Len(s) + 1),
         NEW j \in 1..Len(s), s[j] \notin From(s, k)
  PROVE  GoesOn(s, k, Without(s, j), k - 1) /\ SameButLess(s, Without(s, j), s[j])
<1> DEFINE r == Without(s, j)
<1>1. /\ s \in Seq(Timer) /\ Len(s) \in Nat
      /\ \A i, m \in 1..Len(s) : s[i] = s[m] => i = m
  BY DEF Chained
<1>2. r \in Seq(Timer) /\ Len(r) = Len(s) - 1
  BY <1>1, WithoutSeq
<1>3. \A i \in 1..Len(r) : /\ r[i] = IF i < j THEN s[i] ELSE s[i + 1]
                           /\ i + 1 \in 1..Len(s) /\ i \in 1..Len(s)
  BY <1>1, <1>2 DEF Without
<1> HIDE DEF r
<1>4. j < k
  BY <1>1 DEF From
<1>5. k - 1 \in 1..(Len(r) + 1)
  BY <1>1, <1>2, <1>4
<1>6. Nth(r, k - 1) = Nth(s, k)
  <2>1. CASE k = Len(s) + 1
    BY <1>1, <1>2, <2>1 DEF Nth
  <2>2. CASE k # Len(s) + 1
    <3>1. k - 1 \in 1..Len(r) /\ ~(k - 1 < j) /\ (k - 1) + 1 = k
      BY <1>1, <1>2, <1>4, <2>2
    <3>2. r[k - 1] = s[k]
      BY <1>3, <3>1
    <3> QED BY <1>1, <1>2, <2>2, <3>2 DEF Nth
  <2> QED BY <2>1, <2>2
<1>7. \A i \in k..Len(s) : i - 1 \in (k - 1)..Len(r) /\ r[i - 1] = s[i]
  <2> TAKE i \in k..Len(s)
  <2>1. i - 1 \in (k - 1)..Len(r) /\ i - 1 \in 1..Len(r) /\ ~(i - 1 < j) /\ (i - 1) + 1 = i
    BY <1>1, <1>2, <1>4
  <2> QED BY <1>3, <2>1
<1>8. \A i \in (k - 1)..Len(r) : i + 1 \in k..Len(s) /\ r[i] = s[i + 1]
  <2> TAKE i \in (k - 1)..Len(r)
  <2>1. i + 1 \in k..Len(s) /\ i \in 1..Len(r) /\ ~(i < j)
    BY <1>1, <1>2, <1>4
  <2> QED BY <1>3, <2>1
<1>9. From(r, k - 1) = From(s, k)
  <2>1. \A x \in From(r, k - 1) : x \in From(s, k)
    BY <1>8 DEF From
  <2>2. \A x \in From(s, k) : x \in From(r, k - 1)
    BY <1>7 DEF From
  <2> QED BY <2>1, <2>2
<1>10. SameButLess(s, r, s[j])
  <2>1. ASSUME NEW i \in 1..Len(r) PROVE Has(s, r[i]) /\ r[i] # s[j]
    <3>1. CASE i < j
      BY <1>1, <1>3, <3>1 DEF Has
    <3>2. CASE ~(i < j)
      <4>1. r[i] = s[i + 1] /\ i + 1 \in 1..Len(s) /\ i + 1 # j
        BY <1>1, <1>2, <1>3, <3>2
      <4> QED BY <1>1, <4>1 DEF Has
    <3> QED BY <3>1, <3>2
  <2>2. ASSUME NEW i \in 1..Len(s), i # j PROVE Has(r, s[i])
    <3>1. CASE i < j
      <4>1. i \in 1..Len(r)
        BY <1>1, <1>2, <3>1
      <4>2. r[i] = s[i]
        BY <1>3, <3>1, <4>1
      <4> QED BY <4>1, <4>2 DEF Has
    <3>2. CASE i > j
      <4>1. i - 1 \in 1..Len(r) /\ ~(i - 1 < j) /\ (i - 1) + 1 = i
        BY <1>1, <1>2, <2>2, <3>2
      <4>2. r[i - 1] = s[i]
        BY <1>3, <4>1
      <4> QED BY <4>1, <4>2 DEF Has
    <3> QED BY <1>1, <2>2, <3>1, <3>2
  <2> QED BY <2>1, <2>2 DEF SameButLess, Has
<1> QED BY <1>5, <1>6, <1>9, <1>10 DEF GoesOn, r

LEMMA WithGoesOn ==
  ASSUME NEW s \in Seq(Timer), NEW k \in 1..(Len(s) + 1), NEW t \in Timer
  PROVE  GoesOn(s, k, With(s, 1, t), k + 1) /\ SameButMore(s, With(s, 1, t), t)
<1> DEFINE r == With(s, 1, t)
<1>1. 1 \in 1..(Len(s) + 1) /\ Len(s) \in Nat
  OBVIOUS
<1>2. r \in Seq(Timer) /\ Len(r) = Len(s) + 1
  BY <1>1, WithSeq
<1>3. /\ r[1] = t /\ 1 \in 1..Len(r)
      /\ \A j \in 2..Len(r) : r[j] = s[j - 1] /\ j - 1 \in 1..Len(s)
  BY <1>1, <1>2 DEF With
<1> HIDE DEF r
<1>4. \A j \in 1..Len(s) : j + 1 \in 2..Len(r) /\ j + 1 \in 1..Len(r) /\ r[j + 1] = s[j]
  <2> TAKE j \in 1..Len(s)
  <2>1. j + 1 \in 2..Len(r) /\ j + 1 \in 1..Len(r) /\ (j + 1) - 1 = j
    BY <1>1, <1>2
  <2> QED BY <1>3, <2>1
<1>5. k + 1 \in 1..(Len(r) + 1)
  BY <1>1, <1>2
<1>6. Nth(r, k + 1) = Nth(s, k)
  BY <1>1, <1>2, <1>4 DEF Nth
<1>7. From(r, k + 1) = From(s, k)
  <2>1. \A j \in k..Len(s) : j + 1 \in (k + 1)..Len(r) /\ r[j + 1] = s[j]
    BY <1>1, <1>2, <1>4
  <2>2. \A j \in (k + 1)..Len(r) : j - 1 \in k..Len(s) /\ r[j] = s[j - 1]
    <3> TAKE j \in (k + 1)..Len(r)
    <3>1. j - 1 \in k..Len(s) /\ j \in 2..Len(r)
      BY <1>1, <1>2
    <3> QED BY <1>3, <3>1
  <2>3. \A x \in From(r, k + 1) : x \in From(s, k)
    BY <2>2 DEF From
  <2>4. \A x \in From(s, k) : x \in From(r, k + 1)
    BY <2>1 DEF From
  <2> QED BY <2>3, <2>4
<1>8. SameButMore(s, r, t)
  <2>1. \A j \in 1..Len(r) : j = 1 \/ j \in 2..Len(r)
    BY <1>1, <1>2
  <2>2. ASSUME NEW j \in 1..Len(r) PROVE Has(s, r[j]) \/ r[j] = t
    BY <1>3, <2>1 DEF Has
  <2>3. \A j \in 1..Len(s) : Has(r, s[j])
    BY <1>4 DEF Has
  <2>4. Has(r, t)
    BY <1>3 DEF Has
  <2> QED BY <2>2, <2>3, <2>4 DEF SameButMore, Has
<1> QED BY <1>5, <1>6, <1>7, <1>8 DEF GoesOn, r

-----------------------------------------------------------------------------
(* The invariant                                                           *)

Periodics == \A t \in Timer : active[t] => mode[t] = "PERIODIC"

(* The list is s: the timers that run.                                     *)
Kept(s) ==
  /\ Chained(g_timer_list_head, next, s)
  /\ \A t \in Timer : active[t] <=> Has(s, t)

(* The timer that the walk is at, or goes on with after the callback.      *)
Cursor == IF phase = "callback" THEN saved ELSE t_

(* The walk is at the k-th timer of s and prev is the one before it.  A    *)
(* callback may make prev stale, but then no timer is taken off any more.  *)
OnWay(s, k) ==
  /\ k \in 1..(Len(s) + 1)
  /\ phase # "none" =>
       /\ Cursor = Nth(s, k)
       /\ Periodics \/ prev = IF k = 1 THEN NULL ELSE s[k - 1]
  /\ phase = "callback" => t_ \in Timer /\ t_ \notin From(s, k)

(* A running timer has time left, and a restart is about some timer.       *)
Counting ==
  /\ \A t \in Timer : active[t] => remaining[t] > 0 /\ duration_ticks[t] > 0
  /\ rst # NoRestart => rst.timer \in Timer

TInv == TypeOK /\ Counting /\ \E s, k : Kept(s) /\ OnWay(s, k)

LEMMA AheadIs ==
  ASSUME NEW s, NEW k, Kept(s), OnWay(s, k), phase \in {"none", "walk", "callback"}
  PROVE  Ahead = IF phase = "none" THEN {} ELSE From(s, k)
<1>1. phase # "none" => Members(ListFrom(Cursor, next)) = From(s, k)
  BY WalkMeets DEF Kept, OnWay
<1> QED BY <1>1 DEF Ahead, Cursor

LEMMA AheadNext ==
  ASSUME NEW s, NEW k, Kept(s)', OnWay(s, k)', phase' \in {"none", "walk", "callback"}
  PROVE  Ahead' = IF phase' = "none" THEN {} ELSE From(s, k)
<1>1. phase' # "none" => Members(ListFrom(Cursor', next')) = From(s, k)
  <2> SUFFICES ASSUME phase' # "none" PROVE Members(ListFrom(Cursor', next')) = From(s, k)
    OBVIOUS
  <2>1. Chained(g_timer_list_head', next', s) /\ k \in 1..(Len(s) + 1) /\ Cursor' = Nth(s, k)
    BY DEF Kept, OnWay
  <2> QED BY <2>1, WalkMeets
<1> QED BY <1>1 DEF Ahead, Cursor

(* The list holds what the invariant says.                                 *)
LEMMA ListIsSound ==
  ASSUME TInv
  PROVE  ListSound
<1>1. PICK s : Kept(s)
  BY DEF TInv
<1>2. ListFrom(g_timer_list_head, next) = s
  BY <1>1, WholeList DEF Kept
<1>3. /\ s \in Seq(Timer) /\ IsFiniteSet(Timer) /\ DOMAIN s = 1..Len(s)
      /\ Distinct(s)
  BY <1>1, TimerAssumption DEF Kept, Chained, Distinct
<1>4. Members(s) = {s[j] : j \in 1..Len(s)}
  BY <1>3 DEF Members
<1>5. Len(s) = Cardinality(Members(s))
  <2>1. Cardinality({s[j] : j \in 1..Len(s)}) = Len(s)
    BY <1>3, DistinctBound, Zenon
  <2> QED BY <1>4, <2>1, Zenon
<1>6. Members(s) = {t \in Timer : active[t]}
  BY <1>1, <1>3, <1>4 DEF Kept, Has
<1> QED BY <1>2, <1>5, <1>6 DEF ListSound, TInv

-----------------------------------------------------------------------------
(* The calls                                                               *)

LEMMA TicksIs ==
  ASSUME NEW ms \in Nat
  PROVE  Ticks(ms) \in 1..(UINT32 - 1)
<1>1. UINT32 \in Nat /\ UINT32 > 1 /\ HZ \in Nat
  BY TimerAssumption
<1>2. (ms * HZ) \div 1000 \in Int
  BY <1>1, Z3
<1> DEFINE x == (ms * HZ) \div 1000
<1> HIDE DEF x
<1>3. x % UINT32 \in 0..(UINT32 - 1)
  BY <1>1, <1>2, ModOf DEF x
<1> QED BY <1>1, <1>3 DEF Ticks, VIBE_MS_TO_TICKS, x

(* A timer that is started goes to the front, out of its place if it runs. *)
LEMMA StartMoves ==
  ASSUME TypeOK, NEW s, Kept(s), NEW k \in 1..(Len(s) + 1), NEW t \in Timer, t \notin From(s, k),
         NEW ms, vibe_timer_start(t, ms)
  PROVE  \E r, m : Kept(r)' /\ GoesOn(s, k, r, m)
<1> DEFINE L == StartList(t)
           h == g_timer_list_head
<1>1. /\ Chained(h, next, s) /\ \A u \in Timer : active[u] <=> Has(s, u)
      /\ s \in Seq(Timer) /\ active \in [Timer -> BOOLEAN]
  BY DEF Kept, Chained, TypeOK
<1>2. /\ g_timer_list_head' = t /\ next' = [L.next EXCEPT ![t] = L.head]
      /\ active' = [active EXCEPT ![t] = TRUE]
  BY DEF vibe_timer_start, SetList
<1>3. PICK q, n : /\ Chained(L.head, L.next, q) /\ GoesOn(s, k, q, n) /\ ~Has(q, t)
                  /\ \A u \in Timer : u # t => (active[u] <=> Has(q, u))
  <2>1. CASE active[t]
    <3>1. PICK j \in 1..Len(s) : s[j] = t
      BY <1>1, <2>1 DEF Has
    <3>2. L = Unlink(s[j], [head |-> h, next |-> next])
      BY <2>1, <3>1 DEF StartList, List
    <3>3. TakesOff(h, next, s, j, L.head, L.next)
      <4>1. TakesOff(h, next, s, j, Unlink(s[j], [head |-> h, next |-> next]).head,
                     Unlink(s[j], [head |-> h, next |-> next]).next)
        BY <1>1, UnlinkTakes
      <4> QED BY <3>2, <4>1
    <3> HIDE DEF L
    <3>4. Chained(L.head, L.next, Without(s, j))
      BY <1>1, <3>3, TakeOff
    <3>5. GoesOn(s, k, Without(s, j), k - 1) /\ SameButLess(s, Without(s, j), s[j])
      BY <1>1, <3>1, WithoutGoesOn
    <3>6. /\ ~Has(Without(s, j), t)
          /\ \A u \in Timer : u # t => (active[u] <=> Has(Without(s, j), u))
      BY <1>1, <3>1, <3>5 DEF SameButLess
    <3> QED BY <3>4, <3>5, <3>6
  <2>2. CASE ~active[t]
    <3>1. L.head = h /\ L.next = next
      BY <2>2 DEF StartList, List
    <3>2. GoesOn(s, k, s, k)
      BY DEF GoesOn
    <3> HIDE DEF L
    <3>3. ~Has(s, t)
      BY <1>1, <2>2
    <3> QED BY <1>1, <3>1, <3>2, <3>3
  <2> QED BY <1>1, <2>1, <2>2
<1> HIDE DEF L
<1>4. Chained(t, [L.next EXCEPT ![t] = L.head], With(q, 1, t))
  BY <1>3, PutFirst
<1>5. q \in Seq(Timer) /\ n \in 1..(Len(q) + 1)
  BY <1>3 DEF Chained, GoesOn
<1>6. GoesOn(q, n, With(q, 1, t), n + 1) /\ SameButMore(q, With(q, 1, t), t)
  BY <1>5, WithGoesOn
<1>7. GoesOn(s, k, With(q, 1, t), n + 1)
  BY <1>3, <1>6 DEF GoesOn
<1>8. Kept(With(q, 1, t))'
  <2>1. \A u \in Timer : active'[u] <=> Has(With(q, 1, t), u)
    BY <1>1, <1>2, <1>3, <1>6 DEF SameButMore
  <2> QED BY <1>2, <1>4, <2>1 DEF Kept
<1> QED BY <1>7, <1>8

LEMMA StopMoves ==
  ASSUME TypeOK, NEW s, Kept(s), NEW k \in 1..(Len(s) + 1), NEW t \in Timer, t \notin From(s, k),
         vibe_timer_stop(t)
  PROVE  \E r, m : Kept(r)' /\ GoesOn(s, k, r, m)
<1> DEFINE L == Unlink(t, List)
           h == g_timer_list_head
<1>1. /\ Chained(h, next, s) /\ \A u \in Timer : active[u] <=> Has(s, u)
      /\ active \in [Timer -> BOOLEAN] /\ active[t]
  BY DEF Kept, TypeOK, vibe_timer_stop
<1>2. g_timer_list_head' = L.head /\ next' = L.next /\ active' = [active EXCEPT ![t] = FALSE]
  BY DEF vibe_timer_stop, SetList
<1>3. PICK j \in 1..Len(s) : s[j] = t
  BY <1>1 DEF Has
<1>4. TakesOff(h, next, s, j, L.head, L.next)
  <2>1. TakesOff(h, next, s, j, Unlink(s[j], [head |-> h, next |-> next]).head,
                 Unlink(s[j], [head |-> h, next |-> next]).next)
    BY <1>1, UnlinkTakes
  <2>2. L = Unlink(s[j], [head |-> h, next |-> next])
    BY <1>3 DEF List
  <2> QED BY <2>1, <2>2
<1> HIDE DEF L
<1>5. Chained(L.head, L.next, Without(s, j))
  BY <1>1, <1>4, TakeOff
<1>6. GoesOn(s, k, Without(s, j), k - 1) /\ SameButLess(s, Without(s, j), s[j])
  BY <1>1, <1>3, WithoutGoesOn
<1>7. Kept(Without(s, j))'
  <2>1. \A u \in Timer : active'[u] <=> Has(Without(s, j), u)
    BY <1>1, <1>2, <1>3, <1>6 DEF SameButLess
  <2> QED BY <1>2, <1>5, <2>1 DEF Kept
<1> QED BY <1>6, <1>7

(* A call comes from a thread between ticks, or from the callback of a     *)
(* periodic timer that is among periodic ones and calls for itself.        *)
Called(t) ==
  \/ phase = "none"
  \/ /\ phase = "callback" /\ t = t_
     /\ \A u \in Timer : u = t \/ active[u] => mode[u] = "PERIODIC"

(* What the list looks like to the service.                                *)
On == {t \in Timer : active[t]}
Shots == {t \in Timer : mode[t] = "ONE_SHOT"}
Firing == IF phase = "callback" THEN t_ ELSE NULL

(* The call finds the walk where it left it.                               *)
LEMMA CallGoesOn ==
  ASSUME TypeOK, TypeOK', NEW s, NEW k, Kept(s), OnWay(s, k), NEW t \in Timer, Called(t),
         NEW j, t \notin From(s, j), phase # "none" => j = k,
         NEW r, NEW m, Kept(r)', GoesOn(s, j, r, m),
         \A u \in Timer : u # t /\ active'[u] => active[u], UNCHANGED <<mode, walk>>
  PROVE  OnWay(r, m)' /\ Ahead' = Ahead \ {t} /\ Firing' = Firing
<1>1. phase' = phase /\ t_' = t_ /\ saved' = saved /\ prev' = prev /\ mode' = mode
  BY DEF walk
<1>2. m \in 1..(Len(r) + 1) /\ Nth(r, m) = Nth(s, j) /\ From(r, m) = From(s, j)
  BY DEF GoesOn
<1>3. phase \in {"none", "callback"}
  BY DEF Called
<1>4. OnWay(r, m)'
  <2>1. CASE phase = "none"
    BY <1>1, <1>2, <2>1 DEF OnWay
  <2>2. CASE phase = "callback"
    <3>1. j = k /\ Periodics' /\ Cursor' = Cursor
      BY <1>1, <2>2 DEF Called, Periodics, Cursor
    <3> QED BY <1>1, <1>2, <2>2, <3>1 DEF OnWay
  <2> QED BY <1>3, <2>1, <2>2
<1>5. Ahead = IF phase = "none" THEN {} ELSE From(s, k)
  BY <1>3, AheadIs
<1>6. Ahead' = IF phase = "none" THEN {} ELSE From(r, m)
  <2>1. phase' \in {"none", "walk", "callback"}
    BY <1>1, <1>3
  <2> QED BY <1>1, <1>4, <2>1, AheadNext
<1>7. Ahead' = Ahead \ {t}
  BY <1>2, <1>5, <1>6
<1> QED BY <1>1, <1>4, <1>7 DEF Firing

(* From where a call finds the list it is given.                           *)
LEMMA CallPlace ==
  ASSUME NEW s \in Seq(Timer), NEW k, OnWay(s, k), NEW t \in Timer, Called(t)
  PROVE  \E j \in 1..(Len(s) + 1) : t \notin From(s, j) /\ (phase # "none" => j = k)
<1>1. CASE phase = "none"
  <2>1. Len(s) + 1 \in 1..(Len(s) + 1) /\ From(s, Len(s) + 1) = {}
    BY DEF From
  <2> QED BY <1>1, <2>1
<1>2. CASE phase # "none"
  BY <1>2 DEF Called, OnWay
<1> QED BY <1>1, <1>2

LEMMA StartServed ==
  ASSUME TInv, NEW t \in Timer, NEW ms \in Nat, vibe_timer_start(t, ms), Called(t),
         rst' = rst \/ rst' = NoRestart
  PROVE  TInv' /\ Service!ServiceNext
<1>0. TypeOK /\ Counting
  BY DEF TInv
<1>1. PICK s, k : Kept(s) /\ OnWay(s, k)
  BY DEF TInv
<1>2. PICK j \in 1..(Len(s) + 1) : t \notin From(s, j) /\ (phase # "none" => j = k)
  BY <1>1, CallPlace DEF Kept, Chained
<1>3. PICK r, m : Kept(r)' /\ GoesOn(s, j, r, m)
  BY <1>0, <1>1, <1>2, StartMoves
<1> DEFINE n == Ticks(ms)
<1>4. n \in 1..(UINT32 - 1)
  BY TicksIs
<1>5. /\ duration_ticks' = [duration_ticks EXCEPT ![t] = n]
      /\ remaining' = [remaining EXCEPT ![t] = n]
      /\ active' = [active EXCEPT ![t] = TRUE] /\ UNCHANGED <<mode, walk>>
  BY DEF vibe_timer_start
<1> HIDE DEF n
<1>6. TypeOK'
  <2>1. /\ remaining' \in [Timer -> 0..(UINT32 - 1)] /\ duration_ticks' \in [Timer -> 0..(UINT32 - 1)]
        /\ active' \in [Timer -> BOOLEAN]
    <3>1. n \in 0..(UINT32 - 1)
      BY <1>4, TimerAssumption
    <3>2. /\ remaining \in [Timer -> 0..(UINT32 - 1)] /\ duration_ticks \in [Timer -> 0..(UINT32 - 1)]
          /\ active \in [Timer -> BOOLEAN]
      BY <1>0 DEF TypeOK
    <3> QED BY <1>5, <3>1, <3>2
  <2>2. g_timer_list_head' \in Timer \cup {NULL} /\ next' \in [Timer -> Timer \cup {NULL}]
    <3>1. next' \in [Timer -> Timer \cup {NULL}]
      BY <1>3 DEF Kept, Chained
    <3> QED BY <3>1 DEF vibe_timer_start, SetList
  <2>3. /\ mode' \in [Timer -> {"ONE_SHOT", "PERIODIC"}]
        /\ phase' \in {"none", "walk", "callback"} /\ {t_, prev, saved}' \subseteq Timer \cup {NULL}
    BY <1>0, <1>5 DEF TypeOK, walk
  <2>4. rst' \in [timer : Timer \cup {NULL}, ticks : 0..(UINT32 - 1)]
    BY <1>0, TimerAssumption, SMTT(30) DEF TypeOK, NoRestart
  <2> QED BY <2>1, <2>2, <2>3, <2>4 DEF TypeOK
<1>7. Counting'
  <2>1. \A u \in Timer : active'[u] => remaining'[u] > 0 /\ duration_ticks'[u] > 0
    BY <1>0, <1>4, <1>5 DEF Counting, TypeOK
  <2>2. rst' # NoRestart => rst'.timer \in Timer
    BY <1>0 DEF Counting
  <2> QED BY <2>1, <2>2 DEF Counting, NoRestart
<1>8. OnWay(r, m)' /\ Ahead' = Ahead \ {t} /\ Firing' = Firing
  <2>1. \A u \in Timer : u # t /\ active'[u] => active[u]
    BY <1>0, <1>5 DEF TypeOK
  <2> QED BY <1>0, <1>1, <1>2, <1>3, <1>5, <1>6, <2>1, CallGoesOn
<1>9. Ahead = {} \/ Firing # NULL
  <2>1. CASE phase = "none"
    BY <1>0, <2>1 DEF Ahead
  <2>2. CASE phase = "callback"
    BY <1>1, <2>2, TimerAssumption DEF Firing, OnWay
  <2> QED BY <2>1, <2>2 DEF Called
<1>10. On' = On \cup {t} /\ Shots' = Shots
  BY <1>0, <1>5 DEF On, Shots, TypeOK
<1>11. Service!Start(t, n)
  BY <1>5, <1>8, <1>9, <1>10 DEF Service!Start, Service!Callable, On, Shots, Firing
<1> QED BY <1>3, <1>4, <1>6, <1>7, <1>8, <1>11 DEF TInv, Service!ServiceNext

LEMMA StopServed ==
  ASSUME TInv, NEW t \in Timer, vibe_timer_stop(t), Called(t), rst' = rst
  PROVE  TInv' /\ Service!ServiceNext
<1>0. TypeOK /\ Counting
  BY DEF TInv
<1>1. PICK s, k : Kept(s) /\ OnWay(s, k)
  BY DEF TInv
<1>2. PICK j \in 1..(Len(s) + 1) : t \notin From(s, j) /\ (phase # "none" => j = k)
  BY <1>1, CallPlace DEF Kept, Chained
<1>3. PICK r, m : Kept(r)' /\ GoesOn(s, j, r, m)
  BY <1>0, <1>1, <1>2, StopMoves
<1>4. r \in Seq(Timer) /\ g_timer_list_head' = (IF Len(r) = 0 THEN NULL ELSE r[1])
      /\ next' \in [Timer -> Timer \cup {NULL}]
  BY <1>3 DEF Kept, Chained
<1>5. /\ active[t] /\ active' = [active EXCEPT ![t] = FALSE]
      /\ remaining' = [remaining EXCEPT ![t] = 0] /\ UNCHANGED <<duration_ticks, mode, walk>>
  BY DEF vibe_timer_stop
<1>6. TypeOK'
  <2>1. /\ remaining' \in [Timer -> 0..(UINT32 - 1)] /\ duration_ticks' \in [Timer -> 0..(UINT32 - 1)]
        /\ active' \in [Timer -> BOOLEAN]
    BY <1>0, <1>5, TimerAssumption DEF TypeOK
  <2>2. g_timer_list_head' \in Timer \cup {NULL}
    BY <1>4
  <2>3. /\ mode' \in [Timer -> {"ONE_SHOT", "PERIODIC"}]
        /\ phase' \in {"none", "walk", "callback"} /\ {t_, prev, saved}' \subseteq Timer \cup {NULL}
        /\ rst' \in [timer : Timer \cup {NULL}, ticks : 0..(UINT32 - 1)]
    BY <1>0, <1>5 DEF TypeOK, walk
  <2> QED BY <1>4, <2>1, <2>2, <2>3 DEF TypeOK
<1>7. Counting'
  <2>1. \A u \in Timer : active'[u] => remaining'[u] > 0 /\ duration_ticks'[u] > 0
    BY <1>0, <1>5 DEF Counting, TypeOK
  <2>2. rst' # NoRestart => rst'.timer \in Timer
    BY <1>0 DEF Counting
  <2> QED BY <2>1, <2>2 DEF Counting, NoRestart
<1>8. OnWay(r, m)' /\ Ahead' = Ahead \ {t} /\ Firing' = Firing
  <2>1. \A u \in Timer : u # t /\ active'[u] => active[u]
    BY <1>0, <1>5 DEF TypeOK
  <2> QED BY <1>0, <1>1, <1>2, <1>3, <1>5, <1>6, <2>1, CallGoesOn
<1>9. Ahead = {} \/ Firing # NULL
  <2>1. CASE phase = "none"
    BY <1>0, <2>1 DEF Ahead
  <2>2. CASE phase = "callback"
    BY <1>1, <2>2, TimerAssumption DEF Firing, OnWay
  <2> QED BY <2>1, <2>2 DEF Called
<1>10. On' = On \ {t} /\ t \in On /\ Shots' = Shots
  BY <1>0, <1>5 DEF On, Shots, TypeOK
<1>11. Service!Stop(t)
  BY <1>5, <1>8, <1>9, <1>10 DEF Service!Stop, Service!Callable, On, Shots, Firing
<1> QED BY <1>3, <1>6, <1>7, <1>8, <1>11 DEF TInv, Service!ServiceNext

(* Setting a timer up that does not run touches no link of the list.       *)
LEMMA InitServed ==
  ASSUME TInv, NEW t \in Timer, NEW md \in Modes, vibe_timer_init(t, md), phase = "none", rst' = rst
  PROVE  TInv' /\ Service!ServiceNext
<1>0. TypeOK /\ Counting
  BY DEF TInv
<1>1. PICK s, k : Kept(s) /\ OnWay(s, k)
  BY DEF TInv
<1>2. /\ ~active[t] /\ next' = [next EXCEPT ![t] = NULL]
      /\ remaining' = [remaining EXCEPT ![t] = 0]
      /\ duration_ticks' = [duration_ticks EXCEPT ![t] = 0]
      /\ mode' = [mode EXCEPT ![t] = md] /\ active' = [active EXCEPT ![t] = FALSE]
      /\ g_timer_list_head' = g_timer_list_head
      /\ phase' = phase /\ t_' = t_ /\ prev' = prev /\ saved' = saved
  BY DEF vibe_timer_init, walk
<1>3. active' = active
  BY <1>0, <1>2 DEF TypeOK
<1>4. Kept(s)'
  <2>1. /\ s \in Seq(Timer) /\ next \in [Timer -> Timer \cup {NULL}]
        /\ g_timer_list_head = IF Len(s) = 0 THEN NULL ELSE s[1]
        /\ \A n \in 1..Len(s) : next[s[n]] = IF n = Len(s) THEN NULL ELSE s[n + 1]
        /\ \A i, j \in 1..Len(s) : s[i] = s[j] => i = j
        /\ \A u \in Timer : active[u] <=> Has(s, u)
    BY <1>1 DEF Kept, Chained
  <2>2. \A n \in 1..Len(s) : s[n] \in Timer /\ s[n] # t
    BY <1>2, <2>1 DEF Has
  <2>3. next' \in [Timer -> Timer \cup {NULL}] /\ \A n \in 1..Len(s) : next'[s[n]] = next[s[n]]
    BY <1>2, <2>1, <2>2
  <2> QED BY <1>2, <1>3, <2>1, <2>3 DEF Kept, Chained
<1>5. OnWay(s, k)'
  BY <1>1, <1>2 DEF OnWay
<1>6. TypeOK'
  <2>1. md \in {"ONE_SHOT", "PERIODIC"} /\ 0 \in 0..(UINT32 - 1)
    BY TimerAssumption
  <2> QED BY <1>0, <1>2, <1>3, <2>1 DEF TypeOK
<1>7. Counting'
  BY <1>0, <1>2, <1>3 DEF Counting, TypeOK, NoRestart
<1>8. Ahead = {} /\ Ahead' = {} /\ Firing = NULL /\ Firing' = NULL
  BY <1>2 DEF Ahead, Firing
<1>9. On' = On \ {t} /\ Shots' \in {Shots \cup {t}, Shots \ {t}}
  <2>1. On' = On \ {t}
    BY <1>2, <1>3 DEF On
  <2>2. CASE md = "ONE_SHOT"
    <3>1. Shots' = Shots \cup {t}
      BY <1>0, <1>2, <2>2 DEF Shots, TypeOK
    <3> QED BY <2>1, <3>1
  <2>3. CASE md # "ONE_SHOT"
    <3>1. Shots' = Shots \ {t}
      BY <1>0, <1>2, <2>3 DEF Shots, TypeOK
    <3> QED BY <2>1, <3>1
  <2> QED BY <2>2, <2>3
<1>10. Service!Setup(t)
  BY <1>2, <1>8, <1>9 DEF Service!Setup, Service!Callable, On, Shots, Firing
<1> QED BY <1>4, <1>5, <1>6, <1>7, <1>10 DEF TInv, Service!ServiceNext

(* Steps that the service does not see.                                    *)
Unseen == On' = On /\ remaining' = remaining /\ duration_ticks' = duration_ticks
            /\ Shots' = Shots /\ Ahead' = Ahead /\ Firing' = Firing

LEMMA UnseenStutters == Unseen => UNCHANGED Service!svars
BY DEF Unseen, Service!svars, On, Shots, Firing

LEMMA RestartUnseen ==
  ASSUME TInv, UNCHANGED <<links, remaining, duration_ticks, mode, active, walk>>,
         \/ rst' = rst \/ rst' = NoRestart
         \/ \E t \in Timer : rst' = [timer |-> t, ticks |-> duration_ticks[t]]
  PROVE  TInv' /\ Unseen
<1>0. TypeOK /\ Counting
  BY DEF TInv
<1>1. PICK s, k : Kept(s) /\ OnWay(s, k)
  BY DEF TInv
<1>2. UNCHANGED <<g_timer_list_head, next, remaining, duration_ticks, mode, active, phase, t_, prev, saved>>
  BY DEF links, walk
<1>3. Kept(s)' /\ OnWay(s, k)'
  BY <1>1, <1>2 DEF Kept, OnWay, Periodics, Cursor
<1>4. /\ rst' \in [timer : Timer \cup {NULL}, ticks : 0..(UINT32 - 1)]
      /\ rst' # NoRestart => rst'.timer \in Timer
  <2>1. 0 \in 0..(UINT32 - 1) /\ duration_ticks \in [Timer -> 0..(UINT32 - 1)]
    BY <1>0, TimerAssumption DEF TypeOK
  <2> QED BY <1>0, <2>1 DEF TypeOK, Counting, NoRestart
<1>5. TypeOK' /\ Counting'
  BY <1>0, <1>2, <1>4 DEF TypeOK, Counting, NoRestart
<1>6. Ahead' = Ahead /\ On' = On /\ Shots' = Shots /\ Firing' = Firing
  BY <1>2 DEF Ahead, On, Shots, Firing
<1> QED BY <1>2, <1>3, <1>5, <1>6 DEF TInv, Unseen

-----------------------------------------------------------------------------
(* The tick                                                                *)

LEMMA WalkIsAt ==
  ASSUME TInv, NEW s, NEW k, Kept(s), OnWay(s, k), phase = "walk", t_ # NULL
  PROVE  /\ k \in 1..Len(s) /\ s[k] = t_ /\ t_ \in Timer /\ active[t_]
         /\ remaining[t_] \in 1..(UINT32 - 1) /\ duration_ticks[t_] \in 1..(UINT32 - 1)
         /\ k + 1 \in 1..(Len(s) + 1) /\ next[t_] = Nth(s, k + 1)
         /\ t_ \in From(s, k) /\ From(s, k + 1) = From(s, k) \ {t_}
<1>1. /\ s \in Seq(Timer) /\ Len(s) \in Nat
      /\ \A j \in 1..Len(s) : next[s[j]] = IF j = Len(s) THEN NULL ELSE s[j + 1]
      /\ \A i, j \in 1..Len(s) : s[i] = s[j] => i = j
      /\ \A u \in Timer : active[u] <=> Has(s, u)
  BY DEF Kept, Chained
<1>2. k \in 1..(Len(s) + 1) /\ t_ = Nth(s, k)
  BY DEF OnWay, Cursor
<1>3. k \in 1..Len(s) /\ s[k] = t_
  BY <1>1, <1>2 DEF Nth
<1>4. t_ \in Timer /\ active[t_]
  BY <1>1, <1>3 DEF Has
<1>5. remaining[t_] \in 1..(UINT32 - 1) /\ duration_ticks[t_] \in 1..(UINT32 - 1)
  <2>1. remaining[t_] \in 0..(UINT32 - 1) /\ duration_ticks[t_] \in 0..(UINT32 - 1) /\ UINT32 \in Nat
    BY <1>4, TimerAssumption DEF TInv, TypeOK
  <2>2. remaining[t_] > 0 /\ duration_ticks[t_] > 0
    BY <1>4 DEF TInv, Counting
  <2> QED BY <2>1, <2>2
<1>6. k + 1 \in 1..(Len(s) + 1) /\ next[t_] = Nth(s, k + 1)
  BY <1>1, <1>3 DEF Nth
<1>7. t_ \in From(s, k)
  <2>1. k \in k..Len(s)
    BY <1>1, <1>3
  <2> QED BY <1>3, <2>1 DEF From
<1>8. \A x \in From(s, k + 1) : x \in From(s, k) /\ x # t_
  <2> TAKE x \in From(s, k + 1)
  <2>1. PICK j \in (k + 1)..Len(s) : x = s[j]
    BY DEF From
  <2>2. j \in k..Len(s) /\ j \in 1..Len(s) /\ j # k
    BY <1>1, <1>3
  <2> QED BY <1>1, <1>3, <2>1, <2>2 DEF From
<1>9. \A x \in From(s, k) : x # t_ => x \in From(s, k + 1)
  <2> SUFFICES ASSUME NEW x \in From(s, k), x # t_ PROVE x \in From(s, k + 1)
    OBVIOUS
  <2>1. PICK j \in k..Len(s) : x = s[j]
    BY DEF From
  <2>2. j \in (k + 1)..Len(s)
    BY <1>1, <1>3, <2>1
  <2> QED BY <2>1, <2>2 DEF From
<1>10. From(s, k + 1) = From(s, k) \ {t_}
  BY <1>8, <1>9
<1> QED BY <1>3, <1>4, <1>5, <1>6, <1>7, <1>10

LEMMA EnterServed ==
  ASSUME TInv, TickEnter
  PROVE  TInv' /\ Service!ServiceNext
<1>0. TypeOK /\ Counting
  BY DEF TInv
<1>1. PICK s, k : Kept(s) /\ OnWay(s, k)
  BY DEF TInv
<1>2. /\ UNCHANGED <<g_timer_list_head, next, remaining, duration_ticks, mode, active, saved, rst>>
      /\ phase = "none" /\ phase' = "walk" /\ t_' = g_timer_list_head /\ prev' = NULL
  BY DEF TickEnter, links
<1>3. /\ s \in Seq(Timer) /\ Len(s) \in Nat
      /\ g_timer_list_head = IF Len(s) = 0 THEN NULL ELSE s[1]
      /\ \A u \in Timer : active[u] <=> Has(s, u)
  BY <1>1 DEF Kept, Chained
<1>4. Kept(s)'
  BY <1>1, <1>2 DEF Kept
<1>5. OnWay(s, 1)'
  <2>1. Cursor' = Nth(s, 1)
    BY <1>2, <1>3 DEF Cursor, Nth
  <2> QED BY <1>2, <1>3, <2>1 DEF OnWay
<1>6. TypeOK' /\ Counting'
  BY <1>0, <1>2 DEF TypeOK, Counting, NoRestart
<1>7. Ahead = {} /\ Firing = NULL /\ Firing' = NULL /\ On' = On /\ Shots' = Shots
  BY <1>2 DEF Ahead, Firing, On, Shots
<1>8. Ahead' = On
  <2>1. Ahead' = From(s, 1)
    BY <1>2, <1>4, <1>5, AheadNext
  <2>2. From(s, 1) = On
    BY <1>3 DEF From, On, Has
  <2> QED BY <2>1, <2>2
<1>9. Service!Tick
  BY <1>2, <1>7, <1>8 DEF Service!Tick, On, Shots, Firing
<1> QED BY <1>4, <1>5, <1>6, <1>9 DEF TInv, Service!ServiceNext

LEMMA PassServed ==
  ASSUME TInv, TickPass
  PROVE  TInv' /\ Service!ServiceNext
<1>0. TypeOK /\ Counting
  BY DEF TInv
<1>1. PICK s, k : Kept(s) /\ OnWay(s, k)
  BY DEF TInv
<1>2. /\ UNCHANGED <<g_timer_list_head, next, duration_ticks, mode, active, phase, saved, rst>>
      /\ phase = "walk" /\ t_ # NULL /\ ~Due(t_)
      /\ remaining' = [remaining EXCEPT ![t_] = Left(t_)] /\ prev' = t_ /\ t_' = next[t_]
  BY DEF TickPass, links
<1>3. /\ k \in 1..Len(s) /\ s[k] = t_ /\ t_ \in Timer /\ active[t_]
      /\ remaining[t_] \in 1..(UINT32 - 1)
      /\ k + 1 \in 1..(Len(s) + 1) /\ next[t_] = Nth(s, k + 1)
      /\ t_ \in From(s, k) /\ From(s, k + 1) = From(s, k) \ {t_}
  BY <1>1, <1>2, WalkIsAt
<1>t. PICK t \in Timer : t = t_
  BY <1>3
<1>4. Left(t_) = remaining[t_] - 1 /\ remaining[t_] > 1
  BY <1>2, <1>3 DEF Left, Due
<1>5. Kept(s)'
  BY <1>1, <1>2 DEF Kept
<1>6. OnWay(s, k + 1)'
  <2>1. Cursor' = Nth(s, k + 1)
    BY <1>2, <1>3 DEF Cursor
  <2>2. k + 1 # 1 /\ (k + 1) - 1 = k
    BY <1>3
  <2> QED BY <1>2, <1>3, <2>1, <2>2 DEF OnWay
<1>7. remaining' \in [Timer -> 0..(UINT32 - 1)] /\ Left(t_) \in 1..(UINT32 - 1)
  <2>1. Left(t_) \in 1..(UINT32 - 1) /\ Left(t_) \in 0..(UINT32 - 1)
    BY <1>3, <1>4, TimerAssumption
  <2>2. remaining \in [Timer -> 0..(UINT32 - 1)]
    BY <1>0 DEF TypeOK
  <2> QED BY <1>2, <2>1, <2>2
<1>8. TypeOK' /\ Counting'
  <2>1. next[t_] \in Timer \cup {NULL}
    BY <1>0, <1>3 DEF TypeOK
  <2>2. TypeOK'
    <3>1. /\ UNCHANGED <<g_timer_list_head, next, duration_ticks, mode, active, phase, saved, rst>>
          /\ prev' \in Timer \cup {NULL} /\ t_' \in Timer \cup {NULL}
      BY <1>2, <1>3, <2>1
    <3> QED BY <1>0, <1>7, <3>1 DEF TypeOK
  <2>3. \A u \in Timer : active'[u] => remaining'[u] > 0 /\ duration_ticks'[u] > 0
    BY <1>0, <1>2, <1>7 DEF Counting, TypeOK
  <2> QED BY <1>0, <1>2, <2>2, <2>3 DEF Counting, NoRestart
<1>9. Firing = NULL /\ Firing' = NULL /\ On' = On /\ Shots' = Shots
  BY <1>2 DEF Firing, On, Shots
<1>10. t_ \in Ahead /\ Ahead' = Ahead \ {t_}
  <2>1. Ahead = From(s, k)
    BY <1>1, <1>2, AheadIs
  <2>2. Ahead' = From(s, k + 1)
    BY <1>2, <1>5, <1>6, AheadNext
  <2> QED BY <1>3, <2>1, <2>2
<1>11. Service!Advance(t)
  <2>1. remaining' = [remaining EXCEPT ![t_] = remaining[t_] - 1] /\ duration_ticks' = duration_ticks
    BY <1>2, <1>4
  <2> QED BY <1>t, <1>4, <1>9, <1>10, <2>1 DEF Service!Advance, On, Shots, Firing
<1>12. TInv'
  BY <1>5, <1>6, <1>8 DEF TInv
<1> QED BY <1>11, <1>12 DEF Service!ServiceNext

LEMMA PeriodicServed ==
  ASSUME TInv, FirePeriodic
  PROVE  TInv' /\ Service!ServiceNext
<1>0. TypeOK /\ Counting
  BY DEF TInv
<1>1. PICK s, k : Kept(s) /\ OnWay(s, k)
  BY DEF TInv
<1>2. /\ UNCHANGED <<g_timer_list_head, next, duration_ticks, mode, active, t_, rst>>
      /\ phase = "walk" /\ t_ # NULL /\ Due(t_) /\ mode[t_] = "PERIODIC"
      /\ remaining' = [remaining EXCEPT ![t_] = duration_ticks[t_]]
      /\ prev' = t_ /\ saved' = next[t_] /\ phase' = "callback"
  BY DEF FirePeriodic, links
<1>3. /\ k \in 1..Len(s) /\ s[k] = t_ /\ t_ \in Timer /\ active[t_]
      /\ remaining[t_] \in 1..(UINT32 - 1) /\ duration_ticks[t_] \in 1..(UINT32 - 1)
      /\ k + 1 \in 1..(Len(s) + 1) /\ next[t_] = Nth(s, k + 1)
      /\ t_ \in From(s, k) /\ From(s, k + 1) = From(s, k) \ {t_}
  BY <1>1, <1>2, WalkIsAt
<1>t. PICK t \in Timer : t = t_
  BY <1>3
<1>4. remaining[t_] = 1
  BY <1>2, <1>3 DEF Left, Due
<1>5. Kept(s)'
  BY <1>1, <1>2 DEF Kept
<1>6. OnWay(s, k + 1)'
  <2>1. Cursor' = Nth(s, k + 1)
    BY <1>2, <1>3 DEF Cursor
  <2>2. k + 1 # 1 /\ (k + 1) - 1 = k
    BY <1>3
  <2> QED BY <1>2, <1>3, <2>1, <2>2 DEF OnWay
<1>7. TypeOK' /\ Counting'
  <2>0. next[t_] \in Timer \cup {NULL}
    BY <1>0, <1>3 DEF TypeOK
  <2>1. remaining' \in [Timer -> 0..(UINT32 - 1)]
    BY <1>0, <1>2, <1>3, TimerAssumption DEF TypeOK
  <2>2. TypeOK'
    BY <1>0, <1>2, <1>3, <2>0, <2>1 DEF TypeOK
  <2>3. \A u \in Timer : active'[u] => remaining'[u] > 0 /\ duration_ticks'[u] > 0
    BY <1>0, <1>2, <1>3 DEF Counting, TypeOK
  <2> QED BY <1>0, <1>2, <2>2, <2>3 DEF Counting, NoRestart
<1>8. Firing = NULL /\ Firing' = t_ /\ On' = On /\ Shots' = Shots /\ t_ \notin Shots
  BY <1>2 DEF Firing, On, Shots
<1>9. t_ \in Ahead /\ Ahead' = Ahead \ {t_}
  <2>1. Ahead = From(s, k)
    BY <1>1, <1>2, AheadIs
  <2>2. Ahead' = From(s, k + 1)
    BY <1>2, <1>5, <1>6, AheadNext
  <2> QED BY <1>3, <2>1, <2>2
<1>10. Service!Advance(t)
  BY <1>t, <1>2, <1>4, <1>8, <1>9 DEF Service!Advance, On, Shots, Firing
<1>11. TInv'
  BY <1>5, <1>6, <1>7 DEF TInv
<1> QED BY <1>10, <1>11 DEF Service!ServiceNext

LEMMA OneShotServed ==
  ASSUME TInv, FireOneShot
  PROVE  TInv' /\ Service!ServiceNext
<1>0. TypeOK /\ Counting
  BY DEF TInv
<1>1. PICK s, k : Kept(s) /\ OnWay(s, k)
  BY DEF TInv
<1>2. /\ UNCHANGED <<duration_ticks, mode, t_, prev, rst>>
      /\ phase = "walk" /\ t_ # NULL /\ Due(t_) /\ mode[t_] = "ONE_SHOT"
      /\ remaining' = [remaining EXCEPT ![t_] = 0] /\ active' = [active EXCEPT ![t_] = FALSE]
      /\ saved' = next[t_] /\ phase' = "callback"
      /\ prev # NULL => /\ g_timer_list_head' = g_timer_list_head
                        /\ next' = [next EXCEPT ![prev] = next[t_], ![t_] = NULL]
      /\ prev = NULL => g_timer_list_head' = next[t_] /\ next' = [next EXCEPT ![t_] = NULL]
  BY DEF FireOneShot, SetList
<1>3. /\ k \in 1..Len(s) /\ s[k] = t_ /\ t_ \in Timer /\ active[t_]
      /\ remaining[t_] \in 1..(UINT32 - 1)
      /\ k + 1 \in 1..(Len(s) + 1) /\ next[t_] = Nth(s, k + 1)
      /\ t_ \in From(s, k) /\ From(s, k + 1) = From(s, k) \ {t_}
  BY <1>1, <1>2, WalkIsAt
<1>t. PICK t \in Timer : t = t_
  BY <1>3
<1>4. remaining[t_] = 1
  BY <1>2, <1>3 DEF Left, Due
<1>c. Chained(g_timer_list_head, next, s)
  BY <1>1 DEF Kept
<1>5. /\ s \in Seq(Timer) /\ Len(s) \in Nat /\ NULL \notin Timer
      /\ next \in [Timer -> Timer \cup {NULL}]
      /\ \A i, j \in 1..Len(s) : s[i] = s[j] => i = j
      /\ \A u \in Timer : active[u] <=> Has(s, u)
  BY <1>1, TimerAssumption DEF Kept, Chained
<1>6. prev = IF k = 1 THEN NULL ELSE s[k - 1]
  <2>1. ~Periodics
    BY <1>2, <1>3 DEF Periodics
  <2> QED BY <1>1, <1>2, <2>1 DEF OnWay
<1>7. k # 1 => k - 1 \in 1..Len(s) /\ s[k - 1] \in Timer /\ s[k - 1] # NULL /\ s[k - 1] # t_
  <2> SUFFICES ASSUME k # 1
               PROVE  k - 1 \in 1..Len(s) /\ s[k - 1] \in Timer /\ s[k - 1] # NULL /\ s[k - 1] # t_
    OBVIOUS
  <2>1. k - 1 \in 1..Len(s) /\ k - 1 # k
    BY <1>3, <1>5
  <2> QED BY <1>3, <1>5, <2>1
<1>8. TakesOff(g_timer_list_head, next, s, k, g_timer_list_head', next')
  <2>1. CASE k = 1
    <3>1. prev = NULL /\ s[1] = t_
      BY <1>3, <1>6, <2>1
    <3> QED BY <1>2, <1>3, <1>5, <2>1, <3>1 DEF TakesOff
  <2>2. CASE k # 1
    <3>1. prev # NULL /\ prev = s[k - 1] /\ k > 1
      BY <1>3, <1>6, <1>7, <2>2
    <3> QED BY <1>2, <1>3, <1>5, <1>7, <2>2, <3>1 DEF TakesOff
  <2> QED BY <2>1, <2>2
<1> DEFINE r == Without(s, k)
<1>9. Chained(g_timer_list_head', next', r)
  BY <1>c, <1>3, <1>8, TakeOff
<1>10. s[k] \notin From(s, k + 1)
  BY <1>3
<1>11. GoesOn(s, k + 1, r, (k + 1) - 1) /\ SameButLess(s, r, s[k])
  BY <1>c, <1>3, <1>10, WithoutGoesOn
<1>12. GoesOn(s, k + 1, r, k)
  <2>1. (k + 1) - 1 = k
    BY <1>3
  <2> QED BY <1>11, <2>1
<1>13. k # 1 => r[k - 1] = s[k - 1]
  <2>1. k # 1 => k - 1 \in 1..(Len(s) - 1) /\ k - 1 < k
    BY <1>3, <1>5
  <2> QED BY <2>1 DEF Without
<1> HIDE DEF r
<1>14. Kept(r)'
  <2>1. \A u \in Timer : active'[u] <=> Has(r, u)
    BY <1>0, <1>2, <1>3, <1>5, <1>11 DEF SameButLess, TypeOK
  <2> QED BY <1>9, <2>1 DEF Kept
<1>15. OnWay(r, k)'
  <2>1. k \in 1..(Len(r) + 1) /\ Nth(r, k) = Nth(s, k + 1) /\ From(r, k) = From(s, k + 1)
    BY <1>12 DEF GoesOn
  <2>2. Cursor' = Nth(r, k)
    BY <1>2, <1>3, <2>1 DEF Cursor
  <2> QED BY <1>2, <1>3, <1>6, <1>13, <2>1, <2>2 DEF OnWay
<1>16. TypeOK' /\ Counting'
  <2>0. next[t_] \in Timer \cup {NULL} /\ next' \in [Timer -> Timer \cup {NULL}]
    BY <1>3, <1>5, <1>9 DEF Chained
  <2>1. remaining' \in [Timer -> 0..(UINT32 - 1)] /\ active' \in [Timer -> BOOLEAN]
    <3>1. remaining \in [Timer -> 0..(UINT32 - 1)] /\ active \in [Timer -> BOOLEAN]
      BY <1>0 DEF TypeOK
    <3> QED BY <1>2, <1>3, <3>1, TimerAssumption
  <2>2. TypeOK'
    <3>1. g_timer_list_head' \in Timer \cup {NULL}
      BY <1>0, <1>2, <2>0 DEF TypeOK
    <3>2. /\ UNCHANGED <<duration_ticks, mode, t_, prev, rst>>
          /\ saved' = next[t_] /\ phase' = "callback"
      BY <1>2
    <3> QED BY <1>0, <2>0, <2>1, <3>1, <3>2 DEF TypeOK
  <2>3. \A u \in Timer : active'[u] => remaining'[u] > 0 /\ duration_ticks'[u] > 0
    BY <1>0, <1>2, <1>3 DEF Counting, TypeOK
  <2> QED BY <1>0, <1>2, <2>2, <2>3 DEF Counting, NoRestart
<1>17. Firing = NULL /\ Firing' = t_ /\ On' = On \ {t_} /\ Shots' = Shots /\ t_ \in Shots
  BY <1>0, <1>2, <1>3 DEF Firing, On, Shots, TypeOK
<1>18. t_ \in Ahead /\ Ahead' = Ahead \ {t_}
  <2>1. Ahead = From(s, k)
    BY <1>1, <1>2, AheadIs
  <2>2. Ahead' = From(r, k)
    BY <1>2, <1>14, <1>15, AheadNext
  <2> QED BY <1>3, <1>12, <2>1, <2>2 DEF GoesOn
<1>19. Service!Advance(t)
  BY <1>t, <1>2, <1>4, <1>17, <1>18 DEF Service!Advance, On, Shots, Firing
<1>20. TInv'
  BY <1>14, <1>15, <1>16 DEF TInv
<1> QED BY <1>19, <1>20 DEF Service!ServiceNext

LEMMA ReturnServed ==
  ASSUME TInv, CallbackReturn
  PROVE  TInv' /\ Service!ServiceNext
<1>0. TypeOK /\ Counting
  BY DEF TInv
<1>1. PICK s, k : Kept(s) /\ OnWay(s, k)
  BY DEF TInv
<1>2. /\ UNCHANGED <<g_timer_list_head, next, remaining, duration_ticks, mode, active, prev, rst>>
      /\ phase = "callback" /\ phase' = "walk" /\ t_' = saved /\ saved' = NULL
  BY DEF CallbackReturn, links
<1>3. Kept(s)'
  BY <1>1, <1>2 DEF Kept
<1>4. OnWay(s, k)'
  <2>1. Cursor' = Cursor /\ Periodics' = Periodics
    BY <1>2 DEF Cursor, Periodics
  <2> QED BY <1>1, <1>2, <2>1 DEF OnWay
<1>5. TypeOK' /\ Counting'
  BY <1>0, <1>2 DEF TypeOK, Counting, NoRestart
<1>6. Firing # NULL /\ Firing' = NULL /\ On' = On /\ Shots' = Shots
  BY <1>1, <1>2, TimerAssumption DEF Firing, On, Shots, OnWay
<1>7. Ahead' = Ahead
  <2>1. Ahead = From(s, k)
    BY <1>1, <1>2, AheadIs
  <2>2. Ahead' = From(s, k)
    BY <1>2, <1>3, <1>4, AheadNext
  <2> QED BY <2>1, <2>2
<1>8. Service!Return
  BY <1>2, <1>6, <1>7 DEF Service!Return, On, Shots, Firing
<1> QED BY <1>3, <1>4, <1>5, <1>8 DEF TInv, Service!ServiceNext

LEMMA ExitUnseen ==
  ASSUME TInv, TickExit
  PROVE  TInv' /\ Unseen
<1>0. TypeOK /\ Counting
  BY DEF TInv
<1>1. PICK s, k : Kept(s) /\ OnWay(s, k)
  BY DEF TInv
<1>2. /\ UNCHANGED <<g_timer_list_head, next, remaining, duration_ticks, mode, active, t_, saved, rst>>
      /\ phase = "walk" /\ t_ = NULL /\ phase' = "none" /\ prev' = NULL
  BY DEF TickExit, links
<1>3. Kept(s)'
  BY <1>1, <1>2 DEF Kept
<1>4. OnWay(s, k)'
  BY <1>1, <1>2 DEF OnWay
<1>5. TypeOK' /\ Counting'
  BY <1>0, <1>2 DEF TypeOK, Counting, NoRestart
<1>6. s \in Seq(Timer) /\ Len(s) \in Nat /\ NULL \notin Timer
  BY <1>1, TimerAssumption DEF Kept, Chained
<1>7. k = Len(s) + 1
  <2>1. k \in 1..(Len(s) + 1) /\ Nth(s, k) = NULL
    BY <1>1, <1>2 DEF OnWay, Cursor
  <2> QED BY <1>6, <2>1 DEF Nth
<1>8. Ahead = {} /\ Ahead' = {}
  <2>1. Ahead = From(s, k)
    BY <1>1, <1>2, AheadIs
  <2>2. Ahead' = {}
    BY <1>2 DEF Ahead
  <2>3. From(s, k) = {}
    BY <1>6, <1>7 DEF From
  <2> QED BY <2>1, <2>2, <2>3
<1> QED BY <1>2, <1>3, <1>4, <1>5, <1>8 DEF TInv, Unseen, On, Shots, Firing

-----------------------------------------------------------------------------
(* The theorems                                                            *)

LEMMA TimersStart ==
  ASSUME TimerInit
  PROVE  TInv /\ Service!ServiceInit
<1>1. /\ g_timer_list_head = NULL /\ next = [t \in Timer |-> NULL]
      /\ remaining = [t \in Timer |-> 0] /\ duration_ticks = [t \in Timer |-> 0]
      /\ mode \in [Timer -> Modes] /\ active = [t \in Timer |-> FALSE]
      /\ phase = "none" /\ t_ = NULL /\ prev = NULL /\ saved = NULL /\ rst = NoRestart
  BY DEF TimerInit
<1>2. TypeOK
  <2>1. 0 \in 0..(UINT32 - 1) /\ Modes \subseteq {"ONE_SHOT", "PERIODIC"}
    BY TimerAssumption
  <2>2. mode \in [Timer -> {"ONE_SHOT", "PERIODIC"}]
    BY <1>1, <2>1
  <2>3. rst \in [timer : Timer \cup {NULL}, ticks : 0..(UINT32 - 1)]
    BY <1>1, <2>1 DEF NoRestart
  <2> QED BY <1>1, <2>1, <2>2, <2>3 DEF TypeOK
<1>3. Counting
  BY <1>1 DEF Counting
<1>4. <<>> \in Seq(Timer) /\ Len(<<>>) = 0 /\ 1..0 = {}
  OBVIOUS
<1>5. Kept(<<>>)
  BY <1>1, <1>4 DEF Kept, Chained, Has
<1>6. OnWay(<<>>, 1)
  BY <1>1, <1>4 DEF OnWay
<1>7. Ahead = {} /\ Firing = NULL /\ On = {} /\ Shots \in SUBSET Timer
  BY <1>1 DEF Ahead, Firing, On, Shots
<1>8. Service!ServiceInit
  BY <1>1, <1>7 DEF Service!ServiceInit, On, Shots, Firing
<1> QED BY <1>2, <1>3, <1>5, <1>6, <1>8 DEF TInv

(* What the application may do with timers from callbacks.                 *)
Tame == Uses \subseteq {"among_periodic"}

LEMMA StepServed ==
  ASSUME Tame, TInv, [TimerNext]_timervars
  PROVE  TInv' /\ [Service!ServiceNext]_(Service!svars)
<1>1. CASE UNCHANGED timervars
  <2>1. UNCHANGED <<links, remaining, duration_ticks, mode, active, walk>> /\ rst' = rst
    BY <1>1 DEF timervars
  <2>2. TInv' /\ Unseen
    BY <2>1, RestartUnseen
  <2> QED BY <2>2, UnseenStutters
<1>2. ASSUME NEW t \in Timer, phase = "none", UNCHANGED rst,
             \/ \E ms \in 1..MaxMs : vibe_timer_start(t, ms)
             \/ vibe_timer_stop(t)
             \/ \E md \in Modes : vibe_timer_init(t, md)
      PROVE  TInv' /\ Service!ServiceNext
  <2>1. Called(t) /\ rst' = rst
    BY <1>2 DEF Called
  <2>2. ASSUME NEW ms \in 1..MaxMs, vibe_timer_start(t, ms) PROVE TInv' /\ Service!ServiceNext
    <3>1. ms \in Nat
      OBVIOUS
    <3> QED BY <2>1, <2>2, <3>1, StartServed
  <2>3. ASSUME vibe_timer_stop(t) PROVE TInv' /\ Service!ServiceNext
    BY <2>1, <2>3, StopServed
  <2>4. ASSUME NEW md \in Modes, vibe_timer_init(t, md) PROVE TInv' /\ Service!ServiceNext
    BY <1>2, <2>1, <2>4, InitServed
  <2> QED BY <1>2, <2>2, <2>3, <2>4
<1>3. CASE RestartStart
  <2>1. rst.ticks \in Nat /\ rst.timer \in Timer /\ rst' = NoRestart /\ phase = "none"
    BY <1>3 DEF RestartStart, TInv, TypeOK, Counting
  <2>2. ASSUME vibe_timer_start(rst.timer, VIBE_TICKS_TO_MS(rst.ticks)) PROVE TInv' /\ Service!ServiceNext
    <3>1. VIBE_TICKS_TO_MS(rst.ticks) \in Nat
      <4>1. HZ \in Nat \ {0} /\ UINT32 \in Nat \ {0}
        BY TimerAssumption
      <4>2. (rst.ticks * 1000) \div HZ \in Int
        BY <2>1, <4>1, Z3
      <4>3. PICK x \in Int : x = (rst.ticks * 1000) \div HZ
        BY <4>2
      <4>4. x % UINT32 \in 0..(UINT32 - 1)
        BY <4>1, ModOf
      <4> QED BY <4>1, <4>3, <4>4 DEF VIBE_TICKS_TO_MS
    <3>2. PICK t \in Timer, ms \in Nat : t = rst.timer /\ ms = VIBE_TICKS_TO_MS(rst.ticks)
      BY <2>1, <3>1
    <3>3. vibe_timer_start(t, ms)
      BY <2>2, <3>2 DEF vibe_timer_start, StartList, List, SetList
    <3>4. Called(t)
      BY <2>1, <3>2 DEF Called
    <3> QED BY <2>1, <3>2, <3>3, <3>4, StartServed
  <2>3. ASSUME UNCHANGED <<links, remaining, duration_ticks, mode, active, walk>>
        PROVE  TInv' /\ UNCHANGED Service!svars
    BY <2>1, <2>3, RestartUnseen, UnseenStutters
  <2> QED BY <1>3, <2>2, <2>3 DEF RestartStart
<1>4. ASSUME NEW t \in Timer, RestartRead(t) PROVE TInv' /\ UNCHANGED Service!svars
  <2>1. UNCHANGED <<links, remaining, duration_ticks, mode, active, walk>>
        /\ rst' = [timer |-> t, ticks |-> duration_ticks[t]]
    BY <1>4 DEF RestartRead
  <2> QED BY <2>1, RestartUnseen, UnseenStutters
<1>5. CASE CallbackCall
  <2>1. PICK t \in Timer :
          /\ phase = "callback" /\ rst' = rst
          /\ \/ /\ Does(IF t = t_ THEN "start_self" ELSE "start_other", t)
                /\ \E ms \in 1..MaxMs : vibe_timer_start(t, ms)
             \/ /\ Does(IF t = t_ THEN "stop_self" ELSE "stop_other", t)
                /\ vibe_timer_stop(t)
    BY <1>5 DEF CallbackCall
  <2>2. Called(t)
    BY <2>1 DEF Called, Does, Tame, AmongPeriodic
  <2>3. ASSUME NEW ms \in 1..MaxMs, vibe_timer_start(t, ms) PROVE TInv' /\ Service!ServiceNext
    <3>1. ms \in Nat
      OBVIOUS
    <3> QED BY <2>1, <2>2, <2>3, <3>1, StartServed
  <2>4. ASSUME vibe_timer_stop(t) PROVE TInv' /\ Service!ServiceNext
    BY <2>1, <2>2, <2>4, StopServed
  <2> QED BY <2>1, <2>3, <2>4
<1>6. CASE TickEnter
  BY <1>6, EnterServed
<1>7. CASE Handler
  BY <1>7, PassServed, PeriodicServed, OneShotServed, ReturnServed, ExitUnseen, UnseenStutters DEF Handler
<1>8. CASE ThreadCall
  BY <1>2, <1>3, <1>4, <1>8 DEF ThreadCall
<1> QED BY <1>1, <1>5, <1>6, <1>7, <1>8 DEF TimerNext

(* As long as callbacks leave the timers alone, but that a periodic timer  *)
(* among periodic ones may start and stop itself, the list that            *)
(* _vibe_timer_tick walks holds each running timer once and no other, for  *)
(* any number of timers, wherever the walk is.                             *)
THEOREM TimerListSound ==
  ASSUME Tame
  PROVE  TimerSpec => []ListSound
<1>1. TimerInit => TInv
  BY TimersStart
<1>2. TInv /\ [TimerNext]_timervars => TInv'
  BY StepServed
<1>3. TInv => ListSound
  BY ListIsSound
<1> QED BY <1>1, <1>2, <1>3, PTL DEF TimerSpec

LEMMA ServiceImplemented ==
  ASSUME Tame
  PROVE  TimerSpec => ServiceSpec
<1>1. TimerInit => TInv /\ Service!ServiceInit
  BY TimersStart
<1>2. TInv /\ [TimerNext]_timervars => TInv' /\ [Service!ServiceNext]_(Service!svars)
  BY StepServed
<1> QED BY <1>1, <1>2, PTL DEF TimerSpec, ServiceSpec, Service!ServiceSpec

(* At 1000 ticks a second nothing is lost between ticks and milliseconds.  *)
LEMMA SameTicks ==
  ASSUME HZ = 1000, NEW n \in 1..(UINT32 - 1)
  PROVE  VIBE_TICKS_TO_MS(n) = n /\ Ticks(n) = n
<1>1. UINT32 \in Nat \ {0, 1} /\ n \in Int /\ n = UINT32 * 0 + n /\ n \in 0..(UINT32 - 1) /\ n # 0
  BY TimerAssumption
<1>2. (n * 1000) \div 1000 = n
  BY <1>1, Z3
<1>3. n % UINT32 = n
  BY <1>1, ModIs
<1> QED BY <1>1, <1>2, <1>3 DEF VIBE_TICKS_TO_MS, VIBE_MS_TO_TICKS, Ticks

LEMMA RestartKept ==
  ASSUME Tame, HZ = 1000
  PROVE  TimerSpec => RestartKeepsDuration
<1> DEFINE Kp == \A t \in Timer :
                   (/\ rst.timer = t /\ rst' = NoRestart
                    /\ rst.ticks = duration_ticks[t] /\ rst.ticks > 0)
                     => active'[t] /\ duration_ticks'[t] = duration_ticks[t]
<1>1. TimerSpec => []TInv
  <2>1. TimerInit => TInv
    BY TimersStart
  <2>2. TInv /\ [TimerNext]_timervars => TInv'
    BY StepServed
  <2> QED BY <2>1, <2>2, PTL DEF TimerSpec
<1>2. TInv /\ [TimerNext]_timervars => [Kp]_timervars
  <2> SUFFICES ASSUME TInv, TimerNext,
                      NEW t \in Timer, rst.timer = t, rst' = NoRestart,
                      rst.ticks = duration_ticks[t], rst.ticks > 0
               PROVE  active'[t] /\ duration_ticks'[t] = duration_ticks[t]
    OBVIOUS
  <2>1. /\ duration_ticks \in [Timer -> 0..(UINT32 - 1)] /\ active \in [Timer -> BOOLEAN]
        /\ UINT32 \in Nat \ {0, 1} /\ NULL \notin Timer
    BY TimerAssumption DEF TInv, TypeOK
  <2>2. rst' # rst
    BY <2>1 DEF NoRestart
  <2>3. RestartStart \/ \E u \in Timer : RestartRead(u)
    BY <2>2 DEF TimerNext, ThreadCall, CallbackCall, TickEnter, Handler, TickPass, FirePeriodic,
                FireOneShot, CallbackReturn, TickExit
  <2>4. ~\E u \in Timer : RestartRead(u)
    BY <2>1, Zenon DEF RestartRead, NoRestart
  <2>5. RestartStart
    BY <2>3, <2>4
  <2> DEFINE n == rst.ticks
  <2>6. n \in 1..(UINT32 - 1)
    BY <2>1
  <2>7. VIBE_TICKS_TO_MS(n) = n /\ Ticks(n) = n
    BY <2>6, SameTicks
  <2>8. vibe_timer_start(rst.timer, n)
    BY <2>5, <2>6, <2>7 DEF RestartStart
  <2>9. duration_ticks' = [duration_ticks EXCEPT ![t] = n] /\ active' = [active EXCEPT ![t] = TRUE]
    BY <2>7, <2>8 DEF vibe_timer_start
  <2> QED BY <2>1, <2>9
<1> QED BY <1>1, <1>2, PTL DEF TimerSpec, RestartKeepsDuration

(* Under the same use of callbacks and at 1000 ticks a second the list and *)
(* the walk of _vibe_timer_tick implement the service of timer.h: a tick   *)
(* advances each running timer exactly once and fires exactly those whose  *)
(* time has come, and vibe_timer_restart keeps the duration.               *)
THEOREM TimersImplementService ==
  ASSUME Tame, HZ = 1000
  PROVE  TimerSpec => TimersKeepTime
<1>1. TimerSpec => ServiceSpec
  BY ServiceImplemented
<1>2. TimerSpec => RestartKeepsDuration
  BY RestartKept
<1> QED BY <1>1, <1>2 DEF TimersKeepTime

=============================================================================
