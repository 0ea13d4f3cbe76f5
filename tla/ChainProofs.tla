---------------------------- MODULE ChainProofs -----------------------------
(***************************************************************************)
(* What walking a linked list returns, what remains of a wait list, and    *)
(* what a ring of slots with indices modulo its size holds: the facts that *)
(* the proofs about the kernel's lists and buffers share.  The induction   *)
(* they need is the principle of the least number.                         *)
(***************************************************************************)
EXTENDS Chain, FiniteSetTheorems, SequenceTheorems, WellFoundedInduction, TLAPS

(* A set of naturals that is not empty has a least one.                    *)
LEMMA LeastNumber ==
  ASSUME NEW T \in SUBSET Nat, T # {}
  PROVE  \E x \in T : \A y \in T : x <= y
<1> DEFINE R == {p \in Nat \X Nat : p[1] < p[2]}
<1>1. OpToRel(<, Nat) = R
  BY DEF OpToRel
<1>2. IsWellFoundedOn(R, Nat)
  BY <1>1, NatLessThanWellFounded, Zenon
<1> HIDE DEF R
<1>3. PICK x \in T : \A y \in T : <<y, x>> \notin R
  BY <1>2, WFMin
<1>4. ASSUME NEW y \in T PROVE x <= y
  <2>1. x \in Nat /\ y \in Nat
    OBVIOUS
  <2>2. y < x => <<y, x>> \in R
    BY <2>1 DEF R
  <2> QED BY <1>3, <2>1, <2>2
<1> QED BY <1>4

(* From h, the next fields spell out the sequence s and then null.         *)
Spells(h, next, null, s) ==
  /\ h = IF Len(s) = 0 THEN null ELSE s[1]
  /\ \A k \in 1..Len(s) : next[s[k]] = IF k = Len(s) THEN null ELSE s[k + 1]

(* If the sequence s is what the next fields spell out from h to null, the *)
(* walk of the kernel's for-each loops returns s.                          *)
LEMMA ChainIsList ==
  ASSUME NEW S, NEW s \in Seq(S), NEW null, null \notin S, NEW next,
         NEW h, NEW bound \in Nat, Len(s) <= bound + 1, Spells(h, next, null, s)
  PROVE  ChainFrom(h, next, null, bound) = s
<1> DEFINE F(w) == [k \in 0..bound |-> IF k = 0 THEN h
                       ELSE IF w[k - 1] = null THEN null ELSE next[w[k - 1]]]
           v == [k \in 0..bound |-> IF k < Len(s) THEN s[k + 1] ELSE null]
           w == CHOOSE f : f = F(f)
           Stop(m) == (\A k \in 0..(m - 1) : w[k] # null) /\ (m <= bound => w[m] = null)
           n == CHOOSE m \in 0..(bound + 1) : Stop(m)
<1>1. v = F(v)
  <2>1. ASSUME NEW k \in 0..bound PROVE v[k] = F(v)[k]
    <3>1. Len(s) \in Nat /\ \A j \in 1..Len(s) : s[j] # null
      OBVIOUS
    <3>2. CASE k = 0
      BY <3>1, <3>2 DEF Spells
    <3>3. CASE k # 0
      <4>1. /\ k - 1 \in 0..bound /\ (k - 1) + 1 = k /\ (k - 1 < Len(s) => k \in 1..Len(s))
            /\ (k < Len(s)) <=> (k \in 1..Len(s) /\ k # Len(s))
        BY <3>1, <3>3
      <4>2. v[k - 1] = IF k - 1 < Len(s) THEN s[k] ELSE null
        <5>1. PICK j \in 0..bound : j = k - 1 /\ j + 1 = k
          BY <4>1
        <5>2. v[j] = IF j < Len(s) THEN s[j + 1] ELSE null
          OBVIOUS
        <5> QED BY <5>1, <5>2
      <4>3. F(v)[k] = IF v[k - 1] = null THEN null ELSE next[v[k - 1]]
        BY <3>3
      <4>4. k \in 1..Len(s) => next[s[k]] = IF k = Len(s) THEN null ELSE s[k + 1]
        BY DEF Spells
      <4> QED BY <3>1, <3>3, <4>1, <4>2, <4>3, <4>4
    <3> QED BY <3>2, <3>3
  <2> QED BY <2>1, Zenon
<1>2. w = F(w)
  BY <1>1, Zenon
<1>3. \A k \in 0..bound : w[k] = v[k]
  <2> HIDE DEF w
  <2> SUFFICES ASSUME {k \in 0..bound : w[k] # v[k]} # {} PROVE FALSE
    OBVIOUS
  <2>0. {k \in 0..bound : w[k] # v[k]} \in SUBSET Nat
    OBVIOUS
  <2>1. PICK x \in 0..bound : w[x] # v[x] /\ \A y \in 0..bound : w[y] # v[y] => x <= y
    BY <2>0, LeastNumber
  <2>2. CASE x = 0
    <3>1. \A f : F(f)[0] = h
      OBVIOUS
    <3> HIDE DEF F, v
    <3>2. w[0] = h /\ v[0] = h
      BY <1>1, <1>2, <3>1
    <3> QED BY <2>1, <2>2, <3>2
  <2>3. CASE x # 0
    <3>1. x - 1 \in 0..bound /\ w[x - 1] = v[x - 1]
      BY <2>1, <2>3
    <3>2. w[x] = F(v)[x]
      BY <3>1, <2>3, <1>2
    <3> QED BY <3>2, <1>1, <2>1
  <2> QED BY <2>2, <2>3
<1>4. ChainFrom(h, next, null, bound) = [k \in 1..n |-> w[k - 1]]
  BY DEF ChainFrom
<1>5. \A k \in 0..bound : w[k] = (IF k < Len(s) THEN s[k + 1] ELSE null) /\ (w[k] = null <=> k >= Len(s))
  BY <1>3
<1> HIDE DEF w, v, F
<1>6. n = Len(s)
  <2>1. Len(s) \in 0..(bound + 1) /\ Stop(Len(s))
    BY <1>5
  <2>2. n \in 0..(bound + 1) /\ Stop(n)
    BY <2>1
  <2> HIDE DEF n
  <2>3. ~(n < Len(s))
    BY <2>2, <1>5
  <2>4. ~(Len(s) < n)
    BY <2>2, <1>5
  <2> QED BY <2>2, <2>3, <2>4
<1> HIDE DEF n
<1> QED BY <1>4, <1>5, <1>6

(* The first n numbers are n.                                              *)
LEMMA UptoCard ==
  ASSUME NEW n \in Nat
  PROVE  IsFiniteSet(1..n) /\ Cardinality(1..n) = n
<1>1. 1 \in Int /\ n \in Int
  OBVIOUS
<1> DEFINE one == 1
<1>2. one \in Int
  BY <1>1
<1> HIDE DEF one
<1>3. IsFiniteSet(one..n) /\ Cardinality(one..n) = IF one > n THEN 0 ELSE n - one + 1
  BY <1>1, <1>2, FS_Interval, Zenon
<1> QED BY <1>3 DEF one

Distinct(s) == \A j, k \in 1..Len(s) : s[j] = s[k] => j = k

(* A list without repetitions is no longer than the set it is taken from,  *)
(* and has as many elements as places.                                     *)
LEMMA DistinctBound ==
  ASSUME NEW S, IsFiniteSet(S), NEW s \in Seq(S), Distinct(s)
  PROVE  /\ Len(s) <= Cardinality(S)
         /\ Cardinality({s[k] : k \in 1..Len(s)}) = Len(s)
<1>0. s \in [1..Len(s) -> S] /\ Len(s) \in Nat
  OBVIOUS
<1>d. \A j, k \in 1..Len(s) : s[j] = s[k] => j = k
  BY DEF Distinct
<1> DEFINE E == {s[k] : k \in 1..Len(s)}
<1>1. s \in Injection(1..Len(s), S)
  BY <1>0, <1>d DEF Injection, IsInjective
<1>2. Cardinality(1..Len(s)) = Len(s)
  BY <1>0, UptoCard
<1>3. Len(s) <= Cardinality(S)
  BY <1>1, <1>2, FS_Injection
<1>4. s \in [1..Len(s) -> E]
  BY <1>0
<1>5. s \in Bijection(1..Len(s), E)
  BY <1>0, <1>d, <1>4 DEF Bijection, Injection, Surjection, IsInjective
<1>6. ExistsBijection(1..Len(s), E)
  BY <1>5 DEF ExistsBijection
<1>7. Cardinality(E) = Len(s)
  BY <1>0, <1>6, FS_CountingElements, Zenon
<1> QED BY <1>3, <1>7

(* Taking the members of W off a wait list leaves the others, and links    *)
(* none of them twice.                                                     *)
LEMMA RemainingIs ==
  ASSUME NEW S, NEW s \in Seq(S), NEW W
  PROVE  /\ Remaining(s, W) \in Seq(S)
         /\ \A x : (\E k \in 1..Len(Remaining(s, W)) : Remaining(s, W)[k] = x)
                     <=> x \notin W /\ \E k \in 1..Len(s) : s[k] = x
         /\ (\A j, k \in 1..Len(s) : s[j] = s[k] => j = k)
              => \A j, k \in 1..Len(Remaining(s, W)) :
                   Remaining(s, W)[j] = Remaining(s, W)[k] => j = k
<1> DEFINE keep == {i \in DOMAIN s : s[i] \notin W}
           Upto(i) == {j \in keep : j <= i}
           rank == [i \in keep |-> Cardinality(Upto(i))]
           N == Cardinality(keep)
           at(k) == CHOOSE i \in keep : Cardinality({j \in keep : j <= i}) = k
<1>0. DOMAIN s = 1..Len(s) /\ Len(s) \in Nat
  OBVIOUS
<1>1. IsFiniteSet(keep) /\ N \in Nat
  BY <1>0, UptoCard, FS_Subset, FS_CardinalityType
<1>2. ASSUME NEW i \in keep PROVE IsFiniteSet(Upto(i)) /\ rank[i] \in 1..N
  <2>1. Upto(i) \in SUBSET keep /\ {i} \in SUBSET Upto(i)
    BY <1>0
  <2>2. IsFiniteSet(Upto(i)) /\ Cardinality(Upto(i)) <= N /\ Cardinality(Upto(i)) \in Nat
    BY <2>1, <1>1, FS_Subset, FS_CardinalityType
  <2>3. Cardinality(Upto(i)) # 0
    BY <2>1, <2>2, FS_EmptySet
  <2> QED BY <2>2, <2>3
<1>3. ASSUME NEW i \in keep, NEW j \in keep, i < j PROVE rank[i] # rank[j]
  <2>1. Upto(i) \in SUBSET Upto(j) /\ j \in Upto(j) /\ j \notin Upto(i)
    BY <1>0, <1>3
  <2>2. IsFiniteSet(Upto(j))
    BY <1>2
  <2>3. Cardinality(Upto(i)) # Cardinality(Upto(j))
    BY <2>1, <2>2, FS_Subset
  <2> QED BY <2>3
<1>4. rank \in Injection(keep, 1..N)
  <2>1. rank \in [keep -> 1..N]
    BY <1>2
  <2>2. \A i, j \in keep : rank[i] = rank[j] => i = j
    <3> SUFFICES ASSUME NEW i \in keep, NEW j \in keep, rank[i] = rank[j], i # j PROVE FALSE
      OBVIOUS
    <3>1. i \in Int /\ j \in Int
      BY <1>0
    <3>2. i < j \/ j < i
      BY <3>1
    <3> HIDE DEF rank
    <3> QED BY <3>2, <1>3
  <2> HIDE DEF rank, keep, N
  <2> QED BY <2>1, <2>2 DEF Injection, IsInjective
<1>5. rank \in Surjection(keep, 1..N)
  <2>1. IsFiniteSet(1..N) /\ Cardinality(1..N) = N
    BY <1>1, UptoCard
  <2> HIDE DEF rank
  <2> QED BY <2>1, <1>4, FS_Injection
<1>6. ASSUME NEW k \in 1..N PROVE at(k) \in keep /\ rank[at(k)] = k
  <2>1. \E i \in keep : rank[i] = k
    BY <1>5 DEF Surjection
  <2> QED BY <2>1
<1>7. ASSUME NEW i \in keep PROVE at(rank[i]) = i
  <2>1. rank[i] \in 1..N
    BY <1>2
  <2>2. at(rank[i]) \in keep /\ rank[at(rank[i])] = rank[i]
    BY <2>1, <1>6
  <2> HIDE DEF rank, at
  <2> QED BY <2>2, <1>4 DEF Injection, IsInjective
<1>8. Remaining(s, W) = [k \in 1..N |-> s[at(k)]]
  BY DEF Remaining
<1> DEFINE r == Remaining(s, W)
<1> HIDE DEF N, at, r, rank
<1>9. r = [k \in 1..N |-> s[at(k)]]
  BY <1>8 DEF r
<1>10. r \in Seq(S) /\ Len(r) = N
  <2>1. \A k \in 1..N : s[at(k)] \in S
    BY <1>6
  <2> QED BY <2>1, <1>1, <1>9
<1>11. ASSUME NEW x
       PROVE  (\E k \in 1..N : r[k] = x) <=> x \notin W /\ \E k \in 1..Len(s) : s[k] = x
  <2>1. ASSUME NEW k \in 1..N, r[k] = x PROVE x \notin W /\ \E i \in 1..Len(s) : s[i] = x
    BY <2>1, <1>6, <1>9
  <2>2. ASSUME x \notin W, NEW i \in 1..Len(s), s[i] = x PROVE \E k \in 1..N : r[k] = x
    <3>1. i \in keep
      BY <2>2, <1>0
    <3> QED BY <3>1, <1>2, <1>7, <1>9, <2>2
  <2> QED BY <2>1, <2>2
<1>12. ASSUME \A j, k \in 1..Len(s) : s[j] = s[k] => j = k,
              NEW j \in 1..N, NEW k \in 1..N, r[j] = r[k]
       PROVE  j = k
  BY <1>12, <1>6, <1>9
<1> QED BY <1>10, <1>11, <1>12 DEF r

(* A finite set of numbers that is not empty has a greatest one (a         *)
(* highest priority, say).                                                 *)
LEMMA HasHighest ==
  ASSUME NEW S \in SUBSET Int, IsFiniteSet(S), S # {}
  PROVE  \E p \in S : \A q \in S : q <= p
<1> DEFINE Topped(X) == \E p \in X : \A q \in X : q <= p
           B == {X \in FiniteSubsetsOf(S) : X # {} /\ ~Topped(X)}
<1> SUFFICES ASSUME ~Topped(S) PROVE FALSE
  OBVIOUS
<1>1. B # {} /\ B \subseteq FiniteSubsetsOf(S)
  BY DEF FiniteSubsetsOf
<1>2. IsWellFoundedOn(StrictSubsetOrdering(S), FiniteSubsetsOf(S))
  BY FS_StrictSubsetOrderingWellFounded
<1>3. PICK X \in B : \A Y \in B : ~(<<Y, X>> \in StrictSubsetOrdering(S))
  <2> HIDE DEF B
  <2> QED BY <1>1, <1>2, WFMin
<1>4. X \in SUBSET S /\ IsFiniteSet(X) /\ X # {} /\ ~Topped(X)
  BY DEF FiniteSubsetsOf
<1>5. PICK x \in X : TRUE
  BY <1>4
<1> DEFINE Y == X \ {x}
<1>6. Y \in FiniteSubsetsOf(S)
  BY <1>4, FS_RemoveElement DEF FiniteSubsetsOf
<1>7. <<Y, X>> \in StrictSubsetOrdering(S)
  BY <1>4, <1>5 DEF StrictSubsetOrdering
<1>8. Y = {} \/ Topped(Y)
  BY <1>3, <1>6, <1>7
<1>9. CASE Y = {}
  <2>1. \A q \in X : q = x
    BY <1>9
  <2>2. x \in Int
    BY <1>4
  <2>3. Topped(X)
    BY <2>1, <2>2, <1>5
  <2> QED BY <2>3, <1>4
<1>10. CASE Topped(Y)
  <2>1. PICK p \in Y : \A q \in Y : q <= p
    BY <1>10
  <2>2. p \in X /\ p \in Int /\ x \in Int /\ \A q \in X : q = x \/ q <= p
    BY <2>1, <1>4, <1>5
  <2>3. CASE x <= p
    <3>1. \A q \in X : q <= p
      BY <2>2, <2>3
    <3> QED BY <3>1, <2>2, <1>4
  <2>4. CASE p <= x
    <3>1. \A q \in X : q <= x
      BY <2>2, <2>4, <1>4
    <3> QED BY <3>1, <1>5, <1>4
  <2> QED BY <2>2, <2>3, <2>4
<1> QED BY <1>8, <1>9, <1>10

-----------------------------------------------------------------------------
(* The remainder is determined by its range.                               *)
LEMMA ModIs ==
  ASSUME NEW N \in Nat \ {0}, NEW a \in Int, NEW q \in Int, NEW r \in 0..(N - 1),
         a = N * q + r
  PROVE  a % N = r
<1> DEFINE d == a \div N
           m == a % N
<1>1. d \in Int /\ m \in 0..(N - 1) /\ a = N * d + m
  BY Z3
<1> HIDE DEF d, m
<1>2. CASE q > d
  <2>1. PICK k \in Nat \ {0} : q = d + k
    <3>1. q - d \in Nat \ {0} /\ q = d + (q - d)
      BY <1>1, <1>2
    <3> QED BY <3>1
  <2>2. N * q = N * d + N * k /\ N * k >= N
    BY <1>1, <2>1, Z3
  <2> QED BY <1>1, <2>1, <2>2
<1>3. CASE q < d
  <2>1. PICK k \in Nat \ {0} : d = q + k
    <3>1. d - q \in Nat \ {0} /\ d = q + (d - q)
      BY <1>1, <1>3
    <3> QED BY <3>1
  <2>2. N * d = N * q + N * k /\ N * k >= N
    BY <1>1, <2>1, Z3
  <2> QED BY <1>1, <2>1, <2>2
<1>4. CASE q = d
  BY <1>1, <1>4 DEF m
<1> QED
  BY <1>1, <1>2, <1>3, <1>4

(* So is the quotient.                                                     *)
LEMMA DivIs ==
  ASSUME NEW N \in Nat \ {0}, NEW a \in Int, NEW q \in Int, NEW r \in 0..(N - 1), a = N * q + r
  PROVE  a \div N = q
<1> DEFINE d == a \div N
           m == a % N
<1>1. d \in Int /\ m \in 0..(N - 1) /\ a = N * d + m
  BY Z3
<1>2. m = r
  BY ModIs
<1> HIDE DEF d, m
<1>3. N * d \in Int /\ N * q \in Int
  BY <1>1, Z3
<1>4. N * d = N * q
  BY <1>1, <1>2, <1>3
<1>5. d = q
  BY <1>1, <1>4, Z3
<1> QED BY <1>5 DEF d

LEMMA DivOf ==
  ASSUME NEW N \in Nat \ {0}, NEW a \in Int
  PROVE  a \div N \in Int /\ a % N \in 0..(N - 1) /\ a = N * (a \div N) + (a % N)
BY Z3

(* Every number is a multiple of N and a remainder.                        *)
LEMMA ModOf ==
  ASSUME NEW N \in Nat \ {0}, NEW a \in Int
  PROVE  /\ a % N \in 0..(N - 1) /\ \E q \in Int : a = N * q + (a % N)
<1>1. a % N \in 0..(N - 1) /\ a \div N \in Int /\ a = N * (a \div N) + (a % N)
  BY Z3
<1> QED BY <1>1, Zenon

(* An index that is wrapped and then advanced is the advanced one wrapped. *)
LEMMA ModAdd ==
  ASSUME NEW N \in Nat \ {0}, NEW a \in Int, NEW b \in Int
  PROVE  ((a % N) + b) % N = (a + b) % N
<1>1. PICK m \in 0..(N - 1), q \in Int : m = a % N /\ a = N * q + m
  BY ModOf
<1>2. m + b \in Int
  OBVIOUS
<1>3. PICK r \in 0..(N - 1), p \in Int : r = (m + b) % N /\ m + b = N * p + r
  BY <1>2, ModOf
<1>4. N * (q + p) = N * q + N * p /\ N * q \in Int /\ N * p \in Int
  BY Z3
<1>5. a + b = N * (q + p) + r /\ a + b \in Int /\ q + p \in Int
  <2>1. a = N * q + m /\ m + b = N * p + r
    BY <1>1, <1>3
  <2>2. \A x, y \in Int : a = x + m /\ m + b = y + r => a + b = (x + y) + r
    OBVIOUS
  <2>3. a + b = (N * q + N * p) + r
    BY <1>4, <2>1, <2>2, Zenon
  <2> QED BY <1>4, <2>3
<1>6. (a + b) % N = r
  BY <1>5, ModIs
<1> QED
  BY <1>1, <1>3, <1>6

(* Less than one lap apart, two indices are never in the same slot.        *)
LEMMA ModInj ==
  ASSUME NEW N \in Nat \ {0}, NEW a \in Int, NEW b \in Int,
         a % N = b % N, a <= b, b < a + N
  PROVE  a = b
<1>1. PICK q \in Int : a = N * q + (a % N)
  BY ModOf
<1>2. PICK p \in Int : b = N * p + (b % N)
  BY ModOf
<1>3. a % N \in Int
  BY ModOf
<1> DEFINE m == a % N
<1>4. a = N * q + m /\ b = N * p + m /\ m \in Int
  BY <1>1, <1>2, <1>3
<1> HIDE DEF m
<1>5. CASE p > q
  <2>1. PICK k \in Nat \ {0} : p = q + k
    <3>1. p - q \in Nat \ {0} /\ p = q + (p - q)
      BY <1>5
    <3> QED BY <3>1
  <2>2. N * p = N * q + N * k /\ N * k >= N
    BY <2>1, Z3
  <2> QED BY <1>4, <2>1, <2>2
<1>6. CASE p < q
  <2>1. PICK k \in Nat \ {0} : q = p + k
    <3>1. q - p \in Nat \ {0} /\ q = p + (q - p)
      BY <1>6
    <3> QED BY <3>1
  <2>2. N * q = N * p + N * k /\ N * k >= N
    BY <2>1, Z3
  <2> QED BY <1>4, <2>1, <2>2
<1> QED
  BY <1>4, <1>5, <1>6

(* The u elements that a ring of N slots holds from slot h on.             *)
Ring(N, buf, h, u) == [i \in 1..u |-> buf[(h + i - 1) % N]]

(* Two buffers agree on these u elements.                                  *)
SameRing(N, buf, new, h, u) == \A i \in 1..u : new[(h + i - 1) % N] = buf[(h + i - 1) % N]

(* Writing elsewhere and counting n more slots appends n elements.         *)
LEMMA RingPush ==
  ASSUME NEW N \in Nat \ {0}, NEW h \in Int, NEW u \in Nat, NEW n \in Nat,
         NEW buf, NEW new, SameRing(N, buf, new, h, u)
  PROVE  /\ Len(Ring(N, new, h, u + n)) = u + n
         /\ SubSeq(Ring(N, new, h, u + n), 1, u) = Ring(N, buf, h, u)
<1> DEFINE f == Ring(N, new, h, u + n)
<1>1. f = [i \in 1..(u + n) |-> new[(h + i - 1) % N]]
  BY DEF Ring
<1> HIDE DEF f
<1>2. Len(f) = u + n
  BY <1>1
<1>3. SubSeq(f, 1, u) = [i \in 1..u |-> f[i]]
  BY <1>1
<1>4. \A i \in 1..u : f[i] = buf[(h + i - 1) % N]
  BY <1>1 DEF SameRing
<1>5. SubSeq(f, 1, u) = Ring(N, buf, h, u)
  BY <1>3, <1>4 DEF Ring
<1> QED
  BY <1>2, <1>5 DEF f

(* The first n elements are taken, and the rest stays.                     *)
Popped(N, buf, h, u, n) ==
  /\ Len(Ring(N, buf, h, u)) = u
  /\ Ring(N, buf, h, n) = SubSeq(Ring(N, buf, h, u), 1, n)
  /\ Ring(N, buf, (h + n) % N, u - n) = SubSeq(Ring(N, buf, h, u), n + 1, u)

(* Moving the head n slots on takes the first n elements.                  *)
LEMMA RingPop ==
  ASSUME NEW N \in Nat \ {0}, NEW h \in Int, NEW u \in Nat, NEW n \in 0..u, NEW buf
  PROVE  Popped(N, buf, h, u, n)
<1> DEFINE f == Ring(N, buf, h, u)
           g == Ring(N, buf, (h + n) % N, u - n)
<1>1. f = [i \in 1..u |-> buf[(h + i - 1) % N]]
  BY DEF Ring
<1>2. g = [i \in 1..(u - n) |-> buf[(((h + n) % N) + i - 1) % N]]
  BY DEF Ring
<1> HIDE DEF f, g
<1>3. \A i \in 1..(u - n) : (((h + n) % N) + i - 1) % N = (h + (n + i) - 1) % N
  <2> TAKE i \in 1..(u - n)
  <2>1. (((h + n) % N) + (i - 1)) % N = ((h + n) + (i - 1)) % N
    <3>1. h + n \in Int /\ i - 1 \in Int
      OBVIOUS
    <3> QED BY <3>1, ModAdd
  <2>2. (h + n) % N \in Int
    BY ModOf
  <2>3. ((h + n) % N) + (i - 1) = ((h + n) % N) + i - 1
    BY <2>2, Z3
  <2>4. (h + n) + (i - 1) = h + (n + i) - 1
    OBVIOUS
  <2> QED BY <2>1, <2>3, <2>4
<1>4. SubSeq(f, n + 1, u) = [i \in 1..(u - n) |-> f[n + i]]
  BY <1>1
<1>5. \A i \in 1..(u - n) : f[n + i] = g[i]
  BY <1>1, <1>2, <1>3
<1>6. g = SubSeq(f, n + 1, u)
  BY <1>2, <1>4, <1>5
<1>7. SubSeq(f, 1, n) = [i \in 1..n |-> f[i]]
  BY <1>1
<1>8. Ring(N, buf, h, n) = SubSeq(f, 1, n)
  BY <1>1, <1>7 DEF Ring
<1>9. Len(f) = u
  BY <1>1
<1> QED
  BY <1>6, <1>8, <1>9 DEF f, g, Popped

-----------------------------------------------------------------------------
(* A sequence without its k-th element.                                    *)
Without(s, k) == [j \in 1..(Len(s) - 1) |-> IF j < k THEN s[j] ELSE s[j + 1]]

(* A sequence with x put before its k-th element.                          *)
With(s, k, x) ==
  [j \in 1..(Len(s) + 1) |->
     IF j < k THEN s[j] ELSE IF j = k THEN x ELSE s[j - 1]]

LEMMA WithoutSeq ==
  ASSUME NEW N, NEW s \in Seq(N), NEW k \in 1..Len(s)
  PROVE  Without(s, k) \in Seq(N) /\ Len(Without(s, k)) = Len(s) - 1
<1>1. Len(s) - 1 \in Nat
  OBVIOUS
<1>2. \A j \in 1..(Len(s) - 1) : (IF j < k THEN s[j] ELSE s[j + 1]) \in N
  OBVIOUS
<1> QED BY <1>1, <1>2 DEF Without

LEMMA WithSeq ==
  ASSUME NEW N, NEW s \in Seq(N), NEW k \in 1..(Len(s) + 1), NEW x \in N
  PROVE  With(s, k, x) \in Seq(N) /\ Len(With(s, k, x)) = Len(s) + 1
<1>1. Len(s) + 1 \in Nat
  OBVIOUS
<1>2. \A j \in 1..(Len(s) + 1) :
        (IF j < k THEN s[j] ELSE IF j = k THEN x ELSE s[j - 1]) \in N
  OBVIOUS
<1> QED BY <1>1, <1>2 DEF With

-----------------------------------------------------------------------------
(* What is defined by recursion on the first naturals exists.              *)
Recurses(N, S, b, G, f) ==
  f \in [0..N -> S] /\ f[0] = b /\ \A n \in 1..N : f[n] = G[<<n, f[n - 1]>>]

LEMMA Recursion ==
  ASSUME NEW N \in Nat, NEW S, NEW b \in S, NEW G \in [(1..N) \X S -> S]
  PROVE  \E f : Recurses(N, S, b, G, f)
<1> DEFINE Bad == {k \in 0..N : ~\E f : Recurses(k, S, b, G, f)}
<1>1. SUFFICES ASSUME Bad # {} PROVE FALSE
  <2>1. N \notin Bad => \E f : Recurses(N, S, b, G, f)
    OBVIOUS
  <2> QED BY <1>1, <2>1
<1>2. PICK k \in Bad : \A j \in Bad : k <= j
  <2>1. Bad \in SUBSET Nat
    OBVIOUS
  <2> HIDE DEF Bad
  <2> QED BY <1>1, <2>1, LeastNumber
<1>3. k \in 0..N /\ ~\E f : Recurses(k, S, b, G, f)
  BY <1>2
<1>4. CASE k = 0
  <2>1. Recurses(0, S, b, G, [n \in 0..0 |-> b])
    BY DEF Recurses
  <2> QED BY <1>3, <1>4, <2>1
<1>5. CASE k # 0
  <2>1. k - 1 \in 0..N /\ ~(k <= k - 1)
    BY <1>3, <1>5
  <2>2. k - 1 \notin Bad
    BY <1>2, <2>1
  <2>3. PICK f : Recurses(k - 1, S, b, G, f)
    BY <2>1, <2>2
  <2> HIDE DEF Bad
  <2>4. PICK x \in S : x = G[<<k, f[k - 1]>>]
    <3>1. k - 1 \in 0..(k - 1) /\ k \in 1..N
      BY <1>3, <1>5
    <3>2. f[k - 1] \in S
      BY <2>3, <3>1 DEF Recurses
    <3>3. <<k, f[k - 1]>> \in (1..N) \X S
      BY <3>1, <3>2
    <3> QED BY <3>3
  <2>5. PICK g : g = [n \in 0..k |-> IF n = k THEN x ELSE f[n]]
    OBVIOUS
  <2>6. \A n \in 0..k : n # k => n \in 0..(k - 1)
    BY <1>3
  <2>7. g \in [0..k -> S]
    BY <2>3, <2>5, <2>6 DEF Recurses
  <2>8. g[0] = b
    BY <1>3, <1>5, <2>3, <2>5 DEF Recurses
  <2>9. ASSUME NEW n \in 1..k PROVE g[n] = G[<<n, g[n - 1]>>]
    <3>1. n - 1 \in 0..(k - 1) /\ n - 1 # k /\ n \in 0..k /\ n - 1 \in 0..k
      BY <1>3, <2>9
    <3>2. g[n - 1] = f[n - 1]
      BY <2>5, <3>1
    <3>3. CASE n = k
      BY <2>4, <2>5, <3>1, <3>2, <3>3
    <3>4. CASE n # k
      <4>1. n \in 1..(k - 1)
        BY <1>3, <2>9, <3>4
      <4>2. f[n] = G[<<n, f[n - 1]>>]
        BY <2>3, <4>1 DEF Recurses
      <4> QED BY <2>5, <3>1, <3>2, <3>4, <4>2
    <3> QED BY <3>3, <3>4
  <2>10. Recurses(k, S, b, G, g)
    BY <2>7, <2>8, <2>9 DEF Recurses
  <2> QED BY <1>3, <2>10
<1> QED BY <1>4, <1>5

(* And a property of the first values that each hands on holds of all: for *)
(* a set of naturals, the principle of induction.                          *)
LEMMA Upward ==
  ASSUME NEW N \in Nat, NEW T, 0 \in T, \A n \in 1..N : n - 1 \in T => n \in T
  PROVE  \A n \in 0..N : n \in T
<1> DEFINE Bad == (0..N) \ T
<1>1. SUFFICES ASSUME Bad # {} PROVE FALSE
  OBVIOUS
<1>2. PICK k \in Bad : \A j \in Bad : k <= j
  <2>1. Bad \in SUBSET Nat
    OBVIOUS
  <2> HIDE DEF Bad
  <2> QED BY <1>1, <2>1, LeastNumber
<1>3. k \in 0..N /\ k \notin T /\ k # 0
  BY <1>2
<1>4. k - 1 \in 0..N /\ ~(k <= k - 1) /\ k \in 1..N
  BY <1>3
<1>5. k - 1 \in T
  BY <1>2, <1>4
<1> QED BY <1>3, <1>4, <1>5

(* An element in front moves the others one place on.                      *)
InFront(t, S, s, d) ==
  /\ t \in Seq(S) /\ Len(t) = Len(s) + 1
  /\ t[1] = d /\ \A n \in 1..Len(s) : t[n + 1] = s[n]

LEMMA ConsIs ==
  ASSUME NEW S, NEW s \in Seq(S), NEW d \in S
  PROVE  InFront(<<d>> \o s, S, s, d)
<1>1. PICK e \in Seq(S) : e = <<d>> /\ Len(e) = 1 /\ e[1] = d
  <2>1. <<d>> \in Seq(S) /\ Len(<<d>>) = 1 /\ <<d>>[1] = d
    OBVIOUS
  <2> QED BY <2>1, Zenon
<1>2. PICK t : t = e \o s
  OBVIOUS
<1>3. /\ t \in Seq(S) /\ Len(t) = Len(e) + Len(s)
      /\ \A i \in 1..(Len(e) + Len(s)) : t[i] = IF i <= Len(e) THEN e[i] ELSE s[i - Len(e)]
  BY <1>2, ConcatProperties, Zenon
<1>4. Len(s) \in Nat
  OBVIOUS
<1>5. t[1] = d
  BY <1>1, <1>3, <1>4
<1>6. ASSUME NEW n \in 1..Len(s) PROVE t[n + 1] = s[n]
  <2>1. n + 1 \in 1..(1 + Len(s)) /\ ~(n + 1 <= 1) /\ n + 1 - 1 = n
    BY <1>4
  <2> QED BY <1>1, <1>3, <2>1
<1>7. InFront(t, S, s, d)
  BY <1>1, <1>3, <1>4, <1>5, <1>6 DEF InFront
<1> QED BY <1>1, <1>2, <1>7

=============================================================================
