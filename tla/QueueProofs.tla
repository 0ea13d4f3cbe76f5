---------------------------- MODULE QueueProofs -----------------------------
(* What the list operations of VibeList and the run queues built of them   *)
(* preserve, proved for lists of any length and any set of priorities.     *)
EXTENDS RunQueue, ChainProofs

(* A uint32_t stays within its width.                                      *)
LEMMA ModWidth ==
  ASSUME NEW x \in Int
  PROVE  x % UINT32 \in 0..(UINT32 - 1)
BY UINT32Assumption

(* Linking a node into a list keeps the heap well typed, whatever its      *)
(* pointers are.                                                           *)
LEMMA AppendType ==
  ASSUME NEW L, NEW N, NEW H \in Heap(L, N), NEW l \in L, NEW n \in N,
         NULL \notin N
  PROVE  vibe_list_append(H, l, n) \in Heap(L, N)
<1>1. \A c \in 0..(UINT32 - 1) : (c + 1) % UINT32 \in 0..(UINT32 - 1)
  BY ModWidth, UINT32Assumption
<1>2. [H.count EXCEPT ![l] = (@ + 1) % UINT32] \in [L -> 0..(UINT32 - 1)]
  BY <1>1 DEF Heap
<1> QED BY <1>2 DEF Heap, vibe_list_append, SetIf

LEMMA PrependType ==
  ASSUME NEW L, NEW N, NEW H \in Heap(L, N), NEW l \in L, NEW n \in N,
         NULL \notin N
  PROVE  vibe_list_prepend(H, l, n) \in Heap(L, N)
<1>1. \A c \in 0..(UINT32 - 1) : (c + 1) % UINT32 \in 0..(UINT32 - 1)
  BY ModWidth, UINT32Assumption
<1>2. [H.count EXCEPT ![l] = (@ + 1) % UINT32] \in [L -> 0..(UINT32 - 1)]
  BY <1>1 DEF Heap
<1> QED BY <1>2 DEF Heap, vibe_list_prepend, SetIf

LEMMA InsertAfterType ==
  ASSUME NEW L, NEW N, NEW H \in Heap(L, N), NEW l \in L, NEW n \in N,
         NEW a \in N, NULL \notin N
  PROVE  vibe_list_insert_after(H, l, a, n) \in Heap(L, N)
<1>1. \A c \in 0..(UINT32 - 1) : (c + 1) % UINT32 \in 0..(UINT32 - 1)
  BY ModWidth, UINT32Assumption
<1>2. [H.count EXCEPT ![l] = (@ + 1) % UINT32] \in [L -> 0..(UINT32 - 1)]
  BY <1>1 DEF Heap
<1> QED BY <1>2 DEF Heap, vibe_list_insert_after, SetIf

LEMMA RemoveType ==
  ASSUME NEW L, NEW N, NEW H \in Heap(L, N), NEW l \in L, NEW n \in N,
         NULL \notin N
  PROVE  vibe_list_remove(H, l, n) \in Heap(L, N)
<1>1. \A c \in 0..(UINT32 - 1) : (c - 1) % UINT32 \in 0..(UINT32 - 1)
  BY ModWidth, UINT32Assumption
<1>2. [H.count EXCEPT ![l] = (@ - 1) % UINT32] \in [L -> 0..(UINT32 - 1)]
  BY <1>1 DEF Heap
<1> QED BY <1>2 DEF Heap, vibe_list_remove, SetIf

LEMMA NodeInitType ==
  ASSUME NEW L, NEW N, NEW H \in Heap(L, N), NEW n \in N
  PROVE  vibe_list_node_init(H, n) \in Heap(L, N)
BY DEF Heap, vibe_list_node_init

-----------------------------------------------------------------------------
(* vibe_list_append puts the node at the end of its list.                  *)
LEMMA AppendLinked ==
  ASSUME NEW L, NEW N, NEW H \in Heap(L, N), NEW l \in L, NEW n \in N,
         NULL \notin N, NEW s \in Seq(N), Linked(H, l, s),
         \A k \in 1..Len(s) : s[k] # n
  PROVE  Linked(vibe_list_append(H, l, n), l, Append(s, n))
<1> DEFINE A == vibe_list_append(H, l, n)
           r == Append(s, n)
<1>1. Len(r) = Len(s) + 1 /\ r[Len(s) + 1] = n
      /\ \A k \in 1..Len(s) : r[k] = s[k]
  OBVIOUS
<1>2. A.head[l] = r[1] /\ A.tail[l] = r[Len(r)]
  BY <1>1 DEF Heap, Linked, vibe_list_append
<1>3. \A k \in 1..Len(r) : A.prev[r[k]] = IF k = 1 THEN NULL ELSE r[k - 1]
  BY <1>1 DEF Heap, Linked, vibe_list_append
<1>4. \A k \in 1..Len(r) : A.next[r[k]] = IF k = Len(r) THEN NULL ELSE r[k + 1]
  BY <1>1 DEF Heap, Linked, vibe_list_append, SetIf
<1>5. \A j, k \in 1..Len(r) : r[j] = r[k] => j = k
  BY <1>1 DEF Linked
<1> HIDE DEF A, r
<1>6. Linked(A, l, r)
  BY <1>1, <1>2, <1>3, <1>4, <1>5 DEF Linked
<1> QED BY <1>6 DEF A, r

(* ... and leaves every list that shares no node with them alone.          *)
LEMMA AppendFrame ==
  ASSUME NEW L, NEW N, NEW H \in Heap(L, N), NEW l \in L, NEW n \in N,
         NULL \notin N, NEW s \in Seq(N), Linked(H, l, s),
         NEW m \in L, m # l, NEW r \in Seq(N), Linked(H, m, r),
         \A k \in 1..Len(r) : r[k] # n,
         \A k \in 1..Len(r), j \in 1..Len(s) : r[k] # s[j]
  PROVE  Linked(vibe_list_append(H, l, n), m, r)
BY DEF Heap, Linked, vibe_list_append, SetIf

(* vibe_list_remove takes the node out of the list it is in.               *)
LEMMA RemoveLinked ==
  ASSUME NEW L, NEW N, NEW H \in Heap(L, N), NEW l \in L,
         NULL \notin N, NEW s \in Seq(N), Linked(H, l, s),
         NEW i \in 1..Len(s)
  PROVE  Linked(vibe_list_remove(H, l, s[i]), l, Without(s, i))
<1> DEFINE A == vibe_list_remove(H, l, s[i])
           r == Without(s, i)
<1>1. Len(r) = Len(s) - 1 /\ Len(s) \in Nat
  BY WithoutSeq
<1>2. \A k \in 1..Len(r) : r[k] = IF k < i THEN s[k] ELSE s[k + 1]
  BY <1>1 DEF Without
<1>3. /\ H.prev[s[i]] = IF i = 1 THEN NULL ELSE s[i - 1]
      /\ H.next[s[i]] = IF i = Len(s) THEN NULL ELSE s[i + 1]
  BY DEF Linked
<1>4. \A k \in 1..Len(s) : s[k] \in N /\ s[k] # NULL
  OBVIOUS
<1>5. A.head[l] = IF Len(r) = 0 THEN NULL ELSE r[1]
  BY <1>1, <1>2, <1>3, <1>4 DEF Heap, Linked, vibe_list_remove
<1>6. A.tail[l] = IF Len(r) = 0 THEN NULL ELSE r[Len(r)]
  <2>1. H.tail[l] = s[Len(s)]
    BY <1>1 DEF Linked
  <2>2. A.tail[l] = IF i = Len(s) THEN H.prev[s[i]] ELSE s[Len(s)]
    BY <1>1, <1>3, <1>4, <2>1 DEF Heap, vibe_list_remove
  <2> QED BY <1>1, <1>2, <1>3, <2>2
<1>7. \A k \in 1..Len(r) : r[k] \in N /\ r[k] # s[i]
  BY <1>1, <1>2, <1>4 DEF Linked
<1>8. ASSUME NEW j \in 1..Len(r), NEW k \in 1..Len(r), r[j] = r[k]
      PROVE  j = k
  <2> DEFINE jj == IF j < i THEN j ELSE j + 1
             kk == IF k < i THEN k ELSE k + 1
  <2>1. jj \in 1..Len(s) /\ kk \in 1..Len(s) /\ s[jj] = s[kk]
    BY <1>1, <1>2, <1>8
  <2>2. jj = kk
    BY <2>1 DEF Linked
  <2> QED BY <2>2
<1>9. ASSUME NEW k \in 1..Len(r)
      PROVE  /\ A.prev[r[k]] = IF k = 1 THEN NULL ELSE r[k - 1]
             /\ A.next[r[k]] = IF k = Len(r) THEN NULL ELSE r[k + 1]
  <2> DEFINE kk == IF k < i THEN k ELSE k + 1
  <2>1. kk \in 1..Len(s) /\ r[k] = s[kk] /\ kk # i
    BY <1>1, <1>2
  <2>2. /\ H.prev[s[kk]] = IF kk = 1 THEN NULL ELSE s[kk - 1]
        /\ H.next[s[kk]] = IF kk = Len(s) THEN NULL ELSE s[kk + 1]
    BY <2>1 DEF Linked
  <2>3. \A x \in 1..Len(s) : s[x] = s[kk] => x = kk
    BY <2>1 DEF Linked
  <2>4. /\ A.prev = [SetIf(H.prev, H.next[s[i]], H.prev[s[i]])
                      EXCEPT ![s[i]] = NULL]
        /\ A.next = [SetIf(H.next, H.prev[s[i]], H.next[s[i]])
                      EXCEPT ![s[i]] = NULL]
    BY DEF vibe_list_remove
  <2>5. A.prev[s[kk]] = IF i < Len(s) /\ kk = i + 1 THEN H.prev[s[i]]
                        ELSE H.prev[s[kk]]
    BY <1>3, <1>4, <2>1, <2>3, <2>4 DEF Heap, SetIf
  <2>6. A.next[s[kk]] = IF i > 1 /\ kk = i - 1 THEN H.next[s[i]]
                        ELSE H.next[s[kk]]
    BY <1>3, <1>4, <2>1, <2>3, <2>4 DEF Heap, SetIf
  <2>7. A.prev[r[k]] = IF k = 1 THEN NULL ELSE r[k - 1]
    BY <1>1, <1>2, <1>3, <2>1, <2>2, <2>5
  <2>8. A.next[r[k]] = IF k = Len(r) THEN NULL ELSE r[k + 1]
    BY <1>1, <1>2, <1>3, <2>1, <2>2, <2>6
  <2> QED BY <2>7, <2>8
<1> HIDE DEF A, r
<1>10. Linked(A, l, r)
  BY <1>5, <1>6, <1>8, <1>9 DEF Linked
<1> QED BY <1>10 DEF A, r

LEMMA RemoveFrame ==
  ASSUME NEW L, NEW N, NEW H \in Heap(L, N), NEW l \in L,
         NULL \notin N, NEW s \in Seq(N), Linked(H, l, s),
         NEW i \in 1..Len(s),
         NEW m \in L, m # l, NEW r \in Seq(N), Linked(H, m, r),
         \A k \in 1..Len(r), j \in 1..Len(s) : r[k] # s[j]
  PROVE  Linked(vibe_list_remove(H, l, s[i]), m, r)
<1>1. /\ H.prev[s[i]] = IF i = 1 THEN NULL ELSE s[i - 1]
      /\ H.next[s[i]] = IF i = Len(s) THEN NULL ELSE s[i + 1]
  BY DEF Linked
<1> DEFINE A == vibe_list_remove(H, l, s[i])
<1>2. A.head[m] = H.head[m] /\ A.tail[m] = H.tail[m]
  BY DEF Heap, vibe_list_remove
<1>3. \A k \in 1..Len(r) :
        /\ r[k] \in N /\ r[k] # s[i]
        /\ r[k] # H.prev[s[i]] /\ r[k] # H.next[s[i]]
  BY <1>1
<1>4. \A k \in 1..Len(r) :
        A.prev[r[k]] = H.prev[r[k]] /\ A.next[r[k]] = H.next[r[k]]
  BY <1>3 DEF Heap, vibe_list_remove, SetIf
<1> HIDE DEF A
<1>5. Linked(A, m, r)
  BY <1>2, <1>4 DEF Linked
<1> QED BY <1>5 DEF A

(* Prepending, or inserting after the node before the i-th, puts the node  *)
(* before the i-th.                                                        *)
LEMMA PrependLinked ==
  ASSUME NEW L, NEW N, NEW H \in Heap(L, N), NEW l \in L, NEW n \in N,
         NULL \notin N, NEW s \in Seq(N), Linked(H, l, s),
         \A k \in 1..Len(s) : s[k] # n
  PROVE  Linked(vibe_list_prepend(H, l, n), l, With(s, 1, n))
<1> DEFINE A == vibe_list_prepend(H, l, n)
           r == With(s, 1, n)
<1>1. Len(r) = Len(s) + 1 /\ Len(s) \in Nat
  BY WithSeq
<1>2. r[1] = n /\ \A k \in 2..Len(r) : r[k] = s[k - 1]
  BY <1>1 DEF With
<1>3. \A k \in 1..Len(s) : s[k] \in N /\ s[k] # NULL
  OBVIOUS
<1>4. A.head[l] = r[1] /\ A.tail[l] = r[Len(r)]
  BY <1>1, <1>2, <1>3 DEF Heap, Linked, vibe_list_prepend
<1>5. ASSUME NEW j \in 1..Len(r), NEW k \in 1..Len(r), r[j] = r[k]
      PROVE  j = k
  <2>1. CASE j > 1 /\ k > 1
    <3>1. j - 1 \in 1..Len(s) /\ k - 1 \in 1..Len(s) /\ s[j - 1] = s[k - 1]
      BY <1>1, <1>2, <1>5, <2>1
    <3>2. j - 1 = k - 1
      BY <3>1 DEF Linked
    <3> QED BY <3>2
  <2>2. \A m \in 2..Len(r) : m - 1 \in 1..Len(s) /\ r[m] # r[1]
    BY <1>1, <1>2
  <2> HIDE DEF r
  <2>3. CASE j = 1 /\ k > 1
    <3>1. k \in 2..Len(r)
      BY <1>1, <2>3
    <3> QED BY <1>5, <2>2, <2>3, <3>1
  <2>4. CASE k = 1 /\ j > 1
    <3>1. j \in 2..Len(r)
      BY <1>1, <2>4
    <3> QED BY <1>5, <2>2, <2>4, <3>1
  <2> QED BY <1>1, <2>1, <2>3, <2>4
<1>6. ASSUME NEW k \in 1..Len(r)
      PROVE  /\ A.prev[r[k]] = IF k = 1 THEN NULL ELSE r[k - 1]
             /\ A.next[r[k]] = IF k = Len(r) THEN NULL ELSE r[k + 1]
  <2>1. CASE k = 1
    <3>1. H.head[l] = (IF Len(s) = 0 THEN NULL ELSE s[1]) /\ H.head[l] # n
      BY <1>1, <1>3 DEF Linked
    <3>2. A.prev[n] = NULL /\ A.next[n] = H.head[l]
      BY <3>1 DEF Heap, vibe_list_prepend, SetIf
    <3>3. A.prev[r[k]] = NULL
      BY <1>2, <2>1, <3>2
    <3>4. A.next[r[k]] = IF Len(s) = 0 THEN NULL ELSE s[1]
      BY <1>2, <2>1, <3>1, <3>2
    <3>5. Len(s) # 0 => r[k + 1] = s[1]
      BY <1>1, <1>2, <2>1
    <3>6. Len(r) = Len(s) + 1 /\ Len(s) \in Nat
      BY <1>1
    <3> HIDE DEF A, r
    <3>7. CASE Len(s) = 0
      BY <2>1, <3>3, <3>4, <3>6, <3>7
    <3>8. CASE Len(s) > 0
      BY <2>1, <3>3, <3>4, <3>5, <3>6, <3>8
    <3> QED BY <3>6, <3>7, <3>8
  <2>2. CASE k > 1
    <3> DEFINE kk == k - 1
    <3>1. kk \in 1..Len(s) /\ r[k] = s[kk]
      BY <1>1, <1>2, <2>2
    <3>2. /\ H.prev[s[kk]] = IF kk = 1 THEN NULL ELSE s[kk - 1]
          /\ H.next[s[kk]] = IF kk = Len(s) THEN NULL ELSE s[kk + 1]
          /\ kk # 1 => s[kk] # s[1]
          /\ H.head[l] = s[1]
      BY <1>1, <3>1 DEF Linked
    <3>3. /\ A.prev[s[kk]] = IF kk = 1 THEN n ELSE H.prev[s[kk]]
          /\ A.next[s[kk]] = H.next[s[kk]]
      BY <1>3, <3>1, <3>2 DEF Heap, vibe_list_prepend, SetIf
    <3> QED BY <1>1, <1>2, <2>2, <3>1, <3>2, <3>3
  <2> QED BY <2>1, <2>2
<1>7. Len(r) \in Nat /\ Len(r) # 0
  BY <1>1
<1> HIDE DEF A, r
<1>8. /\ A.head[l] = IF Len(r) = 0 THEN NULL ELSE r[1]
      /\ A.tail[l] = IF Len(r) = 0 THEN NULL ELSE r[Len(r)]
  BY <1>4, <1>7
<1>9. Linked(A, l, r)
  BY <1>5, <1>6, <1>8 DEF Linked
<1> QED BY <1>9 DEF A, r

LEMMA InsertAfterLinked ==
  ASSUME NEW L, NEW N, NEW H \in Heap(L, N), NEW l \in L, NEW n \in N,
         NULL \notin N, NEW s \in Seq(N), Linked(H, l, s),
         \A k \in 1..Len(s) : s[k] # n, NEW i \in 2..(Len(s) + 1)
  PROVE  Linked(vibe_list_insert_after(H, l, s[i - 1], n), l, With(s, i, n))
<1> DEFINE A == vibe_list_insert_after(H, l, s[i - 1], n)
           r == With(s, i, n)
<1>1. Len(r) = Len(s) + 1 /\ Len(s) \in Nat
  BY WithSeq
<1>2. \A k \in 1..Len(r) :
        r[k] = IF k < i THEN s[k] ELSE IF k = i THEN n ELSE s[k - 1]
  BY <1>1 DEF With
<1>3. \A k \in 1..Len(s) : s[k] \in N /\ s[k] # NULL
  OBVIOUS
<1>4. H.next[s[i - 1]] = IF i = Len(s) + 1 THEN NULL ELSE s[i]
  BY <1>1 DEF Linked
<1>5. A.head[l] = r[1] /\ A.tail[l] = r[Len(r)]
  BY <1>4, <1>1, <1>2, <1>3 DEF Heap, Linked, vibe_list_insert_after
<1>6. ASSUME NEW j \in 1..Len(r), NEW k \in 1..Len(r), r[j] = r[k]
      PROVE  j = k
  <2>1. CASE j # i /\ k # i
    <3> DEFINE jj == IF j < i THEN j ELSE j - 1
               kk == IF k < i THEN k ELSE k - 1
    <3>1. jj \in 1..Len(s) /\ kk \in 1..Len(s) /\ s[jj] = s[kk]
      BY <1>1, <1>2, <1>6, <2>1
    <3>2. jj = kk
      BY <3>1 DEF Linked
    <3> QED BY <2>1, <3>2
  <2>2. CASE j = i \/ k = i
    BY <1>1, <1>2, <1>6, <2>2
  <2> QED BY <2>1, <2>2
<1>7. ASSUME NEW k \in 1..Len(r)
      PROVE  /\ A.prev[r[k]] = IF k = 1 THEN NULL ELSE r[k - 1]
             /\ A.next[r[k]] = IF k = Len(r) THEN NULL ELSE r[k + 1]
  <2>0. /\ A.prev = SetIf([H.prev EXCEPT ![n] = s[i - 1]], H.next[s[i - 1]], n)
        /\ A.next = [H.next EXCEPT ![n] = H.next[s[i - 1]], ![s[i - 1]] = n]
    BY DEF vibe_list_insert_after
  <2>1. CASE k = i
    <3>1. r[k] = n
      BY <1>1, <1>2, <2>1
    <3>2. s[i - 1] # n /\ (i \in 1..Len(s) => s[i] # n)
      BY <1>1
    <3>3. A.prev[n] = s[i - 1]
      BY <1>4, <1>1, <1>3, <2>0, <3>2 DEF Heap, SetIf
    <3>4. A.next[n] = H.next[s[i - 1]]
      BY <1>1, <2>0, <3>2 DEF Heap
    <3> QED BY <1>4, <1>1, <1>2, <2>1, <3>1, <3>3, <3>4
  <2>2. CASE k # i
    <3> DEFINE kk == IF k < i THEN k ELSE k - 1
    <3>1. kk \in 1..Len(s) /\ r[k] = s[kk]
      BY <1>1, <1>2, <2>2
    <3>2. /\ H.prev[s[kk]] = IF kk = 1 THEN NULL ELSE s[kk - 1]
          /\ H.next[s[kk]] = IF kk = Len(s) THEN NULL ELSE s[kk + 1]
          /\ \A x \in 1..Len(s) : s[x] = s[kk] => x = kk
      BY <1>1, <3>1 DEF Linked
    <3>3. A.prev[s[kk]] = IF kk = i THEN n ELSE H.prev[s[kk]]
      BY <1>4, <1>1, <1>3, <2>0, <3>1, <3>2 DEF Heap, SetIf
    <3>4. A.next[s[kk]] = IF kk = i - 1 THEN n ELSE H.next[s[kk]]
      BY <1>4, <1>1, <1>3, <2>0, <3>1, <3>2 DEF Heap
    <3>5. A.prev[r[k]] = IF k = 1 THEN NULL ELSE r[k - 1]
      BY <1>1, <1>2, <2>2, <3>1, <3>2, <3>3
    <3>6. A.next[r[k]] = IF k = Len(r) THEN NULL ELSE r[k + 1]
      <4>1. CASE k = Len(r)
        BY <1>1, <2>2, <3>1, <3>2, <3>4, <4>1
      <4>2. CASE k < Len(r)
        <5>1. r[k + 1] = IF k + 1 < i THEN s[k + 1]
                         ELSE IF k + 1 = i THEN n ELSE s[k]
          BY <1>1, <1>2, <4>2
        <5> QED BY <1>1, <2>2, <3>1, <3>2, <3>4, <4>2, <5>1
      <4> QED BY <1>1, <4>1, <4>2
    <3> QED BY <3>5, <3>6
  <2> QED BY <2>1, <2>2
<1>8. Len(r) \in Nat /\ Len(r) # 0
  BY <1>1
<1> HIDE DEF A, r
<1>9. /\ A.head[l] = IF Len(r) = 0 THEN NULL ELSE r[1]
      /\ A.tail[l] = IF Len(r) = 0 THEN NULL ELSE r[Len(r)]
  BY <1>5, <1>8
<1>10. Linked(A, l, r)
  BY <1>6, <1>7, <1>9 DEF Linked
<1> QED BY <1>10 DEF A, r

-----------------------------------------------------------------------------
(* The counter of a list                                                   *)

(* count++ on a counter of UINT32 values counts modulo UINT32.             *)
LEMMA NextCount ==
  ASSUME NEW n \in Nat
  PROVE  ((n % UINT32) + 1) % UINT32 = (n + 1) % UINT32
<1> DEFINE d == n \div UINT32
           r == n % UINT32
<1>0. UINT32 \in Nat \ {0}
  BY UINT32Assumption
<1>1. d \in Int /\ r \in 0..(UINT32 - 1) /\ n = UINT32 * d + r
  BY <1>0, Z3
<1> HIDE DEF d, r
<1>2. CASE r + 1 < UINT32
  <2>1. n + 1 = UINT32 * d + (r + 1) /\ r + 1 \in 0..(UINT32 - 1)
    BY <1>0, <1>1, <1>2
  <2>2. (n + 1) % UINT32 = r + 1
    BY <1>0, <1>1, <2>1, Z3
  <2>3. (r + 1) % UINT32 = r + 1
    BY <1>0, <2>1, Z3
  <2> QED BY <2>2, <2>3 DEF r
<1>3. CASE r + 1 = UINT32
  <2>1. n + 1 = UINT32 * (d + 1) + 0
    BY <1>0, <1>1, <1>3, Z3
  <2>2. (n + 1) % UINT32 = 0
    BY <1>0, <1>1, <2>1, Z3
  <2>3. (r + 1) % UINT32 = 0
    BY <1>0, <1>3, Z3
  <2> QED BY <2>2, <2>3 DEF r
<1> QED BY <1>0, <1>1, <1>2, <1>3

(* ... and so does count--.                                                *)
LEMMA PrevCount ==
  ASSUME NEW n \in Nat \ {0}
  PROVE  ((n % UINT32) - 1) % UINT32 = (n - 1) % UINT32
<1> DEFINE d == n \div UINT32
           r == n % UINT32
<1>0. UINT32 \in Nat \ {0}
  BY UINT32Assumption
<1>1. d \in Int /\ r \in 0..(UINT32 - 1) /\ n = UINT32 * d + r
  BY <1>0, Z3
<1> HIDE DEF d, r
<1>2. CASE r > 0
  <2>1. n - 1 = UINT32 * d + (r - 1) /\ r - 1 \in 0..(UINT32 - 1)
    BY <1>0, <1>1, <1>2
  <2>2. (n - 1) % UINT32 = r - 1
    BY <1>0, <1>1, <2>1, Z3
  <2>3. (r - 1) % UINT32 = r - 1
    BY <1>0, <2>1, Z3
  <2> QED BY <2>2, <2>3 DEF r
<1>3. CASE r = 0
  <2>1. n - 1 = UINT32 * (d - 1) + (UINT32 - 1)
    BY <1>0, <1>1, <1>3, Z3
  <2>2. (n - 1) % UINT32 = UINT32 - 1
    BY <1>0, <1>1, <2>1, Z3
  <2>3. -1 = UINT32 * (-1) + (UINT32 - 1)
    BY <1>0, Z3
  <2>4. (-1) % UINT32 = UINT32 - 1
    BY <1>0, <2>3, Z3
  <2>5. r - 1 = -1
    BY <1>3
  <2> QED BY <2>2, <2>4, <2>5 DEF r
<1> QED BY <1>0, <1>1, <1>2, <1>3

-----------------------------------------------------------------------------
(* Lists with their counters                                               *)

(* The lists that vibe_list_init and vibe_list_node_init leave are empty.  *)
LEMMA EmptyIsList ==
  ASSUME NEW L, NEW N, NEW l \in L
  PROVE  EmptyLists(L, N) \in Heap(L, N) /\ IsList(EmptyLists(L, N), l, <<>>)
<1>1. 0 \in 0..(UINT32 - 1) /\ 0 % UINT32 = 0
  BY UINT32Assumption, Z3
<1>2. EmptyLists(L, N) \in Heap(L, N)
  BY <1>1 DEF EmptyLists, Heap
<1>3. Linked(EmptyLists(L, N), l, <<>>)
  BY DEF EmptyLists, Linked
<1>4. EmptyLists(L, N).count[l] = 0
  BY DEF EmptyLists
<1> QED BY <1>1, <1>2, <1>3, <1>4 DEF IsList

(* vibe_list_append appends.                                               *)
LEMMA AppendList ==
  ASSUME NEW L, NEW N, NEW H \in Heap(L, N), NEW l \in L, NEW n \in N,
         NULL \notin N, NEW s \in Seq(N), IsList(H, l, s),
         \A k \in 1..Len(s) : s[k] # n
  PROVE  IsList(vibe_list_append(H, l, n), l, Append(s, n))
<1>1. Linked(vibe_list_append(H, l, n), l, Append(s, n))
  BY AppendLinked DEF IsList
<1>2. Len(Append(s, n)) = Len(s) + 1 /\ Len(s) \in Nat
  OBVIOUS
<1>3. vibe_list_append(H, l, n).count[l] = (H.count[l] + 1) % UINT32
  BY DEF vibe_list_append, Heap
<1> QED BY <1>1, <1>2, <1>3, NextCount DEF IsList

(* vibe_list_prepend puts the node first.                                  *)
LEMMA PrependList ==
  ASSUME NEW L, NEW N, NEW H \in Heap(L, N), NEW l \in L, NEW n \in N,
         NULL \notin N, NEW s \in Seq(N), IsList(H, l, s),
         \A k \in 1..Len(s) : s[k] # n
  PROVE  IsList(vibe_list_prepend(H, l, n), l, With(s, 1, n))
<1>1. Linked(vibe_list_prepend(H, l, n), l, With(s, 1, n))
  BY PrependLinked DEF IsList
<1>2. Len(With(s, 1, n)) = Len(s) + 1 /\ Len(s) \in Nat
  BY WithSeq
<1>3. vibe_list_prepend(H, l, n).count[l] = (H.count[l] + 1) % UINT32
  BY DEF vibe_list_prepend, Heap
<1> QED BY <1>1, <1>2, <1>3, NextCount DEF IsList

(* vibe_list_insert_after puts the node behind the one it is given.        *)
LEMMA InsertAfterList ==
  ASSUME NEW L, NEW N, NEW H \in Heap(L, N), NEW l \in L, NEW n \in N,
         NULL \notin N, NEW s \in Seq(N), IsList(H, l, s),
         \A k \in 1..Len(s) : s[k] # n, NEW i \in 2..(Len(s) + 1)
  PROVE  IsList(vibe_list_insert_after(H, l, s[i - 1], n), l, With(s, i, n))
<1> DEFINE A == vibe_list_insert_after(H, l, s[i - 1], n)
<1>1. Linked(A, l, With(s, i, n))
  BY InsertAfterLinked DEF IsList
<1>2. Len(With(s, i, n)) = Len(s) + 1 /\ Len(s) \in Nat
  BY WithSeq
<1>3. A.count[l] = (H.count[l] + 1) % UINT32
  BY DEF vibe_list_insert_after, Heap
<1> HIDE DEF A
<1>4. IsList(A, l, With(s, i, n))
  BY <1>1, <1>2, <1>3, NextCount DEF IsList
<1> QED BY <1>4 DEF A

(* vibe_list_remove takes the node out.                                    *)
LEMMA RemoveList ==
  ASSUME NEW L, NEW N, NEW H \in Heap(L, N), NEW l \in L,
         NULL \notin N, NEW s \in Seq(N), IsList(H, l, s),
         NEW i \in 1..Len(s)
  PROVE  IsList(vibe_list_remove(H, l, s[i]), l, Without(s, i))
<1>1. Linked(vibe_list_remove(H, l, s[i]), l, Without(s, i))
  BY RemoveLinked DEF IsList
<1>2. Len(Without(s, i)) = Len(s) - 1 /\ Len(s) \in Nat \ {0}
  BY WithoutSeq
<1>3. vibe_list_remove(H, l, s[i]).count[l] = (H.count[l] - 1) % UINT32
  BY DEF vibe_list_remove, Heap
<1> QED BY <1>1, <1>2, <1>3, PrevCount DEF IsList

(* Appending to one list leaves the others as they are ...                 *)
LEMMA AppendOther ==
  ASSUME NEW L, NEW N, NEW H \in Heap(L, N), NEW l \in L, NEW n \in N,
         NULL \notin N, NEW s \in Seq(N), IsList(H, l, s),
         NEW m \in L, m # l, NEW r \in Seq(N), IsList(H, m, r),
         \A k \in 1..Len(r) : r[k] # n,
         \A k \in 1..Len(r), j \in 1..Len(s) : r[k] # s[j]
  PROVE  IsList(vibe_list_append(H, l, n), m, r)
<1>1. Linked(vibe_list_append(H, l, n), m, r)
  BY AppendFrame DEF IsList
<1>2. vibe_list_append(H, l, n).count[m] = H.count[m]
  BY DEF vibe_list_append, Heap
<1> QED BY <1>1, <1>2 DEF IsList

(* ... and so does removing from one.                                      *)
LEMMA RemoveOther ==
  ASSUME NEW L, NEW N, NEW H \in Heap(L, N), NEW l \in L,
         NULL \notin N, NEW s \in Seq(N), IsList(H, l, s),
         NEW i \in 1..Len(s),
         NEW m \in L, m # l, NEW r \in Seq(N), IsList(H, m, r),
         \A k \in 1..Len(r), j \in 1..Len(s) : r[k] # s[j]
  PROVE  IsList(vibe_list_remove(H, l, s[i]), m, r)
<1>1. Linked(vibe_list_remove(H, l, s[i]), m, r)
  BY RemoveFrame DEF IsList
<1>2. vibe_list_remove(H, l, s[i]).count[m] = H.count[m]
  BY DEF vibe_list_remove, Heap
<1> QED BY <1>1, <1>2 DEF IsList

(* A list is what following its next pointers meets.                       *)
LEMMA WalkIsList ==
  ASSUME NEW L, NEW N, IsFiniteSet(N), NULL \notin N, NEW H \in Heap(L, N),
         NEW l \in L, NEW s \in Seq(N), Linked(H, l, s)
  PROVE  Walk(H, l, Cardinality(N)) = s
<1>1. Cardinality(N) \in Nat
  BY FS_CardinalityType
<1>2. Distinct(s)
  BY DEF Linked, Distinct
<1>3. Len(s) <= Cardinality(N)
  BY <1>2, DistinctBound
<1>4. Spells(H.head[l], H.next, NULL, s)
  BY DEF Linked, Spells
<1>5. Len(s) <= Cardinality(N) + 1
  BY <1>1, <1>3
<1> QED BY <1>1, <1>4, <1>5, ChainIsList DEF Walk

-----------------------------------------------------------------------------
(* The run queues as sequences: what enqueue and dequeue do to them        *)

(* The run queues for the threads N at the priorities P.                   *)
Queues(P, N) == [lists : Heap(P, N), mask : SUBSET P]

(* The queues R are the sequences q, which hold the threads at the levels  *)
(* that M says (-1 for none), and the bit mask tells which are empty.      *)
QRep(P, N, R, M, q) ==
  /\ q \in [P -> Seq(N)]
  /\ \A p \in P : IsList(R.lists, p, q[p])
  /\ \A p \in P : \A k \in 1..Len(q[p]) : M[q[p][k]] = p
  /\ \A t \in N : M[t] \in P => \E k \in 1..Len(q[M[t]]) : q[M[t]][k] = t
  /\ \A p \in P : p \in R.mask <=> Len(q[p]) > 0

(* A non-empty set of priorities has a highest one: __builtin_clz of a     *)
(* non-zero mask finds it.                                                 *)
LEMMA HighestReady ==
  ASSUME NEW P \in SUBSET Nat, IsFiniteSet(P), NEW R, R.mask \in SUBSET P, R.mask # {}
  PROVE  /\ highest_ready_priority(R) \in R.mask
         /\ \A o \in R.mask : o <= highest_ready_priority(R)
<1>1. IsFiniteSet(R.mask)
  BY FS_Subset
<1>2. R.mask \in SUBSET Int
  <2>1. P \in SUBSET Int
    BY Nat \subseteq Int
  <2> QED BY <2>1, Zenon
<1>3. \E p \in R.mask : \A o \in R.mask : o <= p
  <2>1. PICK M : M = R.mask
    OBVIOUS
  <2>2. \E p \in M : \A o \in M : o <= p
    BY <1>2, <1>1, <2>1, HasHighest
  <2> QED BY <2>1, <2>2
<1> QED BY <1>3 DEF highest_ready_priority

(* _vibe_sched_next_thread returns a thread, whatever the queues.          *)
LEMMA NextThreadType ==
  ASSUME NEW P \in SUBSET Nat, IsFiniteSet(P), NEW N, NULL \notin N, Idle \in N,
         NEW R \in Queues(P, N)
  PROVE  vibe_sched_next_thread(R) \in N
<1>1. R.mask # {} => highest_ready_priority(R) \in P
  BY HighestReady DEF Queues
<1>2. R.mask # {} => R.lists.head[highest_ready_priority(R)] \in N \cup {NULL}
  BY <1>1 DEF Queues, Heap
<1> QED BY <1>2 DEF vibe_sched_next_thread

(* _vibe_sched_enqueue and _vibe_sched_dequeue keep the queues' types.     *)
LEMMA EnqueueType ==
  ASSUME NEW P, NEW N, NULL \notin N, NEW R \in Queues(P, N), NEW t \in N, NEW p \in P
  PROVE  vibe_sched_enqueue(R, t, p) \in Queues(P, N)
<1>1. vibe_list_append(R.lists, p, t) \in Heap(P, N)
  BY AppendType DEF Queues
<1> QED BY <1>1 DEF Queues, vibe_sched_enqueue

LEMMA DequeueType ==
  ASSUME NEW P, NEW N, NULL \notin N, NEW R \in Queues(P, N), NEW t \in N, NEW p \in P
  PROVE  vibe_sched_dequeue(R, t, p) \in Queues(P, N)
<1>1. vibe_list_remove(R.lists, p, t) \in Heap(P, N)
  BY RemoveType DEF Queues
<1> QED BY <1>1 DEF Queues, vibe_sched_dequeue

(* The queues hold threads, no thread is in two of them, and the mask has  *)
(* a bit for each that holds one.                                          *)
LEMMA QRepFacts ==
  ASSUME NEW P, NEW N, NEW R, NEW M, NEW q, QRep(P, N, R, M, q)
  PROVE  /\ \A p \in P : q[p] \in Seq(N) /\ Len(q[p]) \in Nat
         /\ \A p \in P : \A k \in 1..Len(q[p]) : q[p][k] \in N /\ M[q[p][k]] = p
         /\ \A o, p \in P : o # p =>
              \A k \in 1..Len(q[o]), j \in 1..Len(q[p]) : q[o][k] # q[p][j]
         /\ \A t \in N : M[t] \in P => M[t] \in R.mask
<1>1. \A p \in P : q[p] \in Seq(N) /\ Len(q[p]) \in Nat
  BY DEF QRep
<1>2. ASSUME NEW p \in P, NEW k \in 1..Len(q[p]) PROVE q[p][k] \in N /\ M[q[p][k]] = p
  <2>1. q[p] \in Seq(N)
    BY <1>1
  <2> QED BY <2>1 DEF QRep
<1>3. \A o, p \in P : o # p =>
        \A k \in 1..Len(q[o]), j \in 1..Len(q[p]) : q[o][k] # q[p][j]
  BY <1>2
<1>4. ASSUME NEW t \in N, M[t] \in P PROVE M[t] \in R.mask
  <2>1. PICK k \in 1..Len(q[M[t]]) : q[M[t]][k] = t
    BY <1>4 DEF QRep
  <2>2. Len(q[M[t]]) > 0
    BY <2>1, <1>1, <1>4
  <2> QED BY <2>2, <1>4 DEF QRep
<1> QED BY <1>1, <1>2, <1>3, <1>4

(* _vibe_sched_enqueue puts a thread that is in no queue at the end of its *)
(* own and sets the bit.                                                   *)
LEMMA EnqueueRep ==
  ASSUME NEW P \in SUBSET Nat, NEW N, NULL \notin N,
         NEW R \in Queues(P, N), NEW M \in [N -> P \cup {-1}], NEW q,
         QRep(P, N, R, M, q), NEW t \in N, M[t] = -1, NEW p \in P
  PROVE  QRep(P, N, vibe_sched_enqueue(R, t, p), [M EXCEPT ![t] = p],
              [q EXCEPT ![p] = Append(@, t)])
<1>f. /\ \A o \in P : q[o] \in Seq(N) /\ Len(q[o]) \in Nat
      /\ \A o \in P : \A k \in 1..Len(q[o]) : q[o][k] \in N /\ M[q[o][k]] = o
  BY QRepFacts
<1> DEFINE S == vibe_sched_enqueue(R, t, p)
           MM == [M EXCEPT ![t] = p]
           r == Append(q[p], t)
           qq == [q EXCEPT ![p] = r]
<1>1. q \in [P -> Seq(N)] /\ R.lists \in Heap(P, N)
      /\ R.mask \in SUBSET P
  BY DEF QRep, Queues
<1>2. \A o \in P : q[o] \in Seq(N)
  BY <1>1
<1>3. /\ Len(r) = Len(q[p]) + 1 /\ r[Len(q[p]) + 1] = t
      /\ \A k \in 1..Len(q[p]) : r[k] = q[p][k]
      /\ r \in Seq(N)
  BY <1>2
<1>4. \A o \in P : \A k \in 1..Len(q[o]) : q[o][k] # t
  BY DEF QRep
<1>5. \A o \in P : qq[o] = IF o = p THEN r ELSE q[o]
  BY <1>1
<1>6. qq \in [P -> Seq(N)]
  BY <1>1, <1>3
<1>7. \A o \in P : IsList(S.lists, o, qq[o])
  <2>1. S.lists = vibe_list_append(R.lists, p, t)
    BY DEF vibe_sched_enqueue
  <2>2. IsList(R.lists, p, q[p])
    BY DEF QRep
  <2>3. IsList(S.lists, p, r)
    BY <1>1, <1>2, <1>4, <2>1, <2>2, AppendList
  <2>4. ASSUME NEW o \in P, o # p PROVE IsList(S.lists, o, q[o])
    <3>1. IsList(R.lists, o, q[o])
      BY DEF QRep
    <3>2. \A k \in 1..Len(q[o]), j \in 1..Len(q[p]) : q[o][k] # q[p][j]
      BY <1>f, <2>4
    <3>3. \A k \in 1..Len(q[o]) : q[o][k] # t
      BY <1>4
    <3>4. q[o] \in Seq(N) /\ q[p] \in Seq(N)
      BY <1>2
    <3>5. IsList(vibe_list_append(R.lists, p, t), o, q[o])
      BY <1>1, <2>2, <2>4, <3>1, <3>2, <3>3, <3>4, AppendOther
    <3> QED BY <2>1, <3>5
  <2> QED BY <1>5, <2>3, <2>4
<1>8. \A o \in P : \A k \in 1..Len(qq[o]) : MM[qq[o][k]] = o
  <2> SUFFICES ASSUME NEW o \in P, NEW k \in 1..Len(qq[o])
               PROVE  MM[qq[o][k]] = o
    OBVIOUS
  <2>1. CASE o # p
    BY <1>2, <1>4, <1>5, <2>1 DEF QRep
  <2>2. CASE o = p /\ k = Len(q[p]) + 1
    BY <1>3, <1>5, <2>2
  <2>3. CASE o = p /\ k \in 1..Len(q[p])
    BY <1>2, <1>3, <1>4, <1>5, <2>3 DEF QRep
  <2> QED BY <1>2, <1>3, <1>5, <2>1, <2>2, <2>3
<1>9. ASSUME NEW u \in N, MM[u] \in P
      PROVE  \E k \in 1..Len(qq[MM[u]]) : qq[MM[u]][k] = u
  <2>1. CASE u = t
    <3>1. MM[u] = p /\ qq[p] = r
      BY <1>5, <2>1
    <3>2. Len(q[p]) + 1 \in 1..Len(r)
      BY <1>2, <1>3
    <3> QED BY <1>3, <2>1, <3>1, <3>2
  <2>2. CASE u # t
    <3>1. MM[u] = M[u]
      BY <2>2
    <3>2. PICK k \in 1..Len(q[M[u]]) : q[M[u]][k] = u
      BY <1>9, <3>1 DEF QRep
    <3>3. k \in 1..Len(qq[M[u]]) /\ qq[M[u]][k] = u
      BY <1>2, <1>3, <1>5, <1>9, <3>1, <3>2
    <3> QED BY <3>1, <3>3
  <2> QED BY <2>1, <2>2
<1>10. \A o \in P : o \in S.mask <=> Len(qq[o]) > 0
  <2>1. S.mask = R.mask \cup {p}
    BY DEF vibe_sched_enqueue
  <2>2. Len(qq[p]) > 0
    <3>1. Len(q[p]) \in Nat
      BY <1>2
    <3>2. qq[p] = r
      BY <1>5
    <3> QED BY <1>3, <3>1, <3>2
  <2> QED BY <1>5, <2>1, <2>2 DEF QRep
<1> HIDE DEF S, MM
<1>11. QRep(P, N, S, MM, qq)
  BY <1>6, <1>7, <1>8, <1>9, <1>10 DEF QRep
<1> QED BY <1>11 DEF S, MM

(* _vibe_sched_dequeue takes a thread out of the queue it is in, and       *)
(* clears the bit if it was the last.                                      *)
LEMMA DequeueRep ==
  ASSUME NEW P \in SUBSET Nat, NEW N, NULL \notin N,
         NEW R \in Queues(P, N), NEW M \in [N -> P \cup {-1}], NEW q,
         QRep(P, N, R, M, q), NEW t \in N, NEW p \in P, M[t] = p
  PROVE  \E i \in 1..Len(q[p]) :
           QRep(P, N, vibe_sched_dequeue(R, t, p), [M EXCEPT ![t] = -1],
                [q EXCEPT ![p] = Without(@, i)])
<1>f. /\ \A o \in P : q[o] \in Seq(N) /\ Len(q[o]) \in Nat
      /\ \A o \in P : \A k \in 1..Len(q[o]) : q[o][k] \in N /\ M[q[o][k]] = o
  BY QRepFacts
<1>0. PICK i \in 1..Len(q[p]) : q[p][i] = t
  BY DEF QRep
<1> DEFINE S == vibe_sched_dequeue(R, t, p)
           MM == [M EXCEPT ![t] = -1]
           r == Without(q[p], i)
           qq == [q EXCEPT ![p] = r]
<1>1. q \in [P -> Seq(N)] /\ R.lists \in Heap(P, N)
      /\ R.mask \in SUBSET P
  BY DEF QRep, Queues
<1>2. \A o \in P : q[o] \in Seq(N)
  BY <1>1
<1>3. r \in Seq(N) /\ Len(r) = Len(q[p]) - 1
  BY <1>0, <1>2, WithoutSeq
<1>4. \A k \in 1..Len(r) : r[k] = IF k < i THEN q[p][k] ELSE q[p][k + 1]
  BY <1>3 DEF Without
<1>5. \A o \in P : qq[o] = IF o = p THEN r ELSE q[o]
  BY <1>1
<1>6. qq \in [P -> Seq(N)]
  BY <1>1, <1>3
<1>7. IsList(R.lists, p, q[p])
  BY DEF QRep
<1>8. \A o \in P : IsList(S.lists, o, qq[o])
  <2>1. S.lists = vibe_list_remove(R.lists, p, q[p][i])
    BY <1>0 DEF vibe_sched_dequeue
  <2>2. IsList(vibe_list_remove(R.lists, p, q[p][i]), p, Without(q[p], i))
    BY <1>0, <1>1, <1>2, <1>7, RemoveList
  <2>3. ASSUME NEW o \in P, o # p PROVE IsList(S.lists, o, q[o])
    <3>1. IsList(R.lists, o, q[o])
      BY DEF QRep
    <3>2. \A k \in 1..Len(q[o]), j \in 1..Len(q[p]) : q[o][k] # q[p][j]
      BY <1>f, <2>3
    <3>3. q[o] \in Seq(N) /\ q[p] \in Seq(N)
      BY <1>2
    <3>4. IsList(vibe_list_remove(R.lists, p, q[p][i]), o, q[o])
      BY <1>0, <1>1, <1>7, <2>3, <3>1, <3>2, <3>3, RemoveOther
    <3> QED BY <2>1, <3>4
  <2> QED BY <1>5, <2>1, <2>2, <2>3
<1>9. \A j, k \in 1..Len(q[p]) : q[p][j] = q[p][k] => j = k
  BY <1>7 DEF IsList, Linked
<1>10. \A o \in P : \A k \in 1..Len(qq[o]) : MM[qq[o][k]] = o
  <2> SUFFICES ASSUME NEW o \in P, NEW k \in 1..Len(qq[o])
               PROVE  MM[qq[o][k]] = o
    OBVIOUS
  <2>1. CASE o # p
    <3>1. qq[o] = q[o] /\ q[o][k] \in N /\ M[q[o][k]] = o
      BY <1>f, <1>5, <2>1
    <3> QED BY <2>1, <3>1
  <2>2. CASE o = p
    <3> DEFINE kk == IF k < i THEN k ELSE k + 1
    <3>0. k \in 1..Len(r) /\ Len(q[p]) \in Nat
      BY <1>2, <1>5, <2>2
    <3>1. kk \in 1..Len(q[p]) /\ r[k] = q[p][kk] /\ kk # i
      <4> HIDE DEF r, qq
      <4> QED BY <1>0, <1>3, <1>4, <3>0
    <3>2. q[p][kk] # t /\ q[p][kk] \in N /\ M[q[p][kk]] = p
      BY <1>0, <1>2, <1>9, <3>1 DEF QRep
    <3> QED BY <1>5, <2>2, <3>1, <3>2
  <2> QED BY <2>1, <2>2
<1>11. ASSUME NEW u \in N, MM[u] \in P
       PROVE  \E k \in 1..Len(qq[MM[u]]) : qq[MM[u]][k] = u
  <2>1. u # t /\ MM[u] = M[u]
    BY <1>11 
  <2>2. PICK k \in 1..Len(q[M[u]]) : q[M[u]][k] = u
    BY <1>11, <2>1 DEF QRep
  <2>3. CASE M[u] # p
    BY <1>5, <1>11, <2>1, <2>2, <2>3
  <2>4. CASE M[u] = p
    <3> DEFINE kk == IF k < i THEN k ELSE k - 1
    <3>1. k # i
      BY <1>0, <2>1, <2>2, <2>4
    <3>2. kk \in 1..Len(r) /\ r[kk] = q[p][k]
      BY <1>0, <1>2, <1>3, <1>4, <2>2, <2>4, <3>1
    <3> QED BY <1>5, <2>1, <2>2, <2>4, <3>2
  <2> QED BY <2>3, <2>4
<1>12. \A o \in P : o \in S.mask <=> Len(qq[o]) > 0
  <2>1. S.lists.head[p] = IF Len(r) = 0 THEN NULL ELSE r[1]
    BY <1>5, <1>8 DEF IsList, Linked
  <2>2. Len(r) \in Nat /\ (Len(r) > 0 => r[1] \in N)
    BY <1>3
  <2>3. (S.lists.head[p] = NULL) <=> ~(Len(r) > 0)
    BY <2>1, <2>2
  <2>4. S.mask = IF S.lists.head[p] = NULL THEN R.mask \ {p} ELSE R.mask
    BY DEF vibe_sched_dequeue
  <2>5. p \in R.mask
    BY QRepFacts
  <2> HIDE DEF S, qq, r
  <2> QED BY <1>5, <2>3, <2>4, <2>5 DEF QRep
<1> HIDE DEF S, MM
<1>13. QRep(P, N, S, MM, qq)
  BY <1>6, <1>8, <1>10, <1>11, <1>12 DEF QRep
<1> QED BY <1>13 DEF S, MM

(* The initialisation of a thread's node does not touch the queues it is   *)
(* not in.                                                                 *)
LEMMA NodeInitRep ==
  ASSUME NEW P \in SUBSET Nat, NEW N, NULL \notin N,
         NEW R \in Queues(P, N), NEW M \in [N -> P \cup {-1}], NEW q,
         QRep(P, N, R, M, q), NEW t \in N, M[t] = -1
  PROVE  QRep(P, N, [R EXCEPT !.lists = vibe_list_node_init(@, t)], M, q)
<1> DEFINE S == [R EXCEPT !.lists = vibe_list_node_init(@, t)]
<1>1. S.lists = vibe_list_node_init(R.lists, t) /\ S.mask = R.mask
  BY DEF Queues
<1>2. R.lists \in Heap(P, N) /\ \A o \in P : q[o] \in Seq(N)
  BY DEF QRep, Queues
<1>3. \A o \in P : \A k \in 1..Len(q[o]) : q[o][k] # t
  BY DEF QRep
<1>4. ASSUME NEW o \in P PROVE IsList(S.lists, o, q[o])
  <2>1. IsList(R.lists, o, q[o])
    BY DEF QRep
  <2> QED BY <1>1, <1>2, <1>3, <2>1 DEF IsList, Linked, vibe_list_node_init, Heap
<1> HIDE DEF S
<1>5. QRep(P, N, S, M, q)
  BY <1>1, <1>4 DEF QRep
<1> QED BY <1>5 DEF S

(* The choice is the first thread of the highest level in use.             *)
LEMMA NextThreadRep ==
  ASSUME NEW P \in SUBSET Nat, IsFiniteSet(P), NEW N, NULL \notin N,
         NEW R \in Queues(P, N), NEW M \in [N -> P \cup {-1}], NEW q,
         QRep(P, N, R, M, q), \E t \in N : M[t] \in P
  PROVE  LET next == vibe_sched_next_thread(R)
         IN  /\ next \in N /\ M[next] \in P
             /\ \A t \in N : M[t] \in P => M[t] <= M[next]
<1>0. PICK u \in N : M[u] \in P
  OBVIOUS
<1>1. \A t \in N : M[t] \in P => M[t] \in R.mask
  BY QRepFacts
<1>2. R.mask \in SUBSET P /\ R.mask # {}
  BY <1>0, <1>1 DEF Queues
<1> DEFINE p == highest_ready_priority(R)
<1>3. p \in R.mask /\ \A o \in R.mask : o <= p
  BY <1>2, HighestReady
<1>4. p \in P
  BY <1>2, <1>3
<1> HIDE DEF p
<1>5. Len(q[p]) > 0 /\ q[p] \in Seq(N)
  BY <1>3, <1>4 DEF QRep
<1>6. q[p][1] \in N /\ M[q[p][1]] = p
  BY <1>4, <1>5 DEF QRep
<1>7. R.lists.head[p] = q[p][1]
  BY <1>4, <1>5 DEF QRep, IsList, Linked
<1>8. vibe_sched_next_thread(R) = q[p][1]
  BY <1>2, <1>6, <1>7 DEF vibe_sched_next_thread, p
<1> QED BY <1>1, <1>3, <1>4, <1>6, <1>8

=============================================================================
