-------------------------------- MODULE Tlsf --------------------------------
(***************************************************************************)
(* The TLSF heap (lib/heap/heap_tlsf.c, the default backend): blocks tile  *)
(* the pool in address order, each with two flags in its size word, and    *)
(* the free ones hang in lists by size class that two levels of bitmaps    *)
(* index.  Addresses are offsets behind the control structure.  Alloc and  *)
(* free hold the spinlock and are one step; realloc is an alloc and a      *)
(* free.  The doubly linked free lists are sequences here.                 *)
(***************************************************************************)
EXTENDS Chain

CONSTANTS FL_INDEX_SHIFT, SL_INDEX_COUNT_LOG2,
          FL_INDEX_COUNT, \* rows of sl_bitmap and of free
          BLOCK_HDR_OFFSET, BLOCK_PAYLOAD_MIN,
          TlsfAlign,
          TlsfPool,       \* bytes behind the control structure
          TlsfRequest,    \* bound: the sizes the callers ask for
          TlsfCallocs,    \* bound: the <<nmemb, size>> the callers of calloc ask for
          TlsfBits        \* the width of size_t

TwoTo[n \in 0..TlsfBits] == IF n = 0 THEN 1 ELSE 2 * TwoTo[n - 1]

TlsfMod == TwoTo[TlsfBits]

ASSUME TlsfAssumption ==
  /\ {FL_INDEX_SHIFT, SL_INDEX_COUNT_LOG2, BLOCK_HDR_OFFSET, BLOCK_PAYLOAD_MIN,
      FL_INDEX_COUNT, TlsfAlign, TlsfPool, TlsfBits} \subseteq Nat \ {0}
  /\ FL_INDEX_SHIFT + SL_INDEX_COUNT_LOG2 < TlsfBits /\ TwoTo[FL_INDEX_SHIFT] = TlsfAlign
  /\ FL_INDEX_COUNT + FL_INDEX_SHIFT <= TlsfBits
  /\ TlsfPool <= TwoTo[FL_INDEX_COUNT + FL_INDEX_SHIFT]   \* CONFIG_HEAP_SIZE <= 131072
  /\ \A n \in {BLOCK_HDR_OFFSET, BLOCK_PAYLOAD_MIN, TlsfPool} : n % TlsfAlign = 0
  /\ TlsfPool >= 2 * BLOCK_HDR_OFFSET + BLOCK_PAYLOAD_MIN /\ TlsfPool < TlsfMod
  /\ BLOCK_PAYLOAD_MIN <= TwoTo[TlsfBits - 1]
  /\ TlsfRequest \subseteq Nat \ {0} /\ TlsfCallocs \subseteq Nat \X Nat

VARIABLES ctl,            \* the blocks by address, [size, prev_phys: functions,
                          \*  free, prev_free: the blocks with that flag], and
                          \*  [list: class -> addresses, sl, fl: bits set]
          owned,          \* what callers own: address -> requested size
          copied,         \* blocks realloc has copied and is about to free
          overrun         \* ghost: a row behind the end of sl_bitmap was read

tlsfvars == <<ctl, owned, copied, overrun>>

NoPhys == -1

(* The last header of the pool, of size 0 and never free.                  *)
Sentinel == TlsfPool - BLOCK_HDR_OFFSET

Log2(n) == CHOOSE k \in 0..(TlsfBits - 1) : TwoTo[k] <= n /\ n < TwoTo[k + 1]

SmallLimit == TwoTo[FL_INDEX_SHIFT + SL_INDEX_COUNT_LOG2]

(* The class <<fl, sl>> of a size.                                         *)
mapping(n) ==
  IF n < SmallLimit THEN <<0, n \div TwoTo[FL_INDEX_SHIFT]>>
  ELSE LET fl == Log2(n)
       IN  <<fl - FL_INDEX_SHIFT,
             (n \div TwoTo[fl - SL_INDEX_COUNT_LOG2]) - TwoTo[SL_INDEX_COUNT_LOG2]>>

(* To the next class boundary: every block of the class found is enough.   *)
round_up_size(n) ==
  IF n < SmallLimit THEN n
  ELSE LET step == TwoTo[Log2(n) - SL_INDEX_COUNT_LOG2]
       IN  (((n + step - 1) % TlsfMod) \div step) * step

AlignUp(n) == (((n + TlsfAlign - 1) % TlsfMod) \div TlsfAlign) * TlsfAlign

Rows == 0..(FL_INDEX_COUNT - 1)

Classes == Rows \X (0..(TwoTo[SL_INDEX_COUNT_LOG2] - 1))

block_next(c, a) == a + BLOCK_HDR_OFFSET + c.size[a]

free_list_insert(c, a) ==
  LET k == mapping(c.size[a])
  IN  [c EXCEPT !.list[k] = <<a>> \o @, !.sl = @ \cup {k}, !.fl = @ \cup {k[1]}]

free_list_remove(c, a) ==
  LET k == mapping(c.size[a])
      l == Remaining(c.list[k], {a})
      sl == IF l = <<>> THEN c.sl \ {k} ELSE c.sl
  IN  [c EXCEPT !.list[k] = l, !.sl = sl,
         !.fl = IF \E j \in sl : j[1] = k[1] THEN @ ELSE @ \ {k[1]}]

(* mapping has no upper bound and locate_free does not check: a request of *)
(* n bytes indexes sl_bitmap with a row it does not have.                  *)
Strays(n) == mapping(round_up_size(n))[1] \notin Rows

(* The smallest non-empty class that is large enough: in the request's own *)
(* first level, otherwise in the next non-empty one; {} if there is none.  *)
(* Of a request whose row exists.                                          *)
locate_free(c, n) ==
  LET k == mapping(round_up_size(n))
      here == {j \in c.sl : j[1] = k[1] /\ j[2] >= k[2]}
      fl == {f \in c.fl : f > k[1]}
      next == {j \in c.sl : j[1] \in fl /\ \A f \in fl : j[1] <= f}
      cand == IF here # {} THEN here ELSE next
      best == {j \in cand : \A i \in cand : j[2] <= i[2]}
  IN  {c.list[j][1] : j \in {i \in best : c.list[i] # <<>>}}

Drop1(f, a) == [x \in DOMAIN f \ {a} |-> f[x]]
Put(f, a, v) == [x \in DOMAIN f \cup {a} |-> IF x = a THEN v ELSE f[x]]

(* a grows over its physical neighbour b; a keeps its own flags.           *)
Swallow(c, a, b) ==
  LET size == c.size[a] + BLOCK_HDR_OFFSET + c.size[b]
  IN  [c EXCEPT !.size = Drop1([@ EXCEPT ![a] = size], b),
                !.prev_phys = Drop1([@ EXCEPT ![a + BLOCK_HDR_OFFSET + size] = a], b),
                !.free = @ \ {b}, !.prev_free = @ \ {b}]

merge_prev(c, a) ==
  IF a \notin c.prev_free THEN c
  ELSE LET p == c.prev_phys[a] IN Swallow(free_list_remove(c, p), p, a)

Merged(c, a) == IF a \in c.prev_free THEN c.prev_phys[a] ELSE a

merge_next(c, a) ==
  LET n == block_next(c, a)
  IN  IF n \in c.free THEN Swallow(free_list_remove(c, n), a, n) ELSE c

(* The remainder gets its size and no flag: BLOCK_IS_FREE stays clear.     *)
block_split(c, a, n) ==
  LET rem == a + BLOCK_HDR_OFFSET + n
      size == c.size[a] - n - BLOCK_HDR_OFFSET
  IN  [c EXCEPT !.size = Put([@ EXCEPT ![a] = n], rem, size),
                !.prev_phys = Put([@ EXCEPT ![rem + BLOCK_HDR_OFFSET + size] = rem], rem, a),
                !.free = @ \ {rem}, !.prev_free = @ \ {rem}]

(* One free block and a sentinel of size 0, by the first allocation.       *)
tlsf_init ==
  free_list_insert(
    [size |-> [a \in {0, Sentinel} |-> IF a = 0 THEN Sentinel - BLOCK_HDR_OFFSET ELSE 0],
     prev_phys |-> [a \in {0, Sentinel} |-> IF a = 0 THEN NoPhys ELSE 0],
     free |-> {0}, prev_free |-> {Sentinel},
     list |-> [k \in Classes |-> <<>>], sl |-> {}, fl |-> {}], 0)

TlsfInit == ctl = tlsf_init /\ owned = <<>> /\ copied = {} /\ overrun = FALSE

NeededSize(n) ==
  IF AlignUp(n) < BLOCK_PAYLOAD_MIN THEN BLOCK_PAYLOAD_MIN ELSE AlignUp(n)

(* Block a is taken for n bytes.                                           *)
Carve(c, a, n) ==
  LET r == free_list_remove(c, a)
      s == IF r.size[a] - n >= BLOCK_HDR_OFFSET + BLOCK_PAYLOAD_MIN
           THEN free_list_insert(block_split(r, a, n), a + BLOCK_HDR_OFFSET + n)
           ELSE r
  IN  [s EXCEPT !.free = @ \ {a}, !.prev_free = @ \ {block_next(s, a)}]

(* n bytes for a caller that takes them for asked, and that is to give back *)
(* the blocks in old.  What a row that does not exist holds, and with it   *)
(* the block it names, is undefined: nothing is claimed after that.        *)
GrantTlsf(n, asked, old) ==
  \/ /\ ~Strays(NeededSize(n))
     /\ \E a \in locate_free(ctl, NeededSize(n)) :
          ctl' = Carve(ctl, a, NeededSize(n)) /\ owned' = Put(owned, a, asked)
     /\ copied' = copied \cup old
     /\ UNCHANGED overrun
  \/ /\ Strays(NeededSize(n))
     /\ overrun' = TRUE
     /\ UNCHANGED <<ctl, owned, copied>>

vibe_tlsf_alloc(n) == GrantTlsf(n, n, {})

(* The product is computed in size_t; what would not fit is refused.       *)
vibe_tlsf_calloc(nmemb, n) ==
  /\ nmemb > 0 /\ n > 0 /\ nmemb <= (TlsfMod - 1) \div n
  /\ GrantTlsf((nmemb * n) % TlsfMod, nmemb * n, {})

Release_NoFlag(c, a) ==
  LET f == [c EXCEPT !.free = @ \cup {a}]
      m == merge_next(merge_prev(f, a), Merged(f, a))
  IN  free_list_insert(m, Merged(f, a))

Release(c, a) ==
  LET f == [c EXCEPT !.free = @ \cup {a}]
      b == Merged(f, a)
      m == merge_next(merge_prev(f, a), b)
  IN  free_list_insert([m EXCEPT !.prev_free = @ \cup {block_next(m, b)}], b)

(* The early return for a block that is already free is not reached: a     *)
(* caller frees what it owns, and that is never marked free (TlsfAccounts).*)
vibe_tlsf_free(a) ==
  /\ a \in DOMAIN owned \ copied
  /\ ctl' = Release(ctl, a) /\ owned' = Drop1(owned, a)
  /\ UNCHANGED <<copied, overrun>>

vibe_tlsf_realloc(a, n) ==
  /\ a \in DOMAIN owned \ copied
  /\ IF AlignUp(n) <= ctl.size[a]
     THEN owned' = [owned EXCEPT ![a] = n] /\ UNCHANGED <<ctl, copied, overrun>>
     ELSE GrantTlsf(n, n, {a})

TlsfReallocFrees(a) ==
  /\ a \in copied
  /\ ctl' = Release(ctl, a) /\ owned' = Drop1(owned, a)
  /\ copied' = copied \ {a}
  /\ UNCHANGED overrun

TlsfNext ==
  \/ \E n \in TlsfRequest : vibe_tlsf_alloc(n)
  \/ \E c \in TlsfCallocs : vibe_tlsf_calloc(c[1], c[2])
  \/ \E a \in DOMAIN owned : vibe_tlsf_free(a) \/ TlsfReallocFrees(a)
  \/ \E a \in DOMAIN owned, n \in TlsfRequest : vibe_tlsf_realloc(a, n)

TlsfSpec == TlsfInit /\ [][TlsfNext]_tlsfvars

Blocks == DOMAIN ctl.size \ {Sentinel}

(* vibe_heap_stats walks the blocks up to the sentinel and tells them      *)
(* apart by BLOCK_IS_FREE.                                                 *)
vibe_tlsf_stats ==
  [alloc_count |-> Cardinality(Blocks \ ctl.free), free_count |-> Cardinality(Blocks \cap ctl.free)]
-----------------------------------------------------------------------------
Listed(c) == UNION {{c.list[k][i] : i \in DOMAIN c.list[k]} : k \in Classes}

(* The blocks tile the pool up to the sentinel, whatever was split and     *)
(* merged; prev_phys inverts the walk by sizes; and BLOCK_PREV_FREE, on    *)
(* which merge_prev relies to remove the neighbour from its free list, is  *)
(* set exactly on the blocks whose neighbour is in one.                    *)
TlsfTiles ==
  \A a \in Blocks :
    LET n == block_next(ctl, a) IN
    /\ n \in DOMAIN ctl.size
    /\ ctl.prev_phys[n] = a
    /\ n \in ctl.prev_free <=> a \in Listed(ctl)

(* Every block is either owned by a caller, whose request it covers and    *)
(* whose free can not be mistaken for a double free, or linked once, in    *)
(* the list of its own size; the bitmaps name the non-empty lists.         *)
TlsfAccounts ==
  /\ DOMAIN owned \cup Listed(ctl) = Blocks /\ DOMAIN owned \cap Listed(ctl) = {}
  /\ \A a \in DOMAIN owned : ctl.size[a] >= owned[a] /\ a \notin ctl.free
  /\ \A k \in Classes : \A i \in DOMAIN ctl.list[k] :
       /\ mapping(ctl.size[ctl.list[k][i]]) = k
       /\ \A j \in DOMAIN ctl.list[k] : ctl.list[k][i] = ctl.list[k][j] => i = j
  /\ ctl.sl = {k \in Classes : ctl.list[k] # <<>>}
  /\ ctl.fl = {k[1] : k \in ctl.sl}

(* block_split, the merges and the lists of heap_tlsf.c keep the pool      *)
(* tiled and every block accounted for (TlsfTiles, TlsfAccounts), and no   *)
(* search leaves the arrays of classes.                                    *)
TlsfSound == ~overrun /\ TlsfTiles /\ TlsfAccounts

(* heap.h: alloc_count is the "Live allocation count", free_count the      *)
(* "Free block count" that vibe_heap_stats reports.                        *)
TlsfStatsExact ==
  vibe_tlsf_stats =
    [alloc_count |-> Cardinality(DOMAIN owned), free_count |-> Cardinality(Listed(ctl))]

=============================================================================
