------------------------------ MODULE FitHeap -------------------------------
(***************************************************************************)
(* The first-fit and best-fit heaps (lib/heap/heap_first_fit.c and         *)
(* heap_best_fit.c over heap_priv.h): a doubly linked chain of headers     *)
(* inside the pool, in address order.  Addresses are offsets from the      *)
(* start of the pool; alloc and free hold the spinlock with interrupts     *)
(* masked and are one step each, realloc is an alloc and a free.           *)
(***************************************************************************)
EXTENDS Integers, FiniteSets

CONSTANTS HEAP_ALIGN, HDR_SIZE,
          pool_size,
          Request,      \* bound: the sizes the callers ask for
          Callocs,      \* bound: the <<nmemb, size>> the callers of calloc ask for
          HeapMod       \* 2^width of size_t

ASSUME FitAssumption ==
  /\ {HEAP_ALIGN, HDR_SIZE, pool_size, HeapMod} \subseteq Nat \ {0}
  /\ HDR_SIZE % HEAP_ALIGN = 0 /\ pool_size % HEAP_ALIGN = 0
  /\ pool_size >= HDR_SIZE + HEAP_ALIGN /\ HeapMod % HEAP_ALIGN = 0
  /\ Request \subseteq 1..(HeapMod - 1) /\ Callocs \subseteq Nat \X Nat

VARIABLES hdr,          \* address -> [prev, next, size, free], the live headers
          heap,         \* [initialized, used_bytes, alloc_count]
          fit,          \* the backend of the build
          held,         \* what callers own: address -> requested size
          moving        \* blocks realloc has copied and is about to free

heapvars == <<hdr, heap, fit, held, moving>>

NULL == -1

HEAP_ALIGN_UP(n) == (((n + HEAP_ALIGN - 1) % HeapMod) \div HEAP_ALIGN) * HEAP_ALIGN

BLK_MIN_SIZE == HDR_SIZE + HEAP_ALIGN

HeapInit ==
  /\ hdr = <<>>
  /\ heap = [initialized |-> FALSE, used_bytes |-> 0, alloc_count |-> 0]
  /\ fit \in {"first", "best"}
  /\ held = <<>> /\ moving = {}

(* The chain as an allocation sees it: built by the very first one.        *)
heap_pool_init ==
  IF heap.initialized THEN hdr
  ELSE [a \in {0} |-> [prev |-> NULL, next |-> NULL,
                       size |-> pool_size - HDR_SIZE, free |-> TRUE]]

Fits(h, n) == {a \in DOMAIN h : h[a].free /\ h[a].size >= n}

(* First fit: the lowest address.  Best fit: the smallest block, and the   *)
(* lowest of these, since the search replaces its find only by a smaller.  *)
Choice(h, n) ==
  CHOOSE a \in Fits(h, n) : \A b \in Fits(h, n) :
    \/ fit = "first" /\ a <= b
    \/ fit = "best" /\ (h[a].size < h[b].size \/ (h[a].size = h[b].size /\ a <= b))

SetPrev(h, a, p) == IF a = NULL THEN h ELSE [h EXCEPT ![a].prev = p]

heap_split(h, a, n) ==
  IF h[a].size - n < BLK_MIN_SIZE THEN h
  ELSE LET nxt == a + HDR_SIZE + n
           new == [prev |-> a, next |-> h[a].next, free |-> TRUE,
                   size |-> h[a].size - n - HDR_SIZE]
       IN  SetPrev([x \in DOMAIN h \cup {nxt} |->
                      IF x = nxt THEN new
                      ELSE IF x = a THEN [h[a] EXCEPT !.next = nxt, !.size = n]
                      ELSE h[x]], h[a].next, nxt)

(* Block b is swallowed by its predecessor a in the chain.                 *)
Absorb(h, a, b) ==
  LET g == SetPrev([h EXCEPT ![a].size = @ + HDR_SIZE + h[b].size,
                             ![a].next = h[b].next], h[b].next, a)
  IN  [x \in DOMAIN g \ {b} |-> g[x]]

Coalesce_PrevUnchecked(h, a) ==
  LET g == IF h[a].next # NULL /\ h[h[a].next].free THEN Absorb(h, a, h[a].next) ELSE h
  IN  IF g[a].prev # NULL THEN Absorb(g, g[a].prev, a) ELSE g

heap_coalesce(h, a) ==
  LET g == IF h[a].next # NULL /\ h[h[a].next].free THEN Absorb(h, a, h[a].next) ELSE h
  IN  IF g[a].prev # NULL /\ g[g[a].prev].free THEN Absorb(g, g[a].prev, a) ELSE g

(* vibe_heap_alloc of n > 0 bytes: fails, or takes block a for them.       *)
AllocFails(n) == Fits(heap_pool_init, HEAP_ALIGN_UP(n)) = {}

Take(a, n) ==
  /\ hdr' = [heap_split(heap_pool_init, a, HEAP_ALIGN_UP(n)) EXCEPT ![a].free = FALSE]
  /\ heap' = [initialized |-> TRUE, used_bytes |-> heap.used_bytes + hdr'[a].size,
              alloc_count |-> heap.alloc_count + 1]

Hold(a, n) == held' = [x \in DOMAIN held \cup {a} |-> IF x = a THEN n ELSE held[x]]

Drop(a) == held' = [x \in DOMAIN held \ {a} |-> held[x]]

(* n bytes for a caller that takes them for asked.                         *)
Grant(n, asked) ==
  /\ \/ /\ ~AllocFails(n)
        /\ LET a == Choice(heap_pool_init, HEAP_ALIGN_UP(n)) IN Take(a, n) /\ Hold(a, asked)
     \/ /\ AllocFails(n)
        /\ hdr' = heap_pool_init /\ heap' = [heap EXCEPT !.initialized = TRUE]
        /\ UNCHANGED held
  /\ UNCHANGED <<fit, moving>>

vibe_heap_alloc(n) == Grant(n, n)

(* The product is computed in size_t; what would not fit is refused.       *)
vibe_heap_calloc(nmemb, n) ==
  /\ nmemb > 0 /\ n > 0 /\ nmemb <= (HeapMod - 1) \div n
  /\ Grant((nmemb * n) % HeapMod, nmemb * n)

Return(a) ==
  /\ hdr' = heap_coalesce([hdr EXCEPT ![a].free = TRUE], a)
  /\ heap' = [heap EXCEPT !.used_bytes = @ - hdr[a].size, !.alloc_count = @ - 1]
  /\ UNCHANGED fit

(* A pointer that alloc has returned and nobody has freed since.           *)
vibe_heap_free(a) ==
  /\ a \in DOMAIN held \ moving
  /\ Return(a) /\ Drop(a)
  /\ UNCHANGED moving

(* A block that is large enough stays, with its new request; otherwise a   *)
(* second one is allocated first, and what fails leaves the old one alone. *)
vibe_heap_realloc(a, n) ==
  /\ a \in DOMAIN held \ moving
  /\ \/ /\ HEAP_ALIGN_UP(n) <= hdr[a].size
        /\ held' = [held EXCEPT ![a] = n]
        /\ UNCHANGED <<hdr, heap, moving>>
     \/ /\ HEAP_ALIGN_UP(n) > hdr[a].size /\ ~AllocFails(n)
        /\ LET b == Choice(hdr, HEAP_ALIGN_UP(n)) IN Take(b, n) /\ Hold(b, n)
        /\ moving' = moving \cup {a}
  /\ UNCHANGED fit

(* Then the old block is freed; in between others may use the heap.        *)
ReallocFrees(a) ==
  /\ a \in moving
  /\ Return(a) /\ Drop(a)
  /\ moving' = moving \ {a}

FitNext ==
  \/ \E n \in Request : vibe_heap_alloc(n)
  \/ \E c \in Callocs : vibe_heap_calloc(c[1], c[2])
  \/ \E a \in DOMAIN held : vibe_heap_free(a) \/ ReallocFrees(a)
  \/ \E a \in DOMAIN held, n \in Request : vibe_heap_realloc(a, n)
-----------------------------------------------------------------------------
FitSpec == HeapInit /\ [][FitNext]_heapvars

(* The sizes of the blocks in S together: each adds as many elements to    *)
(* the set that is counted.                                                *)
HeapSum(S, h) == Cardinality(UNION {{a} \X (1..h[a].size) : a \in S})

(* What vibe_heap_stats finds, walking the chain under the lock.           *)
heap_walk_stats ==
  LET used == {a \in DOMAIN hdr : ~hdr[a].free} IN
  [used |-> HeapSum(used, hdr), free |-> HeapSum(DOMAIN hdr \ used, hdr),
   alloc_count |-> Cardinality(used), free_count |-> Cardinality(DOMAIN hdr \ used)]

(* heap_split and heap_coalesce keep the headers one unbroken chain that   *)
(* tiles the pool: every block ends where the next begins, the last at the *)
(* end of the pool, prev inverts next, and two free blocks never touch.    *)
FitTiles ==
  heap.initialized =>
    /\ 0 \in DOMAIN hdr /\ hdr[0].prev = NULL
    /\ \A a \in DOMAIN hdr :
         LET end == a + HDR_SIZE + hdr[a].size IN
         /\ IF hdr[a].next = NULL THEN end = pool_size
            ELSE /\ hdr[a].next = end /\ end \in DOMAIN hdr
                 /\ hdr[end].prev = a /\ ~(hdr[a].free /\ hdr[end].free)
         /\ hdr[a].size >= HEAP_ALIGN

(* What callers hold is exactly what is marked used, each block is as      *)
(* large as the caller asked for, and the running counters of g_st agree   *)
(* with what vibe_heap_stats finds in the chain, which leaves out nothing  *)
(* but the headers: whole-block grants, overflowing callocs and half-done  *)
(* reallocs included.                                                      *)
FitAccounts ==
  /\ DOMAIN held = {a \in DOMAIN hdr : ~hdr[a].free}
  /\ \A a \in DOMAIN held : hdr[a].size >= held[a]
  /\ LET s == heap_walk_stats IN
     /\ s.used = heap.used_bytes /\ s.alloc_count = heap.alloc_count
     /\ heap.initialized =>
          s.used + s.free + (s.alloc_count + s.free_count) * HDR_SIZE = pool_size

(* vibe_heap_realloc reads the size of its block without the lock: no      *)
(* step of anybody else moves, resizes or frees a block that stays held.   *)
FitStable ==
  [][\A a \in DOMAIN held : a \in DOMAIN held' =>
       a \in DOMAIN hdr' /\ hdr'[a].size = hdr[a].size /\ ~hdr'[a].free]_heapvars

(* The chain of the first-fit and best-fit heaps tiles the pool, accounts  *)
(* for what callers hold and leaves held blocks alone (the parts above).   *)
FitSound == [](FitTiles /\ FitAccounts) /\ FitStable

=============================================================================
