------------------------------ MODULE MemPool -------------------------------
(***************************************************************************)
(* Fixed-size block pools (kernel/mem_pool.c): a free list threaded        *)
(* through the free blocks themselves.  vibe_mem_pool_free checks only     *)
(* that the pointer lies in the pool; callers free what they hold.         *)
(***************************************************************************)
EXTENDS KernelObject

CONSTANTS num_blocks, NoBlock

ASSUME PoolAssumption == num_blocks \in Nat \ {0} /\ NoBlock \notin 1..num_blocks

VARIABLES free_list, link, free_count,   \* link[b]: the word next in block b
          held                           \* ghost: blocks handed out
poolvars == <<free_list, link, free_count, held>>

BlockId == 1..num_blocks

(* The blocks are chained in address order.                                *)
vibe_mem_pool_init ==
  /\ free_list = 1 /\ free_count = num_blocks /\ held = {}
  /\ link = [b \in BlockId |-> IF b < num_blocks THEN b + 1 ELSE NoBlock]

(* The first free block, cleared for its new owner.                        *)
TakeBlock ==
  /\ free_list # NoBlock
  /\ free_list' = link[free_list]
  /\ link' = [link EXCEPT ![free_list] = NoBlock]
  /\ free_count' = free_count - 1
  /\ held' = held \cup {free_list}

vibe_mem_pool_alloc(t) ==
  /\ status[t] = "ready"
  /\ \/ TakeBlock /\ UNCHANGED <<status, waitq>>
     \/ free_list = NoBlock /\ Block(t, "pool") /\ UNCHANGED poolvars

(* "Re-try after wakeup": once, and NULL if the block is gone.             *)
AllocResumes(t) ==
  /\ Resume(t, "pool")
  /\ TakeBlock \/ (free_list = NoBlock /\ UNCHANGED poolvars)

Free_NoChain(b) ==
  /\ b \in held
  /\ free_list' = b /\ UNCHANGED link
  /\ free_count' = free_count + 1 /\ held' = held \ {b}
  /\ WakeHead("pool")

vibe_mem_pool_free(b) ==
  /\ b \in held
  /\ link' = [link EXCEPT ![b] = free_list] /\ free_list' = b
  /\ free_count' = free_count + 1 /\ held' = held \ {b}
  /\ WakeHead("pool")

PoolInit == InitThreads /\ vibe_mem_pool_init

PoolNext ==
  \/ \E t \in Thread : vibe_mem_pool_alloc(t) \/ AllocResumes(t)
  \/ \E b \in BlockId : vibe_mem_pool_free(b)

-----------------------------------------------------------------------------
FreeBlocks == ChainFrom(free_list, link, NoBlock, num_blocks)

(* The free list spells out each block that nobody holds exactly once, and *)
(* free_count is its length: no block is handed out twice or lost.         *)
PoolPartition ==
  /\ Elems(FreeBlocks) = BlockId \ held
  /\ Len(FreeBlocks) = free_count /\ free_count = num_blocks - Cardinality(held)

(* Nobody waits for a free block unless a woken thread is on its way to    *)
(* each: every free wakes one waiter, also when blocks are freed faster    *)
(* than the woken threads get to run.                                      *)
PoolNoStranded == waitq["pool"] # <<>> => free_count <= Cardinality(Woken("pool"))

=============================================================================
