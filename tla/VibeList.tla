------------------------------ MODULE VibeList ------------------------------
(***************************************************************************)
(* The intrusive doubly linked list of include/vibe/sys/list.h.            *)
(*                                                                         *)
(* A node is embedded in its owner and belongs to no list of its own       *)
(* accord: every operation is told which list it works on, and nothing     *)
(* checks that the node is really there.  Lists are therefore modelled at  *)
(* the level of their pointers, so that removing a node from the wrong     *)
(* list, or linking it twice, has exactly the effect it has in C.          *)
(*                                                                         *)
(* A "heap" H holds the anchors of a family of lists and the one link      *)
(* field that their nodes share (sched_node, sleep_node or wait_node):     *)
(*     H.head[l], H.tail[l], H.count[l]    the vibe_list_t l               *)
(*     H.prev[n], H.next[n]                the vibe_list_node_t of n       *)
(***************************************************************************)
EXTENDS Chain

CONSTANTS NULL,     \* the null pointer
          UINT32    \* number of values of a uint32_t (scaled down for TLC)

ASSUME UINT32Assumption == UINT32 \in Nat \ {0}

(* The heaps of lists L over nodes N.                                      *)
Heap(L, N) ==
  [head : [L -> N \cup {NULL}], tail : [L -> N \cup {NULL}],
   count : [L -> 0..(UINT32 - 1)],
   prev : [N -> N \cup {NULL}], next : [N -> N \cup {NULL}]]

(* The heap of empty lists: zeroed anchors, vibe_list_node_init on nodes.  *)
EmptyLists(L, N) ==
  [head |-> [l \in L |-> NULL], tail |-> [l \in L |-> NULL],
   count |-> [l \in L |-> 0],
   prev |-> [n \in N |-> NULL], next |-> [n \in N |-> NULL]]

(* "if (x != NULL) x->field = v" *)
SetIf(f, x, v) == IF x = NULL THEN f ELSE [f EXCEPT ![x] = v]

vibe_list_node_init(H, n) ==
  [head |-> H.head, tail |-> H.tail, count |-> H.count,
   prev |-> [H.prev EXCEPT ![n] = NULL], next |-> [H.next EXCEPT ![n] = NULL]]

vibe_list_append(H, l, n) ==
  LET t == H.tail[l]
  IN  [head  |-> IF t = NULL THEN [H.head EXCEPT ![l] = n] ELSE H.head,
       tail  |-> [H.tail EXCEPT ![l] = n],
       count |-> [H.count EXCEPT ![l] = (@ + 1) % UINT32],
       prev  |-> [H.prev EXCEPT ![n] = t],
       next  |-> SetIf([H.next EXCEPT ![n] = NULL], t, n)]

vibe_list_prepend(H, l, n) ==
  LET h == H.head[l]
  IN  [head  |-> [H.head EXCEPT ![l] = n],
       tail  |-> IF h = NULL THEN [H.tail EXCEPT ![l] = n] ELSE H.tail,
       count |-> [H.count EXCEPT ![l] = (@ + 1) % UINT32],
       prev  |-> SetIf([H.prev EXCEPT ![n] = NULL], h, n),
       next  |-> [H.next EXCEPT ![n] = h]]

(* Dereferences a: the caller must not pass NULL.                          *)
vibe_list_insert_after(H, l, a, n) ==
  LET x == H.next[a]
  IN  [head  |-> H.head,
       tail  |-> IF x = NULL THEN [H.tail EXCEPT ![l] = n] ELSE H.tail,
       count |-> [H.count EXCEPT ![l] = (@ + 1) % UINT32],
       prev  |-> SetIf([H.prev EXCEPT ![n] = a], x, n),
       next  |-> [H.next EXCEPT ![n] = x, ![a] = n]]

vibe_list_remove(H, l, n) ==
  LET p == H.prev[n]
      x == H.next[n]
  IN  [head  |-> IF p = NULL THEN [H.head EXCEPT ![l] = x] ELSE H.head,
       tail  |-> IF x = NULL THEN [H.tail EXCEPT ![l] = p] ELSE H.tail,
       count |-> [H.count EXCEPT ![l] = (@ - 1) % UINT32],
       prev  |-> [SetIf(H.prev, x, p) EXCEPT ![n] = NULL],
       next  |-> [SetIf(H.next, p, x) EXCEPT ![n] = NULL]]

-----------------------------------------------------------------------------
(* What a list is supposed to be.                                          *)

(* The anchors of list l and both directions of links spell out the        *)
(* sequence s, whose nodes are distinct.                                   *)
Linked(H, l, s) ==
  /\ H.head[l] = IF Len(s) = 0 THEN NULL ELSE s[1]
  /\ H.tail[l] = IF Len(s) = 0 THEN NULL ELSE s[Len(s)]
  /\ \A k \in 1..Len(s) :
       /\ H.prev[s[k]] = IF k = 1 THEN NULL ELSE s[k - 1]
       /\ H.next[s[k]] = IF k = Len(s) THEN NULL ELSE s[k + 1]
  /\ \A j, k \in 1..Len(s) : s[j] = s[k] => j = k

(* List l of H is the sequence s, and its counter agrees.                  *)
IsList(H, l, s) == Linked(H, l, s) /\ H.count[l] = Len(s) % UINT32

(* The nodes met by following next from the head of l.                     *)
Walk(H, l, bound) == ChainFrom(H.head[l], H.next, NULL, bound)

=============================================================================
