-------------------------------- MODULE Fifo --------------------------------
(***************************************************************************)
(* What a bounded first-in first-out buffer promises, whatever its index   *)
(* arithmetic: what comes out is what went in, in the same order.          *)
(***************************************************************************)
EXTENDS Naturals, Sequences

CONSTANT Cap      \* capacity

VARIABLES q,      \* what is in the buffer
          out     \* what the last read has delivered

FifoInit == q = <<>> /\ out = <<>>

(* A write appends one or more elements, as far as there is room.          *)
Push ==
  /\ Len(q') \in (Len(q) + 1)..Cap
  /\ SubSeq(q', 1, Len(q)) = q
  /\ out' = out

Pop ==
  \E n \in 1..Len(q) :
    /\ out' = SubSeq(q, 1, n)
    /\ q' = SubSeq(q, n + 1, Len(q))

Clear == q' = <<>> /\ out' = out

FifoSpec == FifoInit /\ [][Push \/ Pop \/ Clear]_<<q, out>>

=============================================================================
