------------------------------- MODULE Chain --------------------------------
(***************************************************************************)
(* Two loops over the nodes of a list that the kernel's code writes again  *)
(* and again: following the next fields, and visiting each waiter once     *)
(* while some of them leave the list.                                      *)
(***************************************************************************)
EXTENDS Integers, Sequences, FiniteSets

(* The nodes met by following next from h up to null, at most bound + 1.   *)
ChainFrom(h, next, null, bound) ==
  LET w[k \in 0..bound] ==
        IF k = 0 THEN h ELSE IF w[k - 1] = null THEN null ELSE next[w[k - 1]]
      n == CHOOSE m \in 0..(bound + 1) :
             (\A k \in 0..(m - 1) : w[k] # null) /\ (m <= bound => w[m] = null)
  IN  [k \in 1..n |-> w[k - 1]]

(* What remains of the sequence s, in its order, without those in W.       *)
Remaining(s, W) ==
  LET keep == {i \in DOMAIN s : s[i] \notin W}
  IN  [k \in 1..Cardinality(keep) |->
         s[CHOOSE i \in keep : Cardinality({j \in keep : j <= i}) = k]]

=============================================================================
