------------------------------ MODULE MCSched -------------------------------
(* Instances of Sched for TLC.                                             *)
EXTENDS Sched, TLC

(* Application threads are interchangeable.                                *)
Symmetry == Permutations(App)

=============================================================================
