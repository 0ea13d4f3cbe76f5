-------------------------------- MODULE Async -------------------------------
(***************************************************************************)
(* Stackless coroutines (lib/async/async.h).  A coroutine body is the      *)
(* sequence of its suspension statements; what runs between them is        *)
(* invisible here.  Its whole state is the resume point `line`: 0 not      *)
(* started, -1 done, otherwise the statement it is suspended at.           *)
(***************************************************************************)
EXTENDS Integers, Sequences

Statement == {"yield", "await", "await_coro", "return"}

(* Control arrives at statement k of body: c is what its conditions        *)
(* evaluate to, kid the outcome of invoking its child, and on what the     *)
(* invocation comes to when control goes on to the next statement.         *)
Arrive(body, k, c, kid, on) ==
  IF k > Len(body) \/ (k <= Len(body) /\ body[k] = "return")
  THEN [line |-> -1, st |-> "DONE", child |-> FALSE]
  ELSE CASE body[k] = "yield" ->
              [line |-> k, st |-> "RUNNING", child |-> FALSE]
         [] body[k] = "await" ->
              IF c THEN on ELSE [line |-> k, st |-> "BLOCKED", child |-> FALSE]
         [] body[k] = "await_coro" ->
              IF kid.st = "DONE" THEN [on EXCEPT !.child = TRUE]
              ELSE [line |-> k, st |-> "RUNNING", child |-> TRUE]

(* What one invocation of body, suspended at line, comes to.               *)
Invoke(body, line, c, kid) ==
  LET reach[k \in 1..(Len(body) + 1)] == Arrive(body, k, c, kid, reach[k + 1])
  IN  IF line = 0 THEN reach[1]
      ELSE IF body[line] = "yield" THEN reach[line + 1]
      ELSE reach[line]

=============================================================================
