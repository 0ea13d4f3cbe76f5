-------------------------------- MODULE Pipe --------------------------------
(***************************************************************************)
(* Byte pipes (kernel/pipe.c).  Both calls are loops: a turn moves as many *)
(* bytes as fit and wakes one thread of the other side, or blocks.  The    *)
(* interrupt lock is released between two turns.                           *)
(***************************************************************************)
EXTENDS KernelObject

CONSTANTS Byte, size,
          MaxLen,       \* bound: longest transfer
          PipeUses      \* bound: who reads, who writes, which bytes and
                        \* how long they wait, to choose from

Wait == {"NO_WAIT", "TIMED", "FOREVER"}

ASSUME PipeAssumption ==
  /\ size \in Nat \ {0} /\ MaxLen \in Nat
  /\ PipeUses \subseteq [readers : SUBSET Thread, writers : SUBSET Thread,
                         bytes : SUBSET Byte, timeouts : SUBSET Wait]

VARIABLES pipe,      \* [buf, head, tail, used]: the vibe_pipe_t
          xfer,      \* each thread's call: what it still has to move, or NoCall
          delivered, \* ghost: the bytes of the last turn of a read
          leftover,  \* ghost: the wait lists to which a call that ended left
                     \* bytes or space
          use        \* ghost: the one of PipeUses
pipevars == <<pipe, xfer, delivered, leftover, use>>

NoCall == [src |-> <<>>, len |-> 0, moved |-> 0, timeout |-> "NO_WAIT"]

vibe_pipe_init ==
  /\ pipe = [buf |-> [i \in 0..(size - 1) |-> CHOOSE b \in Byte : TRUE],
             head |-> 0, tail |-> 0, used |-> 0]
  /\ xfer = [t \in Thread |-> NoCall]
  /\ delivered = <<>> /\ leftover = {}

Least(a, b) == IF a < b THEN a ELSE b

vibe_pipe_write(t, src, timeout) ==
  /\ t \in use.writers /\ status[t] = "ready" /\ xfer[t] = NoCall
  /\ xfer' = [xfer EXCEPT ![t] = [src |-> src, len |-> Len(src), moved |-> 0,
                                  timeout |-> timeout]]
  /\ UNCHANGED <<status, waitq, pipe, delivered, leftover, use>>

vibe_pipe_read(t, len, timeout) ==
  /\ t \in use.readers /\ status[t] = "ready" /\ xfer[t] = NoCall
  /\ xfer' = [xfer EXCEPT ![t] = [src |-> <<>>, len |-> len, moved |-> 0,
                                  timeout |-> timeout]]
  /\ UNCHANGED <<status, waitq, pipe, delivered, leftover, use>>

(* A write has something to write; both are refused a length of 0.         *)
Writing(t) == status[t] = "ready" /\ xfer[t] # NoCall /\ xfer[t].src # <<>>
Reading(t) == status[t] = "ready" /\ xfer[t] # NoCall /\ xfer[t].src = <<>>

Return(t) == xfer' = [xfer EXCEPT ![t] = NoCall] /\ UNCHANGED <<status, waitq, pipe, delivered, leftover, use>>

(* n bytes moved: the call goes on, or returns when it has moved them all. *)
Moved(t, n) ==
  LET m == xfer[t].moved + n
  IN  xfer' = [xfer EXCEPT ![t] = IF m = @.len THEN NoCall ELSE [@ EXCEPT !.moved = m]]

(* A turn of t that wakes a thread of list woken, itself on the side of    *)
(* list own: its call has ended and more is left than it took.             *)
Leaves(t, woken, own, more) ==
  leftover' = (leftover \ {woken}) \cup
    {l \in {own} : waitq[l] # <<>> /\ xfer'[t] = NoCall /\ more}

ToWrite_NoClip(t) == xfer[t].len - xfer[t].moved

ToWrite(t) == Least(xfer[t].len - xfer[t].moved, size - pipe.used)

WriteTurn(t) ==
  LET n == ToWrite(t)
  IN  /\ Writing(t) /\ pipe.used < size
      /\ pipe' = [pipe EXCEPT
            !.buf = [i \in 0..(size - 1) |->
                       IF \E k \in 1..n : i = (pipe.tail + k - 1) % size
                       THEN xfer[t].src[xfer[t].moved
                              + CHOOSE k \in 1..n : i = (pipe.tail + k - 1) % size]
                       ELSE @[i]],
            !.tail = (@ + n) % size, !.used = @ + n]
      /\ Moved(t, n)
      /\ WakeHead("pipe_read")
      /\ Leaves(t, "pipe_read", "pipe_write", pipe'.used < size)
      /\ UNCHANGED <<delivered, use>>

(* No space: give up without waiting, or once the deadline has passed, or  *)
(* block until a reader frees some.                                        *)
WriteFull(t) ==
  /\ Writing(t) /\ pipe.used = size
  /\ \/ xfer[t].timeout # "FOREVER" /\ Return(t)
     \/ xfer[t].timeout # "NO_WAIT" /\ Block(t, "pipe_write") /\ UNCHANGED pipevars

Read_WakesWhenEmpty(t) ==
  LET n == Least(xfer[t].len - xfer[t].moved, pipe.used)
  IN  /\ Reading(t) /\ pipe.used > 0
      /\ delivered' = [k \in 1..n |-> pipe.buf[(pipe.head + k - 1) % size]]
      /\ pipe' = [pipe EXCEPT !.head = (@ + n) % size, !.used = @ - n]
      /\ Moved(t, n)
      /\ IF pipe.used = n THEN WakeHead("pipe_write") ELSE UNCHANGED <<status, waitq>>
      /\ Leaves(t, "pipe_write", "pipe_read", pipe'.used > 0)
      /\ UNCHANGED use

ReadTurn(t) ==
  LET n == Least(xfer[t].len - xfer[t].moved, pipe.used)
  IN  /\ Reading(t) /\ pipe.used > 0
      /\ delivered' = [k \in 1..n |-> pipe.buf[(pipe.head + k - 1) % size]]
      /\ pipe' = [pipe EXCEPT !.head = (@ + n) % size, !.used = @ - n]
      /\ Moved(t, n)
      /\ WakeHead("pipe_write")
      /\ Leaves(t, "pipe_write", "pipe_read", pipe'.used > 0)
      /\ UNCHANGED use

(* Empty: a read that has some bytes already returns with them.            *)
ReadEmpty(t) ==
  /\ Reading(t) /\ pipe.used = 0
  /\ \/ (xfer[t].timeout # "FOREVER" \/ xfer[t].moved > 0) /\ Return(t)
     \/ /\ xfer[t].timeout # "NO_WAIT" /\ xfer[t].moved = 0
        /\ Block(t, "pipe_read") /\ UNCHANGED pipevars

PipeResumes(t) == (Resume(t, "pipe_read") \/ Resume(t, "pipe_write")) /\ UNCHANGED pipevars

PipeInit == InitThreads /\ vibe_pipe_init /\ use \in PipeUses

Turn(t) ==
  WriteTurn(t) \/ WriteFull(t) \/ ReadTurn(t) \/ ReadEmpty(t) \/ PipeResumes(t)

PipeNext ==
  \E t \in Thread :
    \/ Turn(t)
    \/ \E n \in 1..MaxLen, timeout \in use.timeouts :
         \/ vibe_pipe_read(t, n, timeout)
         \/ \E src \in [1..n -> use.bytes] : vibe_pipe_write(t, src, timeout)

-----------------------------------------------------------------------------
InPipe == [i \in 1..pipe.used |-> pipe.buf[(pipe.head + i - 1) % size]]

Stream == INSTANCE Fifo WITH Cap <- size, q <- InPipe, out <- delivered

(* The bytes come out in the order they went in, across wraps of both      *)
(* indices and however the chunks of the two sides interleave.             *)
PipeFifo == Stream!FifoSpec

(* Nobody waits for bytes, or for space, that is there, unless a thread of *)
(* its side is in the middle of a call and may still take it.  A turn      *)
(* wakes one thread of the other side and none of its own: what a call     *)
(* leaves behind when it ends is offered to nobody else until the other    *)
(* side moves, which can only happen where a side has several threads.     *)
PipeNoStranded ==
  /\ waitq["pipe_read"] # <<>> /\ pipe.used > 0 /\ "pipe_read" \notin leftover
       => \E t \in Thread : status[t] = "pipe_read" \/ Reading(t)
  /\ waitq["pipe_write"] # <<>> /\ pipe.used < size /\ "pipe_write" \notin leftover
       => \E t \in Thread : status[t] = "pipe_write" \/ Writing(t)

=============================================================================
