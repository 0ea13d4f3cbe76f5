-------------------------------- MODULE MsgQ --------------------------------
(***************************************************************************)
(* Message queues (kernel/msgq.c): a ring of messages with a wait list on  *)
(* each side.  A thread that has been woken tries its transfer once more,  *)
(* wakes nobody itself, and fails if somebody else was faster.             *)
(***************************************************************************)
EXTENDS KernelObject

CONSTANTS Msg,           \* the messages
          max_msgs

ASSUME MsgqAssumption == max_msgs \in Nat \ {0}

VARIABLES mq,            \* [buf, head, tail, used]: the vibe_msgq_t
          msg,           \* the message a blocked put still has to store
          received,      \* ghost: the last message delivered
          overlooked     \* ghost: the wait lists a woken thread did not wake

mqvars == <<mq, msg, received, overlooked>>

vibe_msgq_init ==
  /\ mq = [buf |-> [i \in 0..(max_msgs - 1) |-> CHOOSE m \in Msg : TRUE],
           head |-> 0, tail |-> 0, used |-> 0]
  /\ msg = [t \in Thread |-> <<>>]
  /\ received = <<>> /\ overlooked = {}

Store(m) ==
  mq' = [mq EXCEPT !.buf[mq.tail] = m, !.tail = (@ + 1) % max_msgs,
                   !.used = @ + 1]

Fetch ==
  /\ received' = <<mq.buf[mq.head]>>
  /\ mq' = [mq EXCEPT !.head = (@ + 1) % max_msgs, !.used = @ - 1]

(* A step that should have woken a thread of the lists in L and did not:   *)
(* remembered until nobody waits there, or there is nothing to wake it for.*)
Overlooks(L) ==
  overlooked' = {l \in overlooked \cup L :
                   /\ waitq'[l] # <<>>
                   /\ l = "msgq_read" => mq'.used > 0
                   /\ l = "msgq_write" => mq'.used < max_msgs}

(* The failing calls with VIBE_NO_WAIT change nothing.                     *)
vibe_msgq_put(t, m) ==
  /\ status[t] = "ready"
  /\ \/ /\ mq.used < max_msgs
        /\ Store(m) /\ WakeHead("msgq_read")
        /\ UNCHANGED <<msg, received>>
     \/ /\ mq.used >= max_msgs
        /\ Block(t, "msgq_write")
        /\ msg' = [msg EXCEPT ![t] = <<m>>]
        /\ UNCHANGED <<mq, received>>
  /\ Overlooks({})

(* "After wakeup, try again (space should be free now)": the reader this   *)
(* message is for stays where it is.                                       *)
PutResumes(t) ==
  /\ Resume(t, "msgq_write")
  /\ IF mq.used < max_msgs
     THEN Store(msg[t][1]) /\ Overlooks({"msgq_read"})
     ELSE UNCHANGED <<mq, overlooked>>
  /\ msg' = [msg EXCEPT ![t] = <<>>]
  /\ UNCHANGED received

vibe_msgq_get(t) ==
  /\ status[t] = "ready"
  /\ \/ mq.used > 0 /\ Fetch /\ WakeHead("msgq_write")
     \/ /\ mq.used = 0
        /\ Block(t, "msgq_read")
        /\ UNCHANGED <<mq, received>>
  /\ Overlooks({})
  /\ UNCHANGED msg

GetResumes(t) ==
  /\ Resume(t, "msgq_read")
  /\ IF mq.used > 0
     THEN Fetch /\ Overlooks({"msgq_write"})
     ELSE UNCHANGED <<mq, received, overlooked>>
  /\ UNCHANGED msg

(* Purging wakes every writer.                                             *)
vibe_msgq_purge ==
  /\ mq' = [mq EXCEPT !.head = 0, !.tail = 0, !.used = 0]
  /\ Wake("msgq_write", Elems(waitq["msgq_write"]))
  /\ Overlooks({})
  /\ UNCHANGED <<msg, received>>

MsgqNext ==
  \/ \E t \in Thread : \/ PutResumes(t) \/ GetResumes(t) \/ vibe_msgq_get(t)
                       \/ \E m \in Msg : vibe_msgq_put(t, m)
  \/ vibe_msgq_purge

-----------------------------------------------------------------------------
Contents == [i \in 1..mq.used |-> mq.buf[(mq.head + i - 1) % max_msgs]]

Messages == INSTANCE Fifo WITH Cap <- max_msgs, q <- Contents, out <- received

(* Whatever wraps of the two indices and whatever races of woken threads   *)
(* with newcomers: messages leave the queue in the order they were put,    *)
(* none twice, none changed.                                               *)
MsgqFifo == Messages!FifoSpec

(* For every message that a waiting reader could take, and every slot a    *)
(* waiting writer could fill, a woken thread is on its way; except that a  *)
(* thread that was woken itself wakes nobody with its own transfer, so     *)
(* that whoever waits on the other side then waits on (MsgqServed).        *)
MsgqReaders ==
  waitq["msgq_read"] # <<>> /\ "msgq_read" \notin overlooked
    => mq.used <= Cardinality(Woken("msgq_read"))
MsgqWriters ==
  waitq["msgq_write"] # <<>> /\ "msgq_write" \notin overlooked
    => max_msgs - mq.used <= Cardinality(Woken("msgq_write"))
MsgqNoStranded == MsgqReaders /\ MsgqWriters

(* What msgq.h says of the two lists, "Threads waiting to read (queue      *)
(* empty)" and "Threads waiting to write (queue full)", where "Both        *)
(* senders and receivers can block": a thread waits only while what is     *)
(* there is already on its way to another one.                             *)
MsgqServed ==
  /\ waitq["msgq_read"] # <<>> => mq.used <= Cardinality(Woken("msgq_read"))
  /\ waitq["msgq_write"] # <<>> => max_msgs - mq.used <= Cardinality(Woken("msgq_write"))

=============================================================================
