----------------------------- MODULE RingBuffer -----------------------------
(***************************************************************************)
(* The lock-free single-producer single-consumer byte ring                 *)
(* (lib/ring_buffer).  head and tail run freely as size_t and are masked   *)
(* on every access.  A call reads the other side's index once, copies      *)
(* bytes, and publishes its own index: three steps, between which the      *)
(* other side may do anything.  The fences keep the compiler from          *)
(* reordering them; the single core does not reorder what it observes.     *)
(***************************************************************************)
EXTENDS Integers, Sequences

CONSTANTS RbByte,       \* the values of a byte
          rb_size,      \* capacity
          SizeMod,      \* 2^width of size_t
          MaxChunk      \* bound: longest put_buf or get_buf of the instance

(* IS_POWER_OF_TWO(size), which vibe_rb_init demands, divides 2^width.     *)
ASSUME RbAssumption ==
  /\ rb_size \in Nat \ {0} /\ SizeMod \in Nat /\ SizeMod % rb_size = 0
  /\ SizeMod > rb_size /\ MaxChunk \in Nat

(* drop_count, which is added to and never read, is left out.              *)
VARIABLES rb,           \* [buf, head, tail]
          rbstats,      \* [peak_used, put_count, get_count]
          producer,     \* the call in progress: [pc, data, n]
          consumer,     \* the call in progress: [pc, data, n]
          delivered,    \* ghost: what the last get returned
          since         \* ghost: the indices from which put_count and get_count
                        \* count, and whether a put came after the last reset
                        \* of peak_used: [tail, head, put]

rbvars == <<rb, rbstats, producer, consumer, delivered, since>>

mask(i) == i % rb_size

vibe_rb_used == (rb.tail + SizeMod - rb.head) % SizeMod
vibe_rb_free == (rb_size + SizeMod - vibe_rb_used) % SizeMod

NoCall == [pc |-> "idle", data |-> <<>>, n |-> 0]

vibe_rb_init ==
  /\ rb = [buf |-> [i \in 0..(rb_size - 1) |-> CHOOSE b \in RbByte : TRUE],
           head |-> 0, tail |-> 0]
  /\ rbstats = [peak_used |-> 0, put_count |-> 0, get_count |-> 0]
  /\ producer = NoCall /\ consumer = NoCall /\ delivered = <<>>
  /\ since = [tail |-> 0, head |-> 0, put |-> TRUE]

Lesser(a, b) == IF a < b THEN a ELSE b

(* vibe_rb_put is vibe_rb_put_buf with one byte, except that a full buffer *)
(* makes it drop the byte at once.                                         *)
vibe_rb_put_buf(data) ==
  /\ producer.pc = "idle"
  /\ LET n == Lesser(Len(data), vibe_rb_free)
     IN  producer' = [pc |-> "copy", data |-> data, n |-> n]
  /\ UNCHANGED <<rb, rbstats, consumer, delivered, since>>

CopyIn_NoWrap ==
  /\ producer.pc = "copy"
  /\ LET at == mask(rb.tail)
     IN  rb' = [rb EXCEPT !.buf = [i \in DOMAIN @ |->
                  IF i \in at..(at + producer.n - 1) THEN producer.data[i - at + 1]
                  ELSE @[i]]]
  /\ producer' = [producer EXCEPT !.pc = "publish"]
  /\ UNCHANGED <<rbstats, consumer, delivered, since>>

(* At most two contiguous chunks: to the end of buf, then from its start.  *)
CopyIn ==
  /\ producer.pc = "copy"
  /\ LET at == mask(rb.tail)
         chunk == Lesser(rb_size - at, producer.n)
     IN  rb' = [rb EXCEPT !.buf = [i \in DOMAIN @ |->
                  IF i \in at..(at + chunk - 1) THEN producer.data[i - at + 1]
                  ELSE IF i < producer.n - chunk THEN producer.data[chunk + i + 1]
                  ELSE @[i]]]
  /\ producer' = [producer EXCEPT !.pc = "publish"]
  /\ UNCHANGED <<rbstats, consumer, delivered, since>>

PublishTail ==
  /\ producer.pc = "publish"
  /\ rb' = [rb EXCEPT !.tail = (@ + producer.n) % SizeMod]
  /\ producer' = [producer EXCEPT !.pc = "stats"]
  /\ UNCHANGED <<rbstats, consumer, delivered, since>>

(* CONFIG_RING_BUFFER_STATS: behind the publication, and not with it.  The *)
(* load and the store of a counter are one step: a reset comes before or   *)
(* after an update, and not into it.                                       *)
PutStats ==
  /\ producer.pc = "stats"
  /\ rbstats' = [rbstats EXCEPT
       !.put_count = (@ + producer.n) % SizeMod,
       !.peak_used = IF @ < vibe_rb_used THEN vibe_rb_used ELSE @]
  /\ producer' = NoCall /\ since' = [since EXCEPT !.put = TRUE]
  /\ UNCHANGED <<rb, consumer, delivered>>

(* vibe_rb_get is vibe_rb_get_buf with one byte.                           *)
vibe_rb_get_buf(len) ==
  /\ consumer.pc = "idle"
  /\ LET n == Lesser(len, vibe_rb_used)
     IN  consumer' = [pc |-> "copy", data |-> <<>>, n |-> n]
  /\ UNCHANGED <<rb, rbstats, producer, delivered, since>>

CopyOut ==
  /\ consumer.pc = "copy"
  /\ LET at == mask(rb.head)
         chunk == Lesser(rb_size - at, consumer.n)
     IN  consumer' = [consumer EXCEPT !.pc = "publish", !.data =
           [i \in 1..consumer.n |-> IF i <= chunk THEN rb.buf[at + i - 1]
                                    ELSE rb.buf[i - chunk - 1]]]
  /\ UNCHANGED <<rb, rbstats, producer, delivered, since>>

PublishHead ==
  /\ consumer.pc = "publish"
  /\ rb' = [rb EXCEPT !.head = (@ + consumer.n) % SizeMod]
  /\ delivered' = IF consumer.n = 0 THEN delivered ELSE consumer.data
  /\ consumer' = [consumer EXCEPT !.pc = "stats", !.data = <<>>]
  /\ UNCHANGED <<rbstats, producer, since>>

GetStats ==
  /\ consumer.pc = "stats"
  /\ rbstats' = [rbstats EXCEPT !.get_count = (@ + consumer.n) % SizeMod]
  /\ consumer' = NoCall
  /\ UNCHANGED <<rb, producer, delivered, since>>

(* What a side has counted of its index.                                   *)
Counted(index, call) ==
  (index + SizeMod - IF call.pc = "stats" THEN call.n ELSE 0) % SizeMod

(* Four stores, with bytes in the buffer or not and with either side       *)
(* between any two of them: each may happen at any time.                   *)
vibe_rb_reset_stats ==
  /\ \/ /\ rbstats' = [rbstats EXCEPT !.peak_used = 0]
        /\ since' = [since EXCEPT !.put = FALSE]
     \/ /\ rbstats' = [rbstats EXCEPT !.put_count = 0]
        /\ since' = [since EXCEPT !.tail = Counted(rb.tail, producer)]
     \/ /\ rbstats' = [rbstats EXCEPT !.get_count = 0]
        /\ since' = [since EXCEPT !.head = Counted(rb.head, consumer)]
  /\ UNCHANGED <<rb, producer, consumer, delivered>>

Chunks == UNION {[1..n -> RbByte] : n \in 1..MaxChunk}

RbTransfer ==
  \/ \E d \in Chunks : vibe_rb_put_buf(d)
  \/ \E n \in 1..MaxChunk : vibe_rb_get_buf(n)
  \/ CopyIn \/ PublishTail \/ PutStats \/ CopyOut \/ PublishHead \/ GetStats

RbNext == RbTransfer \/ vibe_rb_reset_stats

RbSpec == vibe_rb_init /\ [][RbNext]_rbvars

-----------------------------------------------------------------------------
RbContents == [i \in 1..vibe_rb_used |-> rb.buf[mask(rb.head + i - 1)]]

RbAbstract == INSTANCE Fifo WITH Cap <- rb_size, q <- RbContents, out <- delivered

(* The ring (vibe_rb_put_buf, vibe_rb_get_buf) is a bounded FIFO although  *)
(* neither side locks: no byte is lost, repeated, reordered or read before *)
(* it has been written, over wraps of buf and of the free-running indices. *)
RbFifo ==
  /\ RbAbstract!FifoSpec
  /\ [][rb'.tail # rb.tail =>
         RbContents' = RbContents \o SubSeq(producer.data, 1, producer.n)]_rbvars

(* Although they are updated behind the indices and vibe_rb_reset_stats may *)
(* come at any time, the difference of put_count and get_count is exactly  *)
(* what the ring holds, less what it held when they were reset, whenever no *)
(* call is in progress; and once a put has followed the reset, peak_used   *)
(* has missed nothing that is still there.  Right after a reset it has: 0, *)
(* however full the ring is.                                               *)
RbStatsExact ==
  /\ producer.pc = "idle" /\ consumer.pc = "idle" =>
       (rbstats.put_count - rbstats.get_count) % SizeMod
         = (vibe_rb_used - (since.tail - since.head)) % SizeMod
  /\ producer.pc = "idle" /\ since.put => vibe_rb_used <= rbstats.peak_used
  /\ rbstats.peak_used <= rb_size

(* The ring is a FIFO and its statistics account for it (both parts above).*)
RbSound == RbFifo /\ []RbStatsExact

=============================================================================
