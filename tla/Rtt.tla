-------------------------------- MODULE Rtt ---------------------------------
(***************************************************************************)
(* The RTT channel (subsys/rtt/rtt.c): the target writes the up buffer and *)
(* reads the down buffer with interrupts masked; the debug probe (external *)
(* code) reads and writes target memory at any moment, interrupts or not.  *)
(***************************************************************************)
EXTENDS Naturals, Sequences

CONSTANTS RttByte,
          SizeOfBuffer,
          RttChunk        \* bound: longest write or read

ASSUME RttAssumption == SizeOfBuffer \in Nat \ {0, 1} /\ RttChunk \in Nat

VARIABLES rtt,          \* [ID, ready, set]: is the block marked, known, filled in
          up, down,     \* [buf, WrOff, RdOff]
          writer,       \* vibe_rtt_write in progress: [at, data, run]
          host,         \* the probe's transfer: [at, data, WrOff]
          upOut, downOut  \* ghost: what the last transfer delivered

rttvars == <<rtt, up, down, writer, host, upOut, downOut>>

NoRttCall == [at |-> "idle", data |-> <<>>, run |-> 0]

RttBoot ==
  LET zero == [buf |-> [i \in 0..(SizeOfBuffer - 1) |-> CHOOSE b \in RttByte : TRUE],
               WrOff |-> 0, RdOff |-> 0]
  IN  /\ rtt = [ID |-> FALSE, ready |-> FALSE, set |-> FALSE]
      /\ up = zero /\ down = zero
      /\ writer = NoRttCall /\ host = NoRttCall
      /\ upOut = <<>> /\ downOut = <<>>

(* The first call fills in the block and writes the ID last; the probe may *)
(* look in between.  Later calls return at once.                           *)
vibe_rtt_init ==
  /\ ~rtt.ready
  /\ rtt' = IF ~rtt.set THEN [rtt EXCEPT !.set = TRUE]
            ELSE [rtt EXCEPT !.ID = TRUE, !.ready = TRUE]
  /\ UNCHANGED <<up, down, writer, host, upOut, downOut>>

(* A first write or read initialises the block itself: vibe_rtt_init, then *)
(* this.                                                                   *)
vibe_rtt_write(data) ==
  /\ rtt.ready /\ writer.at = "idle"
  /\ writer' = [at |-> "copy", data |-> data, run |-> 0]
  /\ UNCHANGED <<rtt, up, down, host, upOut, downOut>>

vibe_rtt_up_used ==
  IF up.WrOff >= up.RdOff THEN up.WrOff - up.RdOff
  ELSE SizeOfBuffer - up.RdOff + up.WrOff

Space_Full == IF up.RdOff > up.WrOff THEN up.RdOff - up.WrOff
              ELSE SizeOfBuffer - up.WrOff + up.RdOff

(* One byte stays free, so that WrOff = RdOff means empty.                 *)
Space == IF up.RdOff > up.WrOff THEN up.RdOff - up.WrOff - 1
         ELSE SizeOfBuffer - up.WrOff + up.RdOff - 1

LeastOf(S) == CHOOSE n \in S : \A k \in S : n <= k

(* One turn of the loop: the contiguous run that fits and that is left.    *)
WriteRun ==
  /\ writer.at = "copy" /\ writer.data # <<>> /\ Space > 0
  /\ LET run == LeastOf({Space, SizeOfBuffer - up.WrOff, Len(writer.data)})
     IN  /\ up' = [up EXCEPT !.buf = [i \in DOMAIN @ |->
                     IF i \in up.WrOff..(up.WrOff + run - 1)
                     THEN writer.data[i - up.WrOff + 1] ELSE @[i]]]
         /\ writer' = [writer EXCEPT !.at = "publish", !.run = run]
  /\ UNCHANGED <<rtt, down, host, upOut, downOut>>

PublishWrOff ==
  /\ writer.at = "publish"
  /\ up' = [up EXCEPT !.WrOff =
              IF @ + writer.run >= SizeOfBuffer THEN 0 ELSE @ + writer.run]
  /\ writer' = [at |-> "copy", run |-> 0,
                data |-> SubSeq(writer.data, writer.run + 1, Len(writer.data))]
  /\ UNCHANGED <<rtt, down, host, upOut, downOut>>

(* Everything is written, or what does not fit is dropped.                 *)
WriteEnds ==
  /\ writer.at = "copy" /\ (writer.data = <<>> \/ Space = 0)
  /\ writer' = NoRttCall
  /\ UNCHANGED <<rtt, up, down, host, upOut, downOut>>

(* down.WrOff is read once; the loop stops at it or at len bytes.          *)
vibe_rtt_read(len) ==
  /\ rtt.ready /\ writer.at = "idle"
  /\ LET used == (down.WrOff + SizeOfBuffer - down.RdOff) % SizeOfBuffer
         n == LeastOf({used, len})
     IN  /\ n > 0
         /\ downOut' = [i \in 1..n |-> down.buf[(down.RdOff + i - 1) % SizeOfBuffer]]
         /\ down' = [down EXCEPT !.RdOff = (@ + n) % SizeOfBuffer]
  /\ UNCHANGED <<rtt, up, writer, host, upOut>>

(* External: the probe accepts a block with the ID, copies the bytes up to *)
(* the WrOff it read, and stores RdOff.                                    *)
HostReads ==
  /\ rtt.ID /\ host.at = "idle"
  /\ LET n == (up.WrOff + SizeOfBuffer - up.RdOff) % SizeOfBuffer
     IN  /\ n > 0
         /\ host' = [at |-> "copied", run |-> n, data |->
              [i \in 1..n |-> up.buf[(up.RdOff + i - 1) % SizeOfBuffer]]]
  /\ UNCHANGED <<rtt, up, down, writer, upOut, downOut>>

HostConsumes ==
  /\ host.at = "copied"
  /\ up' = [up EXCEPT !.RdOff = (@ + host.run) % SizeOfBuffer]
  /\ upOut' = host.data /\ host' = NoRttCall
  /\ UNCHANGED <<rtt, down, writer, downOut>>

HostWrites(b) ==
  /\ rtt.ID /\ host.at = "idle"
  /\ (down.WrOff + 1) % SizeOfBuffer # down.RdOff
  /\ down' = [down EXCEPT !.buf[down.WrOff] = b,
                          !.WrOff = (@ + 1) % SizeOfBuffer]
  /\ UNCHANGED <<rtt, up, writer, host, upOut, downOut>>

RttUpNext ==
  \/ vibe_rtt_init \/ WriteRun \/ PublishWrOff \/ WriteEnds
  \/ \E n \in 1..RttChunk : \E d \in [1..n -> RttByte] : vibe_rtt_write(d)
  \/ HostReads \/ HostConsumes

RttDownNext ==
  \/ vibe_rtt_init
  \/ \E n \in 1..RttChunk : vibe_rtt_read(n)
  \/ \E b \in RttByte : HostWrites(b)

RttNext == RttUpNext \/ RttDownNext

RttSpec == RttBoot /\ [][RttNext]_rttvars

-----------------------------------------------------------------------------
UpContents == [i \in 1..vibe_rtt_up_used |-> up.buf[(up.RdOff + i - 1) % SizeOfBuffer]]
DownContents ==
  [i \in 1..((down.WrOff + SizeOfBuffer - down.RdOff) % SizeOfBuffer) |->
     down.buf[(down.RdOff + i - 1) % SizeOfBuffer]]

UpAbstract == INSTANCE Fifo WITH Cap <- SizeOfBuffer - 1, q <- UpContents, out <- upOut
DownAbstract == INSTANCE Fifo WITH Cap <- SizeOfBuffer - 1, q <- DownContents, out <- downOut

(* What the probe reads is what vibe_rtt_write stored, each byte once and  *)
(* in order, though WrOff is published after every contiguous run and the  *)
(* probe moves RdOff between the run's computation and its publication.    *)
RttUpFifo ==
  /\ UpAbstract!FifoSpec
  /\ [][up'.WrOff # up.WrOff =>
         UpContents' = UpContents \o SubSeq(writer.data, 1, writer.run)]_rttvars

(* The same for what the probe sends and vibe_rtt_read returns.            *)
RttDownFifo == DownAbstract!FifoSpec

(* The ID is the last thing vibe_rtt_init writes: a probe that polls       *)
(* memory during the initialisation never accepts a half-filled block.     *)
RttFoundWhole == rtt.ID => rtt.set

(* The probe finds an initialised block, and both channels keep the order  *)
(* of their bytes (the three parts above).                                 *)
RttDelivers == RttUpFifo /\ RttDownFifo /\ []RttFoundWhole

=============================================================================
