------------------------------- MODULE Link --------------------------------
(***************************************************************************)
(* One direction of a match, byte by byte: the sending console, the relay  *)
(* (service, send, flush, _update_events in intv_relay_server.py) and the  *)
(* receiving console (SES_PUMP in session.asm).  A frame is a length, a    *)
(* type and a payload, with nothing to mark where it begins; TCP cuts the  *)
(* stream wherever it likes, and so does the console's bounded read.       *)
(*                                                                         *)
(* The sizes are those of the code divided by about twenty-four, with the  *)
(* inequalities between them kept.                                         *)
(***************************************************************************)
EXTENDS Integers, Sequences

CONSTANTS
  Frames,     \* the frames the sender may send
  Junk,       \* bytes of a sender that is out of step, refused by the relay
  Flen,       \* SES_FLEN: for each type that arrives, its lengths
  MaxLen,     \* 200: the longest frame the relay accepts
  RecvMax,    \* 4096: bytes of one recv
  MaxTx,      \* MAX_TX_BACKLOG
  SockBuf,    \* what the kernel holds of what the relay wrote
  ReadMax,    \* 64: bytes of one NET_READ
  RingSize,   \* 256: RXACC
  MaxSent,    \* bound on the frames sent
  MaxLost     \* bound on the reads that time out

ASSUME LinkAssumption ==
  /\ \A f \in Frames : f[1] = Len(f) - 1 /\ f[1] \in Flen[f[2]] /\ f[1] <= MaxLen
  /\ {RecvMax, MaxTx, SockBuf, ReadMax, RingSize, MaxSent, MaxLost} \subseteq Nat

VARIABLES
  sent, got,  \* history: the frames sent, the frames dispatched
  up,         \* sender to relay: written, not received
  rx,         \* client.rx of the sender
  tx,         \* client.tx of the receiver
  writing,    \* EVENT_WRITE is registered for the receiver
  wire,       \* relay to receiver: written, not read
  ring,       \* RXACC from RX_RD to RX_WR
  over,       \* the match has ended: one of the two was dropped
  lost        \* history: reads that timed out

vars == <<sent, got, up, rx, tx, writing, wire, ring, over, lost>>

LinkInit ==
  /\ sent = << >> /\ got = << >> /\ up = << >> /\ rx = << >> /\ tx = << >>
  /\ writing = FALSE /\ wire = << >> /\ ring = << >> /\ over = FALSE /\ lost = 0

First(s, n) == SubSeq(s, 1, n)
Rest(s, n) == SubSeq(s, n + 1, Len(s))
AtMost(m, n) == IF m <= n THEN m ELSE n

-----------------------------------------------------------------------------
(* The sender.                                                             *)

SendInput ==
  /\ Len(sent) < MaxSent
  /\ \E f \in Frames : sent' = Append(sent, f) /\ up' = up \o f
  /\ UNCHANGED <<got, rx, tx, writing, wire, ring, over, lost>>

SendJunk ==
  /\ ~over /\ up = << >>
  /\ \E b \in Junk : up' = <<b>>
  /\ UNCHANGED <<sent, got, rx, tx, writing, wire, ring, over, lost>>

-----------------------------------------------------------------------------
(* The relay.                                                              *)

\* What the relay holds of the two connections.
Relay == [rx |-> rx, tx |-> tx, writing |-> writing, wire |-> wire, over |-> over]

\* Slip: interest in writing is never registered.
ReadOnly_UpdateEvents(s) == [s EXCEPT !.writing = FALSE]

\* _update_events
UpdateEvents(s) == [s EXCEPT !.writing = s.tx # << >>]

\* flush: until all is written or the kernel takes no more.
Flush(s) ==
  LET n == AtMost(Len(s.tx), SockBuf - Len(s.wire))
  IN UpdateEvents([s EXCEPT !.wire = @ \o First(s.tx, n), !.tx = Rest(@, n)])

\* send: a receiver that is too far behind is dropped.
Send(s, data) ==
  IF Len(s.tx) + Len(data) > MaxTx
  THEN [s EXCEPT !.over = TRUE, !.tx = << >>, !.writing = FALSE]
  ELSE Flush([s EXCEPT !.tx = @ \o data])

\* frame: a type and its payload, with their length in front.
Frame(body) == <<Len(body)>> \o body

\* handle: sent on in a frame of its own, unless the match is over.
Handle(s, body) == IF s.over THEN s ELSE Send(s, Frame(body))

\* Slip: a frame is taken before the rest of it has come.
Eager_Complete(b, need) == TRUE

\* The frame at the head of the buffer has come in full.
Complete(b, need) == Len(b) >= need

RECURSIVE Reassemble(_)
\* The loop of service: every frame that is complete, until one has an
\* impossible length, which costs the sender its connection.
Reassemble(s) ==
  IF s.rx = << >> THEN s
  ELSE LET need == s.rx[1] + 1 IN
    IF need < 2 \/ s.rx[1] > MaxLen
    THEN [s EXCEPT !.over = TRUE, !.rx = << >>]
    ELSE IF ~Complete(s.rx, need) THEN s
    ELSE Reassemble(Handle([s EXCEPT !.rx = Rest(@, need)],
                           Rest(First(s.rx, AtMost(need, Len(s.rx))), 1)))

Holds(s) ==
  /\ rx' = s.rx /\ tx' = s.tx /\ writing' = s.writing /\ wire' = s.wire
  /\ over' = s.over

\* service: one recv, of whatever has come.
Service ==
  /\ up # << >> /\ ~over
  /\ \E n \in 1 .. AtMost(RecvMax, Len(up)) :
       /\ up' = Rest(up, n)
       /\ Holds(Reassemble([Relay EXCEPT !.rx = @ \o First(up, n)]))
  /\ UNCHANGED <<sent, got, ring, lost>>

\* run, with a connection that is ready for writing.
Writable ==
  /\ writing /\ Len(wire) < SockBuf /\ ~over
  /\ Holds(Flush(Relay))
  /\ UNCHANGED <<sent, got, up, ring, lost>>

-----------------------------------------------------------------------------
(* The receiver.                                                           *)

\* Slip: any length is believed.
Gullible_Valid(len, type) == TRUE

\* The framing check: a type that arrives, and a length it can have.
Valid(len, type) == type \in DOMAIN Flen /\ len \in Flen[type]

\* (RX_WR - RX_RD) AND $FF
Buffered(b) == Len(b) % RingSize

RECURSIVE Parse(_, _)
\* @@pp_parse: dispatch the complete frames; out of step, discard one byte.
Parse(b, frames) ==
  IF Buffered(b) < 2 THEN [ring |-> b, frames |-> frames]
  ELSE IF ~Valid(b[1], b[2]) THEN Parse(Tail(b), frames)
  ELSE IF Buffered(b) < b[1] + 1 THEN [ring |-> b, frames |-> frames]
  ELSE Parse(Rest(b, b[1] + 1), Append(frames, First(b, b[1] + 1)))

\* SES_PUMP: NET_STATUS, a bounded NET_READ, and the parser.
Pump ==
  /\ wire # << >>
  /\ LET n == AtMost(ReadMax, Len(wire))
         res == Parse(ring \o First(wire, n), << >>)
     IN /\ wire' = Rest(wire, n)
        /\ ring' = res.ring /\ got' = got \o res.frames
  /\ UNCHANGED <<sent, up, rx, tx, writing, over, lost>>

\* The read times out, and the peripheral completes it all the same.
PumpTimesOut ==
  /\ wire # << >> /\ lost < MaxLost
  /\ lost' = lost + 1
  /\ wire' = Rest(wire, AtMost(ReadMax, Len(wire)))
  /\ LET res == Parse(ring, << >>)
     IN ring' = res.ring /\ got' = got \o res.frames
  /\ UNCHANGED <<sent, up, rx, tx, writing, over>>

-----------------------------------------------------------------------------

LinkNext ==
  SendInput \/ SendJunk \/ Service \/ Writable \/ Pump \/ PumpTimesOut

\* The relay serves what the selector reports, the console goes on reading.
LinkSpec ==
  /\ LinkInit /\ [][LinkNext]_vars
  /\ WF_vars(Service) /\ WF_vars(Writable) /\ WF_vars(Pump)

-----------------------------------------------------------------------------
(* Properties.                                                             *)

Fifo == INSTANCE FrameFifo WITH intact <- ~over /\ lost = 0

\* Link implements FrameFifo: through the cuts of TCP, the relay's buffers, the
\* kernel's and the console's, frames arrive whole, once and in order, until
\* one side is dropped or a read is lost (service, send, SES_PUMP).
Delivered == Fifo!FifoSafe

\* And none stays lying in a buffer, as long as the connection holds (flush and
\* _update_events: bytes the kernel did not take are written when it does).
Flows == Fifo!Flows

\* The console's ring never wraps onto itself, although nothing checks that it
\* does not: a read adds at most 64 bytes to a frame that is not complete.  Not
\* even when the stream is out of step and payload is taken for a length
\* (SES_PUMP's framing check).
RingFits ==
  [][ring' # ring => Len(ring) + AtMost(ReadMax, Len(wire)) < RingSize]_vars
=============================================================================
