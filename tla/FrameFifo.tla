----------------------------- MODULE FrameFifo -----------------------------
(***************************************************************************)
(* What a match needs of its connection: the frames one console sends      *)
(* reach the other one whole, once, and in the order they were sent, and   *)
(* keep coming, for as long as the connection is intact.                   *)
(***************************************************************************)
EXTENDS Naturals, Sequences

CONSTANT Frames     \* the frames a console sends

VARIABLES
  sent,       \* the frames sent
  got,        \* the frames that arrived
  intact      \* the connection holds

fifo == <<sent, got, intact>>

FifoInit == sent = << >> /\ got = << >> /\ intact = TRUE

Put ==
  /\ \E f \in Frames : sent' = Append(sent, f)
  /\ UNCHANGED <<got, intact>>

\* One frame or several, as many as are there.
Get ==
  /\ intact
  /\ \E n \in Len(got) + 1 .. Len(sent) : got' = SubSeq(sent, 1, n)
  /\ UNCHANGED <<sent, intact>>

\* Once it is broken there is no promise.
Break == intact' = FALSE /\ UNCHANGED <<sent, got>>
Broken == ~intact /\ ~intact'

FifoSafe == FifoInit /\ [][Put \/ Get \/ Break \/ Broken]_fifo

\* What was sent arrives, or the connection breaks.
Flows == WF_fifo(Get)
=============================================================================
