------------------------- MODULE NetplayTornProofs -------------------------
(* No console simulates a tick on a half-applied image, for every delay,   *)
(* ring size, timeout, number of chunks, and with consoles that leave or   *)
(* time out at any point.                                                  *)
EXTENDS NetplayProofs

-----------------------------------------------------------------------------
(* Streams: what sending, receiving and cutting do to an unbroken image.   *)

\* Sending whole images and single frames to an open stream.
LEMMA SendOK ==
  ASSUME NEW s \in Seq(Frame), NEW t \in Seq(Frame), NEW held \in BOOLEAN,
         StreamOK(s, TRUE, held), StreamOK(t, TRUE, FALSE)
  PROVE  StreamOK(s \o t, TRUE, held)
<1>1. /\ s \o t \in Seq(Frame)
      /\ Len(s \o t) = Len(s) + Len(t)
      /\ \A i \in 1 .. Len(s) + Len(t) :
           (s \o t)[i] = IF i <= Len(s) THEN s[i] ELSE t[i - Len(s)]
  OBVIOUS
<1>2. Unbroken(s \o t)
  <2> SUFFICES ASSUME NEW i \in 1 .. Len(s \o t), NEW j \in 1 .. Len(s \o t),
                      j = i + 1, (s \o t)[i].type \in MidImage
               PROVE  (s \o t)[j].type \in FollowsMidImage
    BY DEF Unbroken
  <2>1. CASE j <= Len(s)
    BY <1>1, <2>1 DEF StreamOK, Unbroken
  <2>2. CASE i = Len(s)
    BY <1>1, <2>2 DEF StreamOK
  <2>3. CASE i > Len(s)
    BY <1>1, <2>3 DEF StreamOK, Unbroken
  <2> QED
    BY <1>1, <2>1, <2>2, <2>3
<1>3. s \o t # << >> => (s \o t)[Len(s \o t)].type \notin MidImage
  <2>1. CASE t = << >>
    BY <2>1 DEF StreamOK
  <2>2. CASE t # << >>
    BY <1>1, <2>2 DEF StreamOK
  <2> QED
    BY <2>1, <2>2
<1>4. held => s \o t # << >> /\ (s \o t)[1].type \in FollowsMidImage
  BY <1>1 DEF StreamOK
<1> QED
  BY <1>2, <1>3, <1>4 DEF StreamOK

\* Receiving the first frame: inside an image the next one belongs to it too.
LEMMA TakeOK ==
  ASSUME NEW s \in Seq(Frame), s # << >>, NEW open \in BOOLEAN,
         NEW held \in BOOLEAN, StreamOK(s, open, held)
  PROVE  /\ StreamOK(Tail(s), open, FALSE)
         /\ Head(s).type \in MidImage => StreamOK(Tail(s), open, TRUE)
<1>1. /\ Tail(s) \in Seq(Frame)
      /\ Len(Tail(s)) = Len(s) - 1
      /\ \A i \in 1 .. Len(s) - 1 : Tail(s)[i] = s[i + 1]
      /\ Head(s) = s[1]
      /\ Len(s) \in Nat /\ Len(s) >= 1
  OBVIOUS
<1>2. Unbroken(Tail(s))
  BY <1>1 DEF StreamOK, Unbroken
<1>3. open /\ Tail(s) # << >> => Tail(s)[Len(Tail(s))].type \notin MidImage
  BY <1>1 DEF StreamOK
<1>4. Head(s).type \in MidImage =>
        IF Tail(s) = << >> THEN ~open ELSE Tail(s)[1].type \in FollowsMidImage
  <2> SUFFICES ASSUME Head(s).type \in MidImage
               PROVE  IF Tail(s) = << >> THEN ~open
                      ELSE Tail(s)[1].type \in FollowsMidImage
    OBVIOUS
  <2>1. CASE Len(s) = 1
    <3>0. Len(Tail(s)) = 0
      BY <1>1, <2>1
    <3>1. s[Len(s)].type \in MidImage /\ Tail(s) = << >>
      BY <1>1, <2>1, <3>0, EmptySeq
    <3>2. ~open
      BY <3>1 DEF StreamOK
    <3> QED
      BY <3>1, <3>2
  <2>2. CASE Len(s) > 1
    <3>1. s[2].type \in FollowsMidImage
      BY <1>1, <2>2 DEF StreamOK, Unbroken
    <3>2. Tail(s) # << >>
      <4>1. Len(Tail(s)) # 0
        BY <1>1, <2>2
      <4> QED
        BY <4>1, EmptySeq
    <3>3. 1 \in 1 .. Len(s) - 1 /\ 1 + 1 = 2
      BY <1>1, <2>2
    <3>4. Tail(s)[1] = s[2]
      BY <1>1, <3>3
    <3> QED
      BY <3>1, <3>2, <3>4
  <2> QED
    BY <1>1, <2>1, <2>2
<1> QED
  BY <1>2, <1>3, <1>4 DEF StreamOK

\* Cutting a stream short, with or without the relay's PEER_LEFT.
LEMMA CutOK ==
  ASSUME NEW s \in Seq(Frame), NEW n \in 0 .. Len(s), NEW open \in BOOLEAN,
         NEW held \in BOOLEAN, StreamOK(s, open, held)
  PROVE  /\ StreamOK(SubSeq(s, 1, n), FALSE, held)
         /\ StreamOK(Append(SubSeq(s, 1, n), PeerLeftFrame), FALSE, held)
         /\ StreamOK(<< >>, FALSE, held)
<1> DEFINE p == SubSeq(s, 1, n)
           q == Append(p, PeerLeftFrame)
<1>1. /\ p \in Seq(Frame) /\ Len(p) = n /\ n \in Nat
      /\ \A i \in 1 .. n : p[i] = s[i]
  OBVIOUS
<1> HIDE DEF p
<1>2. /\ q \in Seq(Frame) /\ Len(q) = n + 1
      /\ \A i \in 1 .. n : q[i] = p[i]
      /\ q[n + 1] = PeerLeftFrame
  BY <1>1, FrameType
<1> HIDE DEF q
<1>3. Unbroken(p)
  BY <1>1 DEF StreamOK, Unbroken
<1>4. Unbroken(q)
  <2> SUFFICES ASSUME NEW i \in 1 .. n + 1, NEW j \in 1 .. n + 1,
                      j = i + 1, q[i].type \in MidImage
               PROVE  q[j].type \in FollowsMidImage
    BY <1>2 DEF Unbroken
  <2>1. CASE j <= n
    BY <1>1, <1>2, <1>3, <2>1 DEF Unbroken
  <2>2. CASE j = n + 1
    BY <1>2, <2>2 DEF PeerLeftFrame, FollowsMidImage
  <2> QED
    BY <1>1, <2>1, <2>2
<1>5. held /\ p # << >> => p[1].type \in FollowsMidImage
  BY <1>1 DEF StreamOK
<1>6. q # << >> /\ (held => q[1].type \in FollowsMidImage)
  <2>1. CASE n = 0
    <3>1. q # << >>
      <4>1. Len(q) # 0
        BY <1>2, <2>1
      <4> QED
        BY <4>1, EmptySeq
    <3>2. n + 1 = 1
      BY <2>1
    <3>3. q[1] = PeerLeftFrame
      BY <1>2, <3>2
    <3> QED
      BY <3>1, <3>3 DEF PeerLeftFrame, FollowsMidImage
  <2>2. CASE n # 0
    BY <1>1, <1>2, <2>2 DEF StreamOK
  <2> QED
    BY <2>1, <2>2
<1>7. StreamOK(p, FALSE, held)
  BY <1>3, <1>5 DEF StreamOK
<1>8. StreamOK(q, FALSE, held)
  BY <1>4, <1>6 DEF StreamOK
<1>9. StreamOK(<< >>, FALSE, held)
  BY DEF StreamOK, Unbroken
<1> QED
  BY <1>7, <1>8, <1>9 DEF p, q

\* One frame that neither starts nor continues an image.
LEMMA SingleOK ==
  ASSUME NEW f \in Frame, f.type \notin MidImage
  PROVE  StreamOK(<<f>>, TRUE, FALSE)
<1>1. /\ Len(<<f>>) = 1 /\ <<f>>[1] = f
  OBVIOUS
<1> QED
  BY <1>1 DEF StreamOK, Unbroken

\* RS_PUSH sends a whole image: BEGIN, chunks, END.
LEMMA ImageOK ==
  ASSUME TypeOK, NEW c \in Seats, NEW r \in Nat
  PROVE  StreamOK(Image(c, r), TRUE, FALSE)
<1> DEFINE chunks == [k \in Parts |-> ChunkFrame(k, Simulated(c)[k])]
           body == <<BeginFrame(r)>> \o chunks
           im == body \o <<EndFrame>>
<1>1. /\ chunks \in Seq(Frame) /\ Len(chunks) = NChunks
      /\ \A k \in Parts : chunks[k].type = "CHUNK"
  <2>1. \A k \in Parts : ChunkFrame(k, Simulated(c)[k]) \in Frame
    BY TickType, FrameType
  <2>2. chunks \in Seq(Frame) /\ Len(chunks) = NChunks
    BY <2>1, ConstantAssumption DEF Parts
  <2>3. \A k \in Parts : chunks[k].type = "CHUNK"
    BY DEF ChunkFrame
  <2> QED
    BY <2>2, <2>3
<1> HIDE DEF chunks
<1>2. BeginFrame(r) \in Frame /\ EndFrame \in Frame
  BY FrameType
<1>3. /\ body \in Seq(Frame) /\ Len(body) = NChunks + 1
      /\ body[1] = BeginFrame(r)
      /\ \A i \in 2 .. NChunks + 1 : body[i] = chunks[i - 1]
  BY <1>1, <1>2, ConstantAssumption
<1> HIDE DEF body
<1>4. /\ im \in Seq(Frame) /\ Len(im) = NChunks + 2
      /\ \A i \in 1 .. NChunks + 1 : im[i] = body[i]
      /\ im[NChunks + 2] = EndFrame
  BY <1>2, <1>3, ConstantAssumption
<1> HIDE DEF im
<1>5. \A i \in 2 .. NChunks + 1 : im[i].type = "CHUNK"
  BY <1>1, <1>3, <1>4, ConstantAssumption DEF Parts
<1>6. im[NChunks + 2].type = "END"
  BY <1>4 DEF EndFrame
<1>7. Unbroken(im)
  BY <1>4, <1>5, <1>6, ConstantAssumption DEF Unbroken, FollowsMidImage
<1>8. StreamOK(im, TRUE, FALSE)
  BY <1>4, <1>6, <1>7 DEF StreamOK, MidImage
<1> QED
  BY <1>8 DEF im, body, chunks, Image

\* What a tick sends: at most one CRC.
LEMMA ReportOK ==
  ASSUME TypeOK, NEW c \in Seats
  PROVE  StreamOK(CrcReport(c), TRUE, FALSE)
<1>1. CASE CrcDue(tick[c])
  <2>1. CrcFrame(tick[c], LS_CKSUM(Simulated(c))) \in Frame
    BY TickType, FrameType DEF TypeOK, EngineType
  <2>2. CrcFrame(tick[c], LS_CKSUM(Simulated(c))).type \notin MidImage
    BY DEF CrcFrame, MidImage
  <2> QED
    BY <1>1, <2>1, <2>2, SingleOK DEF CrcReport
<1>2. CASE ~CrcDue(tick[c])
  BY <1>2 DEF CrcReport, StreamOK, Unbroken
<1> QED
  BY <1>1, <1>2

-----------------------------------------------------------------------------
(* The invariant, step by step.                                            *)

\* What a step of the other console leaves alone.
Same(d) ==
  /\ pc'[d] = pc[d] /\ fresh'[d] = fresh[d] /\ applied'[d] = applied[d]
  /\ hold'[d] = hold[d] /\ dropped'[d] = dropped[d]
  /\ wm'[d] = wm[d] /\ tick'[d] = tick[d]

\* A console that does not move stays safe.
LEMMA SafeSame ==
  ASSUME NEW d \in Seats, TornSafe(d), Same(d)
  PROVE  TornSafe(d)'
  BY DEF TornSafe, Same, GateOpen

\* A stream nobody writes to or reads from; a hold may end meanwhile.
LEMMA StreamKept ==
  ASSUME NEW d \in Seats, ImageUnbroken(d), chan'[d] = chan[d], room' = room,
         hold'[d] /\ ~dropped'[d] => hold[d] /\ ~dropped[d]
  PROVE  ImageUnbroken(d)'
  BY DEF ImageUnbroken, StreamOK

\* Sending, seen at both ends.
LEMMA StreamSent ==
  ASSUME TypeOK, NEW c \in Seats, NEW fs \in Seq(Frame),
         StreamOK(fs, TRUE, FALSE), chan' = Relayed(c, fs), room' = room,
         \A d \in Seats : /\ ImageUnbroken(d)
                          /\ hold'[d] /\ ~dropped'[d] => hold[d] /\ ~dropped[d]
  PROVE  \A d \in Seats : ImageUnbroken(d)'
<1>1. CASE room
  <2>1. /\ chan \in [Seats -> Seq(Frame)] /\ Other(c) \in Seats /\ Other(c) # c
        /\ \A d \in Seats : d = c \/ d = Other(c)
    BY DEF TypeOK, ChanType, Other, Seats
  <2>2. chan'[c] = chan[c] /\ chan'[Other(c)] = chan[Other(c)] \o fs
    BY <1>1, <2>1 DEF Relayed
  <2>3. ImageUnbroken(c)'
    BY <2>2, StreamKept
  <2>4. ImageUnbroken(Other(c))'
    <3> DEFINE o == Other(c)
               held == hold[o] /\ ~dropped[o]
    <3>1. StreamOK(chan[o], TRUE, held)
      BY <1>1, <2>1 DEF ImageUnbroken
    <3>2. StreamOK(chan[o] \o fs, TRUE, held)
      <4>1. held \in BOOLEAN /\ chan[o] \in Seq(Frame)
        BY <2>1
      <4> QED
        BY <3>1, <4>1, SendOK
    <3>3. StreamOK(chan'[o], room', held)
      BY <1>1, <2>2, <3>2
    <3>4. hold'[o] /\ ~dropped'[o] => held
      BY <2>1
    <3> QED
      BY <3>3, <3>4 DEF ImageUnbroken, StreamOK
  <2> QED
    BY <2>1, <2>3, <2>4
<1>2. CASE ~room
  <2>1. chan' = chan
    BY <1>2 DEF Relayed
  <2> QED
    BY <2>1, StreamKept
<1> QED
  BY <1>1, <1>2

\* The first frame a held console finds belongs to the image.
LEMMA HeadFollows ==
  ASSUME TypeOK, NEW c \in Seats, ImageUnbroken(c), chan[c] # << >>,
         hold[c], ~dropped[c]
  PROVE  Head(chan[c]).type \in FollowsMidImage
  BY DEF TypeOK, ChanType, ImageUnbroken, StreamOK

\* Receiving, seen at both ends: a console is in a hold afterwards only if it
\* received part of an image.
LEMMA StreamTaken ==
  ASSUME TypeOK, NEW c \in Seats, chan[c] # << >>, room' = room,
         chan' = [chan EXCEPT ![c] = Tail(@)],
         \A d \in Seats : ImageUnbroken(d),
         \A d \in Seats \ {c} : hold'[d] = hold[d] /\ dropped'[d] = dropped[d],
         hold'[c] /\ ~dropped'[c] => Head(chan[c]).type \in MidImage
  PROVE  \A d \in Seats : ImageUnbroken(d)'
<1>1. chan \in [Seats -> Seq(Frame)] /\ room \in BOOLEAN
  BY DEF TypeOK, ChanType, ControlType
<1>2. \A d \in Seats \ {c} : ImageUnbroken(d)'
  BY <1>1, StreamKept
<1>3. ImageUnbroken(c)'
  <2> DEFINE held == hold[c] /\ ~dropped[c]
  <2>1. StreamOK(chan[c], room, held) /\ held \in BOOLEAN
    BY DEF ImageUnbroken
  <2>2. /\ StreamOK(Tail(chan[c]), room, FALSE)
        /\ Head(chan[c]).type \in MidImage => StreamOK(Tail(chan[c]), room, TRUE)
    BY <1>1, <2>1, TakeOK
  <2>3. chan'[c] = Tail(chan[c])
    BY <1>1
  <2> QED
    BY <2>2, <2>3 DEF ImageUnbroken, StreamOK
<1> QED
  BY <1>2, <1>3

\* No frame and no part of a pass but the game tick touches the record of what
\* was lost, or of the inputs played.
LEMMA FrameQuiet ==
  ASSUME NEW c \in Seats, OnFrame(c)
  PROVE  lost' = lost /\ played' = played
<1> USE DEF history
<1>1. CASE OnInput(c)
  BY <1>1 DEF OnInput, Receives
<1>2. CASE OnCrc(c)
  BY <1>2 DEF OnCrc, Receives
<1>3. CASE OnResync(c)
  BY <1>3 DEF OnResync, Receives
<1>4. CASE OnBegin(c)
  BY <1>4 DEF OnBegin, Receives
<1>5. CASE OnChunk(c)
  BY <1>5 DEF OnChunk, Receives
<1>6. CASE OnEnd(c)
  BY <1>6 DEF OnEnd, Receives
<1>7. CASE OnPeerLeft(c)
  BY <1>7 DEF OnPeerLeft, Receives
<1> QED
  BY <1>1, <1>2, <1>3, <1>4, <1>5, <1>6, <1>7 DEF OnFrame

LEMMA PassQuiet ==
  ASSUME NEW c \in Seats, Console(c)
  PROVE  /\ lost' = lost
         /\ played' = played \/ GameTick(c)
<1> USE DEF history
<1>1. CASE OnFrame(c)
  BY <1>1, FrameQuiet
<1>2. CASE SesPump(c)
  BY <1>2 DEF SesPump
<1>3. CASE SesDone(c)
  BY <1>3 DEF SesDone
<1>4. CASE PassBegin(c)
  BY <1>4 DEF PassBegin
<1>5. CASE HoldRound(c)
  BY <1>5 DEF HoldRound
<1>6. CASE Capture(c)
  BY <1>6 DEF Capture
<1>7. CASE Stall(c)
  BY <1>7 DEF Stall
<1>8. CASE StallRound(c)
  BY <1>8 DEF StallRound
<1>9. GameTick(c) => lost' = lost
  BY DEF GameTick
<1>10. CASE RunTick(c)
  BY <1>9, <1>10 DEF RunTick
<1>11. CASE RunPush(c)
  BY <1>9, <1>11 DEF RunPush
<1> QED
  BY <1>1, <1>2, <1>3, <1>4, <1>5, <1>6, <1>7, <1>8, <1>10, <1>11 DEF Console

\* A lost frame stays lost.
LEMMA LostKept == ASSUME [Next]_vars, lost' = {} PROVE lost = {}
<1>1. ASSUME NEW c \in Seats, NEW i \in 1 .. Len(chan[c]), LoseWrite(c, i)
      PROVE  lost = {}
  BY <1>1 DEF LoseWrite
<1>2. ASSUME NEW c \in Seats, NEW k \in Parts, Drift(c, k) PROVE lost' = lost
  BY <1>2 DEF Drift
<1>3. ASSUME NEW c \in Seats, Leave(c) PROVE lost' = lost
  BY <1>3 DEF Leave, history
<1>4. Environment => lost = {}
  BY <1>1, <1>2, <1>3 DEF Environment
<1>5. Finished \/ UNCHANGED vars => lost' = lost
  BY DEF Finished, vars
<1> QED
  BY <1>4, <1>5, PassQuiet DEF Next

\* Every step keeps the images unbroken and the consoles safe.
LEMMA TornStep == TypeOK /\ TornInv /\ [Next]_vars => TornInv'
<1> SUFFICES ASSUME TypeOK, TornInv, [Next]_vars, lost' = {}
             PROVE  \A d \in Seats : ImageUnbroken(d)' /\ TornSafe(d)'
  BY DEF TornInv
<1>0. lost = {}
  BY LostKept
<1>a. \A d \in Seats : ImageUnbroken(d) /\ TornSafe(d)
  BY <1>0 DEF TornInv
<1>b. /\ pc \in [Seats -> {"seshold", "pass", "head", "gate", "stall", "hold",
                           "parked", "off"}]
      /\ fresh \in [Seats -> BOOLEAN] /\ dropped \in [Seats -> BOOLEAN]
      /\ hold \in [Seats -> BOOLEAN] /\ applied \in [Seats -> SUBSET Parts]
      /\ wm \in [Seats -> Nat] /\ tick \in [Seats -> Nat]
      /\ chan \in [Seats -> Seq(Frame)]
  BY DEF TypeOK, ControlType, EngineType, RecoveryType, ChanType
<1> USE DEF engine, recovery
<1>1. ASSUME NEW c \in Seats, OnInput(c)
      PROVE  \A d \in Seats : ImageUnbroken(d)' /\ TornSafe(d)'
  <2>0. hold[c] => dropped[c] 
    <3>1. chan[c] # << >> /\ Head(chan[c]).type = "INPUT"
      BY <1>1 DEF OnInput, Receives
    <3> QED
      BY <1>a, <3>1, HeadFollows DEF FollowsMidImage
  <2>1. \A d \in Seats \ {c} : Same(d)
    BY <1>b, <1>1 DEF OnInput, Receives, Same
  <2>2. TornSafe(c)'
    BY <1>a, <1>b, <2>0, <1>1 DEF OnInput, Receives, TornSafe, GateOpen
  <2>3. \A d \in Seats : ImageUnbroken(d)'
    <3>1. /\ chan[c] # << >> /\ chan' = [chan EXCEPT ![c] = Tail(@)]
          /\ room' = room
      BY <1>1 DEF OnInput, Receives
    <3>2. hold'[c] /\ ~dropped'[c] => Head(chan[c]).type \in MidImage
      BY <1>b, <2>0, <1>1 DEF OnInput, Receives
    <3> QED
      BY <1>a, <2>1, <3>1, <3>2, StreamTaken DEF Same
  <2> QED
    BY <1>a, <2>1, <2>2, <2>3, SafeSame
<1>2. ASSUME NEW c \in Seats, OnCrc(c)
      PROVE  \A d \in Seats : ImageUnbroken(d)' /\ TornSafe(d)'
  <2>0. hold[c] => dropped[c] 
    <3>1. chan[c] # << >> /\ Head(chan[c]).type = "CRC"
      BY <1>2 DEF OnCrc
    <3> QED
      BY <1>a, <3>1, HeadFollows DEF FollowsMidImage
  <2>1. \A d \in Seats \ {c} : Same(d)
    BY <1>b, <1>2 DEF OnCrc, Same
  <2>2. TornSafe(c)'
    BY <1>a, <1>b, <1>2 DEF OnCrc, TornSafe, GateOpen
  <2>3. \A d \in Seats : ImageUnbroken(d)'
    <3> DEFINE ask == ResyncFrame(Head(chan[c]).tick)
    <3>1. /\ chan[c] # << >> /\ Head(chan[c]).type = "CRC"
          /\ room' = room /\ UNCHANGED <<hold, dropped>>
      BY <1>2 DEF OnCrc
    <3>2. \/ chan' = [chan EXCEPT ![c] = Tail(@)]
          \/ /\ c # Host /\ room
             /\ chan' = [[chan EXCEPT ![c] = Tail(@)] EXCEPT
                           ![Host] = Append(@, ask)]
      <4>1. CASE CrcDisagrees(c, Head(chan[c]))
        BY <1>2, <4>1 DEF OnCrc
      <4>2. CASE ~CrcDisagrees(c, Head(chan[c]))
        BY <1>2, <4>2 DEF OnCrc
      <4> QED
        BY <4>1, <4>2
    <3>3. CASE chan' = [chan EXCEPT ![c] = Tail(@)]
      BY <1>a, <2>0, <3>1, <3>3, StreamTaken
    <3>4. CASE /\ c # Host /\ room
               /\ chan' = [[chan EXCEPT ![c] = Tail(@)] EXCEPT
                             ![Host] = Append(@, ask)]
      <4>1. Host \in Seats /\ \A d \in Seats : d = c \/ d = Host
        BY <3>4 DEF Host, Seats
      <4>2. chan'[c] = Tail(chan[c]) /\ chan'[Host] = Append(chan[Host], ask)
        BY <1>b, <3>4, <4>1
      <4>3. ImageUnbroken(c)'
        <5> DEFINE held == hold[c] /\ ~dropped[c]
        <5>1. /\ StreamOK(chan[c], room, held) /\ held \in BOOLEAN
              /\ room \in BOOLEAN
          BY <1>a DEF ImageUnbroken, TypeOK, ControlType
        <5>2. StreamOK(Tail(chan[c]), room, FALSE)
          BY <1>b, <3>1, <5>1, TakeOK
        <5> QED
          BY <2>0, <3>1, <4>2, <5>2 DEF ImageUnbroken, StreamOK
      <4>4. ImageUnbroken(Host)'
        <5> DEFINE held == hold[Host] /\ ~dropped[Host]
        <5>1. ask \in Frame /\ ask.type = "RESYNC"
          <6>1. Head(chan[c]) \in Frame
            BY <1>b, <3>1
          <6>2. Head(chan[c]).tick \in Nat
            BY <3>1, <6>1, FrameField
          <6> QED
            BY <6>2, FrameType DEF ResyncFrame
        <5> HIDE DEF ask
        <5>2. <<ask>> \in Seq(Frame)
          BY <5>1
        <5>3. StreamOK(<<ask>>, TRUE, FALSE)
          BY <5>1, SingleOK DEF MidImage
        <5>4. /\ StreamOK(chan[Host], TRUE, held) /\ held \in BOOLEAN
              /\ chan[Host] \in Seq(Frame)
          BY <1>a, <1>b, <3>4, <4>1 DEF ImageUnbroken
        <5>5. StreamOK(chan[Host] \o <<ask>>, TRUE, held)
          BY <5>2, <5>3, <5>4, SendOK
        <5>6. chan'[Host] = chan[Host] \o <<ask>>
          BY <4>2, <5>1, <5>4
        <5>7. room' = TRUE /\ (hold'[Host] /\ ~dropped'[Host]) = held
          BY <3>1, <3>4
        <5> QED
          BY <5>5, <5>6, <5>7 DEF ImageUnbroken
      <4> QED
        BY <4>1, <4>3, <4>4
    <3> QED
      BY <3>2, <3>3, <3>4
  <2> QED
    BY <1>a, <2>1, <2>2, <2>3, SafeSame
<1>3. ASSUME NEW c \in Seats, OnResync(c)
      PROVE  \A d \in Seats : ImageUnbroken(d)' /\ TornSafe(d)'
  <2>0. hold[c] => dropped[c] 
    <3>1. chan[c] # << >> /\ Head(chan[c]).type = "RESYNC"
      BY <1>3 DEF OnResync, Receives
    <3> QED
      BY <1>a, <3>1, HeadFollows DEF FollowsMidImage
  <2>1. \A d \in Seats \ {c} : Same(d)
    BY <1>b, <1>3 DEF OnResync, Receives, Same
  <2>2. TornSafe(c)'
    BY <1>a, <1>b, <1>3 DEF OnResync, Receives, TornSafe, GateOpen
  <2>3. \A d \in Seats : ImageUnbroken(d)'
    <3>1. /\ chan[c] # << >> /\ chan' = [chan EXCEPT ![c] = Tail(@)]
          /\ room' = room
      BY <1>3 DEF OnResync, Receives
    <3>2. hold'[c] /\ ~dropped'[c] => Head(chan[c]).type \in MidImage
      BY <1>b, <2>0, <1>3 DEF OnResync, Receives
    <3> QED
      BY <1>a, <2>1, <3>1, <3>2, StreamTaken DEF Same
  <2> QED
    BY <1>a, <2>1, <2>2, <2>3, SafeSame
<1>4. ASSUME NEW c \in Seats, OnBegin(c)
      PROVE  \A d \in Seats : ImageUnbroken(d)' /\ TornSafe(d)'
  <2>1. \A d \in Seats \ {c} : Same(d)
    BY <1>b, <1>4 DEF OnBegin, Receives, RS_ENTER_HOLD, Same
  <2>2. TornSafe(c)'
    BY <1>a, <1>b, <1>4 DEF OnBegin, Receives, RS_ENTER_HOLD, TornSafe, GateOpen
  <2>3. \A d \in Seats : ImageUnbroken(d)'
    <3>1. /\ chan[c] # << >> /\ chan' = [chan EXCEPT ![c] = Tail(@)]
          /\ room' = room
      BY <1>4 DEF OnBegin, Receives, RS_ENTER_HOLD
    <3>2. hold'[c] /\ ~dropped'[c] => Head(chan[c]).type \in MidImage
      BY <1>4 DEF OnBegin, Receives, RS_ENTER_HOLD, MidImage
    <3> QED
      BY <1>a, <2>1, <3>1, <3>2, StreamTaken DEF Same
  <2> QED
    BY <1>a, <2>1, <2>2, <2>3, SafeSame
<1>5. ASSUME NEW c \in Seats, OnChunk(c)
      PROVE  \A d \in Seats : ImageUnbroken(d)' /\ TornSafe(d)'
  <2>1. \A d \in Seats \ {c} : Same(d)
    BY <1>b, <1>5 DEF OnChunk, ChunkCompletes, Receives, Same
  <2>2. TornSafe(c)'
    <3>1. /\ fresh[c] /\ fresh'[c] = FALSE
          /\ UNCHANGED <<pc, hold, dropped, wm, tick>>
          /\ pc[c] \in Pumping
      BY <1>b, <1>5 DEF OnChunk, ChunkCompletes, Receives
    <3>2. applied'[c] # {} => applied[c] # {} \/ hold[c]
      <4>1. CASE ~(hold[c] /\ ChunkInImage(Head(chan[c]).part))
        BY <1>5, <4>1 DEF OnChunk
      <4> QED
        BY <4>1
    <3>3. pc[c] = "head" => applied'[c] = {}
      <4> SUFFICES ASSUME pc[c] = "head" PROVE applied'[c] = {}
        OBVIOUS
      <4>1. ~hold[c] /\ applied[c] = {}
        BY <1>a, <3>1 DEF TornSafe
      <4> QED
        BY <1>5, <4>1 DEF OnChunk
    <3>4. pc[c] = "stall" => ~GateOpen(c)
      BY <1>a, <3>1 DEF TornSafe
    <3> QED
      BY <1>a, <3>1, <3>2, <3>3, <3>4 DEF TornSafe, GateOpen, Pumping
  <2>3. \A d \in Seats : ImageUnbroken(d)'
    <3>1. /\ chan[c] # << >> /\ chan' = [chan EXCEPT ![c] = Tail(@)]
          /\ room' = room
      BY <1>5 DEF OnChunk, ChunkCompletes, Receives
    <3>2. hold'[c] /\ ~dropped'[c] => Head(chan[c]).type \in MidImage
      BY <1>5 DEF OnChunk, ChunkCompletes, Receives, MidImage
    <3> QED
      BY <1>a, <2>1, <3>1, <3>2, StreamTaken DEF Same
  <2> QED
    BY <1>a, <2>1, <2>2, <2>3, SafeSame
<1>6. ASSUME NEW c \in Seats, OnEnd(c)
      PROVE  \A d \in Seats : ImageUnbroken(d)' /\ TornSafe(d)'
  <2>1. \A d \in Seats \ {c} : Same(d)
    BY <1>b, <1>6 DEF OnEnd, Receives, RS_REBASE, Same
  <2>2. TornSafe(c)'
    BY <1>a, <1>b, <1>6 DEF OnEnd, Receives, RS_REBASE, TornSafe, GateOpen
  <2>3. \A d \in Seats : ImageUnbroken(d)'
    <3>1. /\ chan[c] # << >> /\ chan' = [chan EXCEPT ![c] = Tail(@)]
          /\ room' = room
      BY <1>6 DEF OnEnd, Receives, RS_REBASE
    <3>2. hold'[c] /\ ~dropped'[c] => Head(chan[c]).type \in MidImage
      BY <1>b, <1>6 DEF OnEnd, Receives, RS_REBASE
    <3> QED
      BY <1>a, <2>1, <3>1, <3>2, StreamTaken DEF Same
  <2> QED
    BY <1>a, <2>1, <2>2, <2>3, SafeSame
<1>7. ASSUME NEW c \in Seats, OnPeerLeft(c)
      PROVE  \A d \in Seats : ImageUnbroken(d)' /\ TornSafe(d)'
  <2>1. \A d \in Seats \ {c} : Same(d)
    BY <1>b, <1>7 DEF OnPeerLeft, Receives, NET_DROP, Same
  <2>2. TornSafe(c)'
    BY <1>a, <1>b, <1>7 DEF OnPeerLeft, Receives, NET_DROP, TornSafe, GateOpen
  <2>3. \A d \in Seats : ImageUnbroken(d)'
    <3>1. /\ chan[c] # << >> /\ chan' = [chan EXCEPT ![c] = Tail(@)]
          /\ room' = room
      BY <1>7 DEF OnPeerLeft, Receives, NET_DROP
    <3>2. hold'[c] /\ ~dropped'[c] => Head(chan[c]).type \in MidImage
      BY <1>b, <1>7 DEF OnPeerLeft, Receives, NET_DROP
    <3> QED
      BY <1>a, <2>1, <3>1, <3>2, StreamTaken DEF Same
  <2> QED
    BY <1>a, <2>1, <2>2, <2>3, SafeSame
<1>8. ASSUME NEW c \in Seats, SesPump(c)
      PROVE  \A d \in Seats : ImageUnbroken(d)' /\ TornSafe(d)'
  <2>1. \A d \in Seats \ {c} : Same(d)
    BY <1>b, <1>8 DEF SesPump, Same
  <2>2. TornSafe(c)'
    BY <1>a, <1>b, <1>8 DEF SesPump, TornSafe, GateOpen
  <2>3. \A d \in Seats : ImageUnbroken(d)'
    <3>1. /\ chan' = chan /\ room' = room
          /\ \A d \in Seats :
               hold'[d] /\ ~dropped'[d] => hold[d] /\ ~dropped[d]
      BY <1>b, <1>8 DEF SesPump
    <3> QED
      BY <1>a, <3>1, StreamKept
  <2> QED
    BY <1>a, <2>1, <2>2, <2>3, SafeSame
<1>9. ASSUME NEW c \in Seats, SesDone(c)
      PROVE  \A d \in Seats : ImageUnbroken(d)' /\ TornSafe(d)'
  <2>1. \A d \in Seats \ {c} : Same(d)
    BY <1>b, <1>9 DEF SesDone, Same
  <2>2. TornSafe(c)'
    BY <1>a, <1>b, <1>9 DEF SesDone, TornSafe, GateOpen
  <2>3. \A d \in Seats : ImageUnbroken(d)'
    <3>1. /\ chan' = chan /\ room' = room
          /\ \A d \in Seats :
               hold'[d] /\ ~dropped'[d] => hold[d] /\ ~dropped[d]
      BY <1>b, <1>9 DEF SesDone
    <3> QED
      BY <1>a, <3>1, StreamKept
  <2> QED
    BY <1>a, <2>1, <2>2, <2>3, SafeSame
<1>10. ASSUME NEW c \in Seats, PassBegin(c)
      PROVE  \A d \in Seats : ImageUnbroken(d)' /\ TornSafe(d)'
  <2>1. \A d \in Seats \ {c} : Same(d)
    BY <1>b, <1>10 DEF PassBegin, PassTarget, Same
  <2>2. TornSafe(c)'
    BY <1>a, <1>b, <1>10 DEF PassBegin, PassTarget, TornSafe, GateOpen
  <2>3. \A d \in Seats : ImageUnbroken(d)'
    <3>1. /\ chan' = chan /\ room' = room
          /\ \A d \in Seats :
               hold'[d] /\ ~dropped'[d] => hold[d] /\ ~dropped[d]
      BY <1>b, <1>10 DEF PassBegin, PassTarget
    <3> QED
      BY <1>a, <3>1, StreamKept
  <2> QED
    BY <1>a, <2>1, <2>2, <2>3, SafeSame
<1>11. ASSUME NEW c \in Seats, HoldRound(c)
      PROVE  \A d \in Seats : ImageUnbroken(d)' /\ TornSafe(d)'
  <2>1. \A d \in Seats \ {c} : Same(d)
    BY <1>b, <1>11 DEF HoldRound, NET_DROP, Same
  <2>2. TornSafe(c)'
    BY <1>a, <1>b, <1>11 DEF HoldRound, NET_DROP, TornSafe, GateOpen
  <2>3. \A d \in Seats : ImageUnbroken(d)'
    <3>1. /\ chan' = chan /\ room' = room
          /\ \A d \in Seats :
               hold'[d] /\ ~dropped'[d] => hold[d] /\ ~dropped[d]
      BY <1>b, <1>11 DEF HoldRound, NET_DROP
    <3> QED
      BY <1>a, <3>1, StreamKept
  <2> QED
    BY <1>a, <2>1, <2>2, <2>3, SafeSame
<1>12. ASSUME NEW c \in Seats, Capture(c)
      PROVE  \A d \in Seats : ImageUnbroken(d)' /\ TornSafe(d)'
  <2>1. \A d \in Seats \ {c} : Same(d)
    BY <1>b, <1>12 DEF Capture, Same
  <2>2. TornSafe(c)'
    BY <1>a, <1>b, <1>12 DEF Capture, TornSafe, GateOpen
  <2>3. \A d \in Seats : ImageUnbroken(d)'
    <3>1. /\ room' = room
          /\ \A d \in Seats :
               hold'[d] /\ ~dropped'[d] => hold[d] /\ ~dropped[d]
      BY <1>b, <1>12 DEF Capture
    <3>2. PICK i \in Inputs :
            chan' = Relayed(c, <<InputFrame(tick[c] + Delay, i)>>)
      BY <1>12 DEF Capture
    <3>3. InputFrame(tick[c] + Delay, i) \in Frame
      BY <1>b, ConstantAssumption, FrameType
    <3>4. InputFrame(tick[c] + Delay, i).type \notin MidImage
      BY DEF InputFrame, MidImage
    <3>5. <<InputFrame(tick[c] + Delay, i)>> \in Seq(Frame)
      BY <3>3
    <3>6. StreamOK(<<InputFrame(tick[c] + Delay, i)>>, TRUE, FALSE)
      BY <3>3, <3>4, SingleOK
    <3> QED
      BY <1>a, <3>1, <3>2, <3>5, <3>6, StreamSent
  <2> QED
    BY <1>a, <2>1, <2>2, <2>3, SafeSame
<1>13. ASSUME NEW c \in Seats, Stall(c)
      PROVE  \A d \in Seats : ImageUnbroken(d)' /\ TornSafe(d)'
  <2>1. \A d \in Seats \ {c} : Same(d)
    BY <1>b, <1>13 DEF Stall, Same
  <2>2. TornSafe(c)'
    BY <1>a, <1>b, <1>13 DEF Stall, TornSafe, GateOpen
  <2>3. \A d \in Seats : ImageUnbroken(d)'
    <3>1. /\ chan' = chan /\ room' = room
          /\ \A d \in Seats :
               hold'[d] /\ ~dropped'[d] => hold[d] /\ ~dropped[d]
      BY <1>b, <1>13 DEF Stall
    <3> QED
      BY <1>a, <3>1, StreamKept
  <2> QED
    BY <1>a, <2>1, <2>2, <2>3, SafeSame
<1>14. ASSUME NEW c \in Seats, StallRound(c)
      PROVE  \A d \in Seats : ImageUnbroken(d)' /\ TornSafe(d)'
  <2>1. \A d \in Seats \ {c} : Same(d)
    BY <1>b, <1>14 DEF StallRound, NET_DROP, Same
  <2>2. TornSafe(c)'
    BY <1>a, <1>b, <1>14 DEF StallRound, NET_DROP, TornSafe, GateOpen
  <2>3. \A d \in Seats : ImageUnbroken(d)'
    <3>1. /\ chan' = chan /\ room' = room
          /\ \A d \in Seats :
               hold'[d] /\ ~dropped'[d] => hold[d] /\ ~dropped[d]
      BY <1>b, <1>14 DEF StallRound, NET_DROP
    <3> QED
      BY <1>a, <3>1, StreamKept
  <2> QED
    BY <1>a, <2>1, <2>2, <2>3, SafeSame
<1>15. ASSUME NEW c \in Seats, RunTick(c)
      PROVE  \A d \in Seats : ImageUnbroken(d)' /\ TornSafe(d)'
  <2>1. \A d \in Seats \ {c} : Same(d)
    BY <1>b, <1>15 DEF RunTick, GameTick, Same
  <2>2. TornSafe(c)'
    BY <1>a, <1>b, <1>15 DEF RunTick, GameTick, TornSafe, GateOpen
  <2>3. \A d \in Seats : ImageUnbroken(d)'
    <3>1. /\ room' = room
          /\ \A d \in Seats :
               hold'[d] /\ ~dropped'[d] => hold[d] /\ ~dropped[d]
      BY <1>b, <1>15 DEF RunTick, GameTick
    <3>2. /\ CrcReport(c) \in Seq(Frame) /\ StreamOK(CrcReport(c), TRUE, FALSE)
          /\ chan' = Relayed(c, CrcReport(c))
      BY <1>15, TickType, ReportOK DEF RunTick
    <3> QED
      BY <1>a, <3>1, <3>2, StreamSent
  <2> QED
    BY <1>a, <2>1, <2>2, <2>3, SafeSame
<1>16. ASSUME NEW c \in Seats, RunPush(c)
      PROVE  \A d \in Seats : ImageUnbroken(d)' /\ TornSafe(d)'
  <2>1. \A d \in Seats \ {c} : Same(d)
    BY <1>b, <1>16 DEF RunPush, GameTick, RS_REBASE, Same
  <2>2. TornSafe(c)'
    BY <1>a, <1>b, <1>16 DEF RunPush, GameTick, RS_REBASE, TornSafe, GateOpen
  <2>3. \A d \in Seats : ImageUnbroken(d)'
    <3>1. /\ room' = room
          /\ \A d \in Seats :
               hold'[d] /\ ~dropped'[d] => hold[d] /\ ~dropped[d]
      BY <1>b, <1>16 DEF RunPush, GameTick, RS_REBASE
    <3> DEFINE im == Image(c, ResumeTick(c))
    <3>2. ResumeTick(c) \in Nat
      BY <1>b, ConstantAssumption DEF ResumeTick
    <3>3. /\ CrcReport(c) \in Seq(Frame) /\ StreamOK(CrcReport(c), TRUE, FALSE)
          /\ im \in Seq(Frame) /\ StreamOK(im, TRUE, FALSE)
      BY <3>2, TickType, ReportOK, ImageOK
    <3>4. chan' = Relayed(c, CrcReport(c) \o im)
      BY <1>16 DEF RunPush
    <3> HIDE DEF im
    <3>5. CrcReport(c) \o im \in Seq(Frame)
      BY <3>3
    <3>6. StreamOK(CrcReport(c) \o im, TRUE, FALSE)
      BY <3>3, SendOK
    <3> QED
      BY <1>a, <3>1, <3>4, <3>5, <3>6, StreamSent
  <2> QED
    BY <1>a, <2>1, <2>2, <2>3, SafeSame
<1>17. ASSUME NEW c \in Seats, NEW k \in Parts, Drift(c, k)
      PROVE  \A d \in Seats : ImageUnbroken(d)' /\ TornSafe(d)'
  <2>1. \A d \in Seats \ {c} : Same(d)
    BY <1>b, <1>17 DEF Drift, Same
  <2>2. TornSafe(c)'
    BY <1>a, <1>b, <1>17 DEF Drift, TornSafe, GateOpen
  <2>3. \A d \in Seats : ImageUnbroken(d)'
    <3>1. /\ chan' = chan /\ room' = room
          /\ \A d \in Seats :
               hold'[d] /\ ~dropped'[d] => hold[d] /\ ~dropped[d]
      BY <1>b, <1>17 DEF Drift
    <3> QED
      BY <1>a, <3>1, StreamKept
  <2> QED
    BY <1>a, <2>1, <2>2, <2>3, SafeSame
<1>18. ASSUME NEW c \in Seats, NEW i \in 1 .. Len(chan[c]), LoseWrite(c, i)
      PROVE  FALSE
  BY <1>18 DEF LoseWrite
<1>19. ASSUME NEW c \in Seats, Leave(c)
      PROVE  \A d \in Seats : ImageUnbroken(d)' /\ TornSafe(d)'
  <2>1. \A d \in Seats \ {c} : Same(d)
    BY <1>b, <1>19 DEF Leave, Same
  <2>2. TornSafe(c)'
    BY <1>a, <1>b, <1>19 DEF Leave, TornSafe, GateOpen
  <2>3. \A d \in Seats : ImageUnbroken(d)'
    <3>1. PICK n \in 0 .. Len(chan[Other(c)]), m \in 0 .. Len(chan[c]),
               reset \in BOOLEAN :
            chan' = [chan EXCEPT
              ![Other(c)] = Append(SubSeq(@, 1, n), PeerLeftFrame),
              ![c] = IF reset THEN << >> ELSE SubSeq(@, 1, m)]
      BY <1>19 DEF Leave
    <3>2. /\ Other(c) \in Seats /\ Other(c) # c
          /\ \A d \in Seats : d = c \/ d = Other(c)
      BY DEF Other, Seats
    <3>3. room' = FALSE /\ UNCHANGED <<hold, dropped>>
      BY <1>19 DEF Leave
    <3>4. \A d \in Seats :
            /\ StreamOK(chan[d], room, hold[d] /\ ~dropped[d])
            /\ (hold[d] /\ ~dropped[d]) \in BOOLEAN /\ room \in BOOLEAN
            /\ chan[d] \in Seq(Frame)
      BY <1>a, <1>b DEF ImageUnbroken, TypeOK, ControlType
    <3>5. ImageUnbroken(Other(c))'
      <4>1. chan'[Other(c)] = Append(SubSeq(chan[Other(c)], 1, n), PeerLeftFrame)
        BY <1>b, <3>1, <3>2
      <4>2. StreamOK(chan'[Other(c)], FALSE, hold[Other(c)] /\ ~dropped[Other(c)])
        BY <3>2, <3>4, <4>1, CutOK
      <4> QED
        BY <3>3, <4>2 DEF ImageUnbroken
    <3>6. ImageUnbroken(c)'
      <4>1. chan'[c] = << >> \/ chan'[c] = SubSeq(chan[c], 1, m)
        BY <1>b, <3>1, <3>2
      <4>2. StreamOK(chan'[c], FALSE, hold[c] /\ ~dropped[c])
        BY <3>4, <4>1, CutOK
      <4> QED
        BY <3>3, <4>2 DEF ImageUnbroken
    <3> QED
      BY <3>2, <3>5, <3>6
  <2> QED
    BY <1>a, <2>1, <2>2, <2>3, SafeSame
<1>20. CASE UNCHANGED vars
  <2>1. \A d \in Seats : Same(d) /\ chan'[d] = chan[d] /\ room' = room
    BY <1>20 DEF vars, Same
  <2> QED
    BY <1>a, <2>1, SafeSame, StreamKept DEF Same
<1> QED
  BY <1>1, <1>2, <1>3, <1>4, <1>5, <1>6, <1>7, <1>8, <1>9, <1>10, <1>11,
     <1>12, <1>13, <1>14, <1>15, <1>16, <1>17, <1>18, <1>19, <1>20
     DEF Next, Console, OnFrame, Environment, Finished

\* Initially nothing is under way.
LEMMA TornInit == Init => TornInv
  BY DEF Init, TornInv, ImageUnbroken, StreamOK, Unbroken, TornSafe

\* The inductive invariant holds throughout every match.
THEOREM TornInvariant == Spec => []TornInv
<1>1. Init => TornInv
  BY TornInit
<1>2. TypeOK /\ TornInv /\ [Next]_vars => TornInv'
  BY TornStep
<1> QED
  BY <1>1, <1>2, TypeCorrect, PTL DEF Spec

\* A tick whose inputs enter the record of the match is one of RunTick and
\* RunPush, and both run with the gate open and the match still on.
LEMMA PlayedStep ==
  ASSUME TypeOK, [Next]_vars, NEW c \in Seats, played'[c] # played[c]
  PROVE  pc[c] = "gate" /\ GateOpen(c) /\ ~dropped[c]
<1> USE DEF engine, recovery, history
<1>1. played \in [Seats -> SUBSET [tick : Nat, in : [Seats -> Inputs]]]
  BY DEF TypeOK, SimType
<1>2. \A b \in Seats : \A i \in 1 .. Len(chan[b]) : LoseWrite(b, i) => played' = played
  BY DEF LoseWrite
<1>3. \A b \in Seats, k \in Parts : Drift(b, k) => played' = played
  BY DEF Drift
<1>4. \A b \in Seats : Leave(b) => played' = played
  BY DEF Leave
<1>5. Environment => played' = played
  BY <1>2, <1>3, <1>4 DEF Environment
<1>6. Finished \/ UNCHANGED vars => played' = played
  BY DEF Finished, vars
<1>7. PICK b \in Seats : GameTick(b)
  BY <1>5, <1>6, PassQuiet DEF Next
<1> QED
  BY <1>1, <1>7 DEF GameTick

\* No console ever simulates a tick on a half-applied image.
THEOREM TornTickFree == Spec => NoTornTick
<1>1. TypeOK /\ TornInv /\ [Next]_vars =>
        [\A c \in Seats : lost = {} /\ played'[c] # played[c] => applied[c] = {}]_vars
  <2> SUFFICES ASSUME TypeOK, TornInv, [Next]_vars, NEW c \in Seats,
                      lost = {}, played'[c] # played[c]
               PROVE  applied[c] = {}
    OBVIOUS
  <2>1. pc[c] = "gate" /\ GateOpen(c) /\ ~dropped[c]
    BY PlayedStep
  <2>2. TornSafe(c)
    BY DEF TornInv
  <2> QED
    BY <2>1, <2>2 DEF TornSafe, GateOpen
<1> QED
  BY <1>1, TypeCorrect, TornInvariant, PTL DEF Spec, NoTornTick
=============================================================================
