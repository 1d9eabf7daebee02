--------------------------- MODULE NetplayProofs ---------------------------
(* Theorems about Netplay, for every value of its constants.               *)
EXTENDS Netplay, SequenceTheorems, TLAPS

-----------------------------------------------------------------------------
(* Types of what the engine computes.                                      *)

\* The frames the consoles and the relay put on the wire are frames.
LEMMA FrameType ==
  /\ \A t \in Nat, i \in Inputs : InputFrame(t, i) \in Frame
  /\ \A t \in Nat, x \in Crc : CrcFrame(t, x) \in Frame
  /\ \A t \in Nat : ResyncFrame(t) \in Frame /\ BeginFrame(t) \in Frame
  /\ \A k \in Parts, h \in History : ChunkFrame(k, h) \in Frame
  /\ EndFrame \in Frame /\ PeerLeftFrame \in Frame
  BY DEF InputFrame, CrcFrame, ResyncFrame, BeginFrame, ChunkFrame, EndFrame,
         PeerLeftFrame, Frame

\* What a frame of each type carries.
LEMMA FrameField ==
  ASSUME NEW f \in Frame
  PROVE  /\ f.type \in {"INPUT", "CRC", "RESYNC", "BEGIN", "CHUNK", "END",
                        "PEER_LEFT"}
         /\ f.type = "INPUT" => f.tick \in Nat /\ f.in \in Inputs
         /\ f.type = "CRC" => f.tick \in Nat /\ f.crc \in Crc
         /\ f.type \in {"RESYNC", "BEGIN"} => f.tick \in Nat
         /\ f.type = "CHUNK" => f.part \in Parts /\ f.data \in History
  BY DEF Frame

\* Taking the first frame off a queue.
LEMMA HeadType ==
  ASSUME ChanType, NEW c \in Seats, chan[c] # << >>
  PROVE  /\ Head(chan[c]) \in Frame
         /\ [chan EXCEPT ![c] = Tail(@)] \in [Seats -> Seq(Frame)]
  BY DEF ChanType

\* Sending appends to the peer's queue, or does nothing.
LEMMA RelayedType ==
  ASSUME TypeOK, NEW c \in Seats, NEW fs \in Seq(Frame)
  PROVE  Relayed(c, fs) \in [Seats -> Seq(Frame)]
  BY DEF TypeOK, ChanType, Relayed, Other, Seats

\* An idle ring is a ring, and a cleared CRC ring holds records.
LEMMA ClearedType ==
  /\ LS_RING_INIT \in [Seats -> [0 .. LowMod - 1 -> Inputs]]
  /\ RS_CLR_CRC \in [CrcSlots -> [tick : Nat, crc : Crc]]
<1>1. LS_RING_INIT \in [Seats -> [0 .. LowMod - 1 -> Inputs]]
  BY InputAssumption DEF LS_RING_INIT
<1>2. [drift |-> 0] \in Event
  BY DEF Event
<1>3. <<[drift |-> 0]>> \in History
  BY <1>2 DEF History
<1>4. [k \in CrcParts |-> <<[drift |-> 0]>>] \in Crc
  BY <1>3 DEF Crc
<1>5. RS_CLR_CRC \in [CrcSlots -> [tick : Nat, crc : Crc]]
  BY <1>4, ConstantAssumption DEF RS_CLR_CRC
<1> QED
  BY <1>1, <1>5

\* Storing one input in one slot of one seat's ring.
LEMMA RingStoreType ==
  ASSUME EngineType, NEW c \in Seats, NEW s \in Seats, NEW x, NEW i \in Inputs
  PROVE  [ring EXCEPT ![c][s][x] = i]
           \in [Seats -> [Seats -> [0 .. LowMod - 1 -> Inputs]]]
<1>1. [ring[c][s] EXCEPT ![x] = i] \in [0 .. LowMod - 1 -> Inputs]
  BY DEF EngineType
<1>2. [ring[c] EXCEPT ![s] = [ring[c][s] EXCEPT ![x] = i]]
        \in [Seats -> [0 .. LowMod - 1 -> Inputs]]
  BY <1>1 DEF EngineType
<1> QED
  BY <1>2 DEF EngineType

\* A watermark is a tick.
LEMMA WatermarkType ==
  ASSUME NEW t \in Nat
  PROVE  RebaseWatermark(t) \in Nat /\ PinnedWatermark(t) \in Nat
  BY ConstantAssumption DEF RebaseWatermark, PinnedWatermark

\* Re-baselining leaves a well-typed engine.
LEMMA RebaseType ==
  ASSUME EngineType, NEW c \in Seats, NEW r \in Nat, RS_REBASE(c, r)
  PROVE  EngineType'
<1>1. tick' \in [Seats -> Nat] /\ rebases' \in [Seats -> Nat]
  BY DEF RS_REBASE, EngineType
<1>2. ring' \in [Seats -> [Seats -> [0 .. LowMod - 1 -> Inputs]]]
  BY ClearedType DEF RS_REBASE, EngineType
<1>3. RebaseWatermark(r) \in Nat
  BY WatermarkType
<1>4. wm' \in [Seats -> Nat]
  BY <1>3 DEF RS_REBASE, EngineType
<1> QED
  BY <1>1, <1>2, <1>4 DEF EngineType

\* What a tick reads from the rings, and what it makes of the game state.
LEMMA TickType ==
  ASSUME TypeOK, NEW c \in Seats
  PROVE  /\ Replay(c) \in [Seats -> Inputs]
         /\ Simulated(c) \in [Parts -> History]
         /\ LS_CKSUM(Simulated(c)) \in Crc
         /\ CrcReport(c) \in Seq(Frame)
         /\ Recorded(c) \in [CrcSlots -> [tick : Nat, crc : Crc]]
         /\ \A r \in Nat : Image(c, r) \in Seq(Frame)
<1>1. RingSlot(tick[c]) \in 0 .. LowMod - 1
  BY ConstantAssumption DEF TypeOK, EngineType, RingSlot
<1>2. Replay(c) \in [Seats -> Inputs]
  <2>1. \A s \in Seats : ring[c][s] \in [0 .. LowMod - 1 -> Inputs]
    BY DEF TypeOK, EngineType
  <2>2. \A s \in Seats : ring[c][s][RingSlot(tick[c])] \in Inputs
    BY <1>1, <2>1
  <2> QED
    BY <2>2 DEF Replay
<1>3. [tick |-> tick[c], in |-> Replay(c)] \in Event
  BY <1>2 DEF Event, TypeOK, EngineType
<1>4. Simulated(c) \in [Parts -> History]
  BY <1>3 DEF Simulated, History, TypeOK, SimType
<1>5. LS_CKSUM(Simulated(c)) \in Crc
  BY <1>4, ConstantAssumption DEF LS_CKSUM, Crc
<1>6. CrcReport(c) \in Seq(Frame)
  BY <1>5, FrameType DEF CrcReport, TypeOK, EngineType
<1>7. Recorded(c) \in [CrcSlots -> [tick : Nat, crc : Crc]]
  BY <1>5 DEF Recorded, TypeOK, EngineType, RecoveryType
<1>8. ASSUME NEW r \in Nat PROVE Image(c, r) \in Seq(Frame)
  <2>1. \A k \in Parts : ChunkFrame(k, Simulated(c)[k]) \in Frame
    BY <1>4, FrameType
  <2>2. [k \in Parts |-> ChunkFrame(k, Simulated(c)[k])] \in Seq(Frame)
    BY <2>1, ConstantAssumption DEF Parts
  <2> QED
    BY <2>2, FrameType DEF Image
<1> QED
  BY <1>2, <1>4, <1>5, <1>6, <1>7, <1>8

-----------------------------------------------------------------------------
(* Type correctness.                                                       *)

\* A match starts well typed.
LEMMA TypeInit == Init => TypeOK
<1> SUFFICES ASSUME Init PROVE TypeOK
  OBVIOUS
<1>1. ControlType /\ HistoryType
  BY DEF Init, ControlType, HistoryType
<1>2. EngineType
  BY ClearedType, WatermarkType DEF Init, EngineType
<1>3. RecoveryType
  BY ClearedType DEF Init, RecoveryType
<1>4. SimType /\ ChanType
  BY DEF Init, SimType, ChanType, History
<1> QED
  BY <1>1, <1>2, <1>3, <1>4 DEF TypeOK

\* Every step keeps the types; one step of the proof per action.
LEMMA TypeStep == TypeOK /\ [Next]_vars => TypeOK'
<1> SUFFICES ASSUME TypeOK, [Next]_vars PROVE TypeOK'
  OBVIOUS
<1> USE DEF TypeOK, engine, recovery, history
<1>1. ASSUME NEW c \in Seats, OnInput(c) PROVE TypeOK'
  <2>0. Head(chan[c]) \in Frame /\ Head(chan[c]).type = "INPUT"
    BY <1>1, HeadType DEF OnInput, Receives, ChanType
  <2>1. ControlType'
    BY <1>1
    DEF OnInput, Receives, ControlType
  <2>2. EngineType'
    <3>1. CASE Accepts(c, Head(chan[c]).tick)
      <4>0. Head(chan[c]).in \in Inputs /\ Other(c) \in Seats
        BY <2>0, FrameField DEF Other, Seats
      <4>1. ring' \in [Seats -> [Seats -> [0 .. LowMod - 1 -> Inputs]]]
        <5>1. ring' = [ring EXCEPT ![c][Other(c)][RingSlot(Head(chan[c]).tick)]
                                     = Head(chan[c]).in]
          BY <1>1, <3>1 DEF OnInput
        <5> QED
          BY <4>0, <5>1, RingStoreType
      <4>2. wm' \in [Seats -> Nat]
        BY <1>1, <2>0, <3>1, FrameField DEF OnInput, EngineType
      <4> QED
        BY <1>1, <4>1, <4>2 DEF OnInput, EngineType
    <3>2. CASE ~Accepts(c, Head(chan[c]).tick)
      BY <1>1, <3>2 DEF OnInput, EngineType
    <3> QED
      BY <3>1, <3>2
  <2>3. RecoveryType'
    BY <1>1
    DEF OnInput, Receives, RecoveryType
  <2>4. SimType'
    BY <1>1
    DEF OnInput, Receives, SimType
  <2>5. ChanType'
    BY <1>1, HeadType
    DEF OnInput, Receives, ChanType
  <2>6. HistoryType'
    BY <1>1
    DEF OnInput, Receives, HistoryType
  <2> QED
    BY <2>1, <2>2, <2>3, <2>4, <2>5, <2>6
<1>2. ASSUME NEW c \in Seats, OnCrc(c) PROVE TypeOK'
  <2>1. ControlType'
    BY <1>2
    DEF OnCrc, ControlType
  <2>2. EngineType'
    BY <1>2
    DEF OnCrc, EngineType
  <2>3. RecoveryType'
    <3>1. pend' \in [Seats -> BOOLEAN] /\ ptmo' \in [Seats -> Nat]
      <4>1. CASE CrcDisagrees(c, Head(chan[c]))
        <5>1. /\ pend' = [pend EXCEPT ![c] = TRUE]
              /\ ptmo' = [ptmo EXCEPT ![c] = 0]
          BY <1>2, <4>1 DEF OnCrc
        <5> QED
          BY <5>1 DEF RecoveryType
      <4>2. CASE ~CrcDisagrees(c, Head(chan[c]))
        <5>1. UNCHANGED <<pend, ptmo>>
          BY <1>2, <4>2 DEF OnCrc
        <5> QED
          BY <5>1 DEF RecoveryType
      <4> QED
        BY <4>1, <4>2
    <3> QED
      BY <1>2, <3>1 DEF OnCrc, RecoveryType
  <2>4. SimType'
    BY <1>2
    DEF OnCrc, SimType
  <2>5. ChanType'
    <3> DEFINE rest == [chan EXCEPT ![c] = Tail(@)]
               asked == [rest EXCEPT ![Host] =
                           Append(@, ResyncFrame(Head(chan[c]).tick))]
    <3>1. /\ chan[c] # << >>
          /\ Head(chan[c]).type = "CRC"
          /\ chan' = rest \/ chan' = asked
      <4>1. CASE CrcDisagrees(c, Head(chan[c]))
        BY <1>2, <4>1 DEF OnCrc
      <4>2. CASE ~CrcDisagrees(c, Head(chan[c]))
        BY <1>2, <4>2 DEF OnCrc
      <4> QED
        BY <4>1, <4>2
    <3>2. Head(chan[c]) \in Frame /\ rest \in [Seats -> Seq(Frame)]
      BY <3>1, HeadType
    <3>3. ResyncFrame(Head(chan[c]).tick) \in Frame
      BY <3>1, <3>2, FrameField, FrameType
    <3>4. asked \in [Seats -> Seq(Frame)]
      <4>1. Host \in Seats
        BY DEF Host, Seats
      <4>2. rest[Host] \in Seq(Frame)
        BY <3>2, <4>1
      <4>3. Append(rest[Host], ResyncFrame(Head(chan[c]).tick)) \in Seq(Frame)
        BY <3>3, <4>2
      <4> HIDE DEF rest
      <4> QED
        BY <3>2, <4>1, <4>3
    <3> QED
      BY <3>1, <3>2, <3>4 DEF ChanType
  <2>6. HistoryType'
    BY <1>2
    DEF OnCrc, HistoryType
  <2> QED
    BY <2>1, <2>2, <2>3, <2>4, <2>5, <2>6
<1>3. ASSUME NEW c \in Seats, OnResync(c) PROVE TypeOK'
  <2>1. ControlType'
    BY <1>3
    DEF OnResync, Receives, ControlType
  <2>2. EngineType'
    BY <1>3
    DEF OnResync, Receives, EngineType
  <2>3. RecoveryType'
    <3>1. UNCHANGED <<hold, holdc, resume, rec, applied>>
      BY <1>3 DEF OnResync
    <3>2. pend' \in [Seats -> BOOLEAN] /\ ptmo' \in [Seats -> Nat]
      <4>1. CASE c = Host /\ ~hold[c] /\ ~pend[c]
        <5>1. /\ pend' = [pend EXCEPT ![c] = TRUE]
              /\ ptmo' = [ptmo EXCEPT ![c] = 0]
          BY <1>3, <4>1 DEF OnResync
        <5> QED
          BY <5>1 DEF RecoveryType
      <4>2. CASE ~(c = Host /\ ~hold[c] /\ ~pend[c])
        BY <1>3, <4>2 DEF OnResync, RecoveryType
      <4> QED
        BY <4>1, <4>2
    <3> QED
      BY <3>1, <3>2 DEF RecoveryType
  <2>4. SimType'
    BY <1>3
    DEF OnResync, Receives, SimType
  <2>5. ChanType'
    BY <1>3, HeadType
    DEF OnResync, Receives, ChanType
  <2>6. HistoryType'
    BY <1>3
    DEF OnResync, Receives, HistoryType
  <2> QED
    BY <2>1, <2>2, <2>3, <2>4, <2>5, <2>6
<1>4. ASSUME NEW c \in Seats, OnBegin(c) PROVE TypeOK'
  <2>0. Head(chan[c]) \in Frame /\ Head(chan[c]).type = "BEGIN"
    BY <1>4, HeadType DEF OnBegin, Receives, ChanType
  <2>1. ControlType'
    BY <1>4
    DEF OnBegin, Receives, ControlType
  <2>2. EngineType'
    BY <1>4
    DEF OnBegin, Receives, EngineType
  <2>3. RecoveryType'
    BY <1>4, <2>0, FrameField, ClearedType
    DEF OnBegin, Receives, RS_ENTER_HOLD, RecoveryType
  <2>4. SimType'
    BY <1>4
    DEF OnBegin, Receives, SimType
  <2>5. ChanType'
    BY <1>4, HeadType
    DEF OnBegin, Receives, ChanType
  <2>6. HistoryType'
    BY <1>4
    DEF OnBegin, Receives, HistoryType
  <2> QED
    BY <2>1, <2>2, <2>3, <2>4, <2>5, <2>6
<1>5. ASSUME NEW c \in Seats, OnChunk(c) PROVE TypeOK'
  <2>0. Head(chan[c]) \in Frame /\ Head(chan[c]).type = "CHUNK"
    BY <1>5, HeadType DEF OnChunk, Receives, ChanType
  <2>1. ControlType'
    BY <1>5
    DEF OnChunk, Receives, ControlType
  <2>2. EngineType'
    BY <1>5
    DEF OnChunk, Receives, EngineType
  <2>3. RecoveryType'
    <3>1. UNCHANGED <<hold, holdc, pend, ptmo, resume, rec>>
      BY <1>5 DEF OnChunk
    <3>2. \/ applied' = [applied EXCEPT ![c] = @ \cup {Head(chan[c]).part}]
          \/ applied' = applied
      BY <1>5 DEF OnChunk
    <3>3. Head(chan[c]).part \in Parts
      BY <2>0, FrameField
    <3>4. applied' \in [Seats -> SUBSET Parts]
      BY <3>2, <3>3 DEF RecoveryType
    <3> QED
      BY <3>1, <3>4 DEF RecoveryType
  <2>4. SimType'
    <3>1. \/ sim' = [sim EXCEPT ![c][Head(chan[c]).part] = Head(chan[c]).data]
          \/ sim' = sim
      BY <1>5 DEF OnChunk
    <3>2. Head(chan[c]).part \in Parts /\ Head(chan[c]).data \in History
      BY <2>0, FrameField
    <3>3. played' = played
      BY <1>5 DEF OnChunk, Receives
    <3> QED
      BY <3>1, <3>2, <3>3 DEF SimType
  <2>5. ChanType'
    BY <1>5, HeadType
    DEF OnChunk, Receives, ChanType
  <2>6. HistoryType'
    BY <1>5
    DEF OnChunk, Receives, HistoryType
  <2> QED
    BY <2>1, <2>2, <2>3, <2>4, <2>5, <2>6
<1>6. ASSUME NEW c \in Seats, OnEnd(c) PROVE TypeOK'
  <2>1. ControlType'
    BY <1>6
    DEF OnEnd, Receives, RS_REBASE, ControlType
  <2>2. EngineType'
    <3>1. CASE hold[c]
      <4>1. RS_REBASE(c, resume[c])
        BY <1>6, <3>1 DEF OnEnd
      <4>2. resume[c] \in Nat
        BY DEF RecoveryType
      <4> QED
        BY <4>1, <4>2, RebaseType
    <3>2. CASE ~hold[c]
      BY <1>6, <3>2 DEF OnEnd, EngineType
    <3> QED
      BY <3>1, <3>2
  <2>3. RecoveryType'
    <3>1. CASE hold[c]
      <4>1. RS_REBASE(c, resume[c]) /\ UNCHANGED resume
        BY <1>6, <3>1 DEF OnEnd
      <4> QED
        BY <4>1, ClearedType DEF RS_REBASE, RecoveryType
    <3>2. CASE ~hold[c]
      BY <1>6, <3>2 DEF OnEnd, RecoveryType
    <3> QED
      BY <3>1, <3>2
  <2>4. SimType'
    BY <1>6
    DEF OnEnd, Receives, RS_REBASE, SimType
  <2>5. ChanType'
    BY <1>6, HeadType
    DEF OnEnd, Receives, RS_REBASE, ChanType
  <2>6. HistoryType'
    BY <1>6
    DEF OnEnd, Receives, RS_REBASE, HistoryType
  <2> QED
    BY <2>1, <2>2, <2>3, <2>4, <2>5, <2>6
<1>7. ASSUME NEW c \in Seats, OnPeerLeft(c) PROVE TypeOK'
  <2>1. ControlType'
    BY <1>7
    DEF OnPeerLeft, Receives, NET_DROP, ControlType
  <2>2. EngineType'
    BY <1>7, ClearedType, WatermarkType
    DEF OnPeerLeft, Receives, NET_DROP, EngineType
  <2>3. RecoveryType'
    BY <1>7
    DEF OnPeerLeft, Receives, NET_DROP, RecoveryType
  <2>4. SimType'
    BY <1>7
    DEF OnPeerLeft, Receives, NET_DROP, SimType
  <2>5. ChanType'
    BY <1>7, HeadType
    DEF OnPeerLeft, Receives, NET_DROP, ChanType
  <2>6. HistoryType'
    BY <1>7
    DEF OnPeerLeft, Receives, NET_DROP, HistoryType
  <2> QED
    BY <2>1, <2>2, <2>3, <2>4, <2>5, <2>6
<1>8. ASSUME NEW c \in Seats, SesPump(c) PROVE TypeOK'
  <2>1. ControlType'
    BY <1>8
    DEF SesPump, ControlType
  <2>2. EngineType'
    BY <1>8
    DEF SesPump, EngineType
  <2>3. RecoveryType'
    BY <1>8
    DEF SesPump, RecoveryType
  <2>4. SimType'
    BY <1>8
    DEF SesPump, SimType
  <2>5. ChanType'
    BY <1>8
    DEF SesPump, ChanType
  <2>6. HistoryType'
    BY <1>8
    DEF SesPump, HistoryType
  <2> QED
    BY <2>1, <2>2, <2>3, <2>4, <2>5, <2>6
<1>9. ASSUME NEW c \in Seats, SesDone(c) PROVE TypeOK'
  <2>1. ControlType'
    BY <1>9
    DEF SesDone, ControlType
  <2>2. EngineType'
    BY <1>9
    DEF SesDone, EngineType
  <2>3. RecoveryType'
    BY <1>9
    DEF SesDone, RecoveryType
  <2>4. SimType'
    BY <1>9
    DEF SesDone, SimType
  <2>5. ChanType'
    BY <1>9
    DEF SesDone, ChanType
  <2>6. HistoryType'
    BY <1>9
    DEF SesDone, HistoryType
  <2> QED
    BY <2>1, <2>2, <2>3, <2>4, <2>5, <2>6
<1>10. ASSUME NEW c \in Seats, PassBegin(c) PROVE TypeOK'
  <2>1. ControlType'
    BY <1>10
    DEF PassBegin, PassTarget, ControlType
  <2>2. EngineType'
    BY <1>10
    DEF PassBegin, PassTarget, EngineType
  <2>3. RecoveryType'
    BY <1>10
    DEF PassBegin, PassTarget, RecoveryType
  <2>4. SimType'
    BY <1>10
    DEF PassBegin, PassTarget, SimType
  <2>5. ChanType'
    BY <1>10
    DEF PassBegin, PassTarget, ChanType
  <2>6. HistoryType'
    BY <1>10
    DEF PassBegin, PassTarget, HistoryType
  <2> QED
    BY <2>1, <2>2, <2>3, <2>4, <2>5, <2>6
<1>11. ASSUME NEW c \in Seats, HoldRound(c) PROVE TypeOK'
  <2>1. ControlType'
    BY <1>11
    DEF HoldRound, HoldTimer, NET_DROP, ControlType
  <2>2. EngineType'
    <3>1. NET_DROP(c) \/ UNCHANGED <<ring, wm>>
      BY <1>11 DEF HoldRound
    <3>2. UNCHANGED <<tick, rebases>>
      BY <1>11 DEF HoldRound
    <3>3. ring' \in [Seats -> [Seats -> [0 .. LowMod - 1 -> Inputs]]]
      BY <3>1, ClearedType DEF NET_DROP, EngineType
    <3>4. wm' \in [Seats -> Nat]
      <4>1. PinnedWatermark(tick[c]) \in Nat
        BY WatermarkType DEF EngineType
      <4> QED
        BY <3>1, <4>1 DEF NET_DROP, EngineType
    <3> QED
      BY <3>2, <3>3, <3>4 DEF EngineType
  <2>3. RecoveryType'
    <3>1. UNCHANGED <<pend, ptmo, resume, rec, applied>>
      BY <1>11 DEF HoldRound
    <3>2. holdc' \in [Seats -> Nat]
      BY <1>11 DEF HoldRound, HoldTimer, RecoveryType
    <3>3. hold' = [hold EXCEPT ![c] = FALSE] \/ hold' = hold
      BY <1>11 DEF HoldRound
    <3> QED
      BY <3>1, <3>2, <3>3 DEF RecoveryType
  <2>4. SimType'
    BY <1>11
    DEF HoldRound, HoldTimer, NET_DROP, SimType
  <2>5. ChanType'
    BY <1>11
    DEF HoldRound, HoldTimer, NET_DROP, ChanType
  <2>6. HistoryType'
    BY <1>11
    DEF HoldRound, HoldTimer, NET_DROP, HistoryType
  <2> QED
    BY <2>1, <2>2, <2>3, <2>4, <2>5, <2>6
<1>12. ASSUME NEW c \in Seats, Capture(c) PROVE TypeOK'
  <2>1. ControlType'
    BY <1>12
    DEF Capture, ControlType
  <2>2. EngineType'
    <3>1. PICK i \in Inputs :
            ring' = [ring EXCEPT ![c][c][RingSlot(tick[c] + Delay)] = i]
      BY <1>12 DEF Capture
    <3>2. ring' \in [Seats -> [Seats -> [0 .. LowMod - 1 -> Inputs]]]
      BY <3>1, RingStoreType
    <3>3. UNCHANGED <<tick, wm, rebases>>
      BY <1>12 DEF Capture
    <3> QED
      BY <3>2, <3>3 DEF EngineType
  <2>3. RecoveryType'
    BY <1>12
    DEF Capture, RecoveryType
  <2>4. SimType'
    BY <1>12
    DEF Capture, SimType
  <2>5. ChanType'
    <3>1. PICK i \in Inputs :
            chan' = Relayed(c, <<InputFrame(tick[c] + Delay, i)>>)
      BY <1>12 DEF Capture
    <3>2. InputFrame(tick[c] + Delay, i) \in Frame
      BY ConstantAssumption, FrameType DEF EngineType
    <3>3. <<InputFrame(tick[c] + Delay, i)>> \in Seq(Frame)
      BY <3>2
    <3> QED
      BY <3>1, <3>3, RelayedType DEF ChanType
  <2>6. HistoryType'
    BY <1>12
    DEF Capture, HistoryType
  <2> QED
    BY <2>1, <2>2, <2>3, <2>4, <2>5, <2>6
<1>13. ASSUME NEW c \in Seats, Stall(c) PROVE TypeOK'
  <2>1. ControlType'
    BY <1>13
    DEF Stall, ControlType
  <2>2. EngineType'
    BY <1>13
    DEF Stall, EngineType
  <2>3. RecoveryType'
    BY <1>13
    DEF Stall, RecoveryType
  <2>4. SimType'
    BY <1>13
    DEF Stall, SimType
  <2>5. ChanType'
    BY <1>13
    DEF Stall, ChanType
  <2>6. HistoryType'
    BY <1>13
    DEF Stall, HistoryType
  <2> QED
    BY <2>1, <2>2, <2>3, <2>4, <2>5, <2>6
<1>14. ASSUME NEW c \in Seats, StallRound(c) PROVE TypeOK'
  <2>1. ControlType'
    <3>1. /\ pc' = [pc EXCEPT ![c] = "gate"]
          /\ UNCHANGED <<fresh, froze, room>>
      BY <1>14 DEF StallRound
    <3>2. waitc' \in [Seats -> Nat]
      BY <1>14 DEF StallRound, WaitTimer, ControlType
    <3>3. NET_DROP(c) \/ UNCHANGED <<dropped, ring, wm>>
      BY <1>14 DEF StallRound
    <3>4. dropped' \in [Seats -> BOOLEAN]
      BY <3>3 DEF NET_DROP, ControlType
    <3> QED
      BY <3>1, <3>2, <3>4 DEF ControlType
  <2>2. EngineType'
    <3>1. NET_DROP(c) \/ UNCHANGED <<ring, wm>>
      BY <1>14 DEF StallRound
    <3>2. UNCHANGED <<tick, rebases>>
      BY <1>14 DEF StallRound
    <3>3. ring' \in [Seats -> [Seats -> [0 .. LowMod - 1 -> Inputs]]]
      BY <3>1, ClearedType DEF NET_DROP, EngineType
    <3>4. wm' \in [Seats -> Nat]
      <4>1. PinnedWatermark(tick[c]) \in Nat
        BY WatermarkType DEF EngineType
      <4> QED
        BY <3>1, <4>1 DEF NET_DROP, EngineType
    <3> QED
      BY <3>2, <3>3, <3>4 DEF EngineType
  <2>3. RecoveryType'
    BY <1>14
    DEF StallRound, WaitTimer, NET_DROP, RecoveryType
  <2>4. SimType'
    BY <1>14
    DEF StallRound, WaitTimer, NET_DROP, SimType
  <2>5. ChanType'
    BY <1>14
    DEF StallRound, WaitTimer, NET_DROP, ChanType
  <2>6. HistoryType'
    BY <1>14
    DEF StallRound, WaitTimer, NET_DROP, HistoryType
  <2> QED
    BY <2>1, <2>2, <2>3, <2>4, <2>5, <2>6
<1>15. ASSUME NEW c \in Seats, RunTick(c) PROVE TypeOK'
  <2>1. ControlType'
    BY <1>15
    DEF RunTick, GameTick, ControlType
  <2>2. EngineType'
    BY <1>15
    DEF RunTick, GameTick, EngineType
  <2>3. RecoveryType'
    <3>1. UNCHANGED <<hold, holdc, pend, resume, applied>>
      BY <1>15 DEF RunTick
    <3>2. rec' \in [Seats -> [CrcSlots -> [tick : Nat, crc : Crc]]]
      BY <1>15, TickType DEF RunTick, RecoveryType
    <3>3. ptmo' \in [Seats -> Nat]
      BY <1>15 DEF RunTick, RecoveryType
    <3> QED
      BY <3>1, <3>2, <3>3 DEF RecoveryType
  <2>4. SimType'
    <3>1. [tick |-> tick[c], in |-> Replay(c)]
            \in [tick : Nat, in : [Seats -> Inputs]]
      BY TickType DEF EngineType
    <3>2. played' \in [Seats -> SUBSET [tick : Nat, in : [Seats -> Inputs]]]
      BY <1>15, <3>1 DEF RunTick, GameTick, SimType
    <3>3. sim' \in [Seats -> [Parts -> History]]
      BY <1>15, TickType DEF RunTick, SimType
    <3> QED
      BY <3>2, <3>3 DEF SimType
  <2>5. ChanType'
    BY <1>15, TickType, RelayedType
    DEF RunTick, GameTick, ChanType
  <2>6. HistoryType'
    BY <1>15
    DEF RunTick, GameTick, HistoryType
  <2> QED
    BY <2>1, <2>2, <2>3, <2>4, <2>5, <2>6
<1>16. ASSUME NEW c \in Seats, RunPush(c) PROVE TypeOK'
  <2>0. ResumeTick(c) \in Nat
    BY ConstantAssumption DEF ResumeTick, EngineType
  <2>1. ControlType'
    BY <1>16
    DEF RunPush, GameTick, RS_REBASE, ControlType
  <2>2. EngineType'
    <3>1. RS_REBASE(c, ResumeTick(c))
      BY <1>16 DEF RunPush
    <3> QED
      BY <2>0, <3>1, RebaseType
  <2>3. RecoveryType'
    BY <1>16, <2>0, ClearedType
    DEF RunPush, GameTick, RS_REBASE, RecoveryType
  <2>4. SimType'
    <3>1. [tick |-> tick[c], in |-> Replay(c)]
            \in [tick : Nat, in : [Seats -> Inputs]]
      BY TickType DEF EngineType
    <3>2. played' \in [Seats -> SUBSET [tick : Nat, in : [Seats -> Inputs]]]
      BY <1>16, <3>1 DEF RunPush, GameTick, SimType
    <3>3. sim' \in [Seats -> [Parts -> History]]
      BY <1>16, TickType DEF RunPush, SimType
    <3> QED
      BY <3>2, <3>3 DEF SimType
  <2>5. ChanType'
    <3>1. CrcReport(c) \o Image(c, ResumeTick(c)) \in Seq(Frame)
      BY <2>0, TickType
    <3>2. chan' = Relayed(c, CrcReport(c) \o Image(c, ResumeTick(c)))
      BY <1>16 DEF RunPush
    <3> QED
      BY <3>1, <3>2, RelayedType DEF ChanType
  <2>6. HistoryType'
    BY <1>16
    DEF RunPush, GameTick, RS_REBASE, HistoryType
  <2> QED
    BY <2>1, <2>2, <2>3, <2>4, <2>5, <2>6
<1>17. ASSUME NEW c \in Seats, NEW k \in Parts, Drift(c, k) PROVE TypeOK'
  <2>1. ControlType'
    BY <1>17
    DEF Drift, ControlType
  <2>2. EngineType'
    BY <1>17
    DEF Drift, EngineType
  <2>3. RecoveryType'
    BY <1>17
    DEF Drift, RecoveryType
  <2>4. SimType'
    BY <1>17
    DEF Drift, History, Event, HistoryType, SimType
  <2>5. ChanType'
    BY <1>17
    DEF Drift, ChanType
  <2>6. HistoryType'
    BY <1>17
    DEF Drift, EngineType, HistoryType
  <2> QED
    BY <2>1, <2>2, <2>3, <2>4, <2>5, <2>6
<1>18. ASSUME NEW c \in Seats, NEW i \in 1 .. Len(chan[c]), LoseWrite(c, i)
       PROVE TypeOK'
  <2>1. ControlType'
    BY <1>18
    DEF LoseWrite, ControlType
  <2>2. EngineType'
    BY <1>18
    DEF LoseWrite, EngineType
  <2>3. RecoveryType'
    BY <1>18
    DEF LoseWrite, RecoveryType
  <2>4. SimType'
    BY <1>18
    DEF LoseWrite, SimType
  <2>5. ChanType'
    BY <1>18
    DEF LoseWrite, ChanType
  <2>6. HistoryType'
    <3>1. chan[c][i] \in Frame
      BY DEF ChanType
    <3>2. lost' = lost \cup {chan[c][i].type} /\ chan[c][i].type # "PEER_LEFT"
      BY <1>18 DEF LoseWrite
    <3>3. lost' \subseteq {"INPUT", "CRC", "RESYNC", "BEGIN", "CHUNK", "END"}
      BY <3>1, <3>2, FrameField DEF HistoryType
    <3>4. rebases[Other(c)] \in Nat
      BY DEF EngineType, Other, Seats
    <3>5. dirty' \subseteq Nat
      BY <1>18, <3>4 DEF LoseWrite, HistoryType
    <3> QED
      BY <1>18, <3>3, <3>5 DEF LoseWrite, HistoryType
  <2> QED
    BY <2>1, <2>2, <2>3, <2>4, <2>5, <2>6
<1>19. ASSUME NEW c \in Seats, Leave(c) PROVE TypeOK'
  <2>1. ControlType'
    BY <1>19
    DEF Leave, ControlType
  <2>2. EngineType'
    BY <1>19
    DEF Leave, EngineType
  <2>3. RecoveryType'
    BY <1>19
    DEF Leave, RecoveryType
  <2>4. SimType'
    BY <1>19
    DEF Leave, SimType
  <2>5. ChanType'
    <3>1. PICK n \in 0 .. Len(chan[Other(c)]), m \in 0 .. Len(chan[c]),
               reset \in BOOLEAN :
            chan' = [chan EXCEPT
              ![Other(c)] = Append(SubSeq(@, 1, n), PeerLeftFrame),
              ![c] = IF reset THEN << >> ELSE SubSeq(@, 1, m)]
      BY <1>19 DEF Leave
    <3>2. /\ chan \in [Seats -> Seq(Frame)]
          /\ Other(c) \in Seats
          /\ chan[c] \in Seq(Frame) /\ chan[Other(c)] \in Seq(Frame)
      BY DEF ChanType, Other, Seats
    <3>3. SubSeq(chan[Other(c)], 1, n) \in Seq(Frame)
      BY <3>2
    <3>4. Append(SubSeq(chan[Other(c)], 1, n), PeerLeftFrame) \in Seq(Frame)
      BY <3>3, FrameType
    <3>5. SubSeq(chan[c], 1, m) \in Seq(Frame) /\ << >> \in Seq(Frame)
      BY <3>2
    <3>6. Other(c) # c
      BY DEF Other, Seats
    <3>7. CASE reset
      BY <3>1, <3>2, <3>4, <3>5, <3>6, <3>7 DEF ChanType
    <3>8. CASE ~reset
      BY <3>1, <3>2, <3>4, <3>5, <3>6, <3>8 DEF ChanType
    <3> QED
      BY <3>7, <3>8
  <2>6. HistoryType'
    BY <1>19
    DEF Leave, HistoryType
  <2> QED
    BY <2>1, <2>2, <2>3, <2>4, <2>5, <2>6
<1>20. CASE UNCHANGED vars
  BY <1>20 DEF vars, ControlType, EngineType, RecoveryType, SimType, ChanType,
           HistoryType
<1> QED
  BY <1>1, <1>2, <1>3, <1>4, <1>5, <1>6, <1>7, <1>8, <1>9, <1>10, <1>11,
     <1>12, <1>13, <1>14, <1>15, <1>16, <1>17, <1>18, <1>19, <1>20
     DEF Next, Console, OnFrame, Environment, Finished

\* Every variable keeps its type, for every delay, ring size, timeout and number
\* of chunks, and under every fault the model knows.
THEOREM TypeCorrect == Spec => []TypeOK
<1>1. Init => TypeOK
  BY TypeInit
<1>2. TypeOK /\ [Next]_vars => TypeOK'
  BY TypeStep
<1> QED
  BY <1>1, <1>2, PTL DEF Spec
=============================================================================
