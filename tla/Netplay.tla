------------------------------ MODULE Netplay ------------------------------
(***************************************************************************)
(* The in-match protocol of two Intellivision consoles: the delay-based    *)
(* lockstep engine (src/netcode/lockstep.asm), desync detection and        *)
(* recovery (src/netcode/resync.asm) and the in-match half of the frame    *)
(* dispatcher (SES_ONFRAME in src/netcode/session.asm).  The relay between *)
(* them is seen as one FIFO queue of frames towards each console, plus the *)
(* PEER_LEFT it emits when it drops a member of a started room.            *)
(*                                                                         *)
(* Ticks are kept unwrapped; wherever the code compares or indexes them it *)
(* does so through a 16-bit difference or the low byte, and so does the    *)
(* model (TickMod, LowMod).                                                *)
(***************************************************************************)
EXTENDS Integers, Sequences, FiniteSets

CONSTANTS
  Inputs,       \* what a controller can present in one tick (disc, keypad)
  Idle,         \* the input LS_RING_INIT fills the rings with
  Pad(_, _, _), \* Pad(s, e, t): what seat s may press when it captures tick t
                \* after its e-th rebase
  Delay,        \* NET_DELAY, d: ticks between capture and use
  TickMod,      \* ticks are TickMod-periodic on the wire (2^16)
  LowMod,       \* TICK_LO, and the ring size (2^8)
  CrcPeriod,    \* ticks between two CRC reports (64)
  ResumeGap,    \* RS_PUSH resumes this many ticks ahead (16)
  NChunks,      \* STATE chunks per image (8)
  CrcParts,     \* the chunks whose contents LS_CKSUM covers
  ByteMod,      \* a counter's low byte carries into its high byte here (2^8)
  WaitMax,      \* LS_TIMEOUT: gate rounds before the peer is given up (900)
  HoldMax,      \* RS_HOLD_TMO: hold rounds before the peer is given up (1536)
  PendMax,      \* ticks a push waits for a dead ball (RS_PEND_MAX)
  MaxTick,      \* bound: no pass starts at or after this tick
  MaxDrift,     \* bound on the divergences that are injected
  DriftSites,   \* the (console, chunk) pairs they are injected in
  MaxLost,      \* bound on the NET_WRITEs that fail
  MayLeave      \* whether a console may leave or be dropped by the relay

Seats == {0, 1}
Host == 0
Other(c) == 1 - c
Parts == 1 .. NChunks

ASSUME InputAssumption == Idle \in Inputs

ASSUME ConstantAssumption ==
  /\ Delay \in Nat \ {0} /\ TickMod \in Nat \ {0} /\ LowMod \in Nat \ {0}
  /\ CrcPeriod \in Nat \ {0} /\ ResumeGap \in Nat \ {0} /\ NChunks \in Nat \ {0}
  /\ ByteMod \in Nat \ {0} /\ WaitMax \in Nat \ {0} /\ HoldMax \in Nat \ {0} /\ PendMax \in Nat \ {0}
  /\ MaxTick \in Nat /\ MaxDrift \in Nat /\ MaxLost \in Nat
  /\ CrcParts \subseteq Parts
  /\ MayLeave \in BOOLEAN

VARIABLES
  pc,       \* where each console is in its pass
  fresh,    \* no frame has been dispatched yet in the current SES_PUMP
  tick,     \* TICK_LO/HI: the tick about to be run
  ring,     \* SEAT_RING/SEAT_KP: per seat, the inputs by low byte of the tick
  wm,       \* SEAT_WM of the remote seat
  froze,    \* LS_FROZE: the EXEC's phase counter is held at 0
  waitc,    \* LS_WAITC
  hold,     \* RESYNC_HOLD
  holdc,    \* RS_TO
  pend,     \* RS_PEND
  ptmo,     \* RS_PTMO
  resume,   \* RS_R: the tick the announced image resumes at
  rec,      \* OWN_CRC: own checksums, by slot
  dropped,  \* NET_DROPPED
  sim,      \* the game state, chunk by chunk, as the history that produced it
  rebases,  \* HUD_RSY: how often the console re-baselined
  chan,     \* chan[c]: frames on their way to console c
  room,     \* the relay still holds the started room
  applied,  \* history: the chunks applied since BEGIN, until END
  played,   \* history: the inputs each console simulated while the match was on
  drifts,   \* history: divergences injected
  dirty,    \* history: the epochs (rebase counts) a divergence happened in
  lost,     \* history: the types of the frames lost with a failed NET_WRITE
  pushes    \* history: images pushed by the host

engine == <<tick, ring, wm, rebases>>
recovery == <<hold, holdc, pend, ptmo, resume, rec, applied>>
history == <<drifts, dirty, lost>>
vars == <<pc, fresh, tick, ring, wm, froze, waitc, hold, holdc, pend, ptmo,
          resume, rec, dropped, sim, rebases, chan, room, applied, played,
          drifts, dirty, lost, pushes>>

-----------------------------------------------------------------------------
(* Tick arithmetic.                                                        *)

\* SUBR + BMI: a is behind b, by the sign of their 16-bit difference.
Behind(a, b) == (a - b) % TickMod >= TickMod \div 2
SameTick(a, b) == a % TickMod = b % TickMod
\* Slip: the slot mask is one bit short.
HalfRing_RingSlot(t) == t % (LowMod \div 2)
RingSlot(t) == t % LowMod
\* The slot of a record is taken from TICK_LO alone.
CrcSlot(t) == (t % LowMod) \div CrcPeriod
CrcSlots == 0 .. (LowMod - 1) \div CrcPeriod

-----------------------------------------------------------------------------
(* Frames, and the relay that carries them.                                *)

InputFrame(t, i) == [type |-> "INPUT", tick |-> t, in |-> i]
CrcFrame(t, x) == [type |-> "CRC", tick |-> t, crc |-> x]
ResyncFrame(t) == [type |-> "RESYNC", tick |-> t]
BeginFrame(r) == [type |-> "BEGIN", tick |-> r]
ChunkFrame(k, h) == [type |-> "CHUNK", part |-> k, data |-> h]
EndFrame == [type |-> "END"]
PeerLeftFrame == [type |-> "PEER_LEFT"]

\* Frames are forwarded only while the room is started.
Relayed(c, frames) ==
  IF room THEN [chan EXCEPT ![Other(c)] = @ \o frames] ELSE chan

Event == [tick : Nat, in : [Seats -> Inputs]] \cup [drift : Nat]
History == Seq(Event)
Crc == [CrcParts -> History]
Frame ==
  [type : {"INPUT"}, tick : Nat, in : Inputs]
    \cup [type : {"CRC"}, tick : Nat, crc : Crc]
    \cup [type : {"RESYNC", "BEGIN"}, tick : Nat]
    \cup [type : {"CHUNK"}, part : Parts, data : History]
    \cup [type : {"END", "PEER_LEFT"}]

-----------------------------------------------------------------------------
(* The routines several handlers share.                                    *)

LS_RING_INIT == [s \in Seats |-> [x \in 0 .. LowMod - 1 |-> Idle]]

\* Slip: the CRC ring filled with zeros, a good record for tick 0.
ZeroFill_RS_CLR_CRC ==
  [x \in CrcSlots |-> [tick |-> 0, crc |-> [k \in CrcParts |-> <<[drift |-> 0]>>]]]

\* The ring is filled with $FF: a tick no CRC is ever reported for.
RS_CLR_CRC ==
  [x \in CrcSlots |-> [tick |-> TickMod - 1,
                       crc |-> [k \in CrcParts |-> <<[drift |-> 0]>>]]]

\* LS_CKSUM, taken as injective on the chunks it covers.
LS_CKSUM(state) == [k \in CrcParts |-> state[k]]

\* Slip: one tick too few.
OffByOne_RebaseWatermark(r) == r + Delay - 2

\* The first tick of the remote seat that is not idle by agreement is r + d.
RebaseWatermark(r) == r + Delay - 1

\* LS_IDLE_RMT pins the watermark a quarter of the tick range ahead.
PinnedWatermark(t) == t + TickMod \div 4

NET_DROP(c) ==
  /\ dropped' = [dropped EXCEPT ![c] = TRUE]
  /\ ring' = [ring EXCEPT ![c] = LS_RING_INIT]
  /\ wm' = [wm EXCEPT ![c] = PinnedWatermark(tick[c])]

RS_ENTER_HOLD(c) ==
  /\ hold' = [hold EXCEPT ![c] = TRUE]
  /\ holdc' = [holdc EXCEPT ![c] = 0]
  /\ rec' = [rec EXCEPT ![c] = RS_CLR_CRC]

RS_REBASE(c, r) ==
  /\ pend' = [pend EXCEPT ![c] = FALSE]
  /\ ptmo' = [ptmo EXCEPT ![c] = 0]
  /\ tick' = [tick EXCEPT ![c] = r]
  /\ ring' = [ring EXCEPT ![c] = LS_RING_INIT]
  /\ wm' = [wm EXCEPT ![c] = RebaseWatermark(r)]
  /\ rec' = [rec EXCEPT ![c] = RS_CLR_CRC]
  /\ hold' = [hold EXCEPT ![c] = FALSE]
  /\ holdc' = [holdc EXCEPT ![c] = 0]
  /\ waitc' = [waitc EXCEPT ![c] = 0]
  /\ rebases' = [rebases EXCEPT ![c] = @ + 1]
  /\ applied' = [applied EXCEPT ![c] = {}]

-----------------------------------------------------------------------------
(* Both consoles have just handled START and sit in SES_HOLD.              *)

Init ==
  /\ pc = [c \in Seats |-> "seshold"]
  /\ fresh = [c \in Seats |-> TRUE]
  /\ tick = [c \in Seats |-> 0]
  /\ ring = [c \in Seats |-> LS_RING_INIT]
  /\ wm = [c \in Seats |-> RebaseWatermark(0)]
  /\ froze = [c \in Seats |-> FALSE]
  /\ waitc = [c \in Seats |-> 0]
  /\ hold = [c \in Seats |-> FALSE]
  /\ holdc = [c \in Seats |-> 0]
  /\ pend = [c \in Seats |-> FALSE]
  /\ ptmo = [c \in Seats |-> 0]
  /\ resume = [c \in Seats |-> 0]
  /\ rec = [c \in Seats |-> RS_CLR_CRC]
  /\ dropped = [c \in Seats |-> FALSE]
  /\ sim = [c \in Seats |-> [k \in Parts |-> << >>]]
  /\ rebases = [c \in Seats |-> 0]
  /\ chan = [c \in Seats |-> << >>]
  /\ room = TRUE
  /\ applied = [c \in Seats |-> {}]
  /\ played = [c \in Seats |-> {}]
  /\ drifts = 0
  /\ dirty = {}
  /\ lost = {}
  /\ pushes = 0

-----------------------------------------------------------------------------
(* SES_PUMP: dispatch of the frames that arrive (SES_ONFRAME).  A pump     *)
(* reads at most 64 bytes; a chunk frame is longer, so it can only be      *)
(* completed as the first frame of its pump, from bytes of earlier reads.  *)

Pumping == {"seshold", "head", "stall", "hold"}

Receives(c, type) ==
  /\ pc[c] \in Pumping
  /\ chan[c] # << >>
  /\ Head(chan[c]).type = type
  /\ chan' = [chan EXCEPT ![c] = Tail(@)]
  /\ fresh' = [fresh EXCEPT ![c] = FALSE]
  /\ UNCHANGED <<pc, froze, room, played, pushes, history>>

\* Slip: only the very next tick is accepted.
NextOnly_Accepts(c, t) == SameTick(t, wm[c] + 1)

\* @@of_input: only ticks beyond the seat's watermark are accepted.
Accepts(c, t) == ~Behind(t, wm[c]) /\ ~SameTick(t, wm[c])

OnInput(c) ==
  /\ Receives(c, "INPUT")
  /\ LET f == Head(chan[c]) IN
       IF Accepts(c, f.tick)
       THEN /\ ring' = [ring EXCEPT ![c][Other(c)][RingSlot(f.tick)] = f.in]
            /\ wm' = [wm EXCEPT ![c] = f.tick]
       ELSE UNCHANGED <<ring, wm>>
  /\ UNCHANGED <<tick, rebases, waitc, recovery, dropped, sim>>

\* Slips: the tick of the record is not looked at; only the guest compares.
AnyTick_CrcDisagrees(c, f) ==
  ~hold[c] /\ ~pend[c] /\ rec[c][CrcSlot(f.tick)].crc # f.crc
GuestOnly_CrcDisagrees(c, f) ==
  /\ c # Host /\ SameTick(rec[c][CrcSlot(f.tick)].tick, f.tick)
  /\ AnyTick_CrcDisagrees(c, f)

\* RS_ON_CRC: the record the peer's checksum is compared with disagrees.
CrcDisagrees(c, f) ==
  LET own == rec[c][CrcSlot(f.tick)] IN
  /\ ~hold[c] /\ ~pend[c]
  /\ SameTick(own.tick, f.tick)
  /\ own.crc # f.crc

\* On disagreement both remember it; the guest also asks the host for a push.
OnCrc(c) ==
  /\ pc[c] \in Pumping
  /\ chan[c] # << >>
  /\ Head(chan[c]).type = "CRC"
  /\ LET f == Head(chan[c])
         rest == [chan EXCEPT ![c] = Tail(@)]
     IN IF CrcDisagrees(c, f)
        THEN /\ pend' = [pend EXCEPT ![c] = TRUE]
             /\ ptmo' = [ptmo EXCEPT ![c] = 0]
             /\ chan' = IF c # Host /\ room
                        THEN [rest EXCEPT ![Host] = Append(@, ResyncFrame(f.tick))]
                        ELSE rest
        ELSE chan' = rest /\ UNCHANGED <<pend, ptmo>>
  /\ fresh' = [fresh EXCEPT ![c] = FALSE]
  /\ UNCHANGED <<pc, engine, froze, waitc, hold, holdc, resume, rec, applied,
                 dropped, sim, room, played, history, pushes>>

\* RS_ON_REQ: host only, and once.
OnResync(c) ==
  /\ Receives(c, "RESYNC")
  /\ IF c = Host /\ ~hold[c] /\ ~pend[c]
     THEN /\ pend' = [pend EXCEPT ![c] = TRUE]
          /\ ptmo' = [ptmo EXCEPT ![c] = 0]
     ELSE UNCHANGED <<pend, ptmo>>
  /\ UNCHANGED <<engine, waitc, hold, holdc, resume, rec, applied, dropped, sim>>

\* RS_ON_STATE, BEGIN: hold, and note the tick the image resumes at.
OnBegin(c) ==
  /\ Receives(c, "BEGIN")
  /\ RS_ENTER_HOLD(c)
  /\ resume' = [resume EXCEPT ![c] = Head(chan[c]).tick]
  /\ applied' = [applied EXCEPT ![c] = {}]
  /\ UNCHANGED <<engine, waitc, pend, ptmo, dropped, sim>>

\* Slip: a read large enough for a chunk and the frame before it.
BigRead_ChunkCompletes(c) == TRUE

\* A chunk is longer than the read of one pump.
ChunkCompletes(c) == fresh[c]

\* Slip: the bound of a smaller image, which drops the last chunk.
Short_ChunkInImage(k) == k \in 1 .. NChunks - 1

\* The bound RS_ON_STATE puts on the position of a chunk.
ChunkInImage(k) == k \in Parts

\* RS_ON_STATE, data: applied in place, and only inside a hold.
OnChunk(c) ==
  /\ Receives(c, "CHUNK")
  /\ ChunkCompletes(c)
  /\ LET f == Head(chan[c]) IN
       IF hold[c] /\ ChunkInImage(f.part)
       THEN /\ sim' = [sim EXCEPT ![c][f.part] = f.data]
            /\ applied' = [applied EXCEPT ![c] = @ \cup {f.part}]
       ELSE UNCHANGED <<sim, applied>>
  /\ UNCHANGED <<engine, waitc, hold, holdc, pend, ptmo, resume, rec, dropped>>

\* RS_ON_STATE, END: re-baseline, if the hold is still open.
OnEnd(c) ==
  /\ Receives(c, "END")
  /\ IF hold[c]
     THEN RS_REBASE(c, resume[c]) /\ UNCHANGED <<resume, dropped, sim>>
     ELSE UNCHANGED <<engine, waitc, recovery, dropped, sim>>

\* @@of_pl: the match is over for this console.
OnPeerLeft(c) ==
  /\ Receives(c, "PEER_LEFT")
  /\ NET_DROP(c)
  /\ UNCHANGED <<tick, rebases, waitc, recovery, sim>>

-----------------------------------------------------------------------------
(* LS_PASS.                                                                *)

\* SES_HOLD: another pump of the matched screen ...
SesPump(c) ==
  /\ pc[c] = "seshold" /\ ~fresh[c]
  /\ fresh' = [fresh EXCEPT ![c] = TRUE]
  /\ UNCHANGED <<pc, engine, froze, waitc, recovery, dropped, sim, chan, room,
                 played, history, pushes>>

\* ... or the last one: the master tick takes over.
SesDone(c) ==
  /\ pc[c] = "seshold"
  /\ pc' = [pc EXCEPT ![c] = "pass"]
  /\ UNCHANGED <<fresh, engine, froze, waitc, recovery, dropped, sim, chan,
                 room, played, history, pushes>>

\* The head of a pass: a finished match parks, a hold pumps with the phases
\* frozen, anything else pumps and goes on to the tick.
PassTarget(c) ==
  IF dropped[c] THEN "parked" ELSE IF hold[c] THEN "hold" ELSE "head"

PassBegin(c) ==
  /\ pc[c] = "pass"
  /\ tick[c] < MaxTick \/ dropped[c] \/ hold[c]
  /\ pc' = [pc EXCEPT ![c] = PassTarget(c)]
  /\ froze' = [froze EXCEPT ![c] = @ \/ PassTarget(c) # "head"]
  /\ fresh' = [fresh EXCEPT ![c] = TRUE]
  /\ UNCHANGED <<engine, waitc, recovery, dropped, sim, chan, room, played,
                 history, pushes>>

\* A timer is looked at when its low byte wraps, and then only its high byte is
\* compared with the high byte of the limit.
TimedOut(rounds, limit) ==
  rounds % ByteMod = 0 /\ rounds \div ByteMod >= limit \div ByteMod

\* Slip: the timer is never carried.
Stuck_HoldTimer(c) == holdc[c]

\* The pass of a held console ends: one more round of the hold timer.
HoldTimer(c) == holdc[c] + 1

HoldRound(c) ==
  /\ pc[c] = "hold"
  /\ pc' = [pc EXCEPT ![c] = "pass"]
  /\ holdc' = [holdc EXCEPT ![c] = HoldTimer(c)]
  /\ IF TimedOut(HoldTimer(c), HoldMax)
     THEN NET_DROP(c) /\ hold' = [hold EXCEPT ![c] = FALSE]
     ELSE UNCHANGED <<dropped, ring, wm, hold>>
  /\ UNCHANGED <<fresh, tick, rebases, froze, waitc, pend, ptmo, resume, rec,
                 applied, sim, chan, room, played, history, pushes>>

\* The head pump is over: capture the local input for tick T+d, store it in
\* the own ring and send it.
Capture(c) ==
  /\ pc[c] = "head"
  /\ pc' = [pc EXCEPT ![c] = "gate"]
  /\ LET t == tick[c] + Delay IN
       \E i \in Pad(c, rebases[c], t) \cap Inputs :
         /\ ring' = [ring EXCEPT ![c][c][RingSlot(t)] = i]
         /\ chan' = Relayed(c, <<InputFrame(t, i)>>)
  /\ UNCHANGED <<fresh, tick, wm, rebases, froze, waitc, recovery, dropped,
                 sim, room, played, history, pushes>>

\* @@ls_gate: the remote input of tick T is here, or the match is over.
GateOpen(c) == dropped[c] \/ ~Behind(wm[c], tick[c])

\* @@ls_stall: freeze the phases and pump.
Stall(c) ==
  /\ pc[c] = "gate" /\ ~GateOpen(c)
  /\ pc' = [pc EXCEPT ![c] = "stall"]
  /\ froze' = [froze EXCEPT ![c] = TRUE]
  /\ fresh' = [fresh EXCEPT ![c] = TRUE]
  /\ UNCHANGED <<engine, waitc, recovery, dropped, sim, chan, room, played,
                 history, pushes>>

WaitTimer(c) == waitc[c] + 1

\* The stall's pump is over: count the round, maybe give up, look again.
StallRound(c) ==
  /\ pc[c] = "stall"
  /\ pc' = [pc EXCEPT ![c] = "gate"]
  /\ waitc' = [waitc EXCEPT ![c] = WaitTimer(c)]
  /\ IF TimedOut(WaitTimer(c), WaitMax)
     THEN NET_DROP(c) ELSE UNCHANGED <<dropped, ring, wm>>
  /\ UNCHANGED <<fresh, tick, rebases, froze, recovery, sim, chan, room,
                 played, history, pushes>>

\* The inputs the tick consumes: both seats' rings at slot T.
Replay(c) == [s \in Seats |-> ring[c][s][RingSlot(tick[c])]]

\* SHADOW_FROM_RINGS, LS_VDISPATCH for both seats and NB_GAME_TICK: a
\* deterministic step of the game, remembered in every chunk of its state.
Simulated(c) ==
  [k \in Parts |-> Append(sim[c][k], [tick |-> tick[c], in |-> Replay(c)])]

CrcDue(t) == t % CrcPeriod = 0

CrcReport(c) ==
  IF CrcDue(tick[c])
  THEN <<CrcFrame(tick[c], LS_CKSUM(Simulated(c)))>> ELSE << >>

\* RS_RECORD_CRC
Recorded(c) ==
  IF CrcDue(tick[c])
  THEN [rec[c] EXCEPT ![CrcSlot(tick[c])] =
          [tick |-> tick[c], crc |-> LS_CKSUM(Simulated(c))]]
  ELSE rec[c]

\* RS_PENDING: the host pushes at a dead ball, or when it waited long enough.
PushWanted(c) == pend[c] /\ c = Host /\ ~hold[c]
PushNow(c, dead) == PushWanted(c) /\ (dead \/ ptmo[c] + 1 >= PendMax)

\* @@ls_run up to tick++: unfreeze, replay, simulate.
GameTick(c) ==
  /\ pc[c] = "gate" /\ GateOpen(c)
  /\ pc' = [pc EXCEPT ![c] = "pass"]
  /\ froze' = [froze EXCEPT ![c] = FALSE]
  /\ played' = [played EXCEPT ![c] =
       IF dropped[c] THEN @ ELSE @ \cup {[tick |-> tick[c], in |-> Replay(c)]}]
  /\ UNCHANGED <<fresh, dropped, room, history>>

\* A tick after which nothing is pushed.
RunTick(c) ==
  /\ GameTick(c)
  /\ \E dead \in BOOLEAN : ~PushNow(c, dead)
  /\ sim' = [sim EXCEPT ![c] = Simulated(c)]
  /\ rec' = [rec EXCEPT ![c] = Recorded(c)]
  /\ chan' = Relayed(c, CrcReport(c))
  /\ tick' = [tick EXCEPT ![c] = @ + 1]
  /\ waitc' = [waitc EXCEPT ![c] = IF froze[c] THEN 0 ELSE @]
  /\ ptmo' = [ptmo EXCEPT ![c] = IF PushWanted(c) THEN @ + 1 ELSE @]
  /\ UNCHANGED <<ring, wm, rebases, hold, holdc, pend, resume, applied, pushes>>

\* RS_PUSH: BEGIN(R), the image, END, and the host's own rebase.
Image(c, r) ==
  <<BeginFrame(r)>>
    \o [k \in Parts |-> ChunkFrame(k, Simulated(c)[k])] \o <<EndFrame>>

\* Slip: the match resumes at the very next tick.
NoGap_ResumeTick(c) == tick[c] + 1

ResumeTick(c) == tick[c] + 1 + ResumeGap

\* A tick that ends in a push.
RunPush(c) ==
  /\ GameTick(c)
  /\ \E dead \in BOOLEAN : PushNow(c, dead)
  /\ sim' = [sim EXCEPT ![c] = Simulated(c)]
  /\ chan' = Relayed(c, CrcReport(c) \o Image(c, ResumeTick(c)))
  /\ resume' = [resume EXCEPT ![c] = ResumeTick(c)]
  /\ RS_REBASE(c, ResumeTick(c))
  /\ pushes' = pushes + 1

-----------------------------------------------------------------------------
(* The environment.                                                        *)

Active(c) == pc[c] \notin {"parked", "off"}

\* Something outside the protocol changes console c's state in one chunk.  If
\* an image has already replaced the chunk, it is the next epoch that diverges.
Drift(c, k) ==
  /\ drifts < MaxDrift /\ <<c, k>> \in DriftSites
  /\ pc[c] = "pass" /\ ~dropped[c]
  /\ sim' = [sim EXCEPT ![c][k] = Append(@, [drift |-> drifts + 1])]
  /\ drifts' = drifts + 1
  /\ dirty' = dirty \cup {IF k \in applied[c] THEN rebases[c] + 1 ELSE rebases[c]}
  /\ UNCHANGED <<pc, fresh, engine, froze, waitc, recovery, dropped, chan,
                 room, played, lost, pushes>>

\* A NET_WRITE towards c has failed; no caller looks at its result.
LoseWrite(c, i) ==
  /\ Cardinality(lost) < MaxLost
  /\ chan[c][i].type \notin lost \cup {"PEER_LEFT"}
  /\ chan' = [chan EXCEPT ![c] =
               SubSeq(@, 1, i - 1) \o SubSeq(@, i + 1, Len(@))]
  /\ lost' = lost \cup {chan[c][i].type}
  /\ dirty' = dirty \cup 0 .. rebases[Other(c)]
  /\ UNCHANGED <<pc, fresh, engine, froze, waitc, recovery, dropped, sim,
                 room, played, drifts, pushes>>

\* The relay loses console c (reset, or its socket died): what c sent last
\* may not arrive, the room is dissolved, the other member is told.
Leave(c) ==
  /\ MayLeave /\ room /\ Active(c)
  /\ room' = FALSE
  /\ \E n \in 0 .. Len(chan[Other(c)]), m \in 0 .. Len(chan[c]),
         reset \in BOOLEAN :
       /\ chan' = [chan EXCEPT
            ![Other(c)] = Append(SubSeq(@, 1, n), PeerLeftFrame),
            ![c] = IF reset THEN << >> ELSE SubSeq(@, 1, m)]
       /\ pc' = IF reset THEN [pc EXCEPT ![c] = "off"] ELSE pc
  /\ UNCHANGED <<fresh, engine, froze, waitc, recovery, dropped, sim, played,
                 history, pushes>>

-----------------------------------------------------------------------------

OnFrame(c) ==
  \/ OnInput(c) \/ OnCrc(c) \/ OnResync(c) \/ OnBegin(c) \/ OnChunk(c)
  \/ OnEnd(c) \/ OnPeerLeft(c)

Console(c) ==
  \/ SesPump(c) \/ SesDone(c)
  \/ OnFrame(c)
  \/ PassBegin(c) \/ HoldRound(c) \/ Capture(c)
  \/ Stall(c) \/ StallRound(c) \/ RunTick(c) \/ RunPush(c)

Environment ==
  \E c \in Seats :
    \/ \E k \in Parts : Drift(c, k)
    \/ \E i \in 1 .. Len(chan[c]) : LoseWrite(c, i)
    \/ Leave(c)

\* Every console has ended its match, or reached the bound on ticks.
Over(c) ==
  \/ ~Active(c)
  \/ pc[c] = "pass" /\ tick[c] >= MaxTick /\ ~dropped[c] /\ ~hold[c]

Finished == (\A c \in Seats : Over(c)) /\ UNCHANGED vars

Next == (\E c \in Seats : Console(c)) \/ Environment \/ Finished

Spec == Init /\ [][Next]_vars

\* The console's program never stops running; nothing is asked of the network
\* beyond the order of a TCP stream, nor of the environment.
FairSpec == Spec /\ \A c \in Seats : WF_vars(Console(c))

-----------------------------------------------------------------------------
(* Properties.                                                             *)

ControlType ==
  /\ pc \in [Seats -> {"seshold", "pass", "head", "gate", "stall", "hold",
                       "parked", "off"}]
  /\ fresh \in [Seats -> BOOLEAN]
  /\ froze \in [Seats -> BOOLEAN]
  /\ waitc \in [Seats -> Nat]
  /\ dropped \in [Seats -> BOOLEAN]
  /\ room \in BOOLEAN

EngineType ==
  /\ tick \in [Seats -> Nat]
  /\ ring \in [Seats -> [Seats -> [0 .. LowMod - 1 -> Inputs]]]
  /\ wm \in [Seats -> Nat]
  /\ rebases \in [Seats -> Nat]

RecoveryType ==
  /\ hold \in [Seats -> BOOLEAN]
  /\ holdc \in [Seats -> Nat]
  /\ pend \in [Seats -> BOOLEAN]
  /\ ptmo \in [Seats -> Nat]
  /\ resume \in [Seats -> Nat]
  /\ rec \in [Seats -> [CrcSlots -> [tick : Nat, crc : Crc]]]
  /\ applied \in [Seats -> SUBSET Parts]

SimType ==
  /\ sim \in [Seats -> [Parts -> History]]
  /\ played \in [Seats -> SUBSET [tick : Nat, in : [Seats -> Inputs]]]

ChanType == chan \in [Seats -> Seq(Frame)]

HistoryType ==
  /\ drifts \in Nat
  /\ dirty \subseteq Nat
  /\ lost \subseteq {"INPUT", "CRC", "RESYNC", "BEGIN", "CHUNK", "END"}
  /\ pushes \in Nat

\* Every variable keeps its type.
TypeOK ==
  /\ ControlType /\ EngineType /\ RecoveryType
  /\ SimType /\ ChanType /\ HistoryType

\* No console has given its peer up (the one tick such a console still runs,
\* against idle inputs, is not part of the match), and the recovery frames
\* have all been sent.
MatchOn == lost \subseteq {"INPUT"} /\ \A c \in Seats : ~dropped[c]

\* The heart of lockstep: a tick that both consoles simulate during the match
\* they simulate with the same inputs, across any number of rebases.  It rests
\* on the ring being large enough, the watermark rejecting what was sent
\* before a rebase (@@of_input, RS_REBASE), and both sides agreeing on which
\* ticks are idle.
InputAgreement ==
  lost = {} =>
    \A p \in played[0], q \in played[1] : p.tick = q.tick => p.in = q.in

OneLog == INSTANCE Match
  WITH log <- played[0] \cup played[1], at <- tick, epoch <- rebases,
       start <- resume[0], left <- dropped

\* As long as nothing is lost, Netplay implements Match: what the frames, the
\* rings, the watermarks, the gate and the images amount to is one log that
\* both consoles replay, at most the delay apart, and jump over at the same
\* places (LS_PASS, RS_PUSH, RS_REBASE).
ReplaysOneLog == OneLog!MatchInit /\ [][lost' = {} => OneLog!MatchNext]_OneLog!match

\* Two consoles at the same tick of the same epoch, in which nothing drifted,
\* have the same game state in every chunk, whatever happened before the last
\* rebase: the image is complete, taken and applied at the same point, and no
\* tick slipped in between (RS_PUSH, RS_ON_STATE, RS_REBASE).
StateAgreement ==
  (/\ MatchOn
   /\ tick[0] = tick[1] /\ rebases[0] = rebases[1] /\ rebases[0] \notin dirty
   /\ \A c \in Seats : pc[c] = "pass" /\ ~hold[c])
  => sim[0] = sim[1]

\* Without a divergence, no resync is ever wanted or pushed: a CRC is only
\* compared with a record of the very same tick (RS_ON_CRC, RS_CLR_CRC).
NoSpuriousResync ==
  drifts = 0 /\ lost = {} /\ MatchOn => pushes = 0 /\ \A c \in Seats : ~pend[c]

\* One divergence, or one lost input, costs at most two pushes: the host's own,
\* and one for the guest's request that was under way meanwhile (RS_ON_REQ).
PushesBounded == MatchOn => pushes <= 2 * (drifts + Cardinality(lost))

InFlight(c, type) == \E i \in 1 .. Len(chan[c]) : chan[c][i].type = type
CrcInFlight(c, t) ==
  \E i \in 1 .. Len(chan[c]) : chan[c][i].type = "CRC" /\ chan[c][i].tick = t

\* Detection is complete: once both consoles have recorded different checksums
\* for a tick and both reports have arrived, the host knows or is being told.
\* A report that arrives before its record exists is discarded (RS_ON_CRC), so
\* this needs the other direction's report to find a record every time.
DivergenceDetected ==
  \A x \in CrcSlots :
    LET a == rec[0][x]
        b == rec[1][x]
    IN (/\ MatchOn /\ room
        /\ a.tick = b.tick /\ a.crc # b.crc
        /\ \A c \in Seats : ~CrcInFlight(c, a.tick))
       => pend[Host] \/ InFlight(Host, "RESYNC")

\* A divergence that both have recorded and reported escapes the host only if the
\* guest's one request was lost: then it is the guest that knows, and waits for a
\* push it does not ask for again (RS_ON_CRC; no caller looks at NET_WRITE's
\* result).
EscapesOnlyByLoss ==
  \A x \in CrcSlots :
    LET a == rec[0][x]
        b == rec[1][x]
    IN (/\ lost \subseteq {"INPUT", "RESYNC"} /\ room
        /\ \A c \in Seats : ~dropped[c] /\ ~CrcInFlight(c, a.tick)
        /\ a.tick = b.tick /\ a.crc # b.crc
        /\ ~pend[Host] /\ ~InFlight(Host, "RESYNC"))
       => "RESYNC" \in lost /\ pend[Other(Host)]

\* Two consoles never wait for each other: if both are stalled in the gate
\* and nothing is under way, something was lost.
NoMutualStall ==
  ~(/\ lost = {} /\ room
    /\ \A c \in Seats : pc[c] \in {"gate", "stall"} /\ ~GateOpen(c)
                        /\ chan[c] = << >>)

\* A console never simulates a tick on a half-applied image (RS_ON_STATE writes
\* chunks in place, and the hold is only looked at when a pass starts): a BEGIN
\* that arrives in the head pump or with the input the gate waits for lets one
\* more tick run, but none of its chunks fits into that pump.
NoTornTick ==
  [][\A c \in Seats :
       lost = {} /\ played'[c] # played[c] => applied[c] = {}]_vars

\* Why: (1) on the wire nothing comes between a BEGIN and its END but chunks,
\* unless the stream is cut (RS_PUSH is not interrupted, the relay is FIFO) ...
MidImage == {"BEGIN", "CHUNK"}
FollowsMidImage == {"CHUNK", "END", "PEER_LEFT"}

Unbroken(s) ==
  \A i \in 1 .. Len(s), j \in 1 .. Len(s) :
    j = i + 1 /\ s[i].type \in MidImage => s[j].type \in FollowsMidImage

\* A queue towards a console; open: more may be appended; held: the console
\* has seen the BEGIN of an image whose END it still has to see.
StreamOK(s, open, held) ==
  /\ Unbroken(s)
  /\ open /\ s # << >> => s[Len(s)].type \notin MidImage
  /\ held => IF s = << >> THEN ~open ELSE s[1].type \in FollowsMidImage

ImageUnbroken(c) == StreamOK(chan[c], room, hold[c] /\ ~dropped[c])

\* ... (2) chunks are only applied in a hold; none fits into the head pump after
\* the BEGIN; a stall pumps its first frame with the gate closed, and after a
\* chunk the gate stays closed, because no input comes before the END.
TornSafe(c) ==
  /\ applied[c] # {} => hold[c] \/ dropped[c]
  /\ pc[c] = "head" => applied[c] = {} /\ (fresh[c] => ~hold[c])
  /\ pc[c] = "stall" /\ fresh[c] => ~GateOpen(c)
  /\ pc[c] \in {"gate", "stall"} /\ applied[c] # {} =>
       dropped[c] \/ Behind(wm[c], tick[c])

\* The inductive invariant behind NoTornTick.
TornInv == lost = {} => \A c \in Seats : ImageUnbroken(c) /\ TornSafe(c)

\* Under any faults, every console either plays on to the bound or ends on the
\* peer-left screen: neither the gate nor a hold waits for ever.
PlaysOnOrParks == \A c \in Seats : <>[]Over(c)
=============================================================================
