# Verification of fujinet-intv-basketball

Two Intellivision consoles play NBA Basketball over the network. Each console
runs the original game, one deterministic tick at a time, on the inputs of
both players; a relay server pairs the players and forwards their frames.
This directory models that system in TLA+, checks the models with TLC and
proves part of them with TLAPS.

## The system

| component | source | state | operations |
|---|---|---|---|
| Lockstep engine | `src/netcode/lockstep.asm` | tick, input rings, remote watermark, stall counter, `NET_DROPPED` | `LS_PASS`: park, hold, pump, capture and send, gate, stall, run |
| Resync | `src/netcode/resync.asm` | `RESYNC_HOLD`, `RS_PEND`, own CRC ring, hold timer, resume tick | `RS_RECORD_CRC`, `RS_ON_CRC`, `RS_ON_REQ`, `RS_PENDING`, `RS_PUSH`, `RS_ON_STATE`, `RS_REBASE` |
| Session | `src/netcode/session.asm` | name, lobby cache, menu, room, RX ring | `SES_MAIN` (name, connect, HELLO, browse, JOIN, GO), `SES_PUMP`, `SES_ONFRAME` |
| Mailbox | `src/netcode/mailbox.asm` | sequence number, staged command, result | `MB_TRANSACT` and its `NET_*` callers |
| Virtual dispatch | `src/vdispatch.asm` | shadow controllers, adopted tables | `VIRT_CAPTURE`, `LS_VDISPATCH`, `LS_TBL_ADOPT` |
| Timer hook, RNG | `src/hook.asm` | phase counter, canonical RNG | `MASTER_TICK`, `NB_GAME_TICK`, `NB_RAND1/2` |
| Relay (Python) | `server/intv_relay_server.py` | clients, names, rooms, receive and transmit buffers | accept, service, HELLO, LIST, JOIN, GO, match frames, flush, drop, sweep |
| Relay (C) | `server/c/src/intv-relay.c` | the same, in fixed tables | the same, plus protocol v1 |
| Relay CRC log | `log_crc` in both relays | reports by tick and seat | insert, evict, compare |
| Lobby publisher | `LobbyPublisher`, `server/c/src/lobby.c` | count, dirty, stopping, one worker thread | update, POST, keepalive, shutdown |
| Protocol gate | `tools/bbnet_client_sim.py` | its clients, one thread | three scenarios of requests and assertions |
| Relay differential | `tools/server_diff.py` | its clients, a transcript | scenarios with syncs, on one relay and then the other |
| HUD, echo, debug, text UI, ROM patches, other tools | `src/`, `tools/`, `test/` | none that a protocol depends on | |

How they interact. A console's program is one loop; the only interrupt is the
EXEC's timer, which does not touch the protocol. Every pass polls the FujiNet
peripheral through the mailbox (`SES_PUMP`), which dispatches the frames that
arrived from inside the lockstep pass: a handler can therefore change the tick,
the rings or the hold while the pass is in its head pump or in its gate.
The relay is one thread with a selector; a send can fail, and then drops that
client inside the handler, and inside the loop, that was sending. The
publisher is the one place with two threads. The two test programs are single
threads as well, but the relay serves their connections in an order they do
not control.

What is hard: the gate of two consoles waiting for each other's input; a
resync pushed while inputs of the old epoch are still under way; an image
applied chunk by chunk by a console that is in the middle of a pass; timers
racing late answers; re-entrant drops in the relay; a stream of bytes with no
mark where a frame begins; consoles that join each other at the same time, or
come back on a new connection while the old one is still open; two threads and
their timers in the publisher. `PROJECT.json` lists each such hazard at its
line with the properties that would show it going wrong.

What makes each part correct:

- lockstep: both consoles simulate a tick on the same inputs; neither waits for
  ever; no tick is run on a state that is half replaced;
- resync: a divergence is detected, repaired, costs a bounded number of pushes,
  and nothing is repaired that was not broken;
- byte stream: frames arrive whole, once, in order, and do not get stuck; no
  buffer is overrun;
- relay: rooms and names are consistent whatever send fails, every client was
  told what the relay believes, no match frame leaves its match;
- session: a console shows what the relay believes, and consoles meet;
- publisher: the newest count reaches the Lobby in time and in the end, requests
  are spaced, and the server is offline after shutdown, unless a request outlives
  shutdown's join;
- test programs: they neither fail nor differ by chance.

## The modules

Paths are relative to the repository. `PROJECT.json` maps every definition to
its lines.

```
Match   <- Netplay (implements it)
Netplay <- NetplayProofs <- NetplayTornProofs <- NetplayInputProofs <- NetplayResyncProofs
                                                         <- NetplayEpochProofs
        <- MCNetplay
Relay   <- RelayProofs <- RelayViewProofs
        <- MCRelay
Relay, CrcLog <- RelayNet <- Session <- MCSession
                          <- Scripts <- MCScripts
FrameFifo <- Link (implements it) <- MCLink
LobbyPublisher <- LobbyProofs
```

### Netplay: a match

`Netplay.tla` is the program of two consoles between START and the end of the
match. `pc[c]` is the console's place in `LS_PASS`:

| `pc` | in the code |
|---|---|
| `seshold` | `SES_HOLD`, pumping while the roster is shown |
| `pass` | `MASTER_TICK` is about to call `LS_PASS` |
| `head` | the pump at the head of the pass |
| `gate`, `stall` | `@@ls_gate`, and the pump of a round of the stall |
| `hold` | the pump of a pass under `RESYNC_HOLD` |
| `parked` | the peer-left screen |
| `off` | the console is reset |

In the four pumping places a console takes frames, one action per frame type
(`OnInput`, `OnCrc`, `OnResync`, `OnBegin`, `OnChunk`, `OnEnd`, `OnPeerLeft`),
and then goes on (`SesPump`, `SesDone`, `HoldRound`, `Capture`, `StallRound`). `PassBegin` is the
test of `NET_DROPPED` and `RESYNC_HOLD`, `Capture` the input of tick T+d,
`Stall` and `StallRound` the gate's rounds, `RunTick` and `RunPush` the tick
itself without and with a push at its end.

Abstractions:

- Ticks are unwrapped numbers; the code's 16-bit differences, low-byte slots and
  CRC slots are applied to them with `TickMod`, `LowMod` and `CrcPeriod`.
- An input is a tag (seat, epoch, tick), so any mix-up of two inputs is visible.
- The game state is the history that produced it (ticks with their inputs, and
  injected divergences), per chunk of the image: two consoles have equal states
  exactly when they had equal histories. `LS_CKSUM` is taken as injective on
  the chunks it covers; 16-bit collisions are out of scope.
- The relay is a FIFO queue per console, which is what `Link` shows it to be,
  plus the PEER_LEFT of a drop. A pump takes any number of frames, since
  bytes arrive in arbitrary pieces, with the one bound that matters: a chunk
  frame is longer than a pump's read, so no chunk is completed after another
  frame of the same pump. That is a hypothesis `NoTornTick` stands on: the
  mutant that drops it breaks the property.
- `TimedOut` keeps the code's two-byte counters: a limit is looked at only when
  the low byte wraps.

Environment: `Drift` changes one chunk of one console (anything outside the
protocol that makes two consoles diverge; `dirty` remembers the epoch, which is
the next one when an image has already replaced the chunk), `LoseWrite` drops one frame (no
caller looks at `NET_WRITE`'s result), `Leave` ends the room, by a reset or by a
connection the relay lost, cutting what was under way anywhere.

`Match.tla` says what all this amounts to for the players, without frames, rings,
watermarks, records or timers: both consoles replay one `log` of inputs. `Play` is a tick:
on the logged inputs if the tick was played before, and no further ahead than
`InStep` allows. `Resync` and `Follow` are the jumps of the host and of the guest over the
ticks nobody plays; `GiveUp` ends the promise. `OneLog` in Netplay is the refinement
mapping: `log` is what either console played, `at` its tick, `epoch` its rebases, `start`
the host's last resume tick, `left` its `NET_DROPPED`.

### Link and FrameFifo: the byte stream

`FrameFifo.tla` is what a match needs of its connection: frames are put in at one
end and come out at the other, whole, once and in order, as long as it is
intact. `Link.tla` is one direction of it byte by byte: the relay's `recv` of any
length, reassembly (`Reassemble`), the new frame it makes of each (`Frame`), the
transmit buffer with its limit, `flush` against a kernel that takes only so much,
write interest (`UpdateEvents`, `Writable`); and the console's `NET_READ` of at most
64 bytes, the ring of 256 with its wrapping count (`Buffered`), the framing check
and the slip of one byte (`Parse`). A sender out of step costs the relay's
connection (`SendJunk`); a read that times out and is completed all the same
loses its bytes (`PumpTimesOut`). `Link` implements `FrameFifo` with
`intact <- ~over /\ lost = 0`.

### Relay, CrcLog, RelayNet: clients, names, rooms, connections

`Relay.tla` is the event loop of the relay. Its point is re-entrancy: `work` is
the stack of calls that remain of the handler that is running, and a send that
fails (`SendFails`) puts a drop on top of it. A drop has one action per outcome
(`DropSolo`, `DropFromMatch`, `DropFromForming`, `DropReseats`). A new event is
taken only when `work` is empty. `setup.impl` selects how a loop over the members
behaves when a drop changes the list under it: the Python walks the live list
(`Loop`, `NextMember`), the C port a copy. `order` is the insertion order of
`by_name`, which is the order of a LOBBY frame. `view` is what each client was told
last, by the frames sent to it.

`CrcLog.tla` is `log_crc` as an operator. `RelayNet.tla` puts connections around the
relay: a backlog of connections not yet accepted, a queue of requests and a queue
of frames per client, end of file and reset; the protocol checks (`Refusal`,
`Ignored`), the per-address limit, and the lines the relay logs (`Lines`). Which of
the ready connections is served next is left open.

### Session: consoles that meet

`Session.tla` composes consoles with `RelayNet`: `PowerOn` (connect and HELLO),
`Pump` with `SES_ONFRAME`'s part outside a match (`OnFrame`), `EnterJoin` and
`EnterGo` for a player, `Pace` for the timer of the lobby loop with the rig's
AUTO_JOIN, `GiveUp` for the gate's timeout in a match whose other side is gone, and
`Reset`, after which the console comes back on a new connection while the old
one is closed, or not. A console does not look at the state of its connection: one
the relay has closed simply stays silent.

A console's requests and resets are taken only between two handlers of the relay
(`Idle`). They touch nothing a handler touches but the queues, to which they append
what no running handler reads, so every other order of the two is equivalent to one
of these.

### Scripts: the programs that test the relays

`Scripts.tla` holds the three scenarios of `bbnet_client_sim.py` and the seven v2
scenarios of `server_diff.py` as sequences of steps, and the thread that runs them
against `RelayNet`. `Text` is the scenario by name and number of seats; `DoExpect`,
`DoDrain`, `DoStatus`, `DoSilent`, `DoNone` and `DoSearch` are the assertions, `DoSync`
the differential's drain and record, `Equal` its comparison, `Restart` the change from the Python relay to the C
port. A wait (5 s, 0.3 s, `QUIET`) ends without a frame only when nothing is on its
way: that the relay is faster than these is the programs' own assumption.
Names and payloads are abstracted. With more than two seats `scenario_full` lets
several joins race, and what it asserts of the seats can fail: `OnlySeatsVary` says
that nothing else can.

### LobbyPublisher: two threads and their timers

`LobbyPublisher.tla`: each critical section is one step, a wait or a POST is a
place the worker stays in until something wakes it or its time is over. `Tick`
lets one unit of time pass; it is not possible while a thread has something to
do or a timer is due, so deadlines are exact. `SharedCv` separates the two
implementations: in C the pause after a POST waits on the condition variable
that `lobby_update` broadcasts. A POST takes any time, since nothing in the code
bounds one as a whole, and takes effect when it ends; one that is under way when the
process exits still may. `outlived` remembers that the join gave up on a POST, and the
clock of a POST stops at `JoinMax`, which is all the properties ask of it.

## The runs

| run | checks | shows |
|---|---|---|
| `fault_free` | InputAgreement, NoSpuriousResync | 18 ticks, across a wrap of the 16-tick counter and twice round the 8-slot ring |
| `resync` | InputAgreement, StateAgreement, PushesBounded, DivergenceDetected, NoMutualStall, NoTornTick, ReplaysOneLog | one divergence of the guest, in its checked chunk, at any pass; images of two chunks (with `DriftSites` set to both consoles' checked chunks the same properties hold, over 1.67 million states in about three minutes) |
| `faults` | TypeOK, PlaysOnOrParks, ReplaysOneLog | divergence, leaving, dropped connections, timeouts |
| `loss` | StateAgreement, PushesBounded, DivergenceDetected, EscapesOnlyByLoss | one divergence of the guest and any one frame lost, the guest's RESYNC included: the state is repaired, and what a lost request costs |
| `link` | Delivered, Flows, RingFits | four frames, every cut of the stream, a full kernel buffer, an overrun backlog, junk, one swallowed read: the refinement of `FrameFifo` with its liveness, and the ring |
| `relay` | all six of Relay | three clients: the Python relay with two failing sends, with and without `--auto-go 2`, and with renames; the C port with rooms of three, with and without `--auto-go 3`, and renames |
| `session` | ScreenTruth, RigMeets | two consoles, with players and as a rig, one reset |
| `scripts` | OnlySeatsVary, SameTranscript | every scenario of the gate (2 to 4 seats, both relays) and of the differential, in every serving order; only the assertion on the seats of `scenario_full` can fail |
| `lobby_py` | TypeOK, UpdatePrompt, OverlapsLate, OfflineKept, PostsSpaced, EntryConverges | updates, failing POSTs, POSTs of any length, shutdown at any time and a join that times out |

Three runs end in a violation, on purpose: each checks what a comment or a
document says, and shows that the code does something else.

| run | what is said | what happens |
|---|---|---|
| `relay_snapshot` | a dissolved room is announced last; C and Python are equal on the wire | after a failed send in the middle of a broadcast the C port sends the ROOM or START of a room it has just dissolved |
| `relay_ghost` | no entry of a dropped client is left | Python registers a client that its own HELLO dropped |
| `lobby_debounce` | "at most once per second" (`lobby.h:5`) | in the C port the next update ends the pause |

What modelling showed besides, without a run of its own:

- shutdown() joins the worker for 12 s to "let an in-flight POST finish first"
  (`intv_relay_server.py:561`) before the "final status:"offline" POST"
  (`test_lobby_pub.py:12`), but a POST may take longer, in both relays: its online
  entry then lands after the offline one. `main = "done" => ~entry.online` is violated;
  `OfflineKept` is what remains of it.
- `scenario_full` asserts the guests' seats and the roster in the order the JOINs were
  sent (`bbnet_client_sim.py:356`), but sends them on different connections without
  waiting. With three seats or more the relay may serve the second JOIN first, and the
  gate fails against a correct relay: `~failed` is violated, and `OnlySeatsVary` says
  that this assertion is the only one. `scenario_main` waits between two JOINs.
- "The sim is frozen during HOLD" (`resync.asm:22`): `LS_PASS` looks at the hold only
  where a pass starts, so a BEGIN taken by the head pump or by the gate's pump lets
  one more tick run. `NoTornTick`, which is proved, is why this is harmless.
- `LS_TIMEOUT` is 900 rounds (`lockstep.asm:6`), but only its high byte is compared,
  when the low byte wraps: the gate gives up after 768.
- A console that parks after PEER_LEFT stays connected and named. The relay lists it
  as joinable, and a console that comes back is matched with it and waits for inputs
  that never come. `RigMeets` therefore lets a console be stranded once there was a
  reset.
- A console whose connection is replaced by another one with the same name stays in
  its lobby for good; and when the HELLO of a connection left open by a reset is
  served after that of the new one, it is the live console that is replaced.
- `server_diff.py:716` says the Python relay has no partial-frame guard and excuses
  a difference in `framing`; the guard is there (`intv_relay_server.py:346`), and the
  two agree.
- `server_diff.py:301` says a rename keeps the position in the list; in the code the
  old name is deleted and the new one appended (`Reordered`), in both relays.
- `finish()` closes its clients with frames unread or not, so whether the relay logs
  "closed" or "recv error" is a matter of timing: `SameTranscript` is stated up to the
  last sync.
- `server_diff.py:701` calls the order of the nine connects of `limits`, and which of
  them is refused, nondeterministic in both relays. In the model it is not: `connect()`
  returns when its connection is established and so in the listener's queue, which is
  accepted in order, and nothing is sent or read meanwhile, so the ninth is refused and
  the two runs are equal record by record. `Equal` compares them as a multiset all the
  same, as `compare()` does; that would not hide another loser, since every record
  names its client.
- `ghost_peer.py` says HELLO with version 1, which this relay refuses.

### Bounds

- Netplay: 2 to 18 ticks (`MaxTick` stops passes from starting), one drift and one
  loss, delay 1 or 2, images of one or two chunks, CRC every second tick. The
  protocol's horizon is short: a divergence is reported at the next CRC, pushed
  at the next dead ball or after `PendMax`, and ended by the resume tick
  `ResumeGap` later. `resync` runs beyond that, and
  `PushesBounded` can see a second image. `fault_free` needs more ticks than the
  ring and the counter hold, and no more.
- `loss` stops after five ticks, with a drift and a loss: reports of ticks 0, 2 and 4, so
  that a report can come before its record, be repeated, and be answered by a push,
  and both consoles are back at play after two rebases.
- In `resync` and `loss`, `WaitMax` and `HoldMax` are so small that timeouts happen in
  ordinary play; the properties are stated for the match before that
  (`MatchOn`).
- `ByteMod` is 2 where the two bytes of a timer matter and 1 elsewhere.
- Link: the sizes are the code's over about twenty-four, in the same order (frame up
  to 5 bytes of a ring of 8, reads of 3, so a frame takes two reads and an
  incomplete frame and a read just fit); `SockBuf` is smaller than a frame, `MaxTx`
  smaller than two, so that a partial write and an overrun happen. The long frame's
  payload reads as a header and as a length no frame has. After a lost
  read the console may run on for three more frames out of step.
- Relay: three clients allow a full room with someone outside, a replaced name,
  and a room of three that loses its host or a guest; two failing sends
  allow a drop inside a drop. Clients and names are symmetric: no
  definition orders them, and no liveness is checked there.
- Session: three connections for two consoles, the third for the one that was reset;
  one request or unread frame ahead per console (`MaxAhead`) is enough for JOINs to
  cross, since the two consoles' queues are independent. The names are
  interchangeable, so one of them is reset without loss. With players, a reset happens
  in a room or in a match; the lobby's resets are covered with the rig
  (`Resets`).
- Scripts: the programs' own constants (nine connections against a limit of eight, 64
  CRC rows).
- LobbyPublisher: time units keep the order of the code's constants (pause 1 s, join
  12 s, keepalive 300 s). A POST has no bound: in the code the deadline of the C port
  bounds its connect, each send and read has 10 s of its own, and a name lookup has no
  limit. Only `PostsSpaced` tells the C publisher (`SharedCv`) from the Python one;
  the others hold, or fail, for both.

`CHECK_DEADLOCK` is off in `link`, where everything stops when `MaxSent` frames have
arrived, and in `session`, where it stops when all consoles are in a match or parked. Elsewhere the
ends of a match, a script and the process are explicit stuttering steps.

### Fairness

`Netplay!FairSpec` is weak fairness of each console: its program is a loop that
never blocks (every mailbox wait is bounded). Nothing is asked of the network
but order: a frame may stay under way for ever, which is what the timers are for.

`LinkSpec` is weak fairness of the relay's service of a readable and of a writable
connection and of the console's pump: the selector reports both every round, and
the pump is part of every pass.

`SesSpec` is weak fairness of the relay's loop, and strong fairness of accepting and of
serving each connection: the selector reports every ready one, so none is passed over
for ever although another handler is entered in between. The consoles' loops are
weakly fair; `Pace` is strongly fair, because it is enabled only between two handlers and
while there is room in the queues, and the timer it stands for fires again and
again. Players are not assumed to press anything, and consoles not to be reset.

`LobbyPublisher!FairSpec`
is weak fairness of the worker, of a shutdown that has begun, and of time. It includes
that a POST ends some time, which the timeouts of its socket operations and of the
resolver make true, without saying when. That updates come or shutdown is called is
not assumed.

## The proofs

Each theorem holds for every value of the constants that satisfies the
assumptions named in its module (`InputAssumption`, `ConstantAssumption`,
`PublisherAssumption`, ...: the parameters are numbers of the right sign, the
idle input is an input) and the hypothesis in its statement, if it has one.

| module | theorem | property | hypothesis |
|---|---|---|---|
| NetplayProofs | TypeCorrect | TypeOK | |
| NetplayTornProofs | TornInvariant, TornTickFree | NoTornTick | |
| NetplayInputProofs | LockstepInvariant, InputsAgree, StallFree, OneLogReplayed | InputAgreement, NoMutualStall, ReplaysOneLog | `Sized` |
| NetplayResyncProofs | RecordInvariant, DetectionComplete | DivergenceDetected (while nothing was lost) | `SizedRecords` |
| NetplayEpochProofs | EpochInvariant, ResyncJustified | NoSpuriousResync | `SizedRecords` |
| NetplayEpochProofs | PushesFew, StatesAgree | PushesBounded, StateAgreement (while nothing was lost) | `SizedRecords` |
| RelayProofs | TablesSound, TypeCorrect, RoomsStayWhole, NamesStayLive, CountIsPublished | TypeOK, RoomsWhole, NamesLive, CountPublished | `NoGhost` |
| RelayViewProofs | ClientsInStep, ViewsAgree, FramesInMatch | ViewAgrees, NoStrayFrame | `InStep` |
| LobbyProofs | TypeCorrect, UpdatesPrompt | TypeOK, UpdatePrompt | |
| LobbyProofs | RequestsApart, OfflineStays | OverlapsLate, OfflineKept | |
| LobbyProofs | DebounceHolds | PostsSpaced | `~SharedCv` |

All have the same form: an inductive invariant, one lemma per action for its
preservation, and lemmas on the operators the actions are built from.

### No torn tick

No console simulates a tick on a state that holds part of an image, for every delay,
ring, image size, number of ticks and set of faults, as long as no NET_WRITE was
lost. `NoTornTick` is not inductive: whether the gate stays closed between two
chunks depends on what is on the wire. The invariant `TornInv` adds

1. `ImageUnbroken`: in each queue a BEGIN or a chunk is followed by a chunk, an
   END or a PEER_LEFT; an open queue never ends within an image; a console in a
   hold has the rest of the image next in its queue. `RS_PUSH` puts the
   image on the wire in one go, taking frames from the head keeps it, and a
   leave only cuts the tail and appends PEER_LEFT;
2. `TornSafe`: a console with applied chunks is in a hold or has given the match up; in the head
   pump nothing is applied, and a fresh pump is not in a hold; a stall starts its pump with the gate closed;
   and while chunks are applied in the gate or in the stall the gate is closed.

The second part uses the first: an input that could open the gate cannot come
between two chunks, and the first chunk cannot come after such an input in the
same pump (`ChunkCompletes`). `TornStep` is the inductive step, on lemmas about
queues (`SendOK`, `TakeOK`, `CutOK`, `SingleOK`, `ImageOK`).

### Equal inputs, and no mutual stall

Any number of divergences and pushes, leaves and timeouts at any point, and ticks
that wrap are covered. `Sized` says how the sizes must be ordered; the code's values
are in parentheses (delay 3):

- `LowMod >= 2 * Delay + 2`: the ring (256) holds what a console captured and the
  other has not played;
- `ResumeGap > Delay` (16): a push resumes beyond everything that was captured;
- `TickMod >= 4 * (ResumeGap + Delay + 1)` (65536): the signed difference of two
  16-bit ticks tells which is first. How far an accepted tick may really be
  from the other is bounded by two pushes (`Leap`), which `Lag` and `Images` show;
- `CrcPeriod` > 1 divides `TickMod` (64): a tick that is reported is never
  `TickMod - 1`, which marks an empty slot.

`fault_free` runs with a narrower tick than that (16), and no push; `resync` is at
the bounds of `Sized`.

`InputAgreement` says nothing of the wire, the rings or the watermarks, and so is far
from inductive. `Lockstep` says what they must be while no frame was lost
(`Paced`). In outline:

- `Basic`: which frames are where, nothing follows a PEER_LEFT, at most two
  images are under way (`Ahead`), and a console that was dropped and still pumps has
  nothing to take;
- to the guest (`GuestSide`): from its watermark on, the frames under way carry the
  host's inputs without a gap, each image moving it by `Delay` idle ticks (`Chain`,
  `Full`); a CRC lies between the input captured in its tick and the next
  (`Reports`); nothing is captured less than `ResumeGap` before an image
  (`Spaced`); no input is so far ahead that its ring slot is still in use (`Near`);
  which images are under way follows from the two counts of rebases (`Images`,
  `Last`); every input, on the wire or in the ring, is the one the host has
  played or will play (`GuestRight`); and what the host played ahead of the guest is
  below the guest's own captures and used those, or lies beyond an image the guest has still
  to take (`GuestBound`, `Beyond`);
- to the host (`HostSide`): the guest's inputs and reports are in order (`Sorted`);
  those from before the last push are below the watermark the push left behind,
  and near enough to it that the 16-bit comparison knows (`Lag`); without an
  image under way the inputs are complete and right (`HostRight`); after a push the
  ring is idle up to the new watermark (`HostClock`);
- of both (`Shared`, `Agree`): which requests can still be under way when the host
  has pushed (`Asked`), that neither console has outrun the other's captures, and the
  agreement itself.

Each part describes one direction, and is claimed only while the console at its end
has not given the match up: such a console runs one more tick against idle inputs,
which is why `Late` and the two `dropped` guards are there. The hard cases are
the two that move a watermark without an input, `HostPushStep` and the END at
the guest (`GuestEndStep`), and the late frames that meet a moved watermark
(`HostInputStep`).

`StallFree` follows from `Lockstep` and `TornInv` without another induction: with both
queues empty there is no image under way, so each console has received everything
the other captured; each closed gate says its watermark is one below its tick;
but a console has captured `Delay + 1` ticks beyond its own, so both gates being closed
puts each console strictly ahead of the other.

### One log

`OneLogReplayed` is the refinement of `Match`, step by step (`MatchStep`), and a
corollary of `Lockstep` as well. A tick of the host is in step because the gate is open and the
watermark it looked at is below what the guest has captured, or, after a push,
ends with the idle ticks (`MatchHostInStep`, from `HostClock`); one of the guest because of `Shared` in
the next state (`MatchGuestInStep`). Its inputs are those of the log because of `Agree` in the next
state, and because no console plays a tick twice (`MatchReplays`). An image ends above the
guest's tick and at the first tick of an epoch of the host, the last one if there is no
other image behind it (`MatchFollows`, from `Images`). A console that was dropped runs one more
tick, which may end in a push nobody sees: `Match` has both as steps that log nothing.

### Detection is complete

A report that arrives before its record exists is thrown away (`RS_ON_CRC`), and so is
one that arrives in a hold or with a push pending. `DivergenceDetected` says that this loses
nothing. `RecordInv` adds to `Lockstep`, while both consoles play:

- `Records`: a slot is blank or holds the latest tick due for it (`SlotAgain`);
- `Reported`: a report under way is older than its sender's tick and says what the sender has
  a record of, so a record that differs from the report differs from the other console's record;
- `Follow`: a report is no older than what the guest has received before it, which is why a
  report of a tick the guest has yet to record is still in its queue when it records it;
- `Asking`: what the guest knows the host knows too, once the image is complete;
- `Settled`: records that differ are known to differ, or a report of that tick is still
  under way. `DivergenceDetected` is its last case (`Detected`).

`SizedRecords` is `Sized` with `CrcPeriod` dividing `LowMod` (64 and 256: the slots of
a turn of the low byte are those of the next) and `TickMod >= 2 * LowMod`. The theorem is stated for `lost = {}`;
`DivergenceDetected` also covers lost inputs, which the run `loss` checks.

### A resync is justified, bounded and complete

An epoch is the time between two rebases of a console. `EpochInv` says that there are
`bs` and `st`, the state each epoch began with and its first tick, from which
everything else follows in the epochs without divergence (`Clean`). The image of a push is on
its way while the host is one or two epochs ahead, so `bs` and `st` cover epochs the guest
has not reached. Both are hidden behind an existential quantifier; a push adds one
entry to each (`Pushed`), all other steps keep them.

- `Starts`: the host's epoch began at the tick it last resumed from; first ticks
  increase; the images under way resume at the first ticks of the epochs after the guest's;
- `HostTrace`, `GuestTrace`: a console's history is that of the epoch's first state,
  then one event per tick since, out of the ticks it played (`Extends`). Chunks
  of the guest that were replaced already hold the next epoch's first state;
- `RecordTrace`, `ToHostTrace`, `ToGuestTrace`: the same of the records and of the reports on
  the wire, as of their tick. Reports to the guest may be from any epoch the host
  has begun since, which their tick tells apart;
- `Chunks`, `Whole`: an image carries its epoch's first state, and all of it: at
  the END every chunk was applied or is on the wire before it;
- `Blame`: the host has pushed once per epoch; every epoch that was left, or is about to
  be, diverged or follows one that did; at most one epoch diverged per divergence; a request
  from before the last push is owed to the epoch before.

With `InputsAgree`, two histories that extend the same state over the same ticks are equal
(`ExtendsSame`). This gives all three theorems. A comparison of a report with a
record in `RS_ON_CRC` is one of the same tick, not just of equal 16-bit ticks
(`SameRecord`, `HostDisagrees`, `GuestDisagrees`), and in a clean epoch of equal histories, so no
resync is asked for. Every push is owed by `Blame`, at most two per diverged
epoch. And the states of a clean epoch agree, whatever happened before it.

`EpochInv` quantifies over histories and cannot be evaluated by TLC; the three properties
it implies are checked by the runs. `PushesBounded` and `StateAgreement` also cover lost
inputs (the model counts one as a divergence); the theorems are stated for `lost = {}`.

### The relay's tables

`Relay` is proved for any number of clients, names, rooms and seats, any number
of failing sends, and both implementations. `NoGhost` excludes one combination:
the Python relay with clients that repeat HELLO and sends that fail, where
`relay_ghost` shows a violation. The difficulty is the middle of a handler, where
the properties do not hold yet and any send may drop any client: the invariant
`Inv` therefore speaks of the calls that remain on the stack.

- `WorkOK`: they are well formed, and a loop has a frame for every member it has still to
  come to, although the list may have lost members under it;
- `RoomsOK`: every room is whole at every step (a drop that leaves a room with one member
  dissolves it before it sends anything);
- `NamesLive` holds at every step; `HelloOK` is why the second half of a HELLO, which
  runs after a drop of the name's previous holder and all that drop leads to,
  still finds the name free and its own client alive;
- `Counted`: a changed table of names has a pending update of the Lobby.

`Leaves` says what a call may leave on the stack, one lemma per call (`SendFailsLeaves`,
`DropMemberLeaves`, ...), so that an action is compared with one summary of what it
pushes. `Pick` is `SelectSeq` as the image of a function: the library's is recursive, and
no fact about it can be proved here (`PickFacts`).

### What the relay's clients know

`InStep` says that sends do not fail, or that the relay is the Python one with its two seats and no
client repeats HELLO. What is left out are the port and larger rooms with
failing sends, where `relay_snapshot` shows a stale broadcast, and the ghost.
`ViewInv` adds to `Inv`, of every open client:

- `Due`: it knows what the relay believes, or is about to be told, or to be dropped;
- `Right`: what it is about to be told is what the relay believes now, although a drop
  between may have changed that;
- `MatchOnly`: a match frame pending for it comes from its match, and no room frame is pending
  with it, so it is not overtaken by the end of the match;
- `OnTop`: the order on the stack that makes this possible: below the top there is
  no drop, and if sends can fail, nothing about a room to a client that is in one.

With an empty stack `Due` is `ViewAgrees`; `MatchOnly` and `Due` give `NoStrayFrame`.

### The publisher

`StopInv` follows a shutdown: a POST under way is older than the join that waits for
it, so one the join gives up on has lasted for `JoinMax`, and `outlived` says so; none
begins after `stopping` is set. That is `OverlapsLate`, and with it `OfflineKept`: the
only request that can take effect after the last one is a POST the join gave up on.
Nothing is assumed of the length of a POST, and without that exception the property
does not hold. `OwedInv` accounts for the time an update waits
when no POST is under way, which is the pause's; `SpacedInv` for the time since the last
POST, which needs a pause that updates do not end: that is what `~SharedCv` says
and what `lobby_debounce` is the counterexample of.

### Only model-checked

- What `DivergenceDetected`, `StateAgreement` and `PushesBounded` say of a match that has lost an input,
  and `EscapesOnlyByLoss` of one that has lost a request: `Lockstep`, which all the proofs rest on, speaks of a match without loss.
- `OnlySeatsVary`, `SameTranscript`: statements about fixed scripts, which TLC covers
  completely.
- `ScreenTruth`: needs what the relay's theorems say together with an invariant of the
  queues of `RelayNet`. Not attempted yet.
- `Link` (`Delivered`, `RingFits`): its parsers are recursive operators, out of TLAPS'
  reach.
- Liveness (`PlaysOnOrParks`, `Flows`, `RigMeets`, `EntryConverges`): out of its reach as
  well.

## Not modelled

Name entry, the menu's cursor, the screens. Mailbox sequence numbers, and a late reply
taken for another command's. The game itself beyond being deterministic, and with it the
edge detection of the virtual dispatch and the RNG under the interrupt. Protocol v1 in
the C relay and its scenarios in the differential, whose reference server is not in this
repository; epoll slots, signals, statistics. The programs that patch, dump and compare
ROM images and traces, and those that start emulators and measure: they keep no state
that anything interleaves with. A lost frame and a timeout in one match are not combined. After a lost CRC, RESYNC, BEGIN,
CHUNK or END, only `StateAgreement`'s and `PushesBounded`'s precondition `MatchOn` fails: nothing is claimed.
Nor is anything claimed of a console's stream after a swallowed read, except that its
ring holds: the code does not ensure that it falls into step again.

## Plan

1. The same theorems after a lost input: the model counts it as a divergence of every epoch so far, and the watermark of
   the next image passes over the gap.
2. `ScreenTruth`, from an invariant that what is queued for a console is what `view`
   says it was told.
3. `Mailbox`: sequence numbers, late completions, console resets.
4. Failing sends in `Session`: `NET_DROPPED` surviving into the next match.
5. `VDispatch`: edge detection and table adoption as a deterministic function of
   the replayed inputs; the canonical RNG against the ISR.
