------------------------------ MODULE Scripts ------------------------------
(***************************************************************************)
(* The two programs that drive the relay over TCP: the protocol gate       *)
(* (tools/bbnet_client_sim.py), which asserts what it is sent, and the     *)
(* differential (tools/server_diff.py), which runs one scenario against    *)
(* the Python relay and then against the C port, and compares what the     *)
(* clients received and what the relays logged.  Each is one thread; the   *)
(* relay serves the connections in any order meanwhile.  A wait for a      *)
(* frame, or for silence, is taken to outlast the relay's work: that is    *)
(* what the timeouts (5, 0.3 and QUIET seconds) are for.                   *)
(***************************************************************************)
EXTENDS RelayNet, SequencesExt

VARIABLES
  program,    \* the scenario that runs
  pc,         \* its next step
  failed,     \* an assertion failed
  log,        \* what the relay has logged (since the last sync)
  transcript, \* what each sync recorded
  ref         \* the transcript of the Python relay's run, once it is over

own == <<program, pc, failed, log, transcript, ref>>
allVars == <<netVars, own>>

-----------------------------------------------------------------------------
(* Steps of a scenario.                                                    *)

Dials(c) == <<[op |-> "dial", who |-> c]>>
Says(c, q) == <<[op |-> "say", who |-> c, what |-> q]>>
Hangs(c) == <<[op |-> "hang", who |-> c]>>
\* expect: the next frame has this type; ExpectsThis: and this content.
Expects(c, t) == <<[op |-> "expect", who |-> c, type |-> t, want |-> {}]>>
ExpectsThis(c, t, w) == <<[op |-> "expect", who |-> c, type |-> t, want |-> {w}]>>
\* scenario_full's loop: frames are skipped up to a START, with this content.
Drains(c, w) == <<[op |-> "drain", who |-> c, want |-> w]>>
\* expect_silence
Silent(c) == <<[op |-> "silent", who |-> c]>>
\* The refused v1 client: any end of the connection, or none, but no frame.
NoAnswer(c) == <<[op |-> "none", who |-> c]>>
Sync == <<[op |-> "sync"]>>
\* The server's log is searched at the end.
Searches == <<[op |-> "search"]>>

Each(cs, F(_)) == FlattenSeq([i \in 1 .. Len(cs) |-> F(cs[i])])

-----------------------------------------------------------------------------
(* bbnet_client_sim.py, with k seats.                                      *)

\* Cli.__init__
Cli(c, n) == Dials(c) \o Says(c, Hello(n))
Arrives(c, n) == Cli(c, n) \o Expects(c, "LOBBY")

\* Cli.lobby and lobby_status: what the list says of n.
Sees(c, n, size, busy) ==
  Says(c, Plain("LIST"))
    \o <<[op |-> "status", who |-> c, name |-> n,
          want |-> [size |-> size, busy |-> busy]]>>

\* start_server: the probe that finds the relay up.
StartServer == Dials(1) \o Hangs(1)

RoomNames == <<"ALICE", "BOB", "CAROL", "DAVE">>

\* Scenario steps 1 to 7: a room is built up to k members, and started.
GateForms(k, clis, e) ==
  LET names == SubSeq(RoomNames, 1, k)
      joined(i) == Each(SubSeq(clis, 1, i),
                        LAMBDA c : ExpectsThis(c, "ROOM", SubSeq(names, 1, i)))
      joins(i, target) == Says(clis[i], JoinReq(target)) \o joined(i)
  IN Cli(clis[1], "ALICE") \o ExpectsThis(clis[1], "LOBBY", << >>)
     \o Dials(3) \o Says(3, [Hello("OLDGUY") EXCEPT !.ver = 1])
     \o NoAnswer(3) \o Hangs(3)
     \o FlattenSeq([i \in 1 .. k - 1 |-> Cli(clis[i + 1], names[i + 1])])
     \o Each(Tail(clis), LAMBDA c : Expects(c, "LOBBY"))
     \o Arrives(e, "EVE")
     \o Sees(e, "ALICE", 1, FALSE)
     \o joins(2, "ALICE")
     \o Sees(e, "ALICE", 2, k = 2) \o Sees(e, "BOB", 2, k = 2)
     \o (IF k >= 3 THEN joins(3, "BOB") ELSE << >>)
     \o (IF k >= 4 THEN joins(4, "ALICE") ELSE << >>)
     \o Sees(e, "ALICE", k, TRUE)
     \o Says(e, JoinReq("ALICE")) \o Expects(e, "LOBBY")
     \o Says(clis[2], Plain("GO")) \o Says(clis[1], Plain("GO"))
     \o FlattenSeq([i \in 1 .. k |-> ExpectsThis(clis[i], "START", <<i, names>>)])
     \o Sees(e, "ALICE", k, TRUE)
     \o Says(e, JoinReq("ALICE")) \o Expects(e, "LOBBY")

\* Steps 5 and 6: fan-out, and the CRC rounds.
GatePlays(k, clis) ==
  LET others == Tail(clis)
      fans(kind, p) == Says(clis[1], Relayed(kind, p))
                         \o Each(others, LAMBDA c : ExpectsThis(c, kind, p))
      round(t, odd) ==
        FlattenSeq([i \in 1 .. k |->
          Says(clis[i], CrcReport(i, t, IF i = 2 THEN odd ELSE 1))])
        \o Each(clis, LAMBDA c :
             FlattenSeq([i \in 1 .. k - 1 |-> Expects(c, "CRC")]))
  IN fans("INPUT", <<0, 5>>) \o Silent(clis[1]) \o fans("STATE", <<0, 255>>)
     \o round(64, 1) \o round(128, 1) \o round(192, 1) \o round(256, 1)
     \o round(320, 2)

\* Steps 8 to 10: a player leaves a match; a guest, then the host, leaves a
\* forming room.
GateLeaves(k, clis, e) ==
  LET host == clis[1]
      rest == SubSeq(clis, 3, k)
      joins(c, n, in) == Arrives(c, n) \o Says(c, JoinReq("ALICE"))
                           \o Each(in, LAMBDA m : Expects(m, "ROOM"))
  IN Hangs(clis[2])
     \o Each(<<host>> \o rest, LAMBDA c : ExpectsThis(c, "PEER_LEFT", <<2, "BOB">>))
     \o Sees(e, "ALICE", 1, FALSE)
     \o FlattenSeq([i \in 1 .. Len(rest) |-> Sees(e, RoomNames[i + 2], 1, FALSE)])
     \o Hangs(e) \o Each(rest, Hangs)
     \o joins(8, "GUESTA", <<host, 8>>)
     \o (IF k >= 3
         THEN joins(9, "GUESTB", <<host, 8, 9>>) \o Hangs(8)
                \o ExpectsThis(host, "ROOM", <<"ALICE", "GUESTB">>)
                \o Expects(9, "ROOM")
         ELSE Hangs(8) \o ExpectsThis(host, "ROOM", << >>)
                \o joins(9, "GUESTC", <<host, 9>>))
     \o Hangs(host) \o ExpectsThis(9, "ROOM", << >>) \o Hangs(9)

ScenarioMain(k) ==
  LET clis == SubSeq(<<2, 4, 5, 6>>, 1, k)
  IN StartServer \o GateForms(k, clis, 7) \o GatePlays(k, clis)
       \o GateLeaves(k, clis, 7) \o Searches

ScenarioAutogo ==
  StartServer \o Arrives(2, "EVE") \o Arrives(3, "FRANK")
    \o Says(3, JoinReq("EVE")) \o Expects(2, "ROOM") \o Expects(3, "ROOM")
    \o ExpectsThis(2, "START", <<1, <<"EVE", "FRANK">>>>)
    \o ExpectsThis(3, "START", <<2, <<"EVE", "FRANK">>>>)
    \o Hangs(2) \o Hangs(3)

\* A full room, started by --auto-go: all but the first client JOIN at once, and
\* the START is to name them in that order.
ScenarioFull(k) ==
  LET names == SubSeq(RoomNames, 1, k)
      clis == [i \in 1 .. k |-> i + 1]
      e == k + 2
      input == <<k - 1, 7>>
  IN StartServer \o FlattenSeq([i \in 1 .. k |-> Cli(clis[i], names[i])])
       \o Each(clis, LAMBDA c : Expects(c, "LOBBY"))
       \o Each(Tail(clis), LAMBDA c : Says(c, JoinReq("ALICE")))
       \o FlattenSeq([i \in 1 .. k |-> Drains(clis[i], <<i, names>>)])
       \o Arrives(e, "EVE") \o Says(e, JoinReq("ALICE")) \o Expects(e, "LOBBY")
       \o Says(clis[k], Relayed("INPUT", input))
       \o Each(Front(clis), LAMBDA c : ExpectsThis(c, "INPUT", input))
       \o Silent(clis[k]) \o Each(Append(clis, e), Hangs)

-----------------------------------------------------------------------------
(* server_diff.py, with two seats.                                         *)

\* Slip: the next client dials without waiting.
Hasty_HelloSync(c, n) == Dials(c) \o Says(c, Hello(n))

\* Ctx.hello: connect, identify and sync.
HelloSync(c, n) == Dials(c) \o Says(c, Hello(n)) \o Sync

SaysSync(c, q) == Says(c, q) \o Sync
HangsSync(c) == Hangs(c) \o Sync
ListSync(cs) == Each(cs, LAMBDA c : Says(c, Plain("LIST"))) \o Sync

S1RosterOrder ==
  HelloSync(1, "ALICE") \o HelloSync(2, "BOB") \o HelloSync(3, "CAROL")
    \o HelloSync(4, "DAVE")
    \o Dials(5) \o SaysSync(5, [Hello("OLDGUY") EXCEPT !.ver = 1])
    \o ListSync(<<1, 2, 3, 4>>)
    \o SaysSync(3, Hello("CAROL2"))
    \o HelloSync(6, "EVE") \o SaysSync(6, Hello("BOB"))
    \o ListSync(<<1, 4, 6>>)
    \o HangsSync(1)
    \o ListSync(<<4, 6>>)

S2Rooms ==
  HelloSync(1, "ALICE") \o HelloSync(2, "BOB") \o HelloSync(3, "CAROL")
    \o SaysSync(2, JoinReq("ALICE")) \o ListSync(<<3>>)
    \o SaysSync(3, JoinReq("ALICE")) \o SaysSync(2, JoinReq("ALICE"))
    \o SaysSync(3, JoinReq("NOBODY")) \o SaysSync(1, JoinReq("ALICE"))
    \o HelloSync(4, "DAVE") \o SaysSync(4, JoinReq("DAVE"))
    \o SaysSync(4, JoinReq("NOBODY"))

S3GoStart ==
  HelloSync(1, "ALICE") \o HelloSync(2, "BOB")
    \o SaysSync(1, Plain("GO")) \o SaysSync(2, JoinReq("ALICE"))
    \o SaysSync(2, Plain("GO")) \o SaysSync(1, Plain("GO"))
    \o SaysSync(1, Plain("GO"))
    \o HelloSync(3, "CAROL") \o SaysSync(3, JoinReq("ALICE"))
    \o SaysSync(1, Plain("PING"))

\* The 70 half-reported ticks, for a table of CrcRows rows.
S4RelayCrc ==
  LET both(t, v) == Says(1, CrcReport(1, t, 1)) \o Says(2, CrcReport(2, t, v))
      half == [i \in 1 .. CrcRows + 6 |-> 99 + i]
  IN HelloSync(1, "ALICE") \o HelloSync(2, "BOB")
       \o SaysSync(1, Relayed("INPUT", <<0, 1>>)) \o SaysSync(2, JoinReq("ALICE"))
       \o SaysSync(1, Relayed("INPUT", <<0, 1>>)) \o SaysSync(1, Plain("GO"))
       \o SaysSync(1, Relayed("INPUT", <<0, 7>>))
       \o SaysSync(2, Relayed("STATE", <<0>>)) \o SaysSync(1, Relayed("RESYNC", <<5>>))
       \o both(0, 1) \o both(1, 1) \o both(2, 1) \o both(3, 1) \o Sync
       \o both(9, 2) \o Sync
       \o Each(half, LAMBDA t : Says(1, CrcReport(1, t, 1))) \o Sync
       \o SaysSync(2, CrcReport(2, 100, 1))
       \o SaysSync(2, CrcReport(2, 99 + Len(half), 1))
       \o Says(1, CrcReport(4, 200, 1)) \o Says(2, CrcReport(2, 200, 2)) \o Sync

S5DropMatrix ==
  HelloSync(1, "ALICE") \o HelloSync(2, "BOB")
    \o SaysSync(2, JoinReq("ALICE")) \o SaysSync(1, Plain("GO")) \o HangsSync(2)
    \o HelloSync(3, "CAROL") \o HelloSync(4, "DAVE")
    \o SaysSync(4, JoinReq("CAROL")) \o HangsSync(3)
    \o HelloSync(5, "EVE") \o HelloSync(6, "FRANK")
    \o SaysSync(6, JoinReq("EVE")) \o HangsSync(6)
    \o HelloSync(7, "GRACE") \o SaysSync(7, Plain("BYE"))
    \o HelloSync(8, "HEIDI") \o SaysSync(8, Hello("!!"))

\* The requests of s6_framing, whole: how they are cut up is Link's subject.
S6Framing ==
  HelloSync(1, "ALICE") \o SaysSync(1, Plain("PING"))
    \o Says(1, Plain("PING")) \o SaysSync(1, Plain("PING"))
    \o Says(1, Plain("LIST")) \o Says(1, Plain("LIST")) \o ListSync(<<1>>)
    \o SaysSync(1, JoinReq("NOBODY"))
    \o Dials(2) \o SaysSync(2, Plain("BAD LENGTH"))
    \o Dials(3) \o SaysSync(3, Plain("BAD LENGTH"))
    \o HelloSync(4, "DAVE") \o SaysSync(4, Plain("UNKNOWN"))

S7Limits == Each(<<1, 2, 3, 4, 5, 6, 7, 8, 9>>, Dials) \o Sync

Gate == {"main", "autogo", "full"}
Differential == {"roster", "rooms", "start", "relay", "drops", "framing", "limits"}

Seats == 2 .. 4

Text ==
  [p \in Gate \cup Differential |-> [k \in Seats |->
    CASE p = "main" -> ScenarioMain(k)
      [] p = "autogo" -> ScenarioAutogo
      [] p = "full" -> ScenarioFull(k)
      [] p = "roster" -> S1RosterOrder \o Sync
      [] p = "rooms" -> S2Rooms \o Sync
      [] p = "start" -> S3GoStart \o Sync
      [] p = "relay" -> S4RelayCrc \o Sync
      [] p = "drops" -> S5DropMatrix \o Sync
      [] p = "framing" -> S6Framing \o Sync
      [] p = "limits" -> S7Limits \o Sync]]

-----------------------------------------------------------------------------
(* The thread that runs the scenario.                                      *)

Script == Text[program][setup.seats]
At(op) == ~failed /\ pc <= Len(Script) /\ Script[pc].op = op
Step == Script[pc]

ScriptInit ==
  /\ NetInit
  /\ program \in Gate \cup Differential
  /\ setup.autoGo = CASE program = "autogo" -> 2
                     [] program = "full" -> setup.seats
                     [] OTHER -> 0
  /\ program \in Differential => setup.impl = "py"
  /\ pc = 1 /\ failed = FALSE /\ log = << >>
  /\ transcript = << >> /\ ref = << >>

\* A step that touches the sockets only.
Advance ==
  /\ pc' = pc + 1
  /\ UNCHANGED <<vars, crc, program, failed, log, transcript, ref>>

DoDial == At("dial") /\ Dial(Step.who) /\ Advance
DoSay == At("say") /\ Say(Step.who, Step.what) /\ Advance
DoHang == At("hang") /\ HangUp(Step.who) /\ Advance

\* The assertion holds, or the program stops here.
Asserts(ok) ==
  /\ failed' = ~ok /\ pc' = pc + 1
  /\ UNCHANGED <<vars, crc, program, log, transcript, ref>>

\* expect: the frame, or none for five seconds.
Awaited(c) ==
  IF down[c] = << >> THEN Quiet /\ UNCHANGED net ELSE Take(c)

DoExpect ==
  /\ At("expect") /\ Awaited(Step.who)
  /\ LET in == down[Step.who]
     IN Asserts(/\ in # << >> /\ Head(in).type = Step.type
                /\ Step.want = {} \/ Head(in).body \in Step.want)

\* Any frame but a START is skipped; the end of the connection raises EOFError.
Starts(f) == f.type \in {"START", "EOF"}

DoSkip ==
  /\ At("drain") /\ Take(Step.who)
  /\ ~Starts(Head(down[Step.who]))
  /\ UNCHANGED <<vars, crc, own>>

DoDrain ==
  /\ At("drain") /\ Awaited(Step.who)
  /\ LET in == down[Step.who]
     IN /\ in = << >> \/ Starts(Head(in))
        /\ Asserts(/\ in # << >> /\ Head(in).type = "START"
                   /\ Head(in).body = Step.want)

DoStatus ==
  /\ At("status") /\ Awaited(Step.who)
  /\ LET in == down[Step.who]
     IN Asserts(/\ in # << >> /\ Head(in).type = "LOBBY"
                /\ [name |-> Step.name, status |-> Step.want]
                     \in ToSet(Head(in).body))

\* A frame, or 0.3 seconds without one.
DoSilent ==
  /\ At("silent") /\ (Quiet \/ down[Step.who] # << >>)
  /\ Asserts(down[Step.who] = << >>)
  /\ UNCHANGED net

DoNone ==
  /\ At("none") /\ (Quiet \/ down[Step.who] # << >>)
  /\ Asserts(down[Step.who] = << >> \/ Head(down[Step.who]).type = "EOF")
  /\ UNCHANGED net

\* The lines the gate searches the server's output for.
Wanted(l) == l[1] \in {"match", "crc ok", "CRC MISMATCH", "back to lobby (peer left)"}
Logged(head) == \E i \in 1 .. Len(log) : log[i][1] = head

DoSearch ==
  /\ At("search")
  /\ Asserts(/\ Logged("match") /\ Logged("crc ok")
            /\ Logged("back to lobby (peer left)")
            /\ \E i \in 1 .. Len(log) : log[i] = <<"CRC MISMATCH", 320>>)
  /\ UNCHANGED net

\* Ctx.sync: everything that arrived, in the order the clients were created;
\* a client that was closed is closed.
DoSync ==
  /\ At("sync") /\ Quiet
  /\ transcript' = Append(transcript, [frames |-> down, lines |-> log])
  /\ dialed' = {c \in dialed : \A i \in 1 .. Len(down[c]) : down[c][i].type # "EOF"}
  /\ down' = [c \in Clients |-> << >>]
  /\ log' = << >> /\ pc' = pc + 1
  /\ UNCHANGED <<vars, backlog, up, crc, program, failed, ref>>

Finishing == program \in Differential /\ pc > Len(Script)

\* Ctx.finish: the clients are closed one after the other ...
FinishHang ==
  /\ Finishing /\ dialed # {}
  /\ HangUp(CHOOSE c \in dialed : \A d \in dialed : c <= d)
  /\ UNCHANGED <<vars, crc, own>>

\* ... the server is stopped, and compare() goes on with the C port.
Restart ==
  /\ Finishing /\ dialed = {} /\ Quiet /\ setup.impl = "py"
  /\ setup' = [setup EXCEPT !.impl = "c"]
  /\ Boot(open', name', room', byName', order', members', started', work', view',
          published', fails')
  /\ NetBoot(dialed', backlog', up', down', crc')
  /\ ref' = transcript /\ transcript' = << >>
  /\ pc' = 1 /\ log' = << >>
  /\ UNCHANGED <<program, failed>>

\* The relay's log, up to the last sync: what finish() adds depends on whether a
\* client it closes has unread frames.
RelayRuns ==
  /\ RelayStep
  /\ log' = CASE Finishing -> log
               [] program \in Gate -> log \o SelectSeq(Lines, Wanted)
               [] OTHER -> log \o Lines
  /\ UNCHANGED <<program, pc, failed, transcript, ref>>

Ended ==
  \/ failed
  \/ program \in Gate /\ pc > Len(Script)
  \/ Finishing /\ dialed = {} /\ Quiet /\ setup.impl = "c"

Thread ==
  \/ DoDial \/ DoSay \/ DoHang \/ DoExpect \/ DoSkip \/ DoDrain \/ DoStatus
  \/ DoSilent \/ DoNone \/ DoSearch \/ DoSync \/ FinishHang \/ Restart

ScriptNext ==
  \/ Thread \/ RelayRuns
  \/ Ended /\ UNCHANGED allVars

ScriptSpec == ScriptInit /\ [][ScriptNext]_allVars

-----------------------------------------------------------------------------
(* What compare() puts side by side.                                       *)

LogOf(t) == FlattenSeq([i \in 1 .. Len(t) |-> t[i].lines])

\* The records, each frame with its sync and its client, in order; for "limits"
\* as a multiset.
Equal(t, u) ==
  IF program = "limits"
  THEN /\ \A i \in 1 .. Len(t), c \in Clients :
            ToBag(t[i].frames[c]) = ToBag(u[i].frames[c])
       /\ ToBag(LogOf(t)) = ToBag(LogOf(u))
  ELSE /\ \A i \in 1 .. Len(t) : t[i].frames = u[i].frames
       /\ LogOf(t) = LogOf(u)

-----------------------------------------------------------------------------
(* Properties.                                                             *)

\* No assertion of the protocol gate fails and no frame it waits for stays away,
\* with two to four seats, in whatever order the relay serves the connections and
\* however far it lags behind the program, but for one: that on the STARTs of
\* scenario_full's simultaneous JOINs, when there are two of them or more.  It
\* expects the seats and the roster in the order the JOINs were sent, and can
\* fail (bbnet_client_sim.py).
OnlySeatsVary ==
  failed => /\ program = "full" /\ setup.seats > 2
            /\ Script[pc - 1].op = "drain"

\* What the differential records is decided by the scenario alone: the C port's
\* run gives the Python run's transcript and log, up to the last sync
\* (server_diff.py: "Steps are strictly synchronous ... That determinism is what
\* makes an exact diff possible").
SameTranscript ==
  setup.impl = "c" /\ program \in Differential /\ Len(transcript) = Len(ref)
    => Equal(ref, transcript)
=============================================================================
