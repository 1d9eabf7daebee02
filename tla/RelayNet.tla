------------------------------ MODULE RelayNet ------------------------------
(***************************************************************************)
(* The relay and the TCP connections to it.  A client dials, writes        *)
(* requests and hangs up; the relay accepts, takes one request of one      *)
(* connection at a time and writes frames; each direction is a queue.      *)
(* Which of the ready connections the relay serves next is up to the       *)
(* selector: any of them.                                                  *)
(***************************************************************************)
EXTENDS Relay, CrcLog

CONSTANT PerIP  \* MAX_CONNECTIONS_PER_IP: all clients have one address

ASSUME NetAssumption == PerIP \in Nat /\ CrcRows \in Nat \ {0}

VARIABLES
  dialed,     \* the clients whose own end is open
  backlog,    \* connections the relay has not accepted yet
  up,         \* what the relay has not read yet, by client
  down,       \* what the client has not read yet
  crc         \* room.crc and room.crc_ok of each room

net == <<dialed, backlog, up, down>>
netVars == <<vars, net, crc>>

ProtoVer == 2
Hello(n) == [type |-> "HELLO", ver |-> ProtoVer, name |-> n]
JoinReq(n) == [type |-> "JOIN", name |-> n]
Plain(t) == [type |-> t]
\* INPUT, STATE, RESYNC with its payload, and CRC with its fields.
Relayed(k, p) == [type |-> "MATCH", kind |-> k, payload |-> p]
CrcReport(s, t, v) == Relayed("CRC", [seat |-> s, tick |-> t, crc |-> v])

NoCrc == [rows |-> NoReports, ok |-> 0]

NetBoot(d, b, u, dn, cr) ==
  /\ d = {} /\ b = << >>
  /\ u = [c \in Clients |-> << >>] /\ dn = [c \in Clients |-> << >>]
  /\ cr = [r \in Rooms |-> NoCrc]

NetInit == Init /\ NetBoot(dialed, backlog, up, down, crc)

Waiting(c) == \E i \in 1 .. Len(backlog) : backlog[i] = c

-----------------------------------------------------------------------------
(* The clients' ends.                                                      *)

Dial(c) ==
  /\ c \notin dialed \cup open /\ ~Waiting(c)
  /\ dialed' = dialed \cup {c}
  /\ backlog' = Append(backlog, c)
  /\ up' = [up EXCEPT ![c] = << >>]
  /\ down' = [down EXCEPT ![c] = << >>]

\* What is written to a connection the relay has closed is lost.
Say(c, q) ==
  /\ c \in dialed
  /\ up' = [up EXCEPT ![c] = IF c \in open \/ Waiting(c) THEN Append(@, q) ELSE @]
  /\ UNCHANGED <<dialed, backlog, down>>

\* Closing a socket with unread data resets the connection.
HangUp(c) ==
  /\ c \in dialed
  /\ dialed' = dialed \ {c}
  /\ up' = [up EXCEPT ![c] =
              IF c \in open \/ Waiting(c)
              THEN Append(@, Plain(IF down[c] = << >> THEN "EOF" ELSE "RST"))
              ELSE @]
  /\ down' = [down EXCEPT ![c] = << >>]
  /\ UNCHANGED backlog

Take(c) ==
  /\ c \in dialed /\ down[c] # << >>
  /\ down' = [down EXCEPT ![c] = Tail(@)]
  /\ UNCHANGED <<dialed, backlog, up>>

\* Nothing is on its way.
Quiet ==
  /\ Idle /\ backlog = << >>
  /\ \A c \in open : up[c] = << >>

-----------------------------------------------------------------------------
(* The relay's end.                                                        *)

Admits == Cardinality(open) < PerIP

\* accept: over the limit the connection is closed at once.
AcceptNext ==
  /\ Idle /\ backlog # << >>
  /\ LET c == Head(backlog) IN
       IF Admits
       THEN Accept(c) /\ UNCHANGED down
       ELSE down' = [down EXCEPT ![c] = Append(@, Plain("EOF"))] /\ UNCHANGED vars
  /\ backlog' = Tail(backlog)
  /\ UNCHANGED <<dialed, up, crc>>

Who(c) == IF name[c] = None THEN "?" ELSE name[c]
Roster(r) == [i \in 1 .. Len(members[r]) |-> Who(members[r][i])]

\* Why a request costs the connection: end of file, BYE, a protocol error.
Refusal(c, q) ==
  CASE q.type = "HELLO" -> IF q.ver # ProtoVer THEN "protocol version"
                           ELSE IF q.name \notin Names THEN "bad name" ELSE "no"
    [] q.type = "JOIN" -> IF name[c] = None THEN "join before hello" ELSE "no"
    [] q.type = "EOF" -> "closed"
    [] q.type = "RST" -> "recv error"
    [] q.type \in {"BYE", "BAD LENGTH", "UNKNOWN"} -> q.type
    [] OTHER -> "no"

\* Requests that are dropped without a word.
Ignored(c, q) ==
  \/ q.type = "JOIN" /\ room[c] # 0
  \/ q.type = "GO" /\ ~MayGo(c)
  \/ q.type = "MATCH" /\ ~Relays(c)

\* handle
Handle(c, q) ==
  \/ Refusal(c, q) # "no" /\ Close(c, Refusal(c, q))
  \/ /\ Refusal(c, q) = "no"
     /\ \/ q.type = "HELLO" /\ OnHello(c, q.name)
        \/ q.type = "LIST" /\ OnList(c)
        \/ q.type = "JOIN" /\ (Join(c, q.name) \/ JoinRefused(c, q.name))
        \/ q.type = "GO" /\ OnGo(c)
        \/ q.type = "PING" /\ OnPing(c)
        \/ q.type = "MATCH" /\ OnMatchFrame(c, [kind |-> q.kind, payload |-> q.payload])
        \/ Ignored(c, q) /\ UNCHANGED vars

Logs(c, q) == q.type = "MATCH" /\ q.kind = "CRC" /\ Relays(c)

Verdict(c, q) ==
  LogCrc(crc[room[c]].rows, Len(members[room[c]]),
         q.payload.seat, q.payload.tick, q.payload.crc)

\* log_crc: the table, and the rounds that agreed.
CrcLogged(c, q) ==
  LET res == Verdict(c, q)
  IN [crc EXCEPT ![room[c]] =
       [rows |-> res.rows, ok |-> @.ok + (IF res.verdict = "ok" THEN 1 ELSE 0)]]

\* start_room clears the log.
Starting == {r \in Rooms : started'[r] /\ ~started[r]}
CrcCleared == [r \in Rooms |-> IF r \in Starting THEN NoCrc ELSE crc[r]]

\* service: the next request of a connection.
Serve(c) ==
  /\ Idle /\ c \in open /\ up[c] # << >>
  /\ LET q == Head(up[c]) IN
       /\ Handle(c, q)
       /\ crc' = IF Logs(c, q) THEN CrcLogged(c, q) ELSE CrcCleared
  /\ up' = [up EXCEPT ![c] = Tail(@)]
  /\ UNCHANGED <<dialed, backlog, down>>

\* A frame as it goes over the wire: names, not connections.
Wire(f) ==
  LET names(ms) == [i \in 1 .. Len(ms) |-> Who(ms[i])]
  IN CASE f.type = "ROOM" -> [type |-> "ROOM", body |-> names(f.members)]
       [] f.type = "START" -> [type |-> "START",
                               body |-> <<f.seat, names(f.members)>>]
       [] f.type = "PEER_LEFT" -> [type |-> "PEER_LEFT", body |-> <<f.seat, Who(f.who)>>]
       [] f.type = "LOBBY" -> [type |-> "LOBBY", body |-> f.entries]
       [] f.type = "MATCH" -> [type |-> f.body.kind, body |-> f.body.payload]
       [] OTHER -> [type |-> f.type, body |-> << >>]

\* send, on the wire: lost when the client's end is closed by now.
Write ==
  /\ SendFrame
  /\ LET c == Call.to IN
       down' = IF c \in open \cap dialed
               THEN [down EXCEPT ![c] = Append(@, Wire(Call.frame))] ELSE down
  /\ UNCHANGED <<dialed, backlog, up, crc>>

\* The rest of a handler; a drop closes the connection.
Proceed ==
  /\ \/ NextMember \/ HelloDone \/ UpdateLobby \/ AutoStart
     \/ DropSolo \/ DropFromMatch \/ DropFromForming \/ DropReseats
  /\ LET gone == open \ open' IN
       /\ down' = [c \in Clients |->
                    IF c \in gone \cap dialed THEN Append(down[c], Plain("EOF"))
                    ELSE down[c]]
       /\ up' = [c \in Clients |-> IF c \in gone THEN << >> ELSE up[c]]
  /\ crc' = CrcCleared
  /\ UNCHANGED <<dialed, backlog>>

RelayStep == AcceptNext \/ (\E c \in Clients : Serve(c)) \/ Write \/ Proceed

-----------------------------------------------------------------------------
(* What the relay logs.                                                    *)

HelloLines(c, n) ==
  (IF name[c] \in {None, n} THEN << >> ELSE <<<<"rename", name[c], n>>>>)
    \o <<<<"hello", n>>>>

DropLines(c, why) ==
  LET r == room[c]
  IN <<<<"drop", Who(c), why>>>>
       \o IF r = 0 THEN << >>
          ELSE IF started[r]
          THEN <<<<"match ended", crc[r].ok, Who(c), SeatOf(c)>>>>
                 \o [i \in 1 .. Len(Survivors(c)) |->
                      <<"back to lobby (peer left)", Who(Survivors(c)[i])>>]
          ELSE IF SeatOf(c) = 1 THEN <<<<"dissolved (host left)">>>> ELSE << >>

\* A round that disagrees, and every fourth round that agrees.
CrcLines(c, q) ==
  LET res == Verdict(c, q)
      ok == crc[room[c]].ok + 1
  IN CASE res.verdict = "mismatch" -> <<<<"CRC MISMATCH", q.payload.tick>>>>
       [] res.verdict = "ok" /\ ok % 4 = 0 -> <<<<"crc ok", q.payload.tick, ok>>>>
       [] OTHER -> << >>

\* The lines of the step of the relay that is being taken.
Lines ==
  LET served == {c \in open : Idle /\ Len(up'[c]) < Len(up[c])}
      joined == {r \in Rooms : Len(members'[r]) > Len(members[r])}
  IN CASE backlog' # backlog ->
            <<<<IF open' = open THEN "reject" ELSE "connect">>>>
       [] Calls("hello") /\ Len(work') > Len(work) -> HelloLines(Call.client, Call.name)
       [] open' # open -> DropLines(Call.client, Call.why)
       [] Starting # {} -> <<<<"match", Roster(CHOOSE r \in Starting : TRUE)>>>>
       [] joined # {} ->
            LET ms == members'[CHOOSE r \in joined : TRUE]
            IN <<<<"join", [i \in 1 .. Len(ms) |-> Who(ms[i])]>>>>
       [] \E c \in served : Logs(c, Head(up[c])) ->
            LET c == CHOOSE c \in served : TRUE IN CrcLines(c, Head(up[c]))
       [] OTHER -> << >>
=============================================================================
