------------------------------ MODULE Session ------------------------------
(***************************************************************************)
(* Consoles that meet through the relay: boot, lobby, waiting room, START, *)
(* and the end of the match (src/netcode/session.asm, SES_MAIN, SES_PUMP,  *)
(* SES_ONFRAME), over the connections of RelayNet.  What happens inside a  *)
(* match is Netplay's subject.                                             *)
(*                                                                         *)
(* A console is known by its player's name.  A test rig (AUTO_JOIN, with   *)
(* the relay's --auto-go) joins by itself; otherwise a player presses      *)
(* ENTER.  A console that is reset comes back on a new connection; whether *)
(* the old one is closed or just goes silent is up to its network adapter. *)
(***************************************************************************)
EXTENDS RelayNet

CONSTANTS
  Resettable, \* the players whose console may be reset
  MaxReset,   \* bound on the resets
  MaxAhead    \* bound on a console's requests and unread frames

ASSUME SessionAssumption ==
  /\ Resettable \subseteq Names /\ Clients \subseteq Nat
  /\ MaxReset \in Nat /\ MaxAhead \in Nat \ {0}

VARIABLES
  con,        \* the console of each player
  conn,       \* its connection
  resets      \* history: how often a console was reset

sesVars == <<netVars, con, conn, resets>>

Consoles == Names
Rig == setup.autoGo > 0

\* NET_ACTIVE, NET_DROPPED, ROOM_CNT, ROOM_HOST, NET_SEAT, NAME_TBL and
\* LOBBY_CACHE of a console that has just been switched on.
Cold == [active |-> FALSE, dropped |-> FALSE, cnt |-> 0, host |-> FALSE,
         seat |-> 0, roster |-> << >>, cache |-> << >>]

SesInit ==
  /\ NetInit
  /\ con = [k \in Consoles |-> Cold]
  /\ conn = [k \in Consoles |-> None]
  /\ resets = 0

\* Nothing of the relay changes in a console's step.
AtConsole == UNCHANGED <<vars, crc>>

On(k) == conn[k] # None
InLobby(k) == On(k) /\ ~con[k].active
Roomy(k) == Len(up[conn[k]]) + Len(down[conn[k]]) < MaxAhead

-----------------------------------------------------------------------------

\* NET_OPEN and HELLO, in one go: nobody reads the one without the other.
PowerOn(k) ==
  /\ ~On(k)
  /\ \E c \in Clients :
       /\ c \notin dialed \cup open /\ ~Waiting(c)
       /\ \A d \in Clients : d < c => d \in dialed \cup open \/ Waiting(d)
       /\ dialed' = dialed \cup {c} /\ backlog' = Append(backlog, c)
       /\ up' = [up EXCEPT ![c] = <<Hello(k)>>]
       /\ down' = [down EXCEPT ![c] = << >>]
       /\ conn' = [conn EXCEPT ![k] = c]
  /\ con' = [con EXCEPT ![k] = Cold]
  /\ AtConsole /\ UNCHANGED resets

\* Bound: with players, a console is reset in a room or a match; in the lobby,
\* where the relay's --auto-go makes no difference, with a rig.
Resets(k) ==
  k \in Resettable /\ resets < MaxReset /\ (Rig \/ con[k].cnt >= 2)

Reset(k) ==
  /\ Idle /\ On(k) /\ Resets(k)
  /\ resets' = resets + 1
  /\ conn' = [conn EXCEPT ![k] = None]
  /\ con' = [con EXCEPT ![k] = Cold]
  /\ \/ HangUp(conn[k])
     \/ /\ dialed' = dialed \ {conn[k]}
        /\ down' = [down EXCEPT ![conn[k]] = << >>]
        /\ UNCHANGED <<backlog, up>>
  /\ AtConsole

\* Slip: a ROOM of less than two members is no news.
Deaf_OnFrame(k, s, f) ==
  CASE f.type = "LOBBY" -> IF s.active THEN s ELSE [s EXCEPT !.cache = f.body]
    [] f.type = "ROOM" ->
         IF s.active \/ Len(f.body) < 2 THEN s
         ELSE [s EXCEPT !.cnt = Len(f.body), !.roster = f.body,
                        !.host = f.body[1] = k]
    [] f.type = "START" ->
         [s EXCEPT !.active = TRUE, !.seat = f.body[1], !.roster = f.body[2]]
    [] f.type = "PEER_LEFT" -> [s EXCEPT !.dropped = TRUE]
    [] OTHER -> s

\* SES_ONFRAME
OnFrame(k, s, f) ==
  CASE f.type = "LOBBY" -> IF s.active THEN s ELSE [s EXCEPT !.cache = f.body]
    [] f.type = "ROOM" ->
         IF s.active THEN s
         ELSE IF Len(f.body) < 2 THEN [s EXCEPT !.cnt = 0, !.host = FALSE]
         ELSE [s EXCEPT !.cnt = Len(f.body), !.roster = f.body,
                        !.host = f.body[1] = k]
    [] f.type = "START" ->
         [s EXCEPT !.active = TRUE, !.seat = f.body[1], !.roster = f.body[2]]
    [] f.type = "PEER_LEFT" -> [s EXCEPT !.dropped = TRUE]
    [] OTHER -> s

\* SES_PUMP: a closed connection looks like one with nothing to read.
Pump(k) ==
  /\ On(k) /\ down[conn[k]] # << >> /\ Head(down[conn[k]]).type # "EOF"
  /\ Take(conn[k])
  /\ con' = [con EXCEPT ![k] = OnFrame(k, @, Head(down[conn[k]]))]
  /\ AtConsole /\ UNCHANGED <<conn, resets>>

Ask(k, q) == Idle /\ Say(conn[k], q) /\ AtConsole /\ UNCHANGED <<con, conn, resets>>

\* @@ses_join: ENTER in a room is the host's GO ...
EnterGo(k) ==
  /\ InLobby(k) /\ ~Rig /\ Roomy(k)
  /\ con[k].cnt >= 2 /\ con[k].host
  /\ Ask(k, Plain("GO"))

\* ... and in the lobby a JOIN, unless the list says the player is busy.
EnterJoin(k) ==
  /\ InLobby(k) /\ ~Rig /\ Roomy(k) /\ con[k].cnt < 2
  /\ \E i \in 1 .. Len(con[k].cache) :
       /\ ~con[k].cache[i].status.busy
       /\ Ask(k, JoinReq(con[k].cache[i].name))

\* Slip: the scan starts at the second entry.
Second_Joinables(k) ==
  {i \in 2 .. Len(con[k].cache) : ~con[k].cache[i].status.busy}

Joinables(k) == {i \in 1 .. Len(con[k].cache) : ~con[k].cache[i].status.busy}

\* @@ses_pace: every 256 rounds a rig joins the first player it can, in place
\* of asking for the list.
Pace(k) ==
  /\ InLobby(k) /\ Roomy(k)
  /\ IF Rig /\ con[k].cnt < 2 /\ Joinables(k) # {}
     THEN LET i == CHOOSE i \in Joinables(k) : \A j \in Joinables(k) : i <= j
          IN Ask(k, JoinReq(con[k].cache[i].name))
     ELSE Ask(k, Plain("LIST"))

\* A console that still plays is at the other end of the connection.
Playing(c) == \E j \in Consoles : conn[j] = c /\ ~con[j].dropped

Alone(k) ==
  LET c == conn[k]
  IN \/ c \notin open \/ room[c] = 0
     \/ \E d \in Clients : room[d] = room[c] /\ ~Playing(d)

\* In a match: the peer's inputs stay away for the gate's timeout.
GiveUp(k) ==
  /\ On(k) /\ con[k].active /\ ~con[k].dropped /\ Alone(k)
  /\ con' = [con EXCEPT ![k].dropped = TRUE]
  /\ AtConsole /\ UNCHANGED <<net, conn, resets>>

AtRelay == UNCHANGED <<con, conn, resets>>

RelayRuns == RelayStep /\ AtRelay

ConsoleStep(k) ==
  \/ PowerOn(k) \/ Reset(k) \/ Pump(k) \/ EnterGo(k) \/ EnterJoin(k) \/ Pace(k)
  \/ GiveUp(k)

SesNext == RelayRuns \/ \E k \in Consoles : ConsoleStep(k)

\* The relay's loop and each console's lobby loop go on running; the selector
\* reports every connection that has something to read (and the listener), so
\* none is passed over for ever.  Strong fairness for the consoles, because
\* AtConsole closes the door to them while a handler runs.
SesSpec ==
  /\ SesInit /\ [][SesNext]_sesVars
  /\ WF_sesVars(RelayRuns)
  /\ SF_sesVars(AcceptNext /\ AtRelay)
  /\ \A c \in Clients : SF_sesVars(Serve(c) /\ AtRelay)
  /\ \A k \in Consoles : /\ WF_sesVars(PowerOn(k)) /\ WF_sesVars(Pump(k))
                         /\ SF_sesVars(Pace(k)) /\ WF_sesVars(GiveUp(k))

-----------------------------------------------------------------------------
(* Properties.                                                             *)

\* The console has read everything the relay has to say to it.
Drained(k) ==
  /\ On(k) /\ Idle /\ conn[k] \in open /\ byName[k] = conn[k]
  /\ down[conn[k]] = << >>

\* A console that has read its frames shows what the relay believes of it, be
\* it alone, in a waiting room (with this roster, as its host or not), or in a
\* match at this seat; whatever joins crossed, and whoever was reset meanwhile
\* (SES_ONFRAME, on_join, drop).
ScreenTruth ==
  \A k \in Consoles : Drained(k) /\ ~con[k].dropped =>
    LET c == conn[k]
        r == room[c]
    IN IF r = 0 THEN ~con[k].active /\ con[k].cnt = 0
       ELSE /\ con[k].active = started[r] /\ con[k].roster = Roster(r)
            /\ IF started[r] THEN con[k].seat = SeatOf(c)
               ELSE con[k].cnt = Len(members[r]) /\ con[k].host = (SeatOf(c) = 1)

\* All consoles play one match, each at a seat of its own.
Met ==
  /\ \A k \in Consoles : con[k].active /\ room[conn[k]] # 0
  /\ \A j, k \in Consoles :
       room[conn[j]] = room[conn[k]] /\ (j # k => con[j].seat # con[k].seat)

\* Parked at PRESS RESET, or in the lobby of a connection that is no more: the
\* replaced one of two with one name, of which a console hears nothing.
Stranded(k) ==
  On(k) /\ (con[k].dropped \/ (conn[k] \notin open /\ ~Waiting(conn[k])))

\* Rig consoles that are switched on end up in a match with each other, for good;
\* only after a reset may one be stranded instead (the AUTO_JOIN loop of
\* SES_MAIN, on_join with crossed JOINs, --auto-go).
RigMeets ==
  <>[](Rig => Met \/ (resets > 0 /\ \E k \in Consoles : Stranded(k)))
=============================================================================
