------------------------------- MODULE Relay -------------------------------
(***************************************************************************)
(* The relay: connections, names, rooms and the frames it fans out         *)
(* (server/intv_relay_server.py, and its C port server/c/src/intv-relay.c).*)
(*                                                                         *)
(* One thread handles one event at a time, but a handler is not a straight *)
(* line: any send can fail, and a failed send drops that client there and  *)
(* then, in the middle of the handler (and of the loop) that was sending.  *)
(* The rest of a handler is therefore kept as a stack of pending calls,    *)
(* `work`; a drop puts its own calls on top.  The next event is only taken *)
(* from the selector when the stack is empty.                              *)
(***************************************************************************)
EXTENDS Integers, Sequences, FiniteSets

CONSTANTS
  Clients,    \* connections
  Names,      \* player names
  None,       \* no name, no client
  Setups      \* the relays and the clients to look at: records of
              \*   impl     "py", or "c" for the port, whose loops over a room's
              \*            members run over a copy of the list
              \*   seats    MAX_SEATS: members of a full room
              \*   autoGo   --auto-go: start a room at this size (0: only on GO)
              \*   rename   clients repeat HELLO
              \*   maxFail  bound on the sends that fail

ASSUME RelayAssumption ==
  /\ IsFiniteSet(Clients) /\ None \notin Clients /\ None \notin Names
  /\ Setups \subseteq [impl : {"py", "c"}, seats : Nat \ {0, 1}, autoGo : Nat,
                       rename : BOOLEAN, maxFail : Nat]

\* Room slots: MAX_ROOMS is half of MAX_CLIENTS.
Rooms == 1 .. Cardinality(Clients) \div 2

\* on_list: entries in a LOBBY frame.
LobbyMax == 8

VARIABLES
  setup,      \* the relay that is running
  open,       \* the clients that are connected and not dead
  name,       \* client.name
  room,       \* client.room, 0 when solo
  byName,     \* by_name
  order,      \* the names of by_name, in the order of their insertion
  members,    \* room.members, in seat order; empty: the room does not exist
  started,    \* room.started
  work,       \* the pending calls of the handler that is running
  view,       \* what each client was told of its room, by the frames sent to it
  published,  \* the player count last handed to the Lobby publisher
  fails       \* history: sends that failed

tables == <<setup, open, name, room, byName, order, members, started>>
vars == <<tables, work, view, published, fails>>

-----------------------------------------------------------------------------
(* Frames and pending calls.                                               *)

\* What stays of a list: the entries at the positions in kept.  (SelectSeq is
\* recursive, and TLAPS has no facts about it.)
Pick(list, kept) ==
  [k \in 1 .. Cardinality(kept) |->
    list[CHOOSE i \in kept : Cardinality({j \in kept : j <= i}) = k]]

RoomFrame(ms) == [type |-> "ROOM", members |-> ms]
StartFrame(s, ms) == [type |-> "START", seat |-> s, members |-> ms]
PeerLeftFrame(s, c) == [type |-> "PEER_LEFT", seat |-> s, who |-> c]
PongFrame == [type |-> "PONG"]
\* INPUT, CRC, STATE or RESYNC: fanned out as it came.
MatchFrame(c, b) == [type |-> "MATCH", from |-> c, body |-> b]

\* client.seat, counted from 1.
SeatOf(c) == CHOOSE i \in 1 .. Len(members[room[c]]) : members[room[c]][i] = c

\* _status: how many are in c's room, and whether it can be joined.
Status(c) ==
  IF room[c] = 0 THEN [size |-> 1, busy |-> FALSE]
  ELSE LET n == Len(members[room[c]])
       IN [size |-> n, busy |-> started[room[c]] \/ n >= setup.seats]

\* on_list: everyone else, in the order they registered.
LobbyFrame(c) ==
  LET others == Pick(order, {i \in 1 .. Len(order) : byName[order[i]] # c})
      shown == IF Len(others) <= LobbyMax THEN others
               ELSE SubSeq(others, 1, LobbyMax)
  IN [type |-> "LOBBY",
      entries |-> [i \in 1 .. Len(shown) |->
                    [name |-> shown[i], status |-> Status(byName[shown[i]])]]]

Send(c, f) == [op |-> "send", to |-> c, frame |-> f]
Drop(c, why) == [op |-> "drop", client |-> c, why |-> why]
\* A loop over the live members of room r, at index i: frame fs[i] to the i-th
\* member, nothing to the client skip.
Loop(r, i, fs, skip) ==
  [op |-> "loop", room |-> r, at |-> i, frames |-> fs, skip |-> skip]
FinishHello(c, n) == [op |-> "hello", client |-> c, name |-> n]
LobbyUpdate == [op |-> "lobby"]
TryAutoGo(r) == [op |-> "autogo", room |-> r]

Idle == work = << >>
Call == Head(work)
Calls(op) == work # << >> /\ Call.op = op
Return == work' = Tail(work)
ThenReturn(calls) == work' = calls \o Tail(work)

\* What a client makes of a frame.
Solo == [started |-> FALSE, seat |-> 0, members |-> << >>]
Told(v, f) ==
  CASE f.type = "ROOM" -> [Solo EXCEPT !.members = f.members]
    [] f.type = "START" -> [started |-> TRUE, seat |-> f.seat,
                            members |-> f.members]
    [] f.type = "PEER_LEFT" -> Solo
    [] OTHER -> v

\* Slip: always a copy of the list.
Copied_Fanout(r, ms, fs, skip) ==
  Pick([i \in 1 .. Len(ms) |-> Send(ms[i], fs[i])],
       {i \in 1 .. Len(ms) : ms[i] # skip})

\* Send fs[i] to ms[i], the i-th member of room r, except to the client skip.
Fanout(r, ms, fs, skip) ==
  IF setup.impl = "c"
  THEN Pick([i \in 1 .. Len(ms) |-> Send(ms[i], fs[i])],
            {i \in 1 .. Len(ms) : ms[i] # skip})
  ELSE <<Loop(r, 1, fs, skip)>>

\* room_broadcast
RoomBroadcast(r, ms) ==
  Fanout(r, ms, [i \in 1 .. Len(ms) |-> RoomFrame(ms)], None)

\* Slip: seats numbered past the end of the roster.
Shifted_StartSends(r) ==
  LET ms == members[r]
  IN Fanout(r, ms, [i \in 1 .. Len(ms) |-> StartFrame(i + setup.seats, ms)], None)

\* The sends of start_room.
StartSends(r) ==
  LET ms == members[r]
  IN Fanout(r, ms, [i \in 1 .. Len(ms) |-> StartFrame(i, ms)], None)

-----------------------------------------------------------------------------

\* Server.__init__: the tables of a relay that has just been started.
Boot(o, nm, rm, bn, od, ms, st, w, v, p, f) ==
  /\ o = {} /\ nm = [c \in Clients |-> None] /\ rm = [c \in Clients |-> 0]
  /\ bn = [n \in Names |-> None] /\ od = << >>
  /\ ms = [r \in Rooms |-> << >>] /\ st = [r \in Rooms |-> FALSE]
  /\ w = << >> /\ v = [c \in Clients |-> Solo] /\ p = 0 /\ f = 0

Init ==
  /\ setup \in Setups
  /\ Boot(open, name, room, byName, order, members, started, work, view,
          published, fails)

-----------------------------------------------------------------------------
(* Events: one is taken when the handler of the last one has returned.     *)

Accept(c) ==
  /\ Idle /\ c \notin open
  /\ open' = open \cup {c}
  /\ name' = [name EXCEPT ![c] = None]
  /\ room' = [room EXCEPT ![c] = 0]
  /\ view' = [view EXCEPT ![c] = Solo]
  /\ UNCHANGED <<setup, byName, order, members, started, work, published, fails>>

\* The connection ends: closed or reset, BYE, a frame that is a protocol
\* error, a flush that fails, or no HELLO in time.
Close(c, why) ==
  /\ Idle /\ c \in open
  /\ work' = <<Drop(c, why)>>
  /\ UNCHANGED <<tables, view, published, fails>>

\* on_hello, first half: who holds the name is dropped.
OnHello(c, n) ==
  /\ Idle /\ c \in open /\ (name[c] = None \/ setup.rename)
  /\ work' = (IF byName[n] \in {None, c} THEN << >> ELSE <<Drop(byName[n], "replaced")>>)
               \o <<FinishHello(c, n)>>
  /\ UNCHANGED <<tables, view, published, fails>>

\* on_list
OnList(c) ==
  /\ Idle /\ c \in open
  /\ work' = <<Send(c, LobbyFrame(c))>>
  /\ UNCHANGED <<tables, view, published, fails>>

\* The target is there, and its room, if any, is forming and not full.
Joinable(c, target) ==
  /\ target \notin {None, c}
  /\ room[target] # 0 =>
       ~started[room[target]] /\ Len(members[room[target]]) < setup.seats

\* on_join: refused, with a fresh list ...
JoinRefused(c, n) ==
  /\ Idle /\ c \in open /\ name[c] # None /\ room[c] = 0
  /\ ~Joinable(c, byName[n])
  /\ work' = <<Send(c, LobbyFrame(c))>>
  /\ UNCHANGED <<tables, view, published, fails>>

FreeRoom == CHOOSE r \in Rooms : members[r] = << >>

\* ... or into the target's room, which a solo target now hosts.
Join(c, n) ==
  /\ Idle /\ c \in open /\ name[c] # None /\ room[c] = 0
  /\ Joinable(c, byName[n])
  /\ LET target == byName[n]
         fresh == room[target] = 0
         r == IF fresh THEN FreeRoom ELSE room[target]
         ms == IF fresh THEN <<target, c>> ELSE Append(members[r], c)
     IN /\ members' = [members EXCEPT ![r] = ms]
        /\ started' = [started EXCEPT ![r] = @ /\ ~fresh]
        /\ room' = [room EXCEPT ![target] = r, ![c] = r]
        /\ work' = RoomBroadcast(r, ms) \o <<LobbyUpdate, TryAutoGo(r)>>
  /\ UNCHANGED <<setup, open, name, byName, order, view, published, fails>>

\* The host of a forming room that is large enough.
MayGo(c) ==
  LET r == room[c]
  IN r # 0 /\ ~started[r] /\ SeatOf(c) = 1 /\ Len(members[r]) \in 2 .. setup.seats

\* on_go
OnGo(c) ==
  /\ Idle /\ c \in open /\ MayGo(c)
  /\ started' = [started EXCEPT ![room[c]] = TRUE]
  /\ work' = StartSends(room[c]) \o <<LobbyUpdate>>
  /\ UNCHANGED <<setup, open, name, room, byName, order, members, view,
                 published, fails>>

\* Slip: a forming room relays too.
Forming_Relays(c) == room[c] # 0

Relays(c) == room[c] # 0 /\ started[room[c]]

\* INPUT, CRC, STATE, RESYNC: to the other members of a started room.
OnMatchFrame(c, b) ==
  /\ Idle /\ c \in open /\ Relays(c)
  /\ LET ms == members[room[c]]
     IN work' = Fanout(room[c], ms, [i \in 1 .. Len(ms) |-> MatchFrame(c, b)], c)
  /\ UNCHANGED <<tables, view, published, fails>>

\* PING
OnPing(c) ==
  /\ Idle /\ c \in open
  /\ work' = <<Send(c, PongFrame)>>
  /\ UNCHANGED <<tables, view, published, fails>>

-----------------------------------------------------------------------------
(* The calls of a handler.                                                 *)

\* send: nothing is sent to a client that is dead by now.
SendFrame ==
  /\ Calls("send") /\ Return
  /\ view' = IF Call.to \in open
             THEN [view EXCEPT ![Call.to] = Told(@, Call.frame)] ELSE view
  /\ UNCHANGED <<tables, published, fails>>

\* send, flush: the backlog is full or the socket fails.
SendFails ==
  /\ Calls("send") /\ Call.to \in open /\ fails < setup.maxFail
  /\ ThenReturn(<<Drop(Call.to, "send error")>>)
  /\ fails' = fails + 1
  /\ UNCHANGED <<tables, view, published>>

\* One round of a loop over the live list of members.
NextMember ==
  /\ Calls("loop")
  /\ LET ms == members[Call.room] IN
       IF Call.at > Len(ms)
       THEN Return
       ELSE ThenReturn(
              (IF ms[Call.at] = Call.skip THEN << >>
               ELSE <<Send(ms[Call.at], Call.frames[Call.at])>>)
              \o <<[Call EXCEPT !.at = @ + 1]>>)
  /\ UNCHANGED <<tables, view, published, fails>>

\* Slip: the old alias stays.
Alias_Registered(c, n) == [byName EXCEPT ![n] = c]

Registered(c, n) ==
  [m \in Names |->
    IF m = n THEN c
    ELSE IF byName[m] = c /\ m = name[c] THEN None ELSE byName[m]]

\* The place of a name is kept by a HELLO that repeats it.
Reordered(c, n) ==
  LET stays(m) == m = n \/ m # name[c] \/ byName[m] # c
      kept == Pick(order, {i \in 1 .. Len(order) : stays(order[i])})
  IN IF byName[n] = None THEN Append(kept, n) ELSE kept

\* on_hello, second half: the old alias goes, the name is registered.  The C
\* port returns when the client has died meanwhile.
HelloDone ==
  /\ Calls("hello")
  /\ LET c == Call.client
         n == Call.name
     IN IF setup.impl = "c" /\ c \notin open
        THEN Return /\ UNCHANGED <<name, byName, order>>
        ELSE /\ name' = [name EXCEPT ![c] = n]
             /\ byName' = Registered(c, n)
             /\ order' = Reordered(c, n)
             /\ ThenReturn(<<LobbyUpdate, Send(c, LobbyFrame(c))>>)
  /\ UNCHANGED <<setup, open, room, members, started, view, published, fails>>

\* lobby_update
UpdateLobby ==
  /\ Calls("lobby") /\ Return
  /\ published' = Cardinality({n \in Names : byName[n] # None})
  /\ UNCHANGED <<tables, view, fails>>

\* The end of on_join, with --auto-go.
AutoStart ==
  /\ Calls("autogo")
  /\ LET r == Call.room IN
       IF setup.autoGo > 0 /\ Len(members[r]) >= setup.autoGo
       THEN /\ started' = [started EXCEPT ![r] = TRUE]
            /\ ThenReturn(StartSends(r) \o <<LobbyUpdate>>)
       ELSE Return /\ UNCHANGED started
  /\ UNCHANGED <<setup, open, name, room, byName, order, members, view,
                 published, fails>>

Survivors(c) ==
  LET ms == members[room[c]] IN Pick(ms, {i \in 1 .. Len(ms) : ms[i] # c})

\* Slip: the count is only published when a room changes.
NoUpdate_UpdateIfNamed(c) == << >>

\* Only a client that had a name changes the count.
UpdateIfNamed(c) ==
  IF \E n \in Names : byName[n] = c THEN <<LobbyUpdate>> ELSE << >>

\* drop, up to the room: dead from here on, no alias left.
Forget(c) ==
  /\ open' = open \ {c}
  /\ byName' = [n \in Names |-> IF byName[n] = c THEN None ELSE byName[n]]
  /\ order' = Pick(order, {i \in 1 .. Len(order) : byName[order[i]] # c})

SendAll(ms, f) == [i \in 1 .. Len(ms) |-> Send(ms[i], f)]

\* dissolve: every member is solo before anyone is told.
Dissolve(r) ==
  /\ room' = [c \in Clients |-> IF room[c] = r THEN 0 ELSE room[c]]
  /\ members' = [members EXCEPT ![r] = << >>]

\* A client in no room; a dead one is left alone.
DropSolo ==
  /\ Calls("drop") /\ room[Call.client] = 0
  /\ IF Call.client \in open
     THEN Forget(Call.client) /\ ThenReturn(UpdateIfNamed(Call.client))
     ELSE Return /\ UNCHANGED <<open, byName, order>>
  /\ UNCHANGED <<setup, name, room, members, started, view, published, fails>>

\* Any drop ends a started match for everyone.
DropFromMatch ==
  /\ Calls("drop") /\ room[Call.client] # 0
  /\ LET c == Call.client
         r == room[c]
     IN /\ started[r]
        /\ Forget(c) /\ Dissolve(r)
        /\ ThenReturn(UpdateIfNamed(c)
                        \o SendAll(Survivors(c), PeerLeftFrame(SeatOf(c), c))
                        \o <<LobbyUpdate>>)
  /\ UNCHANGED <<setup, name, started, view, published, fails>>

\* Slip: a room of one is kept.
Lonely_FormingEnds(c) == members[room[c]][1] = c

\* The host left, or only one member stays.
FormingEnds(c) == members[room[c]][1] = c \/ Len(Survivors(c)) < 2

DropFromForming ==
  /\ Calls("drop") /\ room[Call.client] # 0
  /\ LET c == Call.client
         r == room[c]
     IN /\ ~started[r] /\ FormingEnds(c)
        /\ Forget(c) /\ Dissolve(r)
        /\ ThenReturn(UpdateIfNamed(c) \o SendAll(Survivors(c), RoomFrame(<< >>))
                        \o <<LobbyUpdate>>)
  /\ UNCHANGED <<setup, name, started, view, published, fails>>

\* A guest left a forming room that goes on: the others are reseated.
DropReseats ==
  /\ Calls("drop") /\ room[Call.client] # 0
  /\ LET c == Call.client
         r == room[c]
     IN /\ ~started[r] /\ ~FormingEnds(c)
        /\ Forget(c)
        /\ room' = [room EXCEPT ![c] = 0]
        /\ members' = [members EXCEPT ![r] = Survivors(c)]
        /\ ThenReturn(UpdateIfNamed(c) \o RoomBroadcast(r, Survivors(c))
                        \o <<LobbyUpdate>>)
  /\ UNCHANGED <<setup, name, started, view, published, fails>>

-----------------------------------------------------------------------------

Event ==
  \E c \in Clients :
    \/ Accept(c) \/ Close(c, "closed") \/ OnList(c) \/ OnPing(c) \/ OnGo(c)
    \/ OnMatchFrame(c, None)
    \/ \E n \in Names : OnHello(c, n) \/ JoinRefused(c, n) \/ Join(c, n)

Handler ==
  \/ SendFrame \/ SendFails \/ NextMember \/ HelloDone \/ UpdateLobby
  \/ AutoStart \/ DropSolo \/ DropFromMatch \/ DropFromForming \/ DropReseats

Next == Event \/ Handler

Spec == Init /\ [][Next]_vars

-----------------------------------------------------------------------------
(* Properties.                                                             *)

\* Types of the relay's tables.
TypeOK ==
  /\ open \subseteq Clients
  /\ name \in [Clients -> Names \cup {None}]
  /\ room \in [Clients -> Rooms \cup {0}]
  /\ byName \in [Names -> Clients \cup {None}]
  /\ order \in Seq(Names)
  /\ members \in [Rooms -> Seq(Clients)]
  /\ started \in [Rooms -> BOOLEAN]
  /\ setup \in Setups
  /\ \A i \in 1 .. Len(work) :
       work[i].op \in {"send", "drop", "loop", "hello", "lobby", "autogo"}
  /\ view \in [Clients -> [started : BOOLEAN, seat : 0 .. setup.seats,
                           members : Seq(Clients)]]
  /\ published \in Nat
  /\ fails \in 0 .. setup.maxFail

\* Between two events every room is whole: 2 to seats distinct, connected,
\* named members that all know it as theirs, and nobody else does.  (A room
\* slot is then always free for a JOIN: room_alloc's "unreachable".)
RoomsWhole ==
  Idle =>
    /\ \A r \in Rooms : members[r] # << >> =>
         /\ Len(members[r]) \in 2 .. setup.seats
         /\ \A i, j \in 1 .. Len(members[r]) :
              members[r][i] = members[r][j] => i = j
         /\ \A i \in 1 .. Len(members[r]) :
              /\ members[r][i] \in open /\ name[members[r][i]] # None
              /\ room[members[r][i]] = r
    /\ \A c \in open : room[c] # 0 =>
         \E i \in 1 .. Len(members[room[c]]) : members[room[c]][i] = c

\* by_name holds exactly the connected clients that said HELLO, each under its
\* name and listed once, however a handler was cut short (on_hello, drop).
NamesLive ==
  /\ \A n \in Names : byName[n] # None => byName[n] \in open /\ name[byName[n]] = n
  /\ \A c \in open : name[c] # None => byName[name[c]] = c
  /\ {order[i] : i \in 1 .. Len(order)} = {n \in Names : byName[n] # None}
  /\ \A i, j \in 1 .. Len(order) : order[i] = order[j] => i = j

\* What a client was told last is what the relay believes: solo, in a forming
\* room with these members, or in a match at this seat.  A send that fails in
\* the middle of a broadcast, or of the STARTs, leaves no one with another
\* picture (room_broadcast, start_room, dissolve, drop).
Believed(c) ==
  IF room[c] = 0 THEN Solo
  ELSE LET ms == members[room[c]]
           live == started[room[c]]
       IN [started |-> live, members |-> ms,
           seat |-> IF live THEN SeatOf(c) ELSE 0]

ViewAgrees == Idle => \A c \in open : view[c] = Believed(c)

\* A match frame only reaches a client that was told of the match with its
\* sender, and not after it was told that the match is over (handle).
NoStrayFrame ==
  Calls("send") /\ Call.to \in open /\ Call.frame.type = "MATCH" =>
    /\ view[Call.to].started
    /\ \E i \in 1 .. Len(view[Call.to].members) :
         view[Call.to].members[i] = Call.frame.from

\* The player count that was published last is the number of names.
CountPublished ==
  Idle => published = Cardinality({n \in Names : byName[n] # None})
=============================================================================
