-------------------------- MODULE RelayViewProofs --------------------------
(* What the relay's clients are told agrees with its tables: theorems that *)
(* rest on RelayProofs.                                                    *)
EXTENDS RelayProofs

\* Sends do not fail, or the relay is the Python one with the two seats it has,
\* and no client repeats HELLO.  (The port, and a larger room, broadcast a
\* roster that a failing send has made stale.)
InStep ==
  \A s \in Setups :
    s.maxFail = 0 \/ (s.impl = "py" /\ s.seats = 2 /\ ~s.rename)

-----------------------------------------------------------------------------
(* The inductive invariant.                                                *)

RoomTypes == {"ROOM", "START", "PEER_LEFT"}

\* Call k tells client c frame f, when the members of the rooms are mb.
Tells(k, c, f, mb) ==
  \/ k.op = "send" /\ k.to = c /\ k.frame = f
  \/ /\ k.op = "loop" /\ c # k.skip
     /\ \E i \in 1 .. Len(mb[k.room]) :
          i >= k.at /\ mb[k.room][i] = c /\ k.frames[i] = f

\* Believed, and its seat, as functions of the tables.
Seat(ms, c) == CHOOSE i \in 1 .. Len(ms) : ms[i] = c
Belief(c, r, ms, live) ==
  IF r = 0 THEN Solo
  ELSE [started |-> live, members |-> ms, seat |-> IF live THEN Seat(ms, c) ELSE 0]
Now(c) == Belief(c, room[c], members[room[c]], started[room[c]])

\* What a client is about to be told of its room is what the relay believes.
Right ==
  \A c \in open, k \in Elems(work) : \A f :
    Tells(k, c, f, members) /\ f.type \in RoomTypes => Told(Solo, f) = Now(c)

\* A client knows, is about to be told, or is about to be dropped.
Due ==
  \A c \in open :
    \/ view[c] = Now(c)
    \/ \E k \in Elems(work) : \E f : Tells(k, c, f, members) /\ f.type \in RoomTypes
    \/ \E k \in Elems(work) : k.op = "drop" /\ k.client = c

\* A match frame is about to reach a client of the same match, and nothing
\* about rooms is.
MatchOnly ==
  \A c \in open, k \in Elems(work) : \A f :
    Tells(k, c, f, members) /\ f.type = "MATCH" =>
      /\ room[c] # 0 /\ started[room[c]] /\ f.from \in Elems(members[room[c]])
      /\ \A j \in Elems(work) : \A g : Tells(j, c, g, members) => g.type \notin RoomTypes

\* A call below the top of the stack: not a drop, and if sends can fail, nothing
\* about a room to a client that is in one.
Below(k, mf, o, rm) ==
  /\ k.op # "drop"
  /\ mf # 0 /\ k.op = "send" /\ k.to \in o =>
       /\ k.frame.type # "MATCH"
       /\ k.frame.type \in RoomTypes => rm[k.to] = 0

OnTop ==
  work # << >> =>
    /\ \A k \in Elems(Tail(work)) : Below(k, setup.maxFail, open, room)
    /\ setup.maxFail = 0 /\ Head(work).op = "drop" =>
         \A k \in Elems(Tail(work)) : k.op = "hello"

StackInv == OnTop /\ Bottom(work, "autogo")
ToldInv == Right /\ Due /\ MatchOnly

ViewInv == Inv /\ StackInv /\ ToldInv

-----------------------------------------------------------------------------
(* Operators.                                                              *)

LEMMA NowIsBelieved == \A c : Believed(c) = Now(c)
  BY DEF Believed, Now, Belief, SeatOf, Seat

LEMMA SeatValue ==
  ASSUME NEW ms, Distinct(ms), NEW i \in 1 .. Len(ms)
  PROVE  Seat(ms, ms[i]) = i
<1>1. \E j \in 1 .. Len(ms) : ms[j] = ms[i]
  OBVIOUS
<1>2. Seat(ms, ms[i]) \in 1 .. Len(ms) /\ ms[Seat(ms, ms[i])] = ms[i]
  BY <1>1 DEF Seat
<1> QED
  BY <1>2 DEF Distinct

\* A frame about a room replaces what was known before.
LEMMA ToldAfresh ==
  ASSUME NEW v, NEW f
  PROVE  /\ f.type \in RoomTypes => Told(v, f) = Told(Solo, f)
         /\ f.type \notin RoomTypes => Told(v, f) = v
  BY DEF Told, RoomTypes

LEMMA HeadOfConcat ==
  ASSUME NEW S, NEW p \in Seq(S), p # << >>, NEW t \in Seq(S)
  PROVE  /\ Head(p \o t) = Head(p) /\ Head(p) \in Elems(p)
         /\ Elems(Tail(p \o t)) = Elems(Tail(p)) \cup Elems(t)
         /\ Elems(Tail(p)) \subseteq Elems(p)
<1> DEFINE w == p \o t
           pt == Tail(p)
<1>1. /\ Len(p) \in Nat \ {0} /\ Head(p) = p[1] /\ Elems(p) = {Head(p)} \cup Elems(pt)
      /\ pt \in Seq(S) /\ Len(pt) = Len(p) - 1
      /\ \A i \in 1 .. Len(pt) : pt[i] = p[i + 1]
  BY ElemsTail, EmptySeq, HeadTailProperties
<1>2. /\ w \in Seq(S) /\ Len(w) = Len(p) + Len(t) /\ Len(t) \in Nat
      /\ \A i \in 1 .. Len(p) + Len(t) : w[i] = IF i <= Len(p) THEN p[i] ELSE t[i - Len(p)]
  BY ConcatProperties
<1>3. w # << >>
  BY <1>1, <1>2, EmptySeq
<1> HIDE DEF w, pt
<1>4. /\ Head(w) = w[1] /\ Tail(w) \in Seq(S) /\ Len(Tail(w)) = Len(w) - 1
      /\ \A i \in 1 .. Len(Tail(w)) : Tail(w)[i] = w[i + 1]
  BY <1>2, <1>3, ElemsTail, HeadTailProperties
<1>5. Head(w) = Head(p)
  BY <1>1, <1>2, <1>4
<1>6. /\ pt \o t \in Seq(S) /\ Len(pt \o t) = Len(pt) + Len(t)
      /\ \A i \in 1 .. Len(pt) + Len(t) :
           (pt \o t)[i] = IF i <= Len(pt) THEN pt[i] ELSE t[i - Len(pt)]
  BY <1>1, ConcatProperties
<1>7. Tail(w) = pt \o t
  <2> DEFINE q == pt \o t
             u == Tail(w)
  <2>1. Len(u) = Len(q) /\ Len(u) = Len(pt) + Len(t) /\ Len(pt) \in Nat
    BY <1>1, <1>2, <1>4, <1>6
  <2>2. ASSUME NEW i \in 1 .. Len(u) PROVE u[i] = q[i]
    <3>1. i \in Nat /\ i >= 1 /\ i <= Len(pt) + Len(t)
      BY <1>2, <2>1
    <3>2. u[i] = w[i + 1] /\ w[i + 1] = IF i + 1 <= Len(p) THEN p[i + 1] ELSE t[i + 1 - Len(p)]
      BY <1>1, <1>2, <1>4, <2>1, <3>1
    <3>3. q[i] = IF i <= Len(pt) THEN pt[i] ELSE t[i - Len(pt)]
      BY <1>6, <2>1, <3>1
    <3>4. CASE i <= Len(pt)
      BY <1>1, <2>1, <3>1, <3>2, <3>3, <3>4
    <3>5. CASE ~(i <= Len(pt))
      <4>1. i + 1 - Len(p) = i - Len(pt)
        BY <1>1, <2>1, <3>1
      <4> QED
        BY <1>1, <2>1, <3>1, <3>2, <3>3, <3>5, <4>1
    <3> QED
      BY <3>4, <3>5
  <2>3. u \in Seq(S) /\ q \in Seq(S)
    BY <1>4, <1>6
  <2> HIDE DEF u, q
  <2>4. u = q
    BY <2>1, <2>2, <2>3, SeqEqual
  <2> QED
    BY <2>4 DEF u, q
<1>8. Elems(pt \o t) = Elems(pt) \cup Elems(t)
  BY <1>1, ElemsConcat
<1> QED
  BY <1>1, <1>5, <1>7, <1>8 DEF w, pt

-----------------------------------------------------------------------------
(* The stack.                                                              *)

LEMMA BelowKept ==
  ASSUME NEW k, Below(k, setup.maxFail, open, room), setup' = setup,
         open' \subseteq open, \A d \in open' : room[d] = 0 => room'[d] = 0
  PROVE  Below(k, setup'.maxFail, open', room')
  BY DEF Below

\* A call that returns and leaves the calls p behind.
LEMMA StackStep ==
  ASSUME WorkOK, StackInv, work # << >>, NEW p \in Seq(Steps),
         work' = p \o Tail(work), setup' = setup,
         open' \subseteq open, \A d \in open' : room[d] = 0 => room'[d] = 0,
         \A k \in Elems(p) : k.op # "autogo",
         p # << >> => \A k \in Elems(Tail(p)) : Below(k, setup.maxFail, open', room'),
         p # << >> /\ setup.maxFail = 0 => Head(p).op # "drop"
  PROVE  StackInv'
<1> DEFINE t == Tail(work)
<1>1. p \in Seq(AllCalls) /\ work \in Seq(AllCalls) /\ t \in Seq(AllCalls)
  <2>1. p \in Seq(AllCalls)
    <3> HIDE DEF Steps, AllCalls
    <3> QED
      BY StepKinds, SeqMonotonic
  <2> QED
    BY <2>1, ElemsTail DEF WorkOK
<1>2. Bottom(work', "autogo")
  <2>1. Bottom(p \o Tail(work), "autogo")
    BY <1>1, BottomKept DEF StackInv
  <2> QED
    BY <2>1
<1>3. /\ \A k \in Elems(t) : Below(k, setup.maxFail, open, room)
      /\ \A k \in Elems(t) : Below(k, setup.maxFail, open', room')
  BY BelowKept DEF StackInv, OnTop
<1>4. CASE p = << >>
  <2>1. work' = t
    BY <1>1, <1>4, ConcatEmptySeq
  <2> HIDE DEF t
  <2>2. ASSUME t # << >>
        PROVE  /\ \A k \in Elems(Tail(t)) : Below(k, setup.maxFail, open', room')
               /\ Head(t).op # "drop"
    <3>1. Elems(t) = {Head(t)} \cup Elems(Tail(t))
      BY <1>1, <2>2, ElemsTail
    <3> QED
      BY <1>3, <3>1 DEF Below
  <2> QED
    BY <1>2, <2>1, <2>2 DEF StackInv, OnTop, Elems, Below, Bottom
<1>5. CASE p # << >>
  <2>1. Head(work') = Head(p) /\ Elems(Tail(work')) = Elems(Tail(p)) \cup Elems(t)
    <3> HIDE DEF t
    <3>1. work' = p \o t
      BY DEF t
    <3>2. \A s \in Seq(AllCalls) : /\ Head(p \o s) = Head(p)
                                   /\ Elems(Tail(p \o s)) = Elems(Tail(p)) \cup Elems(s)
      <4> HIDE DEF AllCalls
      <4> QED
        BY <1>1, <1>5, HeadOfConcat
    <3>3. t \in Seq(AllCalls)
      BY <1>1
    <3>4. Head(p \o t) = Head(p) /\ Elems(Tail(p \o t)) = Elems(Tail(p)) \cup Elems(t)
      BY <3>2, <3>3, Zenon
    <3> QED
      BY <3>1, <3>4, Zenon
  <2>2. \A k \in Elems(Tail(work')) : Below(k, setup.maxFail, open', room')
    BY <1>3, <1>5, <2>1
  <2>3. setup.maxFail = 0 => Head(work').op # "drop"
    BY <1>5, <2>1
  <2> QED
    BY <1>2, <2>2, <2>3 DEF StackInv, OnTop, Elems, Below, Bottom
<1> QED
  BY <1>4, <1>5

\* A handler that starts.
LEMMA StackFresh ==
  ASSUME work' \in Seq(AllCalls), Bottom(work', "autogo"),
         \A k \in Elems(work') : Below(k, setup'.maxFail, open', room')
  PROVE  StackInv'
<1>1. ASSUME work' # << >>
      PROVE  /\ \A k \in Elems(Tail(work')) : Below(k, setup'.maxFail, open', room')
             /\ Head(work').op # "drop"
  <2>1. Elems(work') = {Head(work')} \cup Elems(Tail(work'))
    BY <1>1, ElemsTail
  <2> QED
    BY <2>1 DEF Below
<1> QED
  BY <1>1 DEF StackInv, OnTop, Elems, Below, Bottom

-----------------------------------------------------------------------------
(* What the clients are told.                                              *)

\* A call that changes no room of a client that stays: what it leaves to be
\* told it was about to tell, or is not about rooms and matches.
LEMMA ToldStep ==
  ASSUME WorkOK, ToldInv, work # << >>, NEW p \in Seq(Steps), work' = p \o Tail(work),
         open' \subseteq open, UNCHANGED <<room, members, started>>,
         Head(work).op = "drop" => Head(work).client \notin open',
         \A d \in open', k \in Elems(p) : \A f : Tells(k, d, f, members) =>
           \/ Tells(Head(work), d, f, members)
           \/ f.type \notin RoomTypes \cup {"MATCH"},
         \A d \in open' : \A f :
           Tells(Head(work), d, f, members) /\ f.type \in RoomTypes =>
             \/ \E k \in Elems(p) : Tells(k, d, f, members)
             \/ view'[d] = Told(Solo, f)
             \/ \E k \in Elems(p) : k.op = "drop" /\ k.client = d,
         \A d \in open' :
           \/ view'[d] = view[d]
           \/ \E f : /\ Tells(Head(work), d, f, members) /\ f.type \in RoomTypes
                    /\ view'[d] = Told(Solo, f)
  PROVE  ToldInv'
<1>1. /\ Elems(work') = Elems(p) \cup Elems(Tail(work))
      /\ Elems(work) = {Head(work)} \cup Elems(Tail(work))
  <2>1. p \in Seq(AllCalls)
    <3> HIDE DEF Steps, AllCalls
    <3> QED
      BY StepKinds, SeqMonotonic
  <2> QED
    BY <2>1, Stacked DEF WorkOK
<1>2. ASSUME NEW d \in open', NEW k \in Elems(work'), NEW f, Tells(k, d, f, members),
             f.type \in RoomTypes \cup {"MATCH"}
      PROVE  \E j \in Elems(work) : Tells(j, d, f, members)
  BY <1>1, <1>2
<1>3. ASSUME NEW d \in open', NEW j \in Elems(work), NEW f, Tells(j, d, f, members),
             f.type \in RoomTypes
      PROVE  Told(Solo, f) = Now(d)
  BY <1>3 DEF ToldInv, Right
<1>4. \A d : Now(d)' = Now(d)
  BY DEF Now
<1>5. ASSUME NEW d \in open', NEW k \in Elems(work'), NEW f, Tells(k, d, f, members),
             f.type \in RoomTypes
      PROVE  Told(Solo, f) = Now(d)
  BY <1>2, <1>3, <1>5
<1>6. ASSUME NEW d \in open'
      PROVE  \/ view'[d] = Now(d)
             \/ \E k \in Elems(work') : \E f : Tells(k, d, f, members) /\ f.type \in RoomTypes
             \/ \E k \in Elems(work') : k.op = "drop" /\ k.client = d
  <2>1. CASE view[d] = Now(d)
    <3>1. ASSUME NEW f, Tells(Head(work), d, f, members), f.type \in RoomTypes,
                 view'[d] = Told(Solo, f)
          PROVE  view'[d] = Now(d)
      <4>1. Head(work) \in Elems(work)
        BY <1>1
      <4> QED
        BY <1>3, <3>1, <4>1
    <3> QED
      BY <2>1, <3>1
  <2>2. ASSUME NEW k \in Elems(work), NEW f, Tells(k, d, f, members), f.type \in RoomTypes
        PROVE  \/ view'[d] = Now(d)
               \/ \E j \in Elems(work') : \E g : Tells(j, d, g, members) /\ g.type \in RoomTypes
               \/ \E j \in Elems(work') : j.op = "drop" /\ j.client = d
    <3>1. CASE k \in Elems(Tail(work))
      BY <1>1, <2>2, <3>1
    <3>2. CASE k = Head(work)
      <4>1. Head(work) \in Elems(work) /\ Tells(Head(work), d, f, members)
        BY <1>1, <2>2, <3>2
      <4>2. Told(Solo, f) = Now(d)
        BY <1>3, <2>2, <4>1
      <4>3. \/ \E j \in Elems(p) : Tells(j, d, f, members)
            \/ view'[d] = Told(Solo, f)
            \/ \E j \in Elems(p) : j.op = "drop" /\ j.client = d
        BY <2>2, <4>1
      <4>4. Elems(p) \subseteq Elems(work')
        BY <1>1
      <4> QED
        BY <2>2, <4>2, <4>3, <4>4
    <3> QED
      BY <1>1, <3>1, <3>2
  <2>3. ASSUME NEW k \in Elems(work), k.op = "drop", k.client = d
        PROVE  \E j \in Elems(work') : j.op = "drop" /\ j.client = d
    BY <1>1, <2>3
  <2> QED
    BY <2>1, <2>2, <2>3 DEF ToldInv, Due
<1>7. ASSUME NEW d \in open', NEW k \in Elems(work'), NEW f, Tells(k, d, f, members),
             f.type = "MATCH"
      PROVE  /\ room[d] # 0 /\ started[room[d]] /\ f.from \in Elems(members[room[d]])
             /\ \A j \in Elems(work') : \A g :
                  Tells(j, d, g, members) => g.type \notin RoomTypes
  <2>1. PICK i \in Elems(work) : Tells(i, d, f, members)
    BY <1>2, <1>7
  <2>2. /\ room[d] # 0 /\ started[room[d]] /\ f.from \in Elems(members[room[d]])
        /\ \A j \in Elems(work) : \A g : Tells(j, d, g, members) => g.type \notin RoomTypes
    BY <1>7, <2>1 DEF ToldInv, MatchOnly
  <2> QED
    BY <1>2, <2>2
<1>8. Right'
  BY <1>4, <1>5 DEF Right, Elems
<1>9. Due'
  BY <1>4, <1>6 DEF Due, Elems
<1>10. MatchOnly'
  BY <1>7 DEF MatchOnly, Elems
<1> QED
  BY <1>8, <1>9, <1>10 DEF ToldInv

LEMMA TellKinds ==
  ASSUME NEW k, NEW c, NEW f, NEW mb, Tells(k, c, f, mb)
  PROVE  k.op \in {"send", "loop"}
  BY DEF Tells

\* A fan-out tells every member its frame, and nobody else anything.
LEMMA FanoutTells ==
  ASSUME NEW r \in Rooms, NEW ms \in Seq(Clients), NEW fs \in Seq(Frames),
         Len(fs) = Len(ms), NEW skip \in Clients \cup {None},
         NEW mb, mb[r] = ms
  PROVE  /\ \A k \in Elems(Fanout(r, ms, fs, skip)) : \A d, f :
              Tells(k, d, f, mb) =>
                d # skip /\ \E i \in 1 .. Len(ms) : d = ms[i] /\ f = fs[i]
         /\ \A i \in 1 .. Len(ms) : ms[i] # skip =>
              \E k \in Elems(Fanout(r, ms, fs, skip)) : Tells(k, ms[i], fs[i], mb)
         /\ \A k \in Elems(Fanout(r, ms, fs, skip)) :
              k.op = "loop" \/ (setup.impl = "c" /\ k.op = "send")
<1> DEFINE F == Elems(Fanout(r, ms, fs, skip))
<1>0. \A i \in 1 .. Len(ms) : /\ Send(ms[i], fs[i]).op = "send"
                              /\ Send(ms[i], fs[i]).to = ms[i]
                              /\ Send(ms[i], fs[i]).frame = fs[i]
  BY DEF Send
<1>1. CASE setup.impl = "c"
  <2> HIDE DEF Frames, F
  <2>1. Elems(Fanout(r, ms, fs, skip)) =
          {Send(ms[i], fs[i]) : i \in {j \in 1 .. Len(ms) : ms[j] # skip}}
    BY <1>1, FanoutCalls, SMTT(30)
  <2>2. \A k \in F : \E i \in 1 .. Len(ms) : k = Send(ms[i], fs[i]) /\ ms[i] # skip
    BY <2>1 DEF F
  <2>3. \A i \in 1 .. Len(ms) : ms[i] # skip => Send(ms[i], fs[i]) \in F
    BY <2>1 DEF F
  <2>4. ASSUME NEW k \in F, NEW d, NEW f, Tells(k, d, f, mb)
        PROVE  d # skip /\ \E i \in 1 .. Len(ms) : d = ms[i] /\ f = fs[i]
    BY <1>0, <2>2, <2>4 DEF Tells
  <2>5. ASSUME NEW i \in 1 .. Len(ms), ms[i] # skip
        PROVE  \E k \in F : Tells(k, ms[i], fs[i], mb)
    BY <1>0, <2>3, <2>5 DEF Tells
  <2>6. \A k \in F : k.op = "send"
    BY <1>0, <2>2
  <2> QED
    BY <1>1, <2>4, <2>5, <2>6 DEF F
<1>2. CASE setup.impl # "c"
  <2> DEFINE l == Loop(r, 1, fs, skip)
  <2>1. F = {l}
    BY <1>2, FanoutCalls
  <2>2. l.op = "loop" /\ l.room = r /\ l.at = 1 /\ l.frames = fs /\ l.skip = skip
    BY DEF Loop
  <2> HIDE DEF F, l
  <2>3. ASSUME NEW d, NEW f, Tells(l, d, f, mb)
        PROVE  d # skip /\ \E i \in 1 .. Len(ms) : d = ms[i] /\ f = fs[i]
    BY <2>2, <2>3 DEF Tells
  <2>4. ASSUME NEW i \in 1 .. Len(ms), ms[i] # skip
        PROVE  Tells(l, ms[i], fs[i], mb)
    <3>1. i >= 1
      OBVIOUS
    <3> QED
      BY <2>2, <2>4, <3>1 DEF Tells
  <2> QED
    BY <2>1, <2>2, <2>3, <2>4 DEF F
<1> QED
  BY <1>1, <1>2

\* A fan-out to all members of a room, when everyone else is up to date.
LEMMA ToldFanout ==
  ASSUME setup' = setup, NEW r \in Rooms, NEW ms \in Seq(Clients),
         NEW fs \in Seq(Frames), Len(fs) = Len(ms), members'[r] = ms,
         Elems(Fanout(r, ms, fs, None)) \subseteq Elems(work'),
         \A k \in Elems(work') :
           k \in Elems(Fanout(r, ms, fs, None)) \/ k.op \notin {"send", "loop"},
         \A i \in 1 .. Len(ms) : fs[i].type \in RoomTypes,
         \A i \in 1 .. Len(ms) : ms[i] \in open' => Told(Solo, fs[i]) = Now(ms[i])',
         \A d \in open' : d \notin Elems(ms) => view'[d] = Now(d)'
  PROVE  ToldInv'
<1> DEFINE F == Elems(Fanout(r, ms, fs, None))
<1>1. /\ \A k \in F : \A d, f : Tells(k, d, f, members') =>
           \E i \in 1 .. Len(ms) : d = ms[i] /\ f = fs[i]
      /\ \A i \in 1 .. Len(ms) : ms[i] # None =>
           \E k \in F : Tells(k, ms[i], fs[i], members')
  BY FanoutTells
<1>2. \A i \in 1 .. Len(ms) : ms[i] # None
  BY RelayAssumption
<1> HIDE DEF F
<1>3. ASSUME NEW k \in Elems(work'), NEW d, NEW f, Tells(k, d, f, members')
      PROVE  \E i \in 1 .. Len(ms) : d = ms[i] /\ f = fs[i]
  <2>1. k \in F
    BY <1>3, TellKinds DEF F
  <2> QED
    BY <1>1, <1>3, <2>1
<1>4. Right'
  <2>1. ASSUME NEW d \in open', NEW k \in Elems(work'), NEW f,
               Tells(k, d, f, members'), f.type \in RoomTypes
        PROVE  Told(Solo, f) = Now(d)'
    BY <1>3, <2>1
  <2> QED
    BY <2>1 DEF Right, Elems
<1>5. Due'
  <2>1. ASSUME NEW d \in open'
        PROVE  \/ view'[d] = Now(d)'
               \/ \E k \in Elems(work') : \E f : Tells(k, d, f, members') /\ f.type \in RoomTypes
    <3>1. CASE d \in Elems(ms)
      <4>1. PICK i \in 1 .. Len(ms) : d = ms[i]
        BY <3>1 DEF Elems
      <4>2. PICK k \in F : Tells(k, ms[i], fs[i], members')
        BY <1>1, <1>2
      <4> QED
        BY <4>1, <4>2 DEF F
    <3> QED
      BY <3>1
  <2> QED
    BY <2>1 DEF Due, Elems
<1>6. MatchOnly'
  <2>1. ASSUME NEW k \in Elems(work'), NEW d, NEW f, Tells(k, d, f, members')
        PROVE  f.type # "MATCH"
    BY <1>3, <2>1 DEF RoomTypes
  <2> QED
    BY <2>1 DEF MatchOnly, Elems
<1> QED
  BY <1>4, <1>5, <1>6 DEF ToldInv

\* Nobody is told anything about rooms or matches.
LEMMA ToldNothing ==
  ASSUME \A k \in Elems(work'), d \in open' : \A f :
           Tells(k, d, f, members') => f.type \notin RoomTypes \cup {"MATCH"},
         \A d \in open' : view'[d] = Now(d)'
  PROVE  ToldInv'
  BY DEF ToldInv, Right, Due, MatchOnly, Elems

\* Between two events everyone is up to date.
LEMMA AllTold ==
  ASSUME ToldInv, \A k \in Elems(work) : k.op \in {"hello", "lobby", "autogo"}
  PROVE  \A d \in open : view[d] = Now(d)
  BY TellKinds DEF ToldInv, Due

\* A room is dissolved: its members are solo, and about to be told so.
LEMMA ToldDissolve ==
  ASSUME Inv, StackInv, ToldInv, work # << >>,
         NEW c \in Clients, Head(work).op = "drop", Head(work).client = c,
         room[c] # 0, Dissolve(room[c]), open' = open \ {c},
         UNCHANGED <<setup, started, view>>,
         NEW g, g.type \in RoomTypes, Told(Solo, g) = Solo,
         Elems(Tail(work)) \subseteq Elems(work'),
         \A d \in Elems(Survivors(c)) : Send(d, g) \in Elems(work'),
         \A k \in Elems(work') :
           \/ k \in Elems(Tail(work)) \/ k.op \notin {"send", "loop"}
           \/ \E d \in Elems(Survivors(c)) : k = Send(d, g)
  PROVE  ToldInv'
<1> DEFINE r == room[c]
           T == Elems(Tail(work))
           S == {Send(d, g) : d \in Elems(Survivors(c))}
<1>1. /\ r \in Rooms /\ Elems(Survivors(c)) = Elems(members[r]) \ {c}
      /\ members[r] # << >>
  BY SeatFacts, SurvivorFacts DEF Inv
<1>2. /\ \A d \in Clients : room'[d] = IF room[d] = r THEN 0 ELSE room[d]
      /\ \A q \in Rooms : members'[q] = IF q = r THEN << >> ELSE members[q]
      /\ \A d \in Clients : room[d] \in Rooms \cup {0}
      /\ open \subseteq Clients /\ \A q \in Rooms : q # 0
      /\ \A q \in Rooms : members[q] \in Seq(Clients)
  BY <1>1, RoomsFacts DEF Dissolve, Inv, TypeOK
<1>3. \A q \in Rooms : \A d : d \in Elems(members[q]) => d \in Clients /\ room[d] = q
  <2>1. ASSUME NEW q \in Rooms, NEW d, d \in Elems(members[q])
        PROVE  d \in Clients /\ room[d] = q
    <3>1. members[q] # << >>
      BY <2>1, ElemsEmpty
    <3> QED
      BY <1>2, <2>1, <3>1, ElemsType DEF Inv, RoomsOK
  <2> QED
    BY <2>1
<1>4. /\ \A k \in T : Below(k, setup.maxFail, open, room)
      /\ setup.maxFail = 0 => \A k \in T : k.op = "hello"
  BY DEF StackInv, OnTop
<1>5. \A d : Send(d, g).op = "send" /\ Send(d, g).to = d /\ Send(d, g).frame = g
  BY DEF Send
<1>6. Elems(work) = {Head(work)} \cup T
  BY ElemsTail DEF Inv, WorkOK
<1>7. \A k \in T : k.op = "loop" => k.room \in Rooms
  <2>1. Tail(work) \in Seq(AllCalls)
    BY ElemsTail DEF Inv, WorkOK
  <2>2. T \subseteq AllCalls
    BY <2>1, ElemsType
  <2> QED
    BY <2>2, CallKinds
<1> HIDE DEF r, T, S
<1>8. ASSUME NEW d \in open'
      PROVE  /\ d \in Clients /\ d \in open /\ d # c
             /\ room[d] = r => Now(d)' = Solo /\ Send(d, g) \in S
             /\ room[d] # r => Now(d)' = Now(d)
  <2>1. d \in Clients /\ d \in open /\ d # c
    BY <1>2
  <2>2. room[d] = r => d \in Elems(members[r])
    BY <1>1, <1>2, <2>1 DEF Inv, RoomsOK
  <2>3. room[d] = r => Send(d, g) \in S
    BY <1>1, <2>1, <2>2 DEF S
  <2>4. room[d] = r => Now(d)' = Solo
    BY <1>2, <2>1 DEF Now, Belief
  <2>5. room[d] # r => Now(d)' = Now(d)
    BY <1>2, <2>1 DEF Now, Belief
  <2> QED
    BY <2>1, <2>3, <2>4, <2>5
<1>9. ASSUME NEW k \in T, NEW d \in open', NEW f, Tells(k, d, f, members'),
             f.type \in RoomTypes \cup {"MATCH"}
      PROVE  room[d] # r /\ Tells(k, d, f, members)
  <2>1. CASE k.op = "send"
    BY <1>1, <1>2, <1>4, <1>8, <1>9, <2>1 DEF Below, Tells
  <2>2. CASE k.op = "loop"
    <3>1. /\ k.room \in Rooms /\ d # k.skip
          /\ \E i \in 1 .. Len(members'[k.room]) :
               i >= k.at /\ members'[k.room][i] = d /\ k.frames[i] = f
      BY <1>7, <1>9, <2>2 DEF Tells
    <3>2. k.room # r
      BY <1>2, <3>1
    <3>3. members'[k.room] = members[k.room]
      BY <1>2, <3>1, <3>2
    <3>4. d \in Elems(members[k.room])
      BY <3>1, <3>3 DEF Elems
    <3>5. room[d] = k.room
      BY <1>3, <3>1, <3>4
    <3> QED
      BY <2>2, <3>1, <3>2, <3>3, <3>5 DEF Tells
  <2> QED
    BY <1>9, <2>1, <2>2, TellKinds
<1>10. ASSUME NEW k \in T, NEW d \in open', room[d] # r, NEW f, Tells(k, d, f, members)
       PROVE  Tells(k, d, f, members')
  <2>1. CASE k.op = "send"
    BY <1>10, <2>1 DEF Tells
  <2>2. CASE k.op = "loop"
    <3>1. /\ k.room \in Rooms
          /\ \E i \in 1 .. Len(members[k.room]) :
               i >= k.at /\ members[k.room][i] = d /\ k.frames[i] = f
      BY <1>7, <1>10, <2>2 DEF Tells
    <3>2. d \in Elems(members[k.room])
      BY <3>1 DEF Elems
    <3>3. k.room # r
      BY <1>3, <1>10, <3>1, <3>2
    <3>4. members'[k.room] = members[k.room]
      BY <1>2, <3>1, <3>3
    <3> QED
      BY <1>10, <2>2, <3>4 DEF Tells
  <2> QED
    BY <1>10, <2>1, <2>2, TellKinds
<1>11. ASSUME NEW k \in Elems(work'), NEW d \in open', NEW f, Tells(k, d, f, members'),
              f.type \in RoomTypes \cup {"MATCH"}
       PROVE  \/ room[d] = r /\ f = g
              \/ k \in T /\ room[d] # r /\ Tells(k, d, f, members)
  <2>1. k \in S \/ k \in T
    BY <1>11, TellKinds DEF S, T
  <2>2. CASE k \in S
    <3>1. PICK e \in Elems(Survivors(c)) : k = Send(e, g)
      BY <2>2 DEF S
    <3>2. e = d /\ f = g
      BY <1>5, <1>11, <3>1 DEF Tells
    <3> QED
      BY <1>1, <1>3, <3>1, <3>2
  <2> QED
    BY <1>9, <1>11, <2>1, <2>2
<1>12. S \subseteq Elems(work') /\ T \subseteq Elems(work')
  BY DEF S, T
<1>13. Right'
  <2>1. ASSUME NEW d \in open', NEW k \in Elems(work'), NEW f,
               Tells(k, d, f, members'), f.type \in RoomTypes
        PROVE  Told(Solo, f) = Now(d)'
    <3>1. CASE room[d] = r /\ f = g
      BY <1>8, <3>1
    <3>2. CASE k \in T /\ room[d] # r /\ Tells(k, d, f, members)
      <4>1. k \in Elems(work) /\ d \in open /\ Now(d)' = Now(d)
        BY <1>6, <1>8, <3>2
      <4> QED
        BY <2>1, <3>2, <4>1 DEF ToldInv, Right
    <3> QED
      BY <1>11, <2>1, <3>1, <3>2
  <2> QED
    BY <2>1 DEF Right, Elems
<1>14. Due'
  <2>1. ASSUME NEW d \in open'
        PROVE  \/ view'[d] = Now(d)'
               \/ \E k \in Elems(work') : \E f : Tells(k, d, f, members') /\ f.type \in RoomTypes
    <3>1. CASE room[d] = r
      <4>1. Send(d, g) \in Elems(work') /\ Tells(Send(d, g), d, g, members')
        BY <1>5, <1>8, <1>12, <3>1 DEF Tells
      <4> QED
        BY <4>1
    <3>2. CASE room[d] # r
      <4>1. d \in open /\ d # c /\ Now(d)' = Now(d) /\ view' = view
        BY <1>8, <3>2
      <4>2. \A k \in Elems(work) : ~(k.op = "drop" /\ k.client = d)
        BY <1>4, <1>6, <4>1 DEF Below
      <4>3. ASSUME NEW k \in Elems(work), NEW f, Tells(k, d, f, members)
            PROVE  k \in Elems(work') /\ Tells(k, d, f, members')
        <5>1. k \in T
          BY <1>6, <4>3, TellKinds
        <5> QED
          BY <1>10, <1>12, <3>2, <4>3, <5>1
      <4> QED
        BY <4>1, <4>2, <4>3 DEF ToldInv, Due
    <3> QED
      BY <3>1, <3>2
  <2> QED
    BY <2>1 DEF Due, Elems
<1>15. MatchOnly'
  <2>1. ASSUME NEW d \in open', NEW k \in Elems(work'), NEW f,
               Tells(k, d, f, members'), f.type = "MATCH"
        PROVE  /\ room'[d] # 0 /\ started'[room'[d]] /\ f.from \in Elems(members'[room'[d]])
               /\ \A j \in Elems(work') : \A h :
                    Tells(j, d, h, members') => h.type \notin RoomTypes
    <3>1. k \in T /\ room[d] # r /\ Tells(k, d, f, members)
      BY <1>11, <2>1 DEF RoomTypes
    <3>2. k \in Elems(work) /\ d \in open /\ d \in Clients
      BY <1>6, <1>8, <3>1
    <3>3. /\ room[d] # 0 /\ started[room[d]] /\ f.from \in Elems(members[room[d]])
          /\ \A j \in Elems(work) : \A h : Tells(j, d, h, members) => h.type \notin RoomTypes
      BY <2>1, <3>1, <3>2 DEF ToldInv, MatchOnly
    <3>4. room'[d] = room[d] /\ members'[room[d]] = members[room[d]]
      BY <1>2, <3>1, <3>2, <3>3
    <3>5. ASSUME NEW j \in Elems(work'), NEW h, Tells(j, d, h, members')
          PROVE  h.type \notin RoomTypes
      BY <1>6, <1>11, <3>1, <3>3, <3>5
    <3> QED
      BY <3>3, <3>4, <3>5
  <2> QED
    BY <2>1 DEF MatchOnly, Elems
<1> QED
  BY <1>13, <1>14, <1>15 DEF ToldInv

-----------------------------------------------------------------------------
(* Every call keeps the invariant.                                         *)

LEMMA SetupInStep ==
  ASSUME InStep, TypeOK
  PROVE  setup.maxFail = 0 \/ (setup.impl = "py" /\ setup.seats = 2)
  BY DEF InStep, TypeOK

\* A call that leaves calls behind that may be anywhere on the stack.
LEMMA StackBelow ==
  ASSUME WorkOK, StackInv, work # << >>, NEW p \in Seq(Steps),
         work' = p \o Tail(work), setup' = setup,
         open' \subseteq open, \A d \in open' : room[d] = 0 => room'[d] = 0,
         \A k \in Elems(p) : k.op # "autogo" /\ Below(k, setup.maxFail, open', room')
  PROVE  StackInv'
<1>1. p # << >> => Elems(p) = {Head(p)} \cup Elems(Tail(p))
  BY ElemsTail
<1>2. p # << >> => Head(p).op # "drop"
  BY <1>1 DEF Below
<1>3. p # << >> => \A k \in Elems(Tail(p)) : Below(k, setup.maxFail, open', room')
  BY <1>1
<1> QED
  BY <1>2, <1>3, StackStep

\* A call that returns, and changes no room.
LEMMA StackReturn ==
  ASSUME WorkOK, StackInv, work # << >>, Return, UNCHANGED <<setup, room>>,
         open' \subseteq open
  PROVE  StackInv' /\ work' = << >> \o Tail(work) /\ << >> \in Seq(Steps)
<1>1. work' = << >> \o Tail(work)
  BY Stacked DEF WorkOK, Return
<1>2. << >> \in Seq(Steps)
  OBVIOUS
<1>3. \A k \in Elems(<< >>) : k.op # "autogo" /\ Below(k, setup.maxFail, open', room')
  BY ElemsEmpty
<1> HIDE DEF Steps
<1> QED
  BY <1>1, <1>2, <1>3, StackBelow

LEMMA SendFrameView ==
  ASSUME ViewInv, SendFrame
  PROVE  StackInv' /\ ToldInv'
<1>1. /\ work # << >> /\ Call.op = "send" /\ Return /\ UNCHANGED tables
      /\ view' = IF Call.to \in open
                 THEN [view EXCEPT ![Call.to] = Told(@, Call.frame)] ELSE view
  BY DEF SendFrame, Calls
<1>2. UNCHANGED <<setup, open, room, members, started>>
  BY <1>1 DEF tables
<1>3. WorkOK /\ StackInv /\ ToldInv /\ open \subseteq Clients /\ DOMAIN view = Clients
  BY DEF ViewInv, Inv, TypeOK
<1>4. StackInv' /\ work' = << >> \o Tail(work) /\ << >> \in Seq(Steps)
  BY <1>1, <1>2, <1>3, StackReturn
<1>5. ASSUME NEW d, NEW f, Tells(Head(work), d, f, members)
      PROVE  d = Call.to /\ f = Call.frame
  BY <1>1, <1>5 DEF Tells, Call
<1>6. Tells(Head(work), Call.to, Call.frame, members)
  BY <1>1 DEF Tells, Call
<1>7. ASSUME NEW d \in open, d = Call.to, Call.frame.type \in RoomTypes
      PROVE  view'[d] = Told(Solo, Call.frame)
  <2>1. view'[d] = Told(view[d], Call.frame)
    BY <1>1, <1>3, <1>7
  <2> QED
    BY <1>7, <2>1, ToldAfresh
<1>8. ASSUME NEW d \in open, d # Call.to \/ Call.frame.type \notin RoomTypes
      PROVE  view'[d] = view[d]
  <2>1. CASE d # Call.to
    BY <1>1, <1>3, <2>1
  <2>2. CASE d = Call.to
    <3>1. view'[d] = Told(view[d], Call.frame)
      BY <1>1, <1>3, <2>2
    <3> QED
      BY <1>8, <2>2, <3>1, ToldAfresh
  <2> QED
    BY <2>1, <2>2
<1> DEFINE p == << >>
<1>9. p \in Seq(Steps) /\ work' = p \o Tail(work) /\ Elems(p) = {}
  BY <1>4, ElemsEmpty
<1> HIDE DEF p, Steps
<1>10. \A d \in open' : \A f : Tells(Head(work), d, f, members) /\ f.type \in RoomTypes =>
         view'[d] = Told(Solo, f)
  BY <1>2, <1>5, <1>7
<1>11. \A d \in open' : \/ view'[d] = view[d]
                        \/ \E f : /\ Tells(Head(work), d, f, members)
                                  /\ f.type \in RoomTypes /\ view'[d] = Told(Solo, f)
  BY <1>2, <1>6, <1>7, <1>8
<1>12. Head(work).op # "drop"
  BY <1>1 DEF Call
<1>13. ToldInv'
  BY <1>1, <1>2, <1>3, <1>9, <1>10, <1>11, <1>12, ToldStep
<1> QED
  BY <1>4, <1>13

\* A call that tells nobody about a room or a match, and leaves none such behind.
LEMMA ToldSame ==
  ASSUME WorkOK, ToldInv, work # << >>, NEW p \in Seq(Steps), work' = p \o Tail(work),
         open' \subseteq open, UNCHANGED <<room, members, started, view>>,
         Head(work).op \notin {"send", "loop"},
         Head(work).op = "drop" => Head(work).client \notin open',
         \A k \in Elems(p) : \A d, f :
           Tells(k, d, f, members) => f.type \notin RoomTypes \cup {"MATCH"}
  PROVE  ToldInv'
<1>1. \A d, f : ~Tells(Head(work), d, f, members)
  BY TellKinds
<1> QED
  BY <1>1, ToldStep

LEMMA UpdateLobbyView ==
  ASSUME ViewInv, UpdateLobby
  PROVE  StackInv' /\ ToldInv'
<1>1. /\ work # << >> /\ Head(work).op = "lobby" /\ Return
      /\ UNCHANGED <<setup, open, room, members, started, view>>
  BY DEF UpdateLobby, Calls, Call, tables
<1>2. WorkOK /\ StackInv /\ ToldInv
  BY DEF ViewInv, Inv
<1>3. StackInv' /\ work' = << >> \o Tail(work) /\ << >> \in Seq(Steps)
  BY <1>1, <1>2, StackReturn
<1>4. \A k \in Elems(<< >>) : FALSE
  BY ElemsEmpty
<1> HIDE DEF Steps
<1>5. ToldInv'
  BY <1>1, <1>2, <1>3, <1>4, ToldSame
<1> QED
  BY <1>3, <1>5

LEMMA SendFailsView ==
  ASSUME ViewInv, SendFails
  PROVE  StackInv' /\ ToldInv'
<1> DEFINE k == Drop(Call.to, "send error")
           p == <<k>>
<1>1. /\ work # << >> /\ Call.op = "send" /\ work' = p \o Tail(work)
      /\ UNCHANGED <<setup, open, room, members, started, view>>
  BY DEF SendFails, Calls, ThenReturn, tables
<1>2. WorkOK /\ StackInv /\ ToldInv /\ TypeOK
  BY DEF ViewInv, Inv
<1>3. setup.maxFail # 0
  <2>1. fails \in 0 .. setup.maxFail /\ setup.maxFail \in Nat
    BY <1>2, SetupFacts DEF TypeOK
  <2>2. fails < setup.maxFail
    BY Zenon DEF SendFails
  <2> QED
    BY <2>1, <2>2
<1>4. k.op = "drop" /\ k.client = Call.to
  BY DEF Drop
<1>5. k \in Steps
  <2>1. Call \in AllCalls
    BY <1>1, <1>2, ElemsTail DEF WorkOK, Call
  <2>2. k \in Drops
    BY <1>1, <2>1, CallKinds DEF Drop, Drops
  <2> QED
    BY <2>2, StepKinds
<1> HIDE DEF k, Steps
<1>6. /\ p \in Seq(Steps) /\ Elems(p) = {k} /\ p # << >>
      /\ Head(p) = k /\ Tail(p) = << >>
  BY <1>5, ElemsOne
<1> HIDE DEF p
<1>7. StackInv'
  <2>1. \A j \in Elems(Tail(p)) : Below(j, setup.maxFail, open', room')
    BY <1>6, ElemsEmpty
  <2> QED
    BY <1>1, <1>2, <1>3, <1>4, <1>6, <2>1, StackStep
<1>8. ToldInv'
  <2>1. ASSUME NEW d, NEW f, Tells(Head(work), d, f, members)
        PROVE  d = Call.to
    BY <1>1, <2>1 DEF Tells, Call
  <2>2. \A j \in Elems(p) : \A d, f : ~Tells(j, d, f, members)
    BY <1>4, <1>6, TellKinds
  <2>3. \A d, f : Tells(Head(work), d, f, members) =>
          \E j \in Elems(p) : j.op = "drop" /\ j.client = d
    BY <1>4, <1>6, <2>1
  <2>4. Head(work).op # "drop"
    BY <1>1 DEF Call
  <2> QED
    BY <1>1, <1>2, <1>6, <2>2, <2>3, <2>4, ToldStep
<1> QED
  BY <1>7, <1>8

LEMMA NextMemberView ==
  ASSUME ViewInv, NextMember
  PROVE  StackInv' /\ ToldInv'
<1> DEFINE ms == members[Call.room]
           next == [Call EXCEPT !.at = @ + 1]
           said == Send(ms[Call.at], Call.frames[Call.at])
<1>1. /\ work # << >> /\ Call \in AllCalls /\ Call.op = "loop"
      /\ UNCHANGED <<setup, open, room, members, started, view>>
  BY ElemsTail DEF NextMember, Calls, Call, ViewInv, Inv, WorkOK, tables
<1>2. WorkOK /\ StackInv /\ ToldInv /\ TypeOK
  BY DEF ViewInv, Inv
<1>3. Call \in Elems(work)
  BY <1>1, <1>2, ElemsTail DEF WorkOK, Call
<1>4. /\ Call.room \in Rooms /\ Call.at \in Nat \ {0} /\ Call.frames \in Seq(Frames)
      /\ Call \in Loops
  <2>1. Call \in Loops
    BY <1>1 DEF AllCalls, Sends, Drops, Hellos, Rest, Loops
  <2> QED
    BY <1>1, <2>1, CallKinds
<1>5. ms \in Seq(Clients) /\ Len(ms) <= Len(Call.frames) /\ Len(ms) \in Nat
  BY <1>1, <1>2, <1>3, <1>4 DEF TypeOK, WorkOK, LoopsOK
<1>6. ASSUME NEW d, NEW f, Tells(Head(work), d, f, members)
      PROVE  /\ d # Call.skip
             /\ \E i \in 1 .. Len(ms) : i >= Call.at /\ ms[i] = d /\ Call.frames[i] = f
  BY <1>1, <1>6 DEF Tells, Call
<1>7. Head(work).op # "drop"
  BY <1>1 DEF Call
<1>8. CASE Call.at > Len(ms)
  <2>1. Return
    BY <1>8 DEF NextMember
  <2>2. StackInv' /\ work' = << >> \o Tail(work) /\ << >> \in Seq(Steps)
    BY <1>1, <1>2, <2>1, StackReturn
  <2>3. \A d, f : ~Tells(Head(work), d, f, members)
    BY <1>4, <1>5, <1>6, <1>8
  <2>4. \A k \in Elems(<< >>) : FALSE
    BY ElemsEmpty
  <2> HIDE DEF Steps, ms, next, said
  <2>5. ToldInv'
    BY <1>1, <1>2, <1>7, <2>2, <2>3, <2>4, ToldStep
  <2> QED
    BY <2>2, <2>5
<1>9. CASE ~(Call.at > Len(ms))
  <2>1. Call.at \in 1 .. Len(ms)
    BY <1>4, <1>5, <1>9
  <2>2. /\ next \in Loops /\ next.op = "loop" /\ next.room = Call.room
        /\ next.frames = Call.frames /\ next.skip = Call.skip /\ next.at = Call.at + 1
    <3> HIDE DEF Frames
    <3> QED
      BY <1>4 DEF Loops
  <2>3. Call.frames[Call.at] \in Frames /\ ms[Call.at] \in Clients
    <3> HIDE DEF Frames
    <3> QED
      BY <1>4, <1>5, <2>1
  <2>4. /\ said \in Sends /\ said.op = "send" /\ said.to = ms[Call.at]
        /\ said.frame = Call.frames[Call.at]
    BY <2>3, FrameKinds DEF Send
  <2>5. next \in Steps /\ said \in Steps
    BY <2>2, <2>4, StepKinds
  <2> DEFINE skips == ms[Call.at] = Call.skip
             p == (IF skips THEN << >> ELSE <<said>>) \o <<next>>
  <2>6. work' = p \o Tail(work)
    BY <1>9 DEF NextMember, ThenReturn
  <2> HIDE DEF next, said, Steps
  <2>7. /\ p \in Seq(Steps) /\ Elems(p) = IF skips THEN {next} ELSE {said, next}
        /\ p # << >> => Elems(Tail(p)) \subseteq {next}
        /\ p # << >> => Head(p) \in {said, next}
    <3>0. <<next>> \in Seq(Steps) /\ Elems(<<next>>) = {next}
      BY <2>5, ElemsOne
    <3>1. CASE skips
      <4>1. p = <<next>>
        BY <3>1, <2>5, ConcatEmptySeq
      <4>2. Head(<<next>>) = next /\ Tail(<<next>>) = << >>
        OBVIOUS
      <4> QED
        BY <3>0, <3>1, <4>1, <4>2, ElemsEmpty
    <3>2. CASE ~skips
      <4>1. p = <<said>> \o <<next>>
        BY <3>2
      <4>2. /\ <<said>> \o <<next>> \in Seq(Steps)
            /\ Elems(<<said>> \o <<next>>) = {said, next}
            /\ Head(<<said>> \o <<next>>) = said
        BY <2>5, ElemsTwo, Zenon
      <4>3. Elems(Tail(<<said>> \o <<next>>)) = {next}
        <5>1. <<said>> \in Seq(Steps) /\ <<said>> # << >> /\ Tail(<<said>>) = << >>
          BY <2>5
        <5> DEFINE a == <<said>>
                   b == <<next>>
        <5>2. a \in Seq(Steps) /\ b \in Seq(Steps) /\ a # << >>
          BY <3>0, <5>1
        <5> HIDE DEF a, b
        <5>3. Elems(Tail(a \o b)) = Elems(Tail(a)) \cup Elems(b)
          BY <5>2, HeadOfConcat
        <5> QED
          BY <3>0, <5>1, <5>3, ElemsEmpty DEF a, b
      <4> QED
        BY <3>2, <4>1, <4>2, <4>3
    <3> QED
      BY <3>1, <3>2
  <2> HIDE DEF p
  <2>8. StackInv'
    <3>1. \A k \in Elems(p) : k.op \in {"send", "loop"}
      BY <2>2, <2>4, <2>7
    <3>2. p # << >> => \A k \in Elems(Tail(p)) : Below(k, setup.maxFail, open', room')
      BY <2>2, <2>7 DEF Below
    <3>3. p # << >> => Head(p).op # "drop"
      BY <2>2, <2>4, <2>7
    <3> QED
      BY <1>1, <1>2, <2>6, <2>7, <3>1, <3>2, <3>3, StackStep
  <2>9. ToldInv'
    <3>1. ASSUME NEW k \in Elems(p), NEW d, NEW f, Tells(k, d, f, members)
          PROVE  Tells(Head(work), d, f, members)
      <4>1. CASE k = said /\ ~skips
        BY <1>1, <1>4, <2>1, <2>4, <3>1, <4>1 DEF Tells, Call
      <4>2. CASE k = next
        <5>1. /\ d # Call.skip
              /\ \E i \in 1 .. Len(ms) :
                   i >= Call.at + 1 /\ ms[i] = d /\ Call.frames[i] = f
          BY <2>2, <3>1, <4>2 DEF Tells
        <5>2. \A i \in 1 .. Len(ms) : i >= Call.at + 1 => i >= Call.at
          BY <1>4, <1>5
        <5> QED
          BY <1>1, <5>1, <5>2 DEF Tells, Call
      <4> QED
        BY <2>7, <4>1, <4>2
    <3>2. ASSUME NEW d, NEW f, Tells(Head(work), d, f, members)
          PROVE  \E k \in Elems(p) : Tells(k, d, f, members)
      <4>1. PICK i \in 1 .. Len(ms) : i >= Call.at /\ ms[i] = d /\ Call.frames[i] = f
        BY <1>6, <3>2
      <4>2. d # Call.skip
        BY <1>6, <3>2
      <4>3. CASE i = Call.at
        <5>1. said \in Elems(p)
          BY <2>7, <4>1, <4>2, <4>3
        <5>2. Tells(said, d, f, members)
          BY <2>4, <4>1, <4>3 DEF Tells
        <5> QED
          BY <5>1, <5>2
      <4>4. CASE i # Call.at
        <5>1. i >= Call.at + 1
          BY <1>4, <1>5, <4>1, <4>4
        <5>2. Tells(next, d, f, members)
          BY <2>2, <4>1, <4>2, <5>1 DEF Tells
        <5> QED
          BY <2>7, <5>2
      <4> QED
        BY <4>3, <4>4
    <3> HIDE DEF ms
    <3> QED
      BY <1>1, <1>2, <1>7, <2>6, <2>7, <3>1, <3>2, ToldStep
  <2> QED
    BY <2>8, <2>9
<1> QED
  BY <1>8, <1>9

\* What a drop leaves behind for the Lobby.
LEMMA UpdateCalls ==
  ASSUME NEW c
  PROVE  UpdateIfNamed(c) \in Seq(Steps) /\ Elems(UpdateIfNamed(c)) \subseteq {LobbyUpdate}
<1>1. <<LobbyUpdate>> \in Seq(Steps) /\ << >> \in Seq(Steps)
  <2> HIDE DEF Steps, LobbyUpdate
  <2> QED
    BY LobbyHarmless
<1> QED
  BY <1>1, ElemsEmpty, ElemsOne DEF UpdateIfNamed

LEMMA DropSoloView ==
  ASSUME ViewInv, DropSolo
  PROVE  StackInv' /\ ToldInv'
<1> DEFINE c == Call.client
           u == UpdateIfNamed(c)
<1>1. WorkOK /\ StackInv /\ ToldInv /\ TypeOK
  BY DEF ViewInv, Inv
<1>2. work # << >> /\ Head(work).op = "drop" /\ c \in Clients /\ c = Head(work).client
  BY <1>1, DropCall DEF DropSolo, Call
<1>3. UNCHANGED <<setup, room, members, started, view>>
  BY DEF DropSolo
<1>4. CASE c \in open
  <2>1. open' = open \ {c} /\ work' = u \o Tail(work)
    BY <1>4 DEF DropSolo, Forget, ThenReturn
  <2>2. u \in Seq(Steps) /\ Elems(u) \subseteq {LobbyUpdate}
    BY UpdateCalls
  <2> HIDE DEF c, u, Steps
  <2>3. \A k \in Elems(u) : k.op = "lobby"
    BY <2>2, LobbyHarmless
  <2>4. \A k \in Elems(u) : k.op # "autogo" /\ Below(k, setup.maxFail, open', room')
    BY <2>3 DEF Below
  <2>5. StackInv'
    BY <1>1, <1>2, <1>3, <2>1, <2>2, <2>4, StackBelow
  <2>6. \A k \in Elems(u) : \A d, f : ~Tells(k, d, f, members)
    BY <2>3, TellKinds
  <2>7. ToldInv'
    BY <1>1, <1>2, <1>3, <2>1, <2>2, <2>6, ToldSame
  <2> QED
    BY <2>5, <2>7
<1>5. CASE c \notin open
  <2>1. Return /\ open' = open
    BY <1>5 DEF DropSolo
  <2>2. StackInv' /\ work' = << >> \o Tail(work) /\ << >> \in Seq(Steps)
    BY <1>1, <1>2, <1>3, <2>1, StackReturn
  <2>3. \A k \in Elems(<< >>) : FALSE
    BY ElemsEmpty
  <2> HIDE DEF c, Steps
  <2>4. ToldInv'
    BY <1>1, <1>2, <1>3, <1>5, <2>1, <2>2, <2>3, ToldSame
  <2> QED
    BY <2>2, <2>4
<1> QED
  BY <1>4, <1>5

LEMMA HelloDoneView ==
  ASSUME ViewInv, HelloDone
  PROVE  StackInv' /\ ToldInv'
<1> DEFINE c == Call.client
           k == Send(c, LobbyFrame(c))
           p == <<LobbyUpdate, k>>
<1>1. WorkOK /\ StackInv /\ ToldInv /\ TypeOK /\ NamesLive
  BY DEF ViewInv, Inv
<1>2. /\ work # << >> /\ Call.op = "hello" /\ Head(work).op = "hello"
      /\ UNCHANGED <<setup, open, room, members, started, view>>
  BY DEF HelloDone, Calls, Call
<1>3. c \in Clients
  BY <1>1, <1>2, ElemsTail, CallKinds DEF WorkOK, Call
<1>4. CASE setup.impl = "c" /\ c \notin open
  <2>1. Return
    BY <1>4 DEF HelloDone
  <2>2. StackInv' /\ work' = << >> \o Tail(work) /\ << >> \in Seq(Steps)
    BY <1>1, <1>2, <2>1, StackReturn
  <2>3. \A j \in Elems(<< >>) : FALSE
    BY ElemsEmpty
  <2> HIDE DEF c, Steps
  <2>4. ToldInv'
    BY <1>1, <1>2, <2>2, <2>3, ToldSame
  <2> QED
    BY <2>2, <2>4
<1>5. CASE ~(setup.impl = "c" /\ c \notin open)
  <2>1. work' = p \o Tail(work)
    BY <1>5 DEF HelloDone, ThenReturn
  <2>2. k.op = "send" /\ k.frame.type = "LOBBY"
    BY DEF Send, LobbyFrame
  <2>3. k \in Steps /\ LobbyUpdate \in Steps
    BY <1>1, <1>3, LobbyFrameType, FrameKinds, StepKinds
  <2> HIDE DEF c, k, Steps
  <2>4. p \in Seq(Steps) /\ Elems(p) = {LobbyUpdate, k}
    BY <2>3 DEF Elems
  <2> HIDE DEF p
  <2>5. \A j \in Elems(p) : j.op # "autogo" /\ Below(j, setup.maxFail, open', room')
    BY <2>2, <2>4, LobbyHarmless DEF Below, RoomTypes
  <2>6. StackInv'
    BY <1>1, <1>2, <2>1, <2>4, <2>5, StackBelow
  <2>7. \A j \in Elems(p) : \A d, f :
          Tells(j, d, f, members) => f.type \notin RoomTypes \cup {"MATCH"}
    BY <2>2, <2>4, LobbyHarmless DEF Tells, RoomTypes
  <2>8. ToldInv'
    BY <1>1, <1>2, <2>1, <2>4, <2>7, ToldSame
  <2> QED
    BY <2>6, <2>8
<1> QED
  BY <1>4, <1>5

\* The frames of start_room tell each member its seat.
LEMMA StartTells ==
  ASSUME NEW ms \in Seq(Clients), NEW i \in 1 .. Len(ms)
  PROVE  LET f == [j \in 1 .. Len(ms) |-> StartFrame(j, ms)][i]
         IN /\ f.type \in RoomTypes
            /\ Told(Solo, f) = [started |-> TRUE, members |-> ms, seat |-> i]
  BY DEF StartFrame, RoomTypes, Told

\* The frames of room_broadcast tell each member who is there.
LEMMA RoomTells ==
  ASSUME NEW ms \in Seq(Clients), NEW i \in 1 .. Len(ms)
  PROVE  LET f == [j \in 1 .. Len(ms) |-> RoomFrame(ms)][i]
         IN /\ f.type \in RoomTypes
            /\ Told(Solo, f) = [started |-> FALSE, members |-> ms, seat |-> 0]
  BY DEF RoomFrame, RoomTypes, Told, Solo

\* Calls of a fan-out may be anywhere on the stack: loops, or sends that do
\* not fail.
LEMMA FanoutBelow ==
  ASSUME InStep, TypeOK, NEW r \in Rooms, NEW ms \in Seq(Clients),
         NEW fs \in Seq(Frames), Len(fs) = Len(ms), NEW skip \in Clients \cup {None},
         NEW k \in Elems(Fanout(r, ms, fs, skip)), NEW o, NEW rm
  PROVE  k.op # "autogo" /\ Below(k, setup.maxFail, o, rm)
<1>1. k.op = "loop" \/ (setup.impl = "c" /\ k.op = "send")
  <2>1. PICK mb : mb = [q \in {r} |-> ms]
    OBVIOUS
  <2>2. mb[r] = ms
    BY <2>1
  <2> HIDE DEF Frames
  <2> QED
    BY <2>2, FanoutTells
<1> QED
  BY <1>1, SetupInStep DEF Below

\* A room starts, when everyone is up to date.
LEMMA ToldStart ==
  ASSUME TypeOK, RoomsOK, NEW r \in Rooms, \A d \in open : view[d] = Now(d),
         UNCHANGED <<setup, open, room, members, view>>,
         started' = [started EXCEPT ![r] = TRUE],
         Elems(StartSends(r)) \subseteq Elems(work'),
         \A k \in Elems(work') :
           k \in Elems(StartSends(r)) \/ k.op \notin {"send", "loop"}
  PROVE  ToldInv'
<1>0. PICK ms : ms = members[r]
  OBVIOUS
<1> DEFINE fs == [i \in 1 .. Len(ms) |-> StartFrame(i, ms)]
<1>1. /\ ms \in Seq(Clients) /\ open \subseteq Clients
      /\ \A q \in Rooms : started'[q] = IF q = r THEN TRUE ELSE started[q]
      /\ \A d \in Clients : room[d] \in Rooms \cup {0}
      /\ r # 0
  BY <1>0, RoomsFacts DEF TypeOK
<1>2. /\ \A i \in 1 .. Len(ms) : room[ms[i]] = r
      /\ Distinct(ms)
  <2>1. \A i \in 1 .. Len(ms) : ms[i] \in Elems(ms)
    BY DEF Elems
  <2>2. CASE ms = << >>
    BY <2>2 DEF Distinct
  <2>3. CASE ms # << >>
    BY <1>0, <2>1, <2>3 DEF RoomsOK
  <2> QED
    BY <2>2, <2>3
<1>3. Len(ms) <= setup.seats
  <2>1. CASE ms = << >>
    BY <2>1, SetupFacts
  <2>2. CASE ms # << >>
    BY <1>0, <2>2, SetupFacts DEF RoomsOK
  <2> QED
    BY <2>1, <2>2
<1>4. fs \in Seq(Frames) /\ Len(fs) = Len(ms)
  BY <1>1, <1>3, StartFrames
<1>5. ASSUME NEW i \in 1 .. Len(ms)
      PROVE  fs[i].type \in RoomTypes /\ Told(Solo, fs[i]) = Now(ms[i])'
  <2>1. /\ fs[i].type \in RoomTypes
        /\ Told(Solo, fs[i]) = [started |-> TRUE, members |-> ms, seat |-> i]
    BY <1>1, StartTells
  <2>2. Seat(ms, ms[i]) = i
    BY <1>2, SeatValue
  <2>3. Now(ms[i])' = [started |-> TRUE, members |-> ms, seat |-> i]
    BY <1>0, <1>1, <1>2, <2>2 DEF Now, Belief
  <2> QED
    BY <2>1, <2>3
<1>6. ASSUME NEW d \in open', d \notin Elems(ms)
      PROVE  view'[d] = Now(d)'
  <2>1. d \in Clients /\ d \in open /\ view[d] = Now(d)
    BY <1>1
  <2>2. room[d] # r
    BY <1>0, <1>1, <1>6, <2>1 DEF RoomsOK
  <2> QED
    BY <1>1, <2>1, <2>2 DEF Now, Belief
<1>7. /\ Elems(Fanout(r, ms, fs, None)) \subseteq Elems(work')
      /\ \A k \in Elems(work') :
           k \in Elems(Fanout(r, ms, fs, None)) \/ k.op \notin {"send", "loop"}
  BY <1>0 DEF StartSends
<1>8. members'[r] = ms
  BY <1>0
<1>9. setup' = setup
  OBVIOUS
<1> HIDE DEF fs
<1>10. \A i \in 1 .. Len(ms) : fs[i].type \in RoomTypes
  BY <1>5
<1>11. \A i \in 1 .. Len(ms) : ms[i] \in open' => Told(Solo, fs[i]) = Now(ms[i])'
  BY <1>5
<1> HIDE DEF Frames
<1> QED
  BY <1>1, <1>4, <1>6, <1>7, <1>8, <1>9, <1>10, <1>11, ToldFanout

LEMMA StartBelow ==
  ASSUME InStep, TypeOK, RoomsOK, NEW r \in Rooms, NEW k \in Elems(StartSends(r)),
         NEW o, NEW rm
  PROVE  k.op # "autogo" /\ Below(k, setup.maxFail, o, rm)
<1> DEFINE ms == members[r]
           fs == [i \in 1 .. Len(ms) |-> StartFrame(i, ms)]
<1>1. ms \in Seq(Clients)
  BY DEF TypeOK
<1>2. Len(ms) <= setup.seats
  <2>1. CASE ms = << >>
    BY <2>1, SetupFacts
  <2>2. CASE ms # << >>
    BY <2>2, SetupFacts DEF RoomsOK
  <2> QED
    BY <2>1, <2>2
<1>3. fs \in Seq(Frames) /\ Len(fs) = Len(ms)
  BY <1>1, <1>2, StartFrames
<1>4. k \in Elems(Fanout(r, ms, fs, None))
  BY DEF StartSends
<1> HIDE DEF ms, fs
<1> QED
  BY <1>1, <1>3, <1>4, FanoutBelow

LEMMA AutoStartView ==
  ASSUME InStep, ViewInv, AutoStart
  PROVE  StackInv' /\ ToldInv'
<1> DEFINE r == Call.room
           q == StartSends(r)
           p == q \o <<LobbyUpdate>>
<1>1. WorkOK /\ StackInv /\ ToldInv /\ TypeOK /\ RoomsOK
  BY DEF ViewInv, Inv
<1>2. /\ work # << >> /\ Head(work).op = "autogo" /\ Call = Head(work)
      /\ UNCHANGED <<setup, open, room, members, view>>
  BY DEF AutoStart, Calls, Call
<1>3. r \in Rooms
  BY <1>1, <1>2, ElemsTail, CallKinds DEF WorkOK
<1>4. CASE setup.autoGo > 0 /\ Len(members[r]) >= setup.autoGo
  <2>1. work' = p \o Tail(work) /\ started' = [started EXCEPT ![r] = TRUE]
    BY <1>4 DEF AutoStart, ThenReturn
  <2>2. q \in Seq(Steps)
    BY <1>1, <1>3, StartReaches
  <2> HIDE DEF r
  <2>3. /\ \A k \in Elems(q) : k.op # "autogo" /\ Below(k, setup.maxFail, open', room')
    BY <1>1, <1>3, StartBelow
  <2> HIDE DEF q
  <2>4. p \in Seq(Steps) /\ Elems(p) = Elems(q) \cup {LobbyUpdate}
    BY <2>2, LobbyHarmless, ElemsEnd
  <2> HIDE DEF p
  <2>5. \A k \in Elems(p) : k.op # "autogo" /\ Below(k, setup.maxFail, open', room')
    BY <2>3, <2>4, LobbyHarmless DEF Below
  <2>6. StackInv'
    BY <1>1, <1>2, <2>1, <2>4, <2>5, StackBelow
  <2>7. Tail(work) = << >> /\ Elems(work) = {Head(work)}
    <3>1. Tail(work) = << >>
      <4>1. << >> \in Seq(AllCalls) /\ \A k \in Elems(<< >>) : k.op # "autogo"
        BY ElemsEmpty
      <4>2. Bottom(work, "autogo") /\ work \in Seq(AllCalls)
        BY <1>1 DEF StackInv, WorkOK
      <4> HIDE DEF AllCalls
      <4> QED
        BY <1>2, <4>1, <4>2, BottomKept
    <3>2. Elems(work) = {Head(work)} \cup Elems(Tail(work))
      BY <1>1, <1>2, ElemsTail DEF WorkOK
    <3> QED
      BY <3>1, <3>2, ElemsEmpty
  <2>8. \A d \in open : view[d] = Now(d)
    BY <1>1, <1>2, <2>7, AllTold
  <2>9. work' = p
    BY <2>1, <2>4, <2>7, ConcatEmptySeq
  <2>10. ToldInv'
    <3>1. /\ Elems(StartSends(r)) \subseteq Elems(work')
          /\ \A k \in Elems(work') :
               k \in Elems(StartSends(r)) \/ k.op \notin {"send", "loop"}
      BY <2>4, <2>9, LobbyHarmless DEF q
    <3> QED
      BY <1>1, <1>2, <1>3, <2>1, <2>8, <3>1, ToldStart
  <2> QED
    BY <2>6, <2>10
<1>5. CASE ~(setup.autoGo > 0 /\ Len(members[r]) >= setup.autoGo)
  <2>1. Return /\ started' = started
    BY <1>5 DEF AutoStart
  <2>2. StackInv' /\ work' = << >> \o Tail(work) /\ << >> \in Seq(Steps)
    BY <1>1, <1>2, <2>1, StackReturn
  <2>3. \A j \in Elems(<< >>) : FALSE
    BY ElemsEmpty
  <2> HIDE DEF r, Steps
  <2>4. ToldInv'
    BY <1>1, <1>2, <2>1, <2>2, <2>3, ToldSame
  <2> QED
    BY <2>2, <2>4
<1> QED
  BY <1>4, <1>5

\* The calls of drop when the room is dissolved.
LEMMA DissolveCalls ==
  ASSUME WorkOK, work # << >>, NEW u \in Seq(Steps), NEW s \in Seq(Steps),
         work' = u \o s \o <<LobbyUpdate>> \o Tail(work)
  PROVE  /\ u \o s \o <<LobbyUpdate>> \in Seq(Steps)
         /\ Elems(u \o s \o <<LobbyUpdate>>) = (Elems(u) \cup Elems(s)) \cup {LobbyUpdate}
         /\ work' = (u \o s \o <<LobbyUpdate>>) \o Tail(work)
         /\ Elems(work') = ((Elems(u) \cup Elems(s)) \cup {LobbyUpdate})
                             \cup Elems(Tail(work))
<1> DEFINE us == u \o s
           p == us \o <<LobbyUpdate>>
<1>1. us \in Seq(Steps) /\ Elems(us) = Elems(u) \cup Elems(s)
  <2>1. us \in Seq(Steps)
    BY ConcatProperties
  <2>2. Elems(us) = Elems(u) \cup Elems(s)
    BY ElemsConcat
  <2> QED
    BY <2>1, <2>2
<1> HIDE DEF us
<1>2. p \in Seq(Steps) /\ Elems(p) = Elems(us) \cup {LobbyUpdate}
  BY <1>1, LobbyHarmless, ElemsEnd
<1>3. work' = p \o Tail(work)
  BY DEF us
<1> HIDE DEF p
<1>4. p \in Seq(AllCalls)
  <2> HIDE DEF Steps, AllCalls
  <2> QED
    BY <1>2, StepKinds, SeqMonotonic
<1>5. Elems(p \o Tail(work)) = Elems(p) \cup Elems(Tail(work))
  BY <1>4, Stacked DEF WorkOK
<1> QED
  BY <1>1, <1>2, <1>3, <1>5 DEF us, p

LEMMA DropEndsView ==
  ASSUME ViewInv, DropFromMatch \/ DropFromForming
  PROVE  StackInv' /\ ToldInv'
<1> DEFINE c == Call.client
           u == UpdateIfNamed(c)
<1>1. /\ Inv /\ TypeOK /\ WorkOK /\ RoomsOK /\ StackInv /\ ToldInv
  BY DEF ViewInv, Inv
<1>2. /\ work # << >> /\ Head(work).op = "drop" /\ c \in Clients /\ c = Head(work).client
      /\ room[c] # 0
  BY <1>1, DropCall DEF DropFromMatch, DropFromForming, Call
<1>3. /\ Dissolve(room[c]) /\ open' = open \ {c} /\ UNCHANGED <<setup, started, view>>
  BY DEF DropFromMatch, DropFromForming, Forget
<1>4. u \in Seq(Steps) /\ Elems(u) \subseteq {LobbyUpdate}
  BY UpdateCalls
<1>5. /\ Survivors(c) \in Seq(Clients) /\ SeatOf(c) \in Nat
      /\ Elems(Survivors(c)) = Elems(members[room[c]]) \ {c}
  BY <1>1, <1>2, SeatFacts, SurvivorFacts
<1>6. \E g \in Frames :
        /\ g.type \in RoomTypes /\ Told(Solo, g) = Solo
        /\ work' = (u \o SendAll(Survivors(c), g) \o <<LobbyUpdate>>) \o Tail(work)
  <2>1. CASE DropFromMatch
    <3> DEFINE g == PeerLeftFrame(SeatOf(c), c)
    <3>1. g.type \in RoomTypes /\ Told(Solo, g) = Solo
      BY DEF PeerLeftFrame, Told, RoomTypes
    <3>2. g \in Frames
      BY <1>2, <1>5, FrameKinds
    <3>3. work' = (u \o SendAll(Survivors(c), g) \o <<LobbyUpdate>>) \o Tail(work)
      BY <2>1 DEF DropFromMatch, ThenReturn
    <3> HIDE DEF g
    <3> QED
      BY <3>1, <3>2, <3>3, Zenon
  <2>2. CASE DropFromForming
    <3> DEFINE g == RoomFrame(<< >>)
    <3>1. g.type \in RoomTypes /\ Told(Solo, g) = Solo
      BY DEF RoomFrame, Told, RoomTypes, Solo
    <3>2. g \in Frames
      <4>1. << >> \in Seq(Clients)
        OBVIOUS
      <4> QED
        BY <4>1, FrameKinds
    <3>3. work' = (u \o SendAll(Survivors(c), g) \o <<LobbyUpdate>>) \o Tail(work)
      BY <2>2 DEF DropFromForming, ThenReturn
    <3> HIDE DEF g
    <3> QED
      BY <3>1, <3>2, <3>3, Zenon
  <2> QED
    BY <2>1, <2>2
<1>7. PICK g \in Frames :
        /\ g.type \in RoomTypes /\ Told(Solo, g) = Solo
        /\ work' = (u \o SendAll(Survivors(c), g) \o <<LobbyUpdate>>) \o Tail(work)
  BY <1>6
<1> DEFINE s == SendAll(Survivors(c), g)
           p == u \o s \o <<LobbyUpdate>>
<1>8. s \in Seq(Steps) /\ Elems(s) = {Send(d, g) : d \in Elems(Survivors(c))}
  BY <1>5, SendAllReaches
<1> HIDE DEF c, u, s, Steps
<1>9. /\ p \in Seq(Steps)
      /\ Elems(p) = (Elems(u) \cup Elems(s)) \cup {LobbyUpdate}
      /\ work' = p \o Tail(work)
      /\ Elems(work') = ((Elems(u) \cup Elems(s)) \cup {LobbyUpdate})
                          \cup Elems(Tail(work))
  <2>1. work' = u \o s \o <<LobbyUpdate>> \o Tail(work)
    BY <1>7 DEF s
  <2> QED
    BY <1>1, <1>2, <1>4, <1>8, <2>1, DissolveCalls
<1> HIDE DEF p
<1>10. \A d : Send(d, g).op = "send" /\ Send(d, g).to = d /\ Send(d, g).frame = g
  BY DEF Send
<1>11. /\ room' = [d \in Clients |-> IF room[d] = room[c] THEN 0 ELSE room[d]]
       /\ open \subseteq Clients
  BY <1>1, <1>3 DEF Dissolve, TypeOK
<1>12. \A d \in Elems(Survivors(c)) : room'[d] = 0
  <2>1. ASSUME NEW d \in Elems(Survivors(c)) PROVE room'[d] = 0
    <3>1. d \in Clients
      BY <1>5, ElemsType
    <3>2. room[d] = room[c]
      <4>1. d \in Elems(members[room[c]]) /\ room[c] \in Rooms /\ members[room[c]] # << >>
        BY <1>1, <1>2, <1>5, SeatFacts
      <4> QED
        BY <1>1, <4>1 DEF RoomsOK
    <3> QED
      BY <1>11, <3>1, <3>2
  <2> QED
    BY <2>1
<1>13. StackInv'
  <2>1. ASSUME NEW k \in Elems(p)
        PROVE  k.op # "autogo" /\ Below(k, setup.maxFail, open', room')
    <3>1. k = LobbyUpdate \/ \E d \in Elems(Survivors(c)) : k = Send(d, g)
      BY <1>4, <1>8, <1>9
    <3>2. CASE k = LobbyUpdate
      BY <3>2, LobbyHarmless DEF Below
    <3>3. CASE \E d \in Elems(Survivors(c)) : k = Send(d, g)
      <4>1. PICK d \in Elems(Survivors(c)) : k = Send(d, g)
        BY <3>3
      <4> QED
        BY <1>7, <1>10, <1>12, <4>1 DEF Below, RoomTypes
    <3> QED
      BY <3>1, <3>2, <3>3
  <2>2. \A d \in open' : room[d] = 0 => room'[d] = 0
    BY <1>3, <1>11
  <2> QED
    BY <1>1, <1>2, <1>3, <1>9, <2>1, <2>2, StackBelow
<1>14. ToldInv'
  <2>1. Elems(Tail(work)) \subseteq Elems(work')
    BY <1>9
  <2>2. \A d \in Elems(Survivors(c)) : Send(d, g) \in Elems(work')
    BY <1>8, <1>9
  <2>3. \A k \in Elems(work') :
          \/ k \in Elems(Tail(work)) \/ k.op \notin {"send", "loop"}
          \/ \E d \in Elems(Survivors(c)) : k = Send(d, g)
    BY <1>4, <1>8, <1>9, LobbyHarmless
  <2> QED
    BY <1>1, <1>2, <1>3, <1>7, <2>1, <2>2, <2>3, ToldDissolve
<1> QED
  BY <1>13, <1>14

LEMMA DropReseatsView ==
  ASSUME InStep, ViewInv, DropReseats
  PROVE  StackInv' /\ ToldInv'
<1>0. PICK c : c = Call.client
  OBVIOUS
<1> DEFINE u == UpdateIfNamed(c)
<1>1. /\ Inv /\ TypeOK /\ WorkOK /\ RoomsOK /\ StackInv /\ ToldInv
  BY DEF ViewInv, Inv
<1>2. /\ work # << >> /\ Head(work).op = "drop" /\ c \in Clients /\ c = Head(work).client
      /\ room[c] # 0
  BY <1>0, <1>1, DropCall DEF DropReseats, Call
<1>3. /\ ~started[room[c]] /\ ~FormingEnds(c)
      /\ open' = open \ {c} /\ room' = [room EXCEPT ![c] = 0]
      /\ members' = [members EXCEPT ![room[c]] = Survivors(c)]
      /\ work' = (u \o RoomBroadcast(room[c], Survivors(c)) \o <<LobbyUpdate>>) \o Tail(work)
      /\ UNCHANGED <<setup, name, started, view>>
  BY <1>0 DEF DropReseats, Forget, ThenReturn
<1>4. PICK r, ms : r = room[c] /\ ms = Survivors(c)
  OBVIOUS
<1>5. /\ r \in Rooms /\ members[r] \in Seq(Clients) /\ members[r] # << >>
      /\ ms \in Seq(Clients) /\ Elems(ms) = Elems(members[r]) \ {c}
      /\ Len(ms) < Len(members[r])
  BY <1>1, <1>2, <1>4, SeatFacts, SurvivorFacts
<1>6. setup.maxFail = 0
  <2>1. ~(Len(ms) < 2)
    BY <1>3, <1>4 DEF FormingEnds
  <2>2. Len(members[r]) \in 2 .. setup.seats /\ setup.seats \in Nat
    BY <1>1, <1>5, SetupFacts DEF RoomsOK
  <2>3. setup.seats # 2
    BY <1>5, <2>1, <2>2
  <2> QED
    BY <1>1, <2>3, SetupInStep
<1>7. \A k \in Elems(Tail(work)) : k.op = "hello"
  BY <1>1, <1>2, <1>6 DEF StackInv, OnTop
<1>8. u \in Seq(Steps) /\ Elems(u) \subseteq {LobbyUpdate}
  BY UpdateCalls
<1> DEFINE fs == [i \in 1 .. Len(ms) |-> RoomFrame(ms)]
           q == Fanout(r, ms, fs, None)
           p == u \o q \o <<LobbyUpdate>>
<1>9. fs \in Seq(Frames) /\ Len(fs) = Len(ms)
  BY <1>5, RoomFrames
<1>10. q \in Seq(Steps) /\ q = RoomBroadcast(room[c], Survivors(c))
  <2>1. q = RoomBroadcast(r, ms)
    BY DEF RoomBroadcast
  <2> QED
    BY <1>4, <1>5, <2>1, BroadcastReaches
<1>11. \A i \in 1 .. Len(ms) :
         /\ fs[i].type \in RoomTypes
         /\ Told(Solo, fs[i]) = [started |-> FALSE, members |-> ms, seat |-> 0]
  BY <1>5, RoomTells
<1> HIDE DEF u, fs, q, Steps
<1>12. /\ p \in Seq(Steps)
       /\ Elems(p) = (Elems(u) \cup Elems(q)) \cup {LobbyUpdate}
       /\ work' = p \o Tail(work)
       /\ Elems(work') = ((Elems(u) \cup Elems(q)) \cup {LobbyUpdate})
                           \cup Elems(Tail(work))
  <2>1. work' = u \o q \o <<LobbyUpdate>> \o Tail(work)
    BY <1>3, <1>10
  <2> QED
    BY <1>1, <1>2, <1>8, <1>10, <2>1, DissolveCalls
<1> HIDE DEF p
<1>13. StackInv'
  <2>1. \A k \in Elems(q) : k.op # "autogo" /\ Below(k, setup.maxFail, open', room')
    <3> HIDE DEF Frames
    <3> QED
      BY <1>1, <1>5, <1>9, FanoutBelow DEF q
  <2>2. \A k \in Elems(p) : k.op # "autogo" /\ Below(k, setup.maxFail, open', room')
    BY <1>8, <1>12, <2>1, LobbyHarmless DEF Below
  <2>3. \A d \in open' : room[d] = 0 => room'[d] = 0
    BY <1>1, <1>3 DEF TypeOK
  <2> QED
    BY <1>1, <1>2, <1>3, <1>12, <2>2, <2>3, StackBelow
<1>14. /\ \A d \in Clients : room'[d] = IF d = c THEN 0 ELSE room[d]
       /\ \A o \in Rooms : members'[o] = IF o = r THEN ms ELSE members[o]
       /\ \A d \in Clients : room[d] \in Rooms \cup {0}
       /\ open \subseteq Clients /\ r # 0 /\ ~started[r]
  BY <1>1, <1>3, <1>4, <1>5, RoomsFacts DEF TypeOK
<1>15. ASSUME NEW i \in 1 .. Len(ms) PROVE Told(Solo, fs[i]) = Now(ms[i])'
  <2>1. ms[i] \in Elems(ms) /\ ms[i] \in Clients /\ ms[i] # c
    <3>1. ms[i] \in Elems(ms) /\ ms[i] \in Clients
      BY <1>5 DEF Elems
    <3> QED
      BY <1>5, <3>1
  <2>2. room[ms[i]] = r
    BY <1>1, <1>5, <2>1 DEF RoomsOK
  <2>3. room'[ms[i]] = r /\ members'[r] = ms /\ ~started'[r]
    BY <1>3, <1>5, <1>14, <2>1, <2>2
  <2>4. started'[r] = FALSE
    BY <1>1, <1>3, <1>5, <2>3 DEF TypeOK
  <2>5. Now(ms[i])' = [started |-> FALSE, members |-> ms, seat |-> 0]
    BY <1>14, <2>3, <2>4 DEF Now, Belief
  <2> QED
    BY <1>11, <2>5
<1>16. ASSUME NEW d \in open', d \notin Elems(ms) PROVE view'[d] = Now(d)'
  <2>1. d \in Clients /\ d \in open /\ d # c
    BY <1>3, <1>14
  <2>2. room[d] # r
    BY <1>1, <1>5, <1>14, <1>16, <2>1 DEF RoomsOK
  <2>3. view[d] = Now(d)
    <3>1. Elems(work) = {Head(work)} \cup Elems(Tail(work))
      BY <1>1, <1>2, ElemsTail DEF WorkOK
    <3>2. \A k \in Elems(work) : k.op \in {"drop", "hello"} /\ (k.op = "drop" => k.client = c)
      BY <1>2, <1>7, <3>1
    <3> QED
      BY <1>1, <2>1, <3>2, TellKinds DEF ToldInv, Due
  <2> QED
    BY <1>3, <1>14, <2>1, <2>2, <2>3 DEF Now, Belief
<1>17. ToldInv'
  <2>1. /\ Elems(Fanout(r, ms, fs, None)) \subseteq Elems(work')
        /\ \A k \in Elems(work') :
             k \in Elems(Fanout(r, ms, fs, None)) \/ k.op \notin {"send", "loop"}
    BY <1>7, <1>8, <1>12, LobbyHarmless DEF q
  <2>2. members'[r] = ms /\ setup' = setup
    BY <1>3, <1>5, <1>14
  <2>3. \A i \in 1 .. Len(ms) : fs[i].type \in RoomTypes
    BY <1>11
  <2>4. \A i \in 1 .. Len(ms) : ms[i] \in open' => Told(Solo, fs[i]) = Now(ms[i])'
    BY <1>15
  <2> HIDE DEF Frames
  <2> QED
    BY <1>5, <1>9, <1>16, <2>1, <2>2, <2>3, <2>4, ToldFanout
<1> QED
  BY <1>13, <1>17

-----------------------------------------------------------------------------
(* Every event keeps the invariant.                                        *)

\* Between two events nothing is pending.
LEMMA IdleTold ==
  ASSUME ViewInv, Idle
  PROVE  /\ Inv /\ TypeOK /\ RoomsOK /\ NamesLive /\ Elems(work) = {}
         /\ \A d \in open : view[d] = Now(d)
<1>1. Elems(work) = {}
  BY ElemsEmpty DEF Idle
<1> QED
  BY <1>1, AllTold DEF ViewInv, Inv

\* An event that changes no table, and tells nobody about a room or a match.
LEMMA QuietTold ==
  ASSUME ViewInv, Idle, UNCHANGED <<open, room, members, started, view>>,
         \A k \in Elems(work') : \A d, f :
           Tells(k, d, f, members) => f.type \notin RoomTypes \cup {"MATCH"}
  PROVE  ToldInv'
<1>1. \A d \in open' : view'[d] = Now(d)'
  BY IdleTold DEF Now
<1> QED
  BY <1>1, ToldNothing

LEMMA AcceptView ==
  ASSUME ViewInv, NEW c \in Clients, Accept(c)
  PROVE  StackInv' /\ ToldInv'
<1>1. /\ Idle /\ open' = open \cup {c} /\ room' = [room EXCEPT ![c] = 0]
      /\ view' = [view EXCEPT ![c] = Solo] /\ UNCHANGED <<members, started, work>>
  BY DEF Accept
<1>2. /\ DOMAIN room = Clients /\ DOMAIN view = Clients /\ open \subseteq Clients
      /\ Elems(work') = {} /\ work' = << >> /\ \A d \in open : view[d] = Now(d)
  BY <1>1, IdleTold DEF TypeOK, Idle
<1>3. ASSUME NEW d \in open' PROVE view'[d] = Now(d)'
  <2>1. CASE d = c
    BY <1>1, <1>2, <2>1 DEF Now, Belief
  <2>2. CASE d # c
    BY <1>1, <1>2, <2>2 DEF Now, Belief
  <2> QED
    BY <2>1, <2>2
<1>4. ToldInv'
  BY <1>2, <1>3, ToldNothing
<1>5. StackInv'
  BY <1>2 DEF StackInv, OnTop, Bottom
<1> QED
  BY <1>4, <1>5

\* An event whose handler is one send of the list or of a PONG.
LEMMA ReplyView ==
  ASSUME ViewInv, Idle, UNCHANGED <<tables, view>>, NEW c \in Clients, NEW f \in Frames,
         f.type \notin RoomTypes \cup {"MATCH"}, work' = <<Send(c, f)>>
  PROVE  StackInv' /\ ToldInv'
<1> DEFINE k == Send(c, f)
<1>1. k.op = "send" /\ k.to = c /\ k.frame = f /\ k \in AllCalls
  BY FrameKinds, StepKinds DEF Send
<1> HIDE DEF k, AllCalls
<1>2. work' \in Seq(AllCalls) /\ Elems(work') = {k} /\ Bottom(work', "autogo")
  <2>1. <<k>> \in Seq(AllCalls) /\ Elems(<<k>>) = {k} /\ Bottom(<<k>>, "autogo")
    BY <1>1, ElemsOne DEF Bottom
  <2> QED
    BY <2>1 DEF k
<1>3. \A j \in Elems(work') : Below(j, setup'.maxFail, open', room')
  BY <1>1, <1>2 DEF Below
<1>4. \A j \in Elems(work') : \A d, g :
        Tells(j, d, g, members) => g.type \notin RoomTypes \cup {"MATCH"}
  BY <1>1, <1>2 DEF Tells
<1>5. UNCHANGED <<open, room, members, started, view>>
  BY DEF tables
<1> QED
  BY <1>2, <1>3, <1>4, <1>5, StackFresh, QuietTold

LEMMA ListView ==
  ASSUME ViewInv, NEW c \in Clients, NEW n, OnList(c) \/ JoinRefused(c, n)
  PROVE  StackInv' /\ ToldInv'
<1>1. Idle /\ UNCHANGED <<tables, view>> /\ work' = <<Send(c, LobbyFrame(c))>>
  BY DEF OnList, JoinRefused
<1>2. LobbyFrame(c) \in Frames
  BY LobbyFrameType DEF ViewInv, Inv
<1>3. LobbyFrame(c).type = "LOBBY"
  BY DEF LobbyFrame
<1> HIDE DEF LobbyFrame, Frames
<1> QED
  BY <1>1, <1>2, <1>3, ReplyView DEF RoomTypes

LEMMA PingView ==
  ASSUME ViewInv, NEW c \in Clients, OnPing(c)
  PROVE  StackInv' /\ ToldInv'
<1>1. Idle /\ UNCHANGED <<tables, view>> /\ work' = <<Send(c, PongFrame)>>
  BY DEF OnPing
<1>2. PongFrame \in Frames /\ PongFrame.type = "PONG"
  BY FrameKinds DEF PongFrame
<1> HIDE DEF PongFrame, Frames
<1> QED
  BY <1>1, <1>2, ReplyView DEF RoomTypes

LEMMA CloseView ==
  ASSUME ViewInv, NEW c \in Clients, Close(c, "closed")
  PROVE  StackInv' /\ ToldInv'
<1> DEFINE k == Drop(c, "closed")
<1>1. Idle /\ work' = <<k>> /\ UNCHANGED <<open, room, members, started, view>>
  BY DEF Close, tables
<1>2. k.op = "drop"
  BY DEF Drop
<1> HIDE DEF k
<1>3. /\ Elems(<<k>>) = {k} /\ Bottom(<<k>>, "autogo") /\ Tail(<<k>>) = << >>
  BY <1>2, ElemsOne DEF Bottom
<1>4. StackInv'
  <2>1. Elems(Tail(work')) = {} /\ Bottom(work', "autogo")
    BY <1>1, <1>3, ElemsEmpty
  <2> QED
    BY <2>1 DEF StackInv, OnTop, Bottom, Elems
<1>5. \A j \in Elems(work') : \A d, f : ~Tells(j, d, f, members)
  BY <1>1, <1>2, <1>3, TellKinds
<1>6. ToldInv'
  BY <1>1, <1>5, QuietTold
<1> QED
  BY <1>4, <1>6

LEMMA HelloView ==
  ASSUME ViewInv, NEW c \in Clients, NEW n \in Names, OnHello(c, n)
  PROVE  StackInv' /\ ToldInv'
<1> DEFINE k == FinishHello(c, n)
           d == Drop(byName[n], "replaced")
<1>1. /\ Idle /\ work' = (IF byName[n] \in {None, c} THEN << >> ELSE <<d>>) \o <<k>>
      /\ UNCHANGED <<setup, open, room, members, started, view>>
  BY DEF OnHello, tables
<1>2. k \in AllCalls /\ k.op = "hello" /\ d.op = "drop"
  BY StepKinds DEF FinishHello, Drop
<1>3. byName[n] \notin {None, c} => d \in AllCalls
  BY StepKinds DEF ViewInv, Inv, TypeOK, Drop, Drops
<1> HIDE DEF k, d
<1>4. /\ work' # << >> => Elems(Tail(work')) \subseteq {k}
      /\ Elems(work') \subseteq {d, k} /\ Bottom(work', "autogo")
  <2>1. CASE byName[n] \in {None, c}
    <3>1. work' = <<k>>
      <4> HIDE DEF AllCalls
      <4> QED
        BY <1>1, <1>2, <2>1, ConcatEmptySeq
    <3>2. Elems(<<k>>) = {k} /\ Bottom(<<k>>, "autogo") /\ Tail(<<k>>) = << >>
      BY <1>2, ElemsOne DEF Bottom
    <3> QED
      BY <3>1, <3>2, ElemsEmpty
  <2>2. CASE byName[n] \notin {None, c}
    <3> DEFINE a == <<d>>
               b == <<k>>
               w == a \o b
    <3>1. work' = w
      BY <1>1, <2>2
    <3>2. d \in AllCalls /\ k \in AllCalls
      BY <1>2, <1>3, <2>2
    <3> HIDE DEF AllCalls
    <3>3. /\ a \in Seq(AllCalls) /\ b \in Seq(AllCalls) /\ a # << >> /\ Tail(a) = << >>
          /\ Elems(b) = {k}
      BY <3>2, ElemsOne
    <3>4. w \in Seq(AllCalls) /\ Elems(w) = {d, k} /\ Len(w) = 2
      <4> HIDE DEF d, k
      <4> QED
        BY <3>2, ElemsTwo
    <3> HIDE DEF a, b
    <3>5. Elems(Tail(w)) = {k}
      <4>1. Elems(Tail(a \o b)) = Elems(Tail(a)) \cup Elems(b)
        BY <3>3, HeadOfConcat
      <4> QED
        BY <3>3, <4>1, ElemsEmpty
    <3> HIDE DEF w
    <3>6. Bottom(w, "autogo")
      <4>1. \A i \in 1 .. Len(w) : w[i] \in Elems(w)
        BY DEF Elems
      <4> QED
        BY <1>2, <3>4, <4>1 DEF Bottom
    <3> QED
      BY <3>1, <3>4, <3>5, <3>6
  <2> QED
    BY <2>1, <2>2
<1>5. StackInv'
  <2>1. work' # << >> => \A j \in Elems(Tail(work')) : j.op = "hello"
    BY <1>2, <1>4
  <2> QED
    BY <1>4, <2>1 DEF StackInv, OnTop, Bottom, Below, Elems
<1>6. \A j \in Elems(work') : \A e, f : ~Tells(j, e, f, members)
  BY <1>2, <1>4, TellKinds
<1>7. ToldInv'
  BY <1>1, <1>6, QuietTold
<1> QED
  BY <1>5, <1>7

\* A fresh fan-out, and then calls that tell nobody anything.
LEMMA FanoutFresh ==
  ASSUME InStep, TypeOK, setup' = setup, NEW r \in Rooms, NEW ms \in Seq(Clients),
         NEW fs \in Seq(Frames), Len(fs) = Len(ms), NEW skip \in Clients \cup {None},
         work' \in Seq(AllCalls), Bottom(work', "autogo"),
         \A k \in Elems(work') :
           k \in Elems(Fanout(r, ms, fs, skip)) \/ k.op \in {"lobby", "autogo"}
  PROVE  StackInv'
<1>1. \A k \in Elems(Fanout(r, ms, fs, skip)) : Below(k, setup.maxFail, open', room')
  <2> HIDE DEF Frames
  <2> QED
    BY FanoutBelow
<1>2. \A k \in Elems(work') : Below(k, setup'.maxFail, open', room')
  BY <1>1 DEF Below
<1> QED
  BY <1>2, StackFresh

\* Nothing of a fan-out is an auto-go.
LEMMA FanoutBottom ==
  ASSUME NEW p \in Seq(Steps), \A k \in Elems(p) : k.op # "autogo",
         NEW e \in Steps
  PROVE  /\ Bottom(p, "autogo") /\ Bottom(p \o <<e>>, "autogo")
<1>1. Len(p) \in Nat /\ \A i \in 1 .. Len(p) : p[i] \in Elems(p)
  BY DEF Elems
<1>2. Bottom(p, "autogo")
  BY <1>1 DEF Bottom
<1> DEFINE t == <<e>>
           w == p \o t
<1>3. t \in Seq(Steps) /\ Len(t) = 1 /\ t[1] = e
  OBVIOUS
<1> HIDE DEF t
<1>4. /\ Len(w) = Len(p) + Len(t)
      /\ \A i \in 1 .. Len(p) + Len(t) : w[i] = IF i <= Len(p) THEN p[i] ELSE t[i - Len(p)]
  BY <1>3, ConcatProperties
<1> HIDE DEF w
<1>5. ASSUME NEW i \in 1 .. Len(w), w[i].op = "autogo" PROVE i = Len(w)
  <2>1. i \in 1 .. Len(p) + 1 /\ Len(w) = Len(p) + 1
    BY <1>1, <1>3, <1>4
  <2>2. i <= Len(p) => w[i] \in Elems(p)
    BY <1>1, <1>3, <1>4, <2>1
  <2>3. ~(i <= Len(p))
    BY <1>5, <2>2
  <2> QED
    BY <1>1, <2>1, <2>3
<1>6. Bottom(w, "autogo")
  BY <1>5 DEF Bottom
<1> QED
  BY <1>2, <1>6 DEF w, t

LEMMA GoView ==
  ASSUME InStep, ViewInv, NEW c \in Clients, OnGo(c)
  PROVE  StackInv' /\ ToldInv'
<1>0. PICK r : r = room[c]
  OBVIOUS
<1> DEFINE q == StartSends(r)
<1>1. /\ Idle /\ r # 0 /\ started' = [started EXCEPT ![r] = TRUE]
      /\ work' = q \o <<LobbyUpdate>>
      /\ UNCHANGED <<setup, open, room, members, view>>
  BY <1>0 DEF OnGo, MayGo
<1>2. Inv /\ TypeOK /\ RoomsOK /\ \A d \in open : view[d] = Now(d)
  BY <1>1, IdleTold
<1>3. r \in Rooms
  BY <1>0, <1>1, <1>2, SeatFacts
<1>4. q \in Seq(Steps)
  BY <1>2, <1>3, StartReaches
<1>5. \A k \in Elems(q) : k.op # "autogo" /\ Below(k, setup.maxFail, open', room')
  BY <1>2, <1>3, StartBelow
<1> HIDE DEF q
<1>6. /\ q \o <<LobbyUpdate>> \in Seq(Steps)
      /\ Elems(q \o <<LobbyUpdate>>) = Elems(q) \cup {LobbyUpdate}
  BY <1>4, LobbyHarmless, ElemsEnd
<1>7. Bottom(work', "autogo")
  <2>1. Bottom(q \o <<LobbyUpdate>>, "autogo")
    <3>1. LobbyUpdate \in Steps
      BY LobbyHarmless
    <3> HIDE DEF Steps, LobbyUpdate
    <3> QED
      BY <1>4, <1>5, <3>1, FanoutBottom
  <2> QED
    BY <1>1, <2>1
<1>8. work' \in Seq(AllCalls)
  <2> HIDE DEF Steps, AllCalls
  <2> QED
    BY <1>1, <1>6, StepKinds, SeqMonotonic
<1>9. \A k \in Elems(work') : Below(k, setup'.maxFail, open', room')
  BY <1>1, <1>5, <1>6, LobbyHarmless DEF Below
<1>10. StackInv'
  BY <1>7, <1>8, <1>9, StackFresh
<1>11. /\ Elems(StartSends(r)) \subseteq Elems(work')
       /\ \A k \in Elems(work') :
            k \in Elems(StartSends(r)) \/ k.op \notin {"send", "loop"}
  BY <1>1, <1>6, LobbyHarmless DEF q
<1>12. ToldInv'
  BY <1>1, <1>2, <1>3, <1>11, ToldStart
<1> QED
  BY <1>10, <1>12

LEMMA MatchFrameView ==
  ASSUME InStep, ViewInv, NEW c \in Clients, OnMatchFrame(c, None)
  PROVE  StackInv' /\ ToldInv'
<1>0. PICK r, ms : r = room[c] /\ ms = members[r]
  OBVIOUS
<1> DEFINE fs == [i \in 1 .. Len(ms) |-> MatchFrame(c, None)]
           q == Fanout(r, ms, fs, c)
<1>1. /\ Idle /\ r # 0 /\ started[r] /\ work' = q
      /\ UNCHANGED <<setup, open, room, members, started, view>>
  BY <1>0 DEF OnMatchFrame, Relays, tables
<1>2. Inv /\ TypeOK /\ RoomsOK /\ \A d \in open : view[d] = Now(d)
  BY <1>1, IdleTold
<1>3. r \in Rooms /\ ms \in Seq(Clients) /\ c \in Elems(ms) /\ ms # << >>
  BY <1>0, <1>1, <1>2, SeatFacts
<1>4. fs \in Seq(Frames) /\ Len(fs) = Len(ms)
  BY <1>3, MatchFrames
<1>5. \A i \in 1 .. Len(ms) : fs[i].type = "MATCH" /\ fs[i].from = c
  BY DEF MatchFrame
<1> HIDE DEF fs
<1>6. /\ q \in Seq(Steps)
      /\ \A k \in Elems(q) : k.op # "autogo"
  <2>1. q \in Seq(Steps) /\ \A k \in Elems(q) : Reaches(k, r, ms)
    BY <1>3, <1>4, FanoutReaches
  <2> QED
    BY <2>1 DEF Reaches
<1>7. \A k \in Elems(q) : \A d, f : Tells(k, d, f, members) =>
        \E i \in 1 .. Len(ms) : d = ms[i] /\ f = fs[i]
  <2> HIDE DEF Frames
  <2> QED
    BY <1>0, <1>3, <1>4, FanoutTells
<1>8. StackInv'
  <2>1. Bottom(q, "autogo")
    <3> HIDE DEF q, Steps, LobbyUpdate
    <3> QED
      BY <1>6, LobbyHarmless, FanoutBottom
  <2>2. q \in Seq(AllCalls)
    <3> HIDE DEF q, Steps, AllCalls
    <3> QED
      BY <1>6, StepKinds, SeqMonotonic
  <2>3. work' \in Seq(AllCalls) /\ Bottom(work', "autogo")
        /\ \A k \in Elems(work') : k \in Elems(Fanout(r, ms, fs, c))
    BY <1>1, <2>1, <2>2
  <2> HIDE DEF q, Frames, AllCalls
  <2> QED
    BY <1>1, <1>2, <1>3, <1>4, <2>3, FanoutFresh
<1> HIDE DEF q
<1>9. ASSUME NEW k \in Elems(work'), NEW d, NEW f, Tells(k, d, f, members)
      PROVE  d \in Elems(ms) /\ f.type = "MATCH" /\ f.from = c
  <2>1. PICK i \in 1 .. Len(ms) : d = ms[i] /\ f = fs[i]
    BY <1>1, <1>7, <1>9
  <2> QED
    BY <1>5, <2>1 DEF Elems
<1>10. Right'
  <2>1. \A k \in Elems(work') : \A d, f : Tells(k, d, f, members) => f.type \notin RoomTypes
    BY <1>9 DEF RoomTypes
  <2> QED
    BY <1>1, <2>1 DEF Right, Elems
<1>11. Due'
  <2>1. \A d \in open' : view'[d] = Now(d)'
    BY <1>1, <1>2 DEF Now
  <2> QED
    BY <2>1 DEF Due, Elems
<1>12. MatchOnly'
  <2>1. ASSUME NEW d \in open', NEW k \in Elems(work'), NEW f, Tells(k, d, f, members)
        PROVE  /\ room[d] # 0 /\ started[room[d]] /\ f.from \in Elems(members[room[d]])
    <3>1. d \in Elems(ms) /\ f.from = c
      BY <1>9, <2>1
    <3>2. room[d] = r
      BY <1>0, <1>2, <1>3, <3>1 DEF RoomsOK
    <3> QED
      BY <1>0, <1>1, <1>3, <3>1, <3>2
  <2>2. \A k \in Elems(work') : \A d, f : Tells(k, d, f, members) => f.type \notin RoomTypes
    BY <1>9 DEF RoomTypes
  <2>3. ASSUME NEW d \in open', NEW k \in Elems(work'), NEW f, Tells(k, d, f, members')
        PROVE  /\ room'[d] # 0 /\ started'[room'[d]]
               /\ f.from \in Elems(members'[room'[d]])
               /\ \A j \in Elems(work') : \A g :
                    Tells(j, d, g, members') => g.type \notin RoomTypes
    <3>1. members' = members /\ room' = room /\ started' = started
      BY <1>1
    <3> QED
      BY <2>1, <2>2, <2>3, <3>1
  <2> QED
    BY <2>3 DEF MatchOnly, Elems
<1> QED
  BY <1>8, <1>10, <1>11, <1>12 DEF ToldInv

LEMMA JoinView ==
  ASSUME InStep, ViewInv, NEW c \in Clients, NEW n \in Names, Join(c, n)
  PROVE  StackInv' /\ ToldInv'
<1>0. PICK r, ms : r = JoinRoom(n) /\ ms = Joined(c, n)
  OBVIOUS
<1> DEFINE fs == [i \in 1 .. Len(ms) |-> RoomFrame(ms)]
           q == Fanout(r, ms, fs, None)
           ends == <<LobbyUpdate, TryAutoGo(r)>>
<1>1. Idle
  BY DEF Join
<1>2. /\ Inv /\ TypeOK /\ RoomsOK /\ NamesLive /\ \A d \in open : view[d] = Now(d)
  BY <1>1, IdleTold
<1>3. /\ work' = RoomBroadcast(r, ms) \o ends
      /\ UNCHANGED <<setup, open, view>>
  BY <1>0 DEF Join, JoinRoom, Joined
<1>4. /\ r \in Rooms /\ ms \in Seq(Clients)
      /\ Elems(ms) = Elems(members[r]) \cup {byName[n], c}
  BY <1>0, <1>2, JoinFacts
<1>5. /\ RoomsOK'
      /\ \A o \in Rooms : members'[o] = IF o = r THEN ms ELSE members[o]
      /\ \A d \in Clients : room'[d] = IF d \in {byName[n], c} THEN r ELSE room[d]
      /\ \A o \in Rooms : started'[o] = IF o = r THEN FALSE ELSE started[o]
  <2>0. TypeOK /\ RoomsOK /\ NamesLive
    BY <1>2
  <2> HIDE DEF fs, q, ends
  <2>1. RoomsOK'
    BY <2>0, JoinRooms
  <2>2. /\ members' = [members EXCEPT ![r] = ms]
        /\ started' = [started EXCEPT ![r] = @ /\ room[byName[n]] # 0]
    BY <1>0 DEF Join, JoinRoom, Joined
  <2>3. \A d \in Clients :
          room'[d] = IF d \in {byName[n], c} THEN JoinRoom(n) ELSE room[d]
    BY <2>0, JoinRooms
  <2>4. room[byName[n]] # 0 => ~started[r]
    BY <1>0, <2>0, JoinFacts
  <2>5. DOMAIN members = Rooms /\ started \in [Rooms -> BOOLEAN]
    BY <2>0 DEF TypeOK
  <2> QED
    BY <1>0, <1>4, <2>1, <2>2, <2>3, <2>4, <2>5
<1>6. fs \in Seq(Frames) /\ Len(fs) = Len(ms)
  BY <1>4, RoomFrames
<1>7. q \in Seq(Steps) /\ \A k \in Elems(q) : Reaches(k, r, ms)
  BY <1>4, <1>6, FanoutReaches
<1>8. work' = q \o ends
  BY <1>3 DEF RoomBroadcast
<1>9. \A i \in 1 .. Len(ms) :
        /\ fs[i].type \in RoomTypes
        /\ Told(Solo, fs[i]) = [started |-> FALSE, members |-> ms, seat |-> 0]
  BY <1>4, RoomTells
<1>10. /\ ends \in Seq(Steps) /\ Len(ends) = 2 /\ ends[1].op = "lobby" /\ ends[2].op = "autogo"
       /\ Elems(ends) = {ends[1], ends[2]}
  <2>1. LobbyUpdate \in Steps /\ TryAutoGo(r) \in Steps
    BY <1>4, StepKinds
  <2>2. ends \in Seq(Steps)
    <3> HIDE DEF Steps, LobbyUpdate
    <3> QED
      BY <2>1
  <2>3. TryAutoGo(r).op = "autogo" /\ LobbyUpdate.op = "lobby"
    BY DEF TryAutoGo, LobbyUpdate
  <2> QED
    BY <2>2, <2>3 DEF Elems
<1> HIDE DEF fs, q, ends
<1>11. q \o ends \in Seq(Steps) /\ Elems(q \o ends) = Elems(q) \cup Elems(ends)
  <2>1. q \o ends \in Seq(Steps)
    BY <1>7, <1>10, ConcatProperties
  <2>2. Elems(q \o ends) = Elems(q) \cup Elems(ends)
    BY <1>7, <1>10, ElemsConcat
  <2> QED
    BY <2>1, <2>2
<1>12. Bottom(work', "autogo")
  <2> DEFINE w == q \o ends
  <2>1. /\ Len(w) = Len(q) + Len(ends) /\ Len(q) \in Nat
        /\ \A i \in 1 .. Len(q) + Len(ends) :
             w[i] = IF i <= Len(q) THEN q[i] ELSE ends[i - Len(q)]
    BY <1>7, <1>10, ConcatProperties
  <2>2. \A i \in 1 .. Len(q) : q[i] \in Elems(q)
    BY DEF Elems
  <2>3. \A k \in Elems(q) : k.op # "autogo"
    BY <1>7 DEF Reaches
  <2> HIDE DEF w
  <2>4. ASSUME NEW i \in 1 .. Len(w), w[i].op = "autogo" PROVE i = Len(w)
    <3>1. i \in 1 .. Len(q) + 2 /\ Len(w) = Len(q) + 2
      BY <1>10, <2>1
    <3>2. CASE i <= Len(q)
      <4>1. w[i] = q[i] /\ i \in 1 .. Len(q)
        BY <1>10, <2>1, <3>1, <3>2
      <4> QED
        BY <2>2, <2>3, <2>4, <4>1
    <3>3. CASE i = Len(q) + 1
      <4>1. w[i] = ends[1]
        <5>1. i - Len(q) = 1 /\ ~(i <= Len(q))
          BY <2>1, <3>3
        <5> QED
          BY <1>10, <2>1, <3>1, <5>1
      <4> QED
        BY <1>10, <2>4, <4>1
    <3> QED
      BY <2>1, <3>1, <3>2, <3>3
  <2>5. Bottom(w, "autogo")
    BY <2>4 DEF Bottom
  <2> QED
    BY <1>8, <2>5 DEF w
<1>13. work' \in Seq(AllCalls)
  <2> HIDE DEF Steps, AllCalls
  <2> QED
    BY <1>8, <1>11, StepKinds, SeqMonotonic
<1>14. /\ Elems(q) \subseteq Elems(work')
       /\ \A k \in Elems(work') : k \in Elems(q) \/ k.op \in {"lobby", "autogo"}
  BY <1>8, <1>10, <1>11
<1>15. StackInv'
  <2>1. \A k \in Elems(work') :
          k \in Elems(Fanout(r, ms, fs, None)) \/ k.op \in {"lobby", "autogo"}
    BY <1>14 DEF q
  <2> HIDE DEF Frames, AllCalls
  <2> QED
    BY <1>2, <1>3, <1>4, <1>6, <1>12, <1>13, <2>1, FanoutFresh
<1>16. /\ open \subseteq Clients /\ r # 0
       /\ \A d \in Clients : room[d] \in Rooms \cup {0}
  BY <1>2, <1>4, RoomsFacts DEF TypeOK
<1>17. ASSUME NEW i \in 1 .. Len(ms) PROVE Told(Solo, fs[i]) = Now(ms[i])'
  <2>1. ms[i] \in Elems(ms)
    BY DEF Elems
  <2>2. members'[r] = ms /\ started'[r] = FALSE
    BY <1>4, <1>5
  <2>3. \A d \in Elems(ms) : room'[d] = r
    <3>1. members'[r] # << >>
      BY <2>1, <2>2, ElemsEmpty
    <3>2. \A d \in Elems(members'[r]) : room'[d] = r
      BY <1>4, <1>5, <3>1 DEF RoomsOK, Elems
    <3> QED
      BY <2>2, <3>2
  <2>4. Now(ms[i])' = [started |-> FALSE, members |-> ms, seat |-> 0]
    BY <1>16, <2>1, <2>2, <2>3 DEF Now, Belief
  <2> QED
    BY <1>9, <2>4
<1>18. ASSUME NEW d \in open', d \notin Elems(ms) PROVE view'[d] = Now(d)'
  <2>1. d \in Clients /\ d \in open /\ d \notin {byName[n], c}
    BY <1>3, <1>4, <1>16, <1>18
  <2>2. room[d] # r /\ room'[d] = room[d]
    BY <1>2, <1>4, <1>5, <1>16, <1>18, <2>1 DEF RoomsOK
  <2>3. view'[d] = Now(d)
    BY <1>2, <1>3, <2>1
  <2>4. CASE room[d] = 0
    BY <2>2, <2>3, <2>4 DEF Now, Belief
  <2>5. CASE room[d] # 0
    <3>1. members'[room[d]] = members[room[d]] /\ started'[room[d]] = started[room[d]]
      BY <1>5, <1>16, <2>1, <2>2, <2>5
    <3> QED
      BY <2>2, <2>3, <3>1 DEF Now, Belief
  <2> QED
    BY <2>4, <2>5
<1>19. ToldInv'
  <2>1. /\ Elems(Fanout(r, ms, fs, None)) \subseteq Elems(work')
        /\ \A k \in Elems(work') :
             k \in Elems(Fanout(r, ms, fs, None)) \/ k.op \notin {"send", "loop"}
    BY <1>14 DEF q
  <2>2. members'[r] = ms /\ setup' = setup
    BY <1>3, <1>4, <1>5
  <2>3. \A i \in 1 .. Len(ms) : fs[i].type \in RoomTypes
    BY <1>9
  <2>4. \A i \in 1 .. Len(ms) : ms[i] \in open' => Told(Solo, fs[i]) = Now(ms[i])'
    BY <1>17
  <2> HIDE DEF Frames
  <2> QED
    BY <1>4, <1>6, <1>18, <2>1, <2>2, <2>3, <2>4, ToldFanout
<1> QED
  BY <1>15, <1>19

-----------------------------------------------------------------------------
(* The theorems.                                                           *)

LEMMA InStepNoGhost == ASSUME InStep PROVE NoGhost
  BY DEF InStep, NoGhost

LEMMA InitView == Init => StackInv /\ ToldInv
<1> SUFFICES ASSUME Init PROVE StackInv /\ ToldInv
  OBVIOUS
<1>1. open = {} /\ work = << >>
  BY DEF Init, Boot
<1> QED
  BY <1>1 DEF StackInv, OnTop, Bottom, ToldInv, Right, Due, MatchOnly

LEMMA NextView ==
  ASSUME InStep, ViewInv, [Next]_vars
  PROVE  StackInv' /\ ToldInv'
<1>1. CASE Event
  <2>1. PICK c \in Clients :
          \/ Accept(c) \/ Close(c, "closed") \/ OnList(c) \/ OnPing(c) \/ OnGo(c)
          \/ OnMatchFrame(c, None)
          \/ \E n \in Names : OnHello(c, n) \/ JoinRefused(c, n) \/ Join(c, n)
    BY <1>1 DEF Event
  <2> QED
    BY <2>1, AcceptView, CloseView, ListView, PingView, GoView, MatchFrameView,
       HelloView, JoinView, Zenon
<1>2. CASE Handler
  BY <1>2, SendFrameView, SendFailsView, NextMemberView, HelloDoneView,
     UpdateLobbyView, AutoStartView, DropSoloView, DropEndsView, DropReseatsView,
     Zenon DEF Handler
<1>3. CASE UNCHANGED vars
  <2>1. UNCHANGED <<setup, open, room, members, started, work, view>>
    BY <1>3 DEF vars, tables
  <2>2. StackInv'
    BY <2>1 DEF ViewInv, StackInv, OnTop, Bottom, Below, Elems
  <2>3. \A d : Now(d)' = Now(d)
    BY <2>1 DEF Now
  <2>4. Right' /\ Due' /\ MatchOnly'
    <3>1. Elems(work') = Elems(work)
      BY <2>1
    <3>2. Right'
      BY <2>1, <2>3, <3>1 DEF ViewInv, ToldInv, Right, Elems
    <3>3. Due'
      BY <2>1, <2>3, <3>1 DEF ViewInv, ToldInv, Due, Elems
    <3>4. MatchOnly'
      BY <2>1, <3>1 DEF ViewInv, ToldInv, MatchOnly, Elems
    <3> QED
      BY <3>2, <3>3, <3>4
  <2> QED
    BY <2>2, <2>4 DEF ToldInv
<1> QED
  BY <1>1, <1>2, <1>3 DEF Next

\* Along every run, in the middle of a handler too, a client that is connected
\* knows what the relay believes of its room, is about to be told, or is about to
\* be dropped; and what it is about to be told is what the relay believes
\* (room_broadcast, start_room, dissolve, drop).
THEOREM ClientsInStep == ASSUME InStep PROVE Spec => []ViewInv
<1>1. Init => ViewInv
  BY InitInv, InitView DEF ViewInv
<1>2. ViewInv /\ [Next]_vars => ViewInv'
  <2>1. ViewInv /\ [Next]_vars => Inv'
    BY InStepNoGhost, NextInv DEF ViewInv
  <2> QED
    BY <2>1, NextView DEF ViewInv
<1> QED
  BY <1>1, <1>2, PTL DEF Spec

\* Between two events what a client was told last is what the relay believes,
\* although a send may have failed in the middle of a broadcast (room_broadcast,
\* start_room, dissolve, drop).
THEOREM ViewsAgree == ASSUME InStep PROVE Spec => []ViewAgrees
<1>1. ViewInv => ViewAgrees
  BY IdleTold, NowIsBelieved DEF ViewAgrees
<1> QED
  BY <1>1, ClientsInStep, PTL

\* A match frame only reaches a client that was told of the match with its
\* sender, and not after it was told that the match is over (handle).
THEOREM FramesInMatch == ASSUME InStep PROVE Spec => []NoStrayFrame
<1>1. ViewInv => NoStrayFrame
  <2> SUFFICES ASSUME ViewInv, Calls("send"), Call.to \in open, Call.frame.type = "MATCH"
               PROVE  /\ view[Call.to].started
                      /\ \E i \in 1 .. Len(view[Call.to].members) :
                           view[Call.to].members[i] = Call.frame.from
    BY DEF NoStrayFrame
  <2> DEFINE d == Call.to
             f == Call.frame
  <2>1. work # << >> /\ Call.op = "send" /\ Call = Head(work)
    BY DEF Calls, Call
  <2>2. Elems(work) = {Head(work)} \cup Elems(Tail(work))
    BY <2>1, ElemsTail DEF ViewInv, Inv, WorkOK
  <2>3. Tells(Call, d, f, members) /\ Call \in Elems(work)
    BY <2>1, <2>2 DEF Tells
  <2>4. /\ room[d] # 0 /\ started[room[d]] /\ f.from \in Elems(members[room[d]])
        /\ \A j \in Elems(work) : \A g : Tells(j, d, g, members) => g.type \notin RoomTypes
    BY <2>3 DEF ViewInv, ToldInv, MatchOnly
  <2>5. \A k \in Elems(work) : k.op # "drop"
    BY <2>1, <2>2 DEF ViewInv, StackInv, OnTop, Below
  <2>6. view[d] = Now(d)
    BY <2>4, <2>5 DEF ViewInv, ToldInv, Due
  <2>7. view[d].started = started[room[d]] /\ view[d].members = members[room[d]]
    BY <2>4, <2>6 DEF Now, Belief
  <2> QED
    BY <2>4, <2>7 DEF Elems
<1> QED
  BY <1>1, ClientsInStep, PTL
=============================================================================
