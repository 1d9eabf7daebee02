------------------------ MODULE NetplayInputProofs ------------------------
(* Both consoles simulate every tick on the same inputs, and never wait    *)
(* for each other, for any number of divergences and images, for consoles  *)
(* that leave or time out at any point, and across the wrap of the ticks.  *)
EXTENDS NetplayTornProofs

\* How the sizes of rings, ticks and gaps have to be chosen.  (In the code the
\* delay is 3, the ring and TICK_LO have 256 values, the gap is 16, ticks have
\* 16 bits and CRCs are sent every 64 ticks.)
Sized ==
  /\ LowMod >= 2 * Delay + 2
  /\ ResumeGap > Delay
  /\ TickMod >= 4 * (ResumeGap + Delay + 1)
  /\ CrcPeriod > 1 /\ TickMod % CrcPeriod = 0

-----------------------------------------------------------------------------
(* Queues, by what is in them and in which order.                          *)

Elems(s) == {s[i] : i \in 1 .. Len(s)}
Before(s, f, g) == \E i, j \in 1 .. Len(s) : i < j /\ s[i] = f /\ s[j] = g
Kind(s, type) == {f \in Elems(s) : f.type = type}

-----------------------------------------------------------------------------
(* The inductive invariant.                                                *)

\* The tick a console captures next.
Cap(c) == tick[c] + Delay + (IF pc[c] \in {"gate", "stall", "off"} THEN 1 ELSE 0)

\* How many images the host has pushed that the guest has not completed.
Ahead == rebases[0] - rebases[1]

\* The most ticks one push moves the host's watermark by.
Leap == ResumeGap + Delay + 1

\* Console s has played tick t with input v of its own, or still will.
Owns(pl, live, now, own, s, t, v) ==
  /\ \A p \in pl : p.tick = t => p.in[s] = v
  /\ live /\ t >= now => own[RingSlot(t)] = v
Right(s, t, v) == Owns(played[s], ~dropped[s], tick[s], ring[s][s], s, t, v)

\* The shape of the queues, and consoles that have ended their match.
Basic ==
  /\ ~hold[0] /\ resume[0] <= tick[0]
  /\ \A f \in Elems(chan[0]) : f.type \in {"INPUT", "CRC", "RESYNC", "PEER_LEFT"}
  /\ \A f \in Elems(chan[1]) : f.type # "RESYNC"
  /\ \A f \in Kind(chan[0], "RESYNC") : f.tick < tick[0]
  /\ \A f \in Kind(chan[1], "CRC") : f.tick < tick[0]
  /\ Ahead \in 0 .. 2
  /\ \A c \in Seats :
       /\ \A f, g \in Elems(chan[c]) : Before(chan[c], f, g) => f.type # "PEER_LEFT"
       /\ room => Kind(chan[c], "PEER_LEFT") = {}
       /\ dropped[c] /\ pc[c] \in Pumping => ~room /\ chan[c] = << >>
       /\ pc[c] = "off" => ~room
       /\ \A p \in played[c] : p.tick < tick[c]

\* To the guest: the watermark a frame leaves behind.
Mark(f) == f.type \in {"INPUT", "BEGIN"}
Val(f) == IF f.type = "BEGIN" THEN f.tick + Delay - 1 ELSE f.tick

\* The host's inputs come without gaps, from the guest's watermark (or the one
\* of the image it is in the middle of) up to what the host captures next.
Chain(u, start, cap) ==
  /\ start < cap
  /\ \A f \in Elems(u) : Mark(f) => start < Val(f) /\ Val(f) < cap
  /\ \A f, g \in Elems(u) : Before(u, f, g) /\ Mark(f) /\ Mark(g) => Val(f) < Val(g)
  /\ \A f \in Kind(u, "INPUT") :
       f.tick = start + 1 \/ \E g \in Elems(u) : Mark(g) /\ Val(g) = f.tick - 1

\* While the room stands, nothing is missing at the end of the queue.
Full(u, start, cap) ==
  cap = start + 1 \/ \E g \in Elems(u) : Mark(g) /\ Val(g) = cap - 1

\* A CRC follows the input captured in its tick and precedes the next one; it
\* belongs to the image before it.
Reports(u, start) ==
  /\ \A f \in Kind(u, "CRC") :
       f.tick + Delay <= start \/ \E g \in Kind(u, "INPUT") : g.tick = f.tick + Delay
  /\ \A f \in Kind(u, "CRC"), g \in Elems(u) :
       /\ Mark(g) /\ Before(u, f, g) => f.tick + Delay < Val(g)
       /\ g.type = "BEGIN" /\ Before(u, g, f) => g.tick <= f.tick

\* Images are ResumeGap apart from what was sent before, ...
Spaced(u, start) ==
  \A b \in Kind(u, "BEGIN") :
    /\ \A f \in Kind(u, "INPUT") :
         f.tick <= b.tick - 1 - ResumeGap + Delay \/ f.tick >= b.tick + Delay
    /\ \A f \in Kind(u, "BEGIN") : f.tick < b.tick => f.tick <= b.tick - 1 - ResumeGap
    /\ start <= b.tick - 1 - ResumeGap + Delay

\* ... and no input is far ahead of its image or of the guest.
Near(u, near) ==
  \A f \in Kind(u, "INPUT") :
    \/ f.tick <= near
    \/ \E b \in Kind(u, "BEGIN") : b.tick + Delay <= f.tick /\ f.tick <= b.tick + 2 * Delay

\* The images under way: the guest is in the middle of mid.
Images(u, mid, last, ahead) ==
  /\ ahead = 0 => mid = {} /\ Kind(u, "BEGIN") = {}
  /\ ahead = 1 =>
       /\ \A r \in mid : r = last
       /\ \A b \in Kind(u, "BEGIN") : b.tick = last /\ mid = {}
  /\ ahead = 2 =>
       /\ \A r \in mid : r < last /\ \A b \in Kind(u, "BEGIN") : b.tick = last
       /\ \A b \in Kind(u, "BEGIN") :
            /\ b.tick = last => mid # {} \/ \E a \in Kind(u, "BEGIN") : a.tick < last
            /\ b.tick < last => \A a \in Kind(u, "BEGIN") : a.tick > b.tick => a.tick = last
            /\ b.tick <= last

\* What lies before the last image and what after it.
Limit(last) == last - 1 - ResumeGap + Delay
Last(u, mid, last) ==
  \A f \in Kind(u, "INPUT") :
    \/ f.tick <= Limit(last)
    \/ f.tick >= last + Delay /\ (last \in mid \/ \E b \in Kind(u, "BEGIN") : b.tick = last)

Mid == IF hold[1] THEN {resume[1]} ELSE {}
Pending(r) == r \in Mid \/ \E b \in Kind(chan[1], "BEGIN") : b.tick = r

\* The ticks an image makes idle.
ImageRight(r) ==
  /\ r + Delay <= Cap(0)
  /\ r = resume[0] \/ (r + 1 + ResumeGap <= resume[0] /\ (~dropped[0] => resume[0] <= r + Leap))
  /\ \A t \in r .. r + Delay - 1 : Right(0, t, Idle)
  /\ \A p \in played[0] : p.tick >= r =>
       p.in[1] = Idle /\ (p.tick < r + Delay \/ (r < resume[0] /\ p.tick >= resume[0]))

Start == IF hold[1] THEN resume[1] + Delay - 1 ELSE wm[1]
NearTick == IF hold[1] THEN resume[1] + 2 * Delay ELSE tick[1] + 2 * Delay + 1

\* A tick the guest will not play before the next image.
Beyond(x) ==
  /\ Ahead > 0 /\ x > wm[1]
  /\ \A f \in Kind(chan[1], "INPUT") :
       f.tick < x \/ hold[1] \/ \E b \in Kind(chan[1], "BEGIN") : b.tick + Delay <= f.tick

GuestQueue ==
  /\ Chain(chan[1], Start, Cap(0))
  /\ room => Full(chan[1], Start, Cap(0))
  /\ Reports(chan[1], Start)
  /\ Spaced(chan[1], Start)
  /\ Near(chan[1], NearTick)
  /\ Images(chan[1], Mid, resume[0], Ahead)
  /\ Ahead > 0 => /\ Last(chan[1], Mid, resume[0])
                  /\ wm[1] <= Limit(resume[0])
                  /\ room => Pending(resume[0])
  /\ hold[1] => /\ wm[1] <= Limit(resume[1])
                /\ \A f \in Kind(chan[1], "CRC") : f.tick >= resume[1]
  /\ Ahead = 0 => \A f \in Kind(chan[1], "CRC") : f.tick >= resume[0]

GuestRight ==
  /\ wm[1] < Cap(0) /\ tick[1] <= wm[1] + 1 /\ wm[1] <= tick[1] + 2 * Delay + 1
  /\ \A f \in Kind(chan[1], "INPUT") : Right(0, f.tick, f.in)
  /\ \A t \in tick[1] .. wm[1] : Right(0, t, ring[1][0][RingSlot(t)])
  /\ \A r \in Nat : Pending(r) => ImageRight(r)

\* What the host has played ahead of the guest.
GuestBound ==
  \A p \in played[0] : p.tick >= tick[1] =>
       (p.tick < Cap(1) /\ p.in[1] = ring[1][1][RingSlot(p.tick)]) \/ Beyond(p.tick)

\* To the host.
Timed(f) == f.type \in {"INPUT", "CRC"}
Due(f) == IF f.type = "CRC" THEN f.tick + Delay + 1 ELSE f.tick
Old(f, last) == f.tick < IF f.type = "INPUT" THEN last + Delay ELSE last

Sorted(s) ==
  \A f, g \in Elems(s) : Before(s, f, g) /\ Timed(f) /\ Timed(g) =>
    IF f.type = g.type THEN f.tick < g.tick
    ELSE IF f.type = "INPUT" THEN f.tick < Due(g) ELSE Due(f) <= g.tick

Asked(s, last, ahead, p0, p1) ==
  /\ \A f \in Kind(s, "RESYNC") :
       /\ Old(f, last) => ~p0 /\ (ahead > 0 => ahead = 1 /\ p1)
       /\ ~Old(f, last) => ahead = 0 /\ p1
       /\ \A g \in Kind(s, "RESYNC") : Before(s, f, g) => (Old(f, last) /\ ~Old(g, last))
       /\ \A g \in Kind(s, "CRC") : Before(s, g, f) /\ ~Old(g, last) => ~Old(f, last)
  /\ ahead = 2 => p1 /\ ~p0
  /\ ahead = 1 /\ p0 => p1

Lag(s, w, last, ahead, p0) ==
  \A f \in Elems(s) : Timed(f) =>
    /\ w <= Due(f) + 2 * Leap
    /\ Old(f, last) \/ (ahead = 0 /\ w < Due(f))
    /\ p0 => w <= Due(f) + Leap
    /\ \A g \in Kind(s, "RESYNC") : Before(s, g, f) =>
         /\ w <= Due(f) + Leap
         /\ p0 \/ ~Old(g, last) => w < Due(f)

HostClock ==
  /\ tick[0] <= wm[0] + 1 /\ wm[0] <= tick[0] + 2 * Delay + 1
  /\ resume[0] + Delay - 1 <= wm[0]
  /\ Ahead > 0 => wm[0] = resume[0] + Delay - 1
  /\ wm[0] = resume[0] + Delay - 1 => \A x \in 0 .. LowMod - 1 : ring[0][1][x] = Idle
  /\ IF Ahead = 0 THEN wm[0] < Cap(1) ELSE wm[0] <= Cap(1) + Ahead * Leap
  /\ \A x \in CrcSlots :
       \/ rec[0][x].tick = TickMod - 1
       \/ /\ rec[0][x].tick % CrcPeriod = 0
          /\ resume[0] <= rec[0][x].tick /\ rec[0][x].tick < tick[0]

HostRight ==
  /\ Ahead = 0 =>
       /\ \A t \in tick[0] .. wm[0] : Right(1, t, ring[0][1][RingSlot(t)])
       /\ \A f \in Kind(chan[0], "INPUT") : f.tick > wm[0] =>
            Right(1, f.tick, f.in) /\ f.tick <= tick[0] + 2 * Delay + 1
       /\ \A t \in wm[0] + 1 .. Cap(1) - 1 :
            (room \/ \E f \in Kind(chan[0], "INPUT") : f.tick >= t) =>
              \/ \E f \in Kind(chan[0], "INPUT") : f.tick = t
              \/ t = resume[0] + Delay /\ Right(1, t, Idle)

\* What the guest has played ahead of the host.
HostBound ==
  \A q \in played[1] : q.tick >= tick[0] =>
       q.tick < Cap(0) /\ q.in[0] = ring[0][0][RingSlot(q.tick)]

HostQueue == Sorted(chan[0]) /\ Lag(chan[0], wm[0], resume[0], Ahead, pend[0])

\* A console that has given up runs one more tick.
Late == IF dropped[1] /\ pc[1] \notin {"head", "gate", "stall"} THEN 1 ELSE 0

Shared ==
  /\ Asked(chan[0], resume[0], Ahead, pend[0], pend[1])
  /\ \A f \in Kind(chan[0], "INPUT") : f.tick < Cap(1)
  /\ \A f \in Kind(chan[0], "CRC") : f.tick < tick[1] /\ f.tick % CrcPeriod = 0
  /\ IF Ahead = 0 THEN tick[1] <= Cap(0) + Late ELSE tick[1] < resume[0] + Late
  /\ Ahead > 0 => \A q \in played[1] : q.tick < resume[0]

Agree == \A p \in played[0], q \in played[1] : p.tick = q.tick => p.in = q.in

GuestSide == GuestQueue /\ GuestRight /\ GuestBound
HostSide == HostQueue /\ HostClock /\ HostRight /\ HostBound

Paced ==
  /\ Basic /\ Shared /\ Agree
  /\ ~dropped[1] => GuestSide
  /\ ~dropped[0] => HostSide

Lockstep == lost = {} => Paced

-----------------------------------------------------------------------------
(* Queues: taking the first frame, sending, cutting.                       *)

LEMMA TakeQ ==
  ASSUME NEW s \in Seq(Frame), s # << >>
  PROVE  /\ Head(s) \in Frame /\ Tail(s) \in Seq(Frame)
         /\ Elems(s) = {Head(s)} \cup Elems(Tail(s))
         /\ \A g \in Elems(Tail(s)) : Before(s, Head(s), g)
         /\ \A f, g : Before(Tail(s), f, g) => Before(s, f, g)
         /\ \A f, g : Before(s, f, g) => g \in Elems(Tail(s)) /\ (f = Head(s) \/ Before(Tail(s), f, g))
<1> DEFINE u == Tail(s)
<1>1. /\ u \in Seq(Frame) /\ Len(u) = Len(s) - 1
      /\ \A i \in 1 .. Len(s) - 1 : u[i] = s[i + 1]
      /\ Head(s) = s[1] /\ Head(s) \in Frame
      /\ Len(s) \in Nat /\ Len(s) >= 1
  OBVIOUS
<1> HIDE DEF u
<1>2. Elems(s) = {Head(s)} \cup Elems(u)
  <2>1. ASSUME NEW f \in Elems(s) PROVE f = Head(s) \/ f \in Elems(u)
    <3>1. PICK i \in 1 .. Len(s) : f = s[i]
      BY <2>1 DEF Elems
    <3>2. CASE i = 1
      BY <1>1, <3>1, <3>2
    <3>3. CASE i # 1
      <4>1. i - 1 \in 1 .. Len(u) /\ u[i - 1] = f
        BY <1>1, <3>1, <3>3
      <4> QED
        BY <4>1 DEF Elems
    <3> QED
      BY <3>2, <3>3
  <2>2. ASSUME NEW f \in Elems(u) PROVE f \in Elems(s)
    <3>1. PICK i \in 1 .. Len(u) : f = u[i]
      BY <2>2 DEF Elems
    <3>2. i + 1 \in 1 .. Len(s) /\ s[i + 1] = f
      BY <1>1, <3>1
    <3> QED
      BY <3>2 DEF Elems
  <2>3. Head(s) \in Elems(s)
    BY <1>1 DEF Elems
  <2> QED
    BY <2>1, <2>2, <2>3
<1>3. ASSUME NEW g \in Elems(u) PROVE Before(s, Head(s), g)
  <2>1. PICK i \in 1 .. Len(u) : g = u[i]
    BY <1>3 DEF Elems
  <2>2. i + 1 \in 1 .. Len(s) /\ s[i + 1] = g /\ 1 < i + 1 /\ 1 \in 1 .. Len(s) /\ s[1] = Head(s)
    BY <1>1, <2>1
  <2> QED
    BY <2>2 DEF Before
<1>4. ASSUME NEW f, NEW g, Before(u, f, g) PROVE Before(s, f, g)
  <2>1. PICK i \in 1 .. Len(u), j \in 1 .. Len(u) : i < j /\ u[i] = f /\ u[j] = g
    BY <1>4 DEF Before
  <2>2. /\ i + 1 \in 1 .. Len(s) /\ j + 1 \in 1 .. Len(s) /\ i + 1 < j + 1
        /\ s[i + 1] = f /\ s[j + 1] = g
    BY <1>1, <2>1
  <2> QED
    BY <2>2 DEF Before
<1>5. ASSUME NEW f, NEW g, Before(s, f, g)
      PROVE  g \in Elems(u) /\ (f = Head(s) \/ Before(u, f, g))
  <2>1. PICK i \in 1 .. Len(s), j \in 1 .. Len(s) : i < j /\ s[i] = f /\ s[j] = g
    BY <1>5 DEF Before
  <2>2. j - 1 \in 1 .. Len(u) /\ u[j - 1] = g
    BY <1>1, <2>1
  <2>3. g \in Elems(u)
    BY <2>2 DEF Elems
  <2>4. CASE i = 1
    BY <1>1, <2>1, <2>3, <2>4
  <2>5. CASE i # 1
    <3>1. i - 1 \in 1 .. Len(u) /\ u[i - 1] = f /\ i - 1 < j - 1
      BY <1>1, <2>1, <2>5
    <3>2. Before(u, f, g)
      BY <2>2, <3>1 DEF Before
    <3> QED
      BY <2>3, <3>2
  <2> QED
    BY <2>4, <2>5
<1> QED
  BY <1>1, <1>2, <1>3, <1>4, <1>5 DEF u

LEMMA SendQ ==
  ASSUME NEW s \in Seq(Frame), NEW t \in Seq(Frame)
  PROVE  /\ s \o t \in Seq(Frame)
         /\ Elems(s \o t) = Elems(s) \cup Elems(t)
         /\ \A f, g : Before(s \o t, f, g) =>
              Before(s, f, g) \/ Before(t, f, g) \/ (f \in Elems(s) /\ g \in Elems(t))
         /\ \A f, g : Before(s, f, g) => Before(s \o t, f, g)
<1> DEFINE u == s \o t
<1>1. /\ u \in Seq(Frame) /\ Len(u) = Len(s) + Len(t) /\ Len(s) \in Nat /\ Len(t) \in Nat
      /\ \A i \in 1 .. Len(s) : u[i] = s[i]
      /\ \A i \in Len(s) + 1 .. Len(s) + Len(t) : u[i] = t[i - Len(s)]
  OBVIOUS
<1> HIDE DEF u
<1>2. \A i \in 1 .. Len(u) :
        \/ i \in 1 .. Len(s) /\ u[i] = s[i]
        \/ i > Len(s) /\ i - Len(s) \in 1 .. Len(t) /\ u[i] = t[i - Len(s)]
  BY <1>1
<1>3. Elems(u) = Elems(s) \cup Elems(t)
  <2>1. Elems(u) \subseteq Elems(s) \cup Elems(t)
    BY <1>2 DEF Elems
  <2>2. Elems(s) \subseteq Elems(u)
    BY <1>1 DEF Elems
  <2>3. ASSUME NEW f \in Elems(t) PROVE f \in Elems(u)
    <3>1. PICK i \in 1 .. Len(t) : f = t[i]
      BY <2>3 DEF Elems
    <3>2. PICK k : k = i + Len(s)
      OBVIOUS
    <3>3. k \in Len(s) + 1 .. Len(s) + Len(t) /\ k - Len(s) = i /\ k \in 1 .. Len(u)
      BY <1>1, <3>2
    <3>4. u[k] = f
      BY <1>1, <3>1, <3>3
    <3> QED
      BY <3>3, <3>4 DEF Elems
  <2> QED
    BY <2>1, <2>2, <2>3
<1>4. ASSUME NEW f, NEW g, Before(u, f, g)
      PROVE  Before(s, f, g) \/ Before(t, f, g) \/ (f \in Elems(s) /\ g \in Elems(t))
  <2>1. PICK i \in 1 .. Len(u), j \in 1 .. Len(u) : i < j /\ u[i] = f /\ u[j] = g
    BY <1>4 DEF Before
  <2>2. CASE j <= Len(s)
    BY <1>1, <1>2, <2>1, <2>2, SMTT(30) DEF Before
  <2>3. CASE i > Len(s)
    <3>1. /\ i - Len(s) \in 1 .. Len(t) /\ j - Len(s) \in 1 .. Len(t)
          /\ i - Len(s) < j - Len(s) /\ t[i - Len(s)] = f /\ t[j - Len(s)] = g
      BY <1>1, <1>2, <2>1, <2>3
    <3> QED
      BY <3>1 DEF Before
  <2>4. CASE i <= Len(s) /\ j > Len(s)
    BY <1>1, <1>2, <2>1, <2>4, SMTT(30) DEF Elems
  <2> QED
    BY <1>1, <2>1, <2>2, <2>3, <2>4
<1>5. ASSUME NEW f, NEW g, Before(s, f, g) PROVE Before(u, f, g)
  <2>1. PICK i \in 1 .. Len(s), j \in 1 .. Len(s) : i < j /\ s[i] = f /\ s[j] = g
    BY <1>5 DEF Before
  <2>2. i \in 1 .. Len(u) /\ j \in 1 .. Len(u) /\ u[i] = f /\ u[j] = g
    BY <1>1, <2>1
  <2> QED
    BY <2>1, <2>2 DEF Before
<1> QED
  BY <1>1, <1>3, <1>4, <1>5 DEF u

LEMMA OneQ ==
  ASSUME NEW x \in Frame
  PROVE  <<x>> \in Seq(Frame) /\ Elems(<<x>>) = {x} /\ \A f, g : ~Before(<<x>>, f, g)
<1>1. <<x>> \in Seq(Frame) /\ Len(<<x>>) = 1 /\ <<x>>[1] = x
  OBVIOUS
<1>2. Elems(<<x>>) = {x}
  BY <1>1 DEF Elems
<1>3. \A f, g : ~Before(<<x>>, f, g)
  BY <1>1 DEF Before
<1> QED
  BY <1>1, <1>2, <1>3

LEMMA NoneQ == Elems(<< >>) = {} /\ \A f, g : ~Before(<< >>, f, g)
<1>1. Len(<< >>) = 0
  OBVIOUS
<1> QED
  BY <1>1 DEF Elems, Before

LEMMA AddQ ==
  ASSUME NEW s \in Seq(Frame), NEW x \in Frame
  PROVE  /\ Append(s, x) \in Seq(Frame)
         /\ Append(s, x) = s \o <<x>>
         /\ Elems(Append(s, x)) = Elems(s) \cup {x}
         /\ \A f, g : Before(Append(s, x), f, g) =>
              Before(s, f, g) \/ (f \in Elems(s) /\ g = x)
         /\ \A f, g : Before(s, f, g) => Before(Append(s, x), f, g)
<1> DEFINE o == <<x>>
<1>1. Append(s, x) = s \o o
  OBVIOUS
<1>2. o \in Seq(Frame) /\ Elems(o) = {x} /\ \A f, g : ~Before(o, f, g)
  BY OneQ
<1> HIDE DEF o
<1>3. /\ s \o o \in Seq(Frame)
      /\ Elems(s \o o) = Elems(s) \cup Elems(o)
      /\ \A f, g : Before(s \o o, f, g) =>
           Before(s, f, g) \/ Before(o, f, g) \/ (f \in Elems(s) /\ g \in Elems(o))
      /\ \A f, g : Before(s, f, g) => Before(s \o o, f, g)
  BY <1>2, SendQ
<1> QED
  BY <1>1, <1>2, <1>3 DEF o

LEMMA CutQ ==
  ASSUME NEW s \in Seq(Frame), NEW n \in 0 .. Len(s)
  PROVE  /\ SubSeq(s, 1, n) \in Seq(Frame)
         /\ Elems(SubSeq(s, 1, n)) \subseteq Elems(s)
         /\ \A f, g : Before(SubSeq(s, 1, n), f, g) => Before(s, f, g)
         /\ \A f \in Elems(SubSeq(s, 1, n)), g \in Elems(s) :
              g \in Elems(SubSeq(s, 1, n)) \/ Before(s, f, g)
<1> DEFINE p == SubSeq(s, 1, n)
<1>1. /\ p \in Seq(Frame) /\ Len(p) = n /\ n \in Nat /\ n <= Len(s) /\ Len(s) \in Nat
      /\ \A i \in 1 .. n : p[i] = s[i]
  OBVIOUS
<1> HIDE DEF p
<1>2. Elems(p) \subseteq Elems(s)
  BY <1>1 DEF Elems
<1>3. ASSUME NEW f, NEW g, Before(p, f, g) PROVE Before(s, f, g)
  BY <1>1, <1>3 DEF Before
<1>4. ASSUME NEW f \in Elems(p), NEW g \in Elems(s), g \notin Elems(p) PROVE Before(s, f, g)
  <2>1. PICK i \in 1 .. n : f = s[i]
    BY <1>1 DEF Elems
  <2>2. PICK j \in 1 .. Len(s) : g = s[j]
    BY DEF Elems
  <2>3. j > n
    BY <1>1, <1>4, <2>2 DEF Elems
  <2> QED
    BY <1>1, <2>1, <2>2, <2>3 DEF Before
<1> QED
  BY <1>1, <1>2, <1>3, <1>4 DEF p

LEMMA ElemType ==
  ASSUME NEW s \in Seq(Frame), NEW f \in Elems(s)
  PROVE  /\ f \in Frame
         /\ f.type \in {"INPUT", "CRC", "RESYNC", "BEGIN"} => f.tick \in Nat
         /\ Mark(f) => f.tick \in Nat /\ Val(f) \in Int
         /\ f.type = "INPUT" => f.in \in Inputs /\ Val(f) = f.tick
         /\ f.type = "BEGIN" => Val(f) = f.tick + Delay - 1
<1>1. f \in Frame
  BY DEF Elems
<1>2. f.type \in {"INPUT", "CRC", "RESYNC", "BEGIN"} => f.tick \in Nat
  BY <1>1, FrameField
<1>3. f.type = "INPUT" => f.in \in Inputs
  BY <1>1, FrameField
<1> QED
  BY <1>1, <1>2, <1>3, ConstantAssumption DEF Mark, Val

-----------------------------------------------------------------------------
(* The queue to the guest.                                                 *)

\* Taking a CRC, a chunk or an END.
LEMMA TakeOther ==
  ASSUME NEW u \in Seq(Frame), u # << >>, ~Mark(Head(u)), NEW start \in Int, NEW cap \in Int,
         Chain(u, start, cap), Reports(u, start), Spaced(u, start)
  PROVE  /\ Chain(Tail(u), start, cap)
         /\ Full(u, start, cap) => Full(Tail(u), start, cap)
         /\ Reports(Tail(u), start)
         /\ Spaced(Tail(u), start)
         /\ \A near \in Int : Near(u, near) => Near(Tail(u), near)
         /\ \A mid, last : Last(u, mid, last) => Last(Tail(u), mid, last)
         /\ \A mid, last, ahead : Images(u, mid, last, ahead) => Images(Tail(u), mid, last, ahead)
         /\ Kind(Tail(u), "INPUT") = Kind(u, "INPUT")
         /\ Kind(Tail(u), "BEGIN") = Kind(u, "BEGIN")
         /\ Kind(Tail(u), "CRC") \subseteq Kind(u, "CRC")
<1> DEFINE v == Tail(u)
<1>1. /\ Elems(u) = {Head(u)} \cup Elems(v)
      /\ \A f, g : Before(v, f, g) => Before(u, f, g)
  BY TakeQ
<1> HIDE DEF v
<1>2. /\ Kind(v, "INPUT") = Kind(u, "INPUT")
      /\ Kind(v, "BEGIN") = Kind(u, "BEGIN")
      /\ Kind(v, "CRC") \subseteq Kind(u, "CRC")
      /\ \A f \in Elems(v) : f \in Elems(u)
      /\ \A f \in Elems(u) : Mark(f) => f \in Elems(v)
  BY <1>1 DEF Kind, Mark
<1>3. Chain(v, start, cap)
  BY <1>1, <1>2 DEF Chain
<1>6. Full(u, start, cap) => Full(v, start, cap)
  BY <1>2 DEF Full
<1>4. Reports(v, start)
  BY <1>1, <1>2 DEF Reports
<1>5. Spaced(v, start)
  BY <1>2 DEF Spaced
<1> QED
  BY <1>2, <1>3, <1>4, <1>5, <1>6 DEF v, Near, Last, Images

\* Taking an input: it is the one after the watermark.
LEMMA TakeInput ==
  ASSUME NEW u \in Seq(Frame), u # << >>, Head(u).type = "INPUT", NEW start \in Int, NEW cap \in Int,
         Chain(u, start, cap), Reports(u, start), Spaced(u, start)
  PROVE  /\ Head(u).tick = start + 1 /\ Head(u).tick < cap
         /\ Chain(Tail(u), start + 1, cap)
         /\ Full(u, start, cap) => Full(Tail(u), start + 1, cap)
         /\ Reports(Tail(u), start + 1)
         /\ Spaced(Tail(u), start + 1)
         /\ \A near \in Int : Near(u, near) => Near(Tail(u), near) /\ start + 1 <= near
         /\ \A mid, last : Last(u, mid, last) => Last(Tail(u), mid, last)
         /\ \A mid, last, ahead : Images(u, mid, last, ahead) => Images(Tail(u), mid, last, ahead)
         /\ Kind(Tail(u), "INPUT") \subseteq Kind(u, "INPUT")
         /\ Kind(Tail(u), "BEGIN") = Kind(u, "BEGIN")
         /\ Kind(Tail(u), "CRC") = Kind(u, "CRC")
         /\ Head(u) \in Kind(u, "INPUT")
<1> DEFINE v == Tail(u)
           h == Head(u)
<1>1. /\ Elems(u) = {h} \cup Elems(v)
      /\ \A g \in Elems(v) : Before(u, h, g)
      /\ \A f, g : Before(v, f, g) => Before(u, f, g)
  BY TakeQ
<1>0. \A f \in Elems(u) :
        /\ f.type \in {"INPUT", "CRC", "RESYNC", "BEGIN"} => f.tick \in Int
        /\ Mark(f) => Val(f) \in Int
        /\ f.type = "INPUT" => Val(f) = f.tick
        /\ f.type = "BEGIN" => Val(f) = f.tick + Delay - 1
  BY ElemType
<1>d. Delay \in Int /\ ResumeGap \in Int /\ ResumeGap >= 1
  BY ConstantAssumption
<1> HIDE DEF v, h
<1>2. /\ Kind(v, "INPUT") \subseteq Kind(u, "INPUT")
      /\ Kind(v, "BEGIN") = Kind(u, "BEGIN")
      /\ Kind(v, "CRC") = Kind(u, "CRC")
      /\ h \in Kind(u, "INPUT") /\ h.type = "INPUT" /\ h \in Elems(u) /\ Mark(h)
      /\ \A f \in Elems(v) : f \in Elems(u)
      /\ \A f \in Elems(u) : f = h \/ f \in Elems(v)
      /\ \A f \in Kind(u, "INPUT") : f = h \/ f \in Kind(v, "INPUT")
  BY <1>1 DEF Kind, Mark, h
<1>3. h.tick = start + 1 /\ h.tick < cap /\ h.tick \in Int /\ Val(h) = h.tick
  <2>1. \A g \in Elems(v) : Mark(g) => Val(h) < Val(g)
    BY <1>1, <1>2 DEF Chain
  <2>2. h.tick \in Int /\ Val(h) = h.tick /\ h.tick < cap
    BY <1>0, <1>2 DEF Chain
  <2>3. ~\E g \in Elems(u) : Mark(g) /\ Val(g) = h.tick - 1
    BY <1>0, <1>2, <2>1, <2>2
  <2> QED
    BY <1>2, <2>2, <2>3 DEF Chain
<1>4. \A g \in Elems(v) : Mark(g) => start + 1 < Val(g)
  BY <1>1, <1>2, <1>3 DEF Chain
<1>5. Chain(v, start + 1, cap)
  <2>1. \A f \in Elems(v) : Mark(f) => start + 1 < Val(f) /\ Val(f) < cap
    BY <1>2, <1>4 DEF Chain
  <2>2. \A f, g \in Elems(v) : Before(v, f, g) /\ Mark(f) /\ Mark(g) => Val(f) < Val(g)
    BY <1>1, <1>2 DEF Chain
  <2>3. ASSUME NEW f \in Kind(v, "INPUT")
        PROVE  f.tick = (start + 1) + 1 \/ \E g \in Elems(v) : Mark(g) /\ Val(g) = f.tick - 1
    <3>1. f \in Elems(v) /\ f \in Elems(u) /\ f.type = "INPUT" /\ Mark(f)
      BY <1>2 DEF Kind, Mark
    <3>2. f.tick \in Int /\ f.tick > start + 1
      BY <1>0, <1>4, <3>1
    <3>3. PICK g \in Elems(u) : Mark(g) /\ Val(g) = f.tick - 1
      BY <1>2, <3>1, <3>2 DEF Chain
    <3>4. CASE g = h
      BY <1>3, <3>2, <3>3, <3>4
    <3> QED
      BY <1>2, <3>3, <3>4
  <2> QED
    BY <1>3, <2>1, <2>2, <2>3 DEF Chain
<1>f. ASSUME Full(u, start, cap) PROVE Full(v, start + 1, cap)
  <2>1. CASE \E g \in Elems(u) : Mark(g) /\ Val(g) = cap - 1
    BY <1>2, <1>3, <2>1 DEF Full
  <2>2. CASE cap = start + 1
    BY <1>3, <2>2
  <2> QED
    BY <1>f, <2>1, <2>2 DEF Full
<1>6. Reports(v, start + 1)
  <2>1. ASSUME NEW f \in Kind(v, "CRC")
        PROVE  f.tick + Delay <= start + 1 \/ \E g \in Kind(v, "INPUT") : g.tick = f.tick + Delay
    <3>1. f \in Kind(u, "CRC") /\ f.tick \in Int
      BY <1>0, <1>2 DEF Kind
    <3>2. CASE f.tick + Delay <= start
      BY <1>d, <3>1, <3>2
    <3>3. CASE \E g \in Kind(u, "INPUT") : g.tick = f.tick + Delay
      BY <1>2, <1>3, <3>3
    <3> QED
      BY <3>1, <3>2, <3>3 DEF Reports
  <2>2. \A f \in Kind(v, "CRC"), g \in Elems(v) :
          /\ Mark(g) /\ Before(v, f, g) => f.tick + Delay < Val(g)
          /\ g.type = "BEGIN" /\ Before(v, g, f) => g.tick <= f.tick
    BY <1>1, <1>2 DEF Reports
  <2> QED
    BY <2>1, <2>2 DEF Reports
<1>7. \A b \in Kind(u, "BEGIN") : b.tick \in Int /\ start + 1 <= b.tick - 1 - ResumeGap + Delay
  BY <1>0, <1>d, <1>2, <1>3 DEF Spaced, Kind
<1>8. Spaced(v, start + 1)
  BY <1>2, <1>7 DEF Spaced
<1>9. ASSUME NEW near \in Int, Near(u, near)
      PROVE  Near(v, near) /\ start + 1 <= near
  <2>1. Near(v, near)
    BY <1>2, <1>9 DEF Near
  <2>2. ~\E b \in Kind(u, "BEGIN") : b.tick + Delay <= h.tick /\ h.tick <= b.tick + 2 * Delay
    BY <1>d, <1>3, <1>7
  <2>3. h.tick <= near
    BY <1>2, <1>9, <2>2 DEF Near
  <2> QED
    BY <1>3, <2>1, <2>3
<1>10. \A mid, last : Last(u, mid, last) => Last(v, mid, last)
  BY <1>2 DEF Last
<1>11. \A mid, last, ahead : Images(u, mid, last, ahead) => Images(v, mid, last, ahead)
  BY <1>2 DEF Images
<1> QED
  BY <1>2, <1>3, <1>5, <1>f, <1>6, <1>8, <1>9, <1>10, <1>11 DEF v, h

\* Taking a BEGIN: from now on the image's ticks count.
LEMMA TakeBegin ==
  ASSUME NEW u \in Seq(Frame), u # << >>, Head(u).type = "BEGIN", NEW start \in Int, NEW cap \in Int,
         Chain(u, start, cap), Reports(u, start), Spaced(u, start),
         NEW r \in Nat, r = Head(u).tick
  PROVE  /\ start <= Limit(r) /\ start < r + Delay - 1
         /\ Chain(Tail(u), r + Delay - 1, cap)
         /\ Full(u, start, cap) => Full(Tail(u), r + Delay - 1, cap)
         /\ Reports(Tail(u), r + Delay - 1)
         /\ Spaced(Tail(u), r + Delay - 1)
         /\ \A near \in Int : Near(u, near) /\ near <= r + 2 * Delay => Near(Tail(u), r + 2 * Delay)
         /\ \A last \in Int : Last(u, {}, last) => Last(Tail(u), {r}, last)
         /\ \A last \in Int, ahead \in 0 .. 2 : Images(u, {}, last, ahead) => Images(Tail(u), {r}, last, ahead)
         /\ Kind(Tail(u), "INPUT") = Kind(u, "INPUT")
         /\ Kind(Tail(u), "BEGIN") \subseteq Kind(u, "BEGIN")
         /\ Head(u) \in Kind(u, "BEGIN")
         /\ \A b \in Kind(u, "BEGIN") : b.tick = r \/ b \in Kind(Tail(u), "BEGIN")
         /\ Kind(Tail(u), "CRC") = Kind(u, "CRC")
         /\ \A f \in Kind(u, "CRC") : f.tick >= r
<1> DEFINE v == Tail(u)
           h == Head(u)
<1>1. /\ Elems(u) = {h} \cup Elems(v)
      /\ \A g \in Elems(v) : Before(u, h, g)
      /\ \A f, g : Before(v, f, g) => Before(u, f, g)
  BY TakeQ
<1>0. \A f \in Elems(u) :
        /\ f.type \in {"INPUT", "CRC", "RESYNC", "BEGIN"} => f.tick \in Int
        /\ Mark(f) => Val(f) \in Int
        /\ f.type = "INPUT" => Val(f) = f.tick
        /\ f.type = "BEGIN" => Val(f) = f.tick + Delay - 1
  BY ElemType
<1>d. Delay \in Int /\ ResumeGap \in Int /\ ResumeGap >= 1
  BY ConstantAssumption
<1> HIDE DEF v, h
<1>2. /\ Kind(v, "INPUT") = Kind(u, "INPUT")
      /\ Kind(v, "BEGIN") \subseteq Kind(u, "BEGIN")
      /\ Kind(v, "CRC") = Kind(u, "CRC")
      /\ h \in Kind(u, "BEGIN") /\ h.type = "BEGIN" /\ h \in Elems(u) /\ Mark(h) /\ h.tick = r
      /\ \A f \in Elems(v) : f \in Elems(u)
      /\ \A f \in Elems(u) : f = h \/ f \in Elems(v)
      /\ \A f \in Kind(u, "BEGIN") : f = h \/ f \in Kind(v, "BEGIN")
  BY <1>1 DEF Kind, Mark, h
<1>3. /\ Val(h) = r + Delay - 1 /\ start < r + Delay - 1 /\ r + Delay - 1 < cap
      /\ start <= r - 1 - ResumeGap + Delay
  BY <1>0, <1>2 DEF Chain, Spaced
<1>4. \A g \in Elems(v) : Mark(g) => r + Delay - 1 < Val(g)
  BY <1>1, <1>2, <1>3 DEF Chain
<1>5. Chain(v, r + Delay - 1, cap)
  <2>1. \A f \in Elems(v) : Mark(f) => r + Delay - 1 < Val(f) /\ Val(f) < cap
    BY <1>2, <1>4 DEF Chain
  <2>2. \A f, g \in Elems(v) : Before(v, f, g) /\ Mark(f) /\ Mark(g) => Val(f) < Val(g)
    BY <1>1, <1>2 DEF Chain
  <2>3. ASSUME NEW f \in Kind(v, "INPUT")
        PROVE  f.tick = (r + Delay - 1) + 1 \/ \E g \in Elems(v) : Mark(g) /\ Val(g) = f.tick - 1
    <3>1. f \in Elems(v) /\ f \in Elems(u) /\ f.type = "INPUT" /\ Mark(f) /\ f \in Kind(u, "INPUT")
      BY <1>2 DEF Kind, Mark
    <3>2. f.tick \in Int /\ f.tick > r + Delay - 1
      BY <1>0, <1>4, <3>1
    <3>0. f.tick # start + 1
      BY <1>d, <1>3, <3>2
    <3>3. PICK g \in Elems(u) : Mark(g) /\ Val(g) = f.tick - 1
      BY <3>0, <3>1 DEF Chain
    <3>4. CASE g = h
      BY <1>d, <1>3, <3>2, <3>3, <3>4
    <3> QED
      BY <1>2, <3>3, <3>4
  <2> QED
    BY <1>3, <2>1, <2>2, <2>3 DEF Chain
<1>f. ASSUME Full(u, start, cap) PROVE Full(v, r + Delay - 1, cap)
  <2>1. CASE \E g \in Elems(u) : Mark(g) /\ Val(g) = cap - 1
    BY <1>d, <1>2, <1>3, <2>1 DEF Full
  <2>2. CASE cap = start + 1
    BY <1>d, <1>3, <2>2
  <2> QED
    BY <1>f, <2>1, <2>2 DEF Full
<1>6. \A f \in Kind(u, "CRC") : f.tick >= r /\ f.tick \in Int
  BY <1>0, <1>1, <1>2 DEF Reports, Kind
<1>7. Reports(v, r + Delay - 1)
  <2>1. ASSUME NEW f \in Kind(v, "CRC")
        PROVE  f.tick + Delay <= r + Delay - 1 \/ \E g \in Kind(v, "INPUT") : g.tick = f.tick + Delay
    <3>1. f \in Kind(u, "CRC") /\ f.tick \in Int
      BY <1>0, <1>2 DEF Kind
    <3>2. CASE f.tick + Delay <= start
      BY <1>d, <1>3, <3>1, <3>2, SMTT(30)
    <3>3. CASE \E g \in Kind(u, "INPUT") : g.tick = f.tick + Delay
      BY <1>2, <3>3
    <3> QED
      BY <3>1, <3>2, <3>3 DEF Reports
  <2>2. \A f \in Kind(v, "CRC"), g \in Elems(v) :
          /\ Mark(g) /\ Before(v, f, g) => f.tick + Delay < Val(g)
          /\ g.type = "BEGIN" /\ Before(v, g, f) => g.tick <= f.tick
    BY <1>1, <1>2 DEF Reports
  <2> QED
    BY <2>1, <2>2 DEF Reports
<1>8. \A b \in Kind(v, "BEGIN") : b.tick \in Int /\ r < b.tick /\ r <= b.tick - 1 - ResumeGap
  <2>1. ASSUME NEW b \in Kind(v, "BEGIN") PROVE b.tick \in Int /\ r < b.tick
    <3>1. b \in Elems(v) /\ b.type = "BEGIN" /\ Mark(b) /\ b \in Elems(u)
      BY <1>2 DEF Kind, Mark
    <3> QED
      BY <1>0, <1>d, <1>4, <3>1
  <2> QED
    BY <1>2, <2>1 DEF Spaced
<1>9. Spaced(v, r + Delay - 1)
  <2>1. ASSUME NEW b \in Kind(v, "BEGIN") PROVE r + Delay - 1 <= b.tick - 1 - ResumeGap + Delay
    BY <1>d, <1>8, SMTT(30)
  <2> QED
    BY <1>2, <2>1 DEF Spaced
<1>10. ASSUME NEW near \in Int, Near(u, near), near <= r + 2 * Delay PROVE Near(v, r + 2 * Delay)
  <2>1. ASSUME NEW f \in Kind(v, "INPUT")
        PROVE  \/ f.tick <= r + 2 * Delay
               \/ \E b \in Kind(v, "BEGIN") : b.tick + Delay <= f.tick /\ f.tick <= b.tick + 2 * Delay
    <3>1. f \in Kind(u, "INPUT") /\ f.tick \in Int
      BY <1>0, <1>2 DEF Kind
    <3>2. CASE f.tick <= near
      BY <1>d, <1>10, <3>1, <3>2
    <3>3. CASE \E b \in Kind(u, "BEGIN") : b.tick + Delay <= f.tick /\ f.tick <= b.tick + 2 * Delay
      BY <1>2, <3>3
    <3> QED
      BY <1>10, <3>1, <3>2, <3>3 DEF Near
  <2> QED
    BY <2>1 DEF Near
<1>11. \A last \in Int : Last(u, {}, last) => Last(v, {r}, last)
  BY <1>2 DEF Last
<1>12. ASSUME NEW last \in Int, NEW ahead \in 0 .. 2, Images(u, {}, last, ahead)
       PROVE  Images(v, {r}, last, ahead)
  <2>1. ahead # 0
    BY <1>2, <1>12 DEF Images
  <2>2. CASE ahead = 1
    <3>1. r = last
      BY <1>2, <1>12, <2>2 DEF Images
    <3>2. Kind(v, "BEGIN") = {}
      BY <1>2, <1>8, <1>12, <2>2, <3>1 DEF Images
    <3> QED
      BY <2>2, <3>1, <3>2 DEF Images
  <2>3. CASE ahead = 2
    <3>1. r < last
      <4>1. r <= last
        BY <1>2, <1>12, <2>3 DEF Images
      <4>2. CASE r = last
        <5>1. PICK a \in Kind(u, "BEGIN") : a.tick < last
          BY <1>2, <1>12, <2>3, <4>2 DEF Images
        <5>2. a \in Kind(v, "BEGIN")
          BY <1>2, <4>2, <5>1
        <5> QED
          BY <1>8, <4>2, <5>1, <5>2
      <4> QED
        BY <4>1, <4>2
    <3>2. \A b \in Kind(v, "BEGIN") : b.tick = last
      BY <1>2, <1>8, <1>12, <2>3, <3>1 DEF Images
    <3> QED
      BY <2>3, <3>1, <3>2, <1>8 DEF Images
  <2>4. ahead = 0 \/ ahead = 1 \/ ahead = 2
    BY <1>12
  <2> QED
    BY <2>1, <2>2, <2>3, <2>4
<1> QED
  BY <1>2, <1>3, <1>5, <1>f, <1>6, <1>7, <1>9, <1>10, <1>11, <1>12 DEF v, h, Limit

LEMMA BeforeIn ==
  ASSUME NEW s, NEW f, NEW g, Before(s, f, g)
  PROVE  f \in Elems(s) /\ g \in Elems(s)
  BY DEF Before, Elems

\* Sending the input the host has just captured.
LEMMA SendInput ==
  ASSUME NEW s \in Seq(Frame), NEW start \in Int, NEW cap \in Nat, NEW i \in Inputs,
         NEW x \in Frame, x = InputFrame(cap, i),
         Chain(s, start, cap), Full(s, start, cap), Reports(s, start), Spaced(s, start),
         \A b \in Kind(s, "BEGIN") : b.tick + Delay <= cap
  PROVE  /\ Chain(s \o <<x>>, start, cap + 1)
         /\ Full(s \o <<x>>, start, cap + 1)
         /\ Reports(s \o <<x>>, start)
         /\ Spaced(s \o <<x>>, start)
         /\ Kind(s \o <<x>>, "INPUT") = Kind(s, "INPUT") \cup {x}
         /\ Kind(s \o <<x>>, "BEGIN") = Kind(s, "BEGIN")
         /\ Kind(s \o <<x>>, "CRC") = Kind(s, "CRC")
<1> DEFINE t == <<x>>
           u == s \o t
<1>1. t \in Seq(Frame) /\ Elems(t) = {x} /\ \A f, g : ~Before(t, f, g)
  BY OneQ
<1> HIDE DEF t
<1>2. /\ Elems(u) = Elems(s) \cup {x}
      /\ \A f, g : Before(u, f, g) => Before(s, f, g) \/ (f \in Elems(s) /\ g = x)
  BY <1>1, SendQ
<1> HIDE DEF u
<1>0. \A f \in Elems(s) :
        /\ f.type \in {"INPUT", "CRC", "RESYNC", "BEGIN"} => f.tick \in Int
        /\ Mark(f) => Val(f) \in Int
        /\ f.type = "INPUT" => Val(f) = f.tick
        /\ f.type = "BEGIN" => Val(f) = f.tick + Delay - 1
  BY ElemType
<1>x. x.type = "INPUT" /\ x.tick = cap /\ Mark(x) /\ Val(x) = cap
  BY DEF InputFrame, Mark, Val
<1>d. Delay \in Int /\ ResumeGap \in Int /\ ResumeGap >= 1
  BY ConstantAssumption
<1>3. /\ Kind(u, "INPUT") = Kind(s, "INPUT") \cup {x}
      /\ Kind(u, "BEGIN") = Kind(s, "BEGIN")
      /\ Kind(u, "CRC") = Kind(s, "CRC")
      /\ \A f \in Elems(s) : f \in Elems(u)
  BY <1>2, <1>x DEF Kind
<1>4. \A f, g : Before(s, f, g) => f \in Elems(s) /\ g \in Elems(s)
  BY BeforeIn
<1>5. Chain(u, start, cap + 1) /\ Full(u, start, cap + 1)
  <2>1. start < cap + 1
    BY DEF Chain
  <2>2. ASSUME NEW f \in Elems(u), Mark(f) PROVE start < Val(f) /\ Val(f) < cap + 1
    <3>1. CASE f = x
      BY <1>x, <3>1 DEF Chain
    <3>2. CASE f \in Elems(s)
      <4>1. start < Val(f) /\ Val(f) < cap /\ Val(f) \in Int
        BY <1>0, <2>2, <3>2 DEF Chain
      <4> QED
        BY <4>1
    <3> QED
      BY <1>2, <3>1, <3>2
  <2>3. ASSUME NEW f \in Elems(u), NEW g \in Elems(u), Before(u, f, g), Mark(f), Mark(g)
        PROVE  Val(f) < Val(g)
    <3>1. CASE Before(s, f, g)
      BY <1>4, <2>3, <3>1 DEF Chain
    <3>2. CASE f \in Elems(s) /\ g = x
      BY <1>x, <2>3, <3>2 DEF Chain
    <3> QED
      BY <1>2, <2>3, <3>1, <3>2
  <2>4. ASSUME NEW f \in Kind(u, "INPUT")
        PROVE  f.tick = start + 1 \/ \E g \in Elems(u) : Mark(g) /\ Val(g) = f.tick - 1
    <3>1. CASE f = x
      <4>1. cap = start + 1 \/ \E g \in Elems(s) : Mark(g) /\ Val(g) = cap - 1
        BY DEF Full
      <4> QED
        BY <1>3, <1>x, <3>1, <4>1
    <3>2. CASE f \in Kind(s, "INPUT")
      BY <1>3, <3>2 DEF Chain
    <3> QED
      BY <1>3, <3>1, <3>2
  <2>5. x \in Elems(u) /\ Mark(x) /\ Val(x) = (cap + 1) - 1
    BY <1>2, <1>x
  <2> QED
    BY <2>1, <2>2, <2>3, <2>4, <2>5 DEF Chain, Full
<1>6. Reports(u, start)
  <2>1. ASSUME NEW f \in Kind(u, "CRC")
        PROVE  f.tick + Delay <= start \/ \E g \in Kind(u, "INPUT") : g.tick = f.tick + Delay
    BY <1>3 DEF Reports
  <2>2. ASSUME NEW f \in Kind(u, "CRC"), NEW g \in Elems(u), Mark(g), Before(u, f, g)
        PROVE  f.tick + Delay < Val(g)
    <3>1. CASE Before(s, f, g)
      BY <1>3, <1>4, <2>2, <3>1 DEF Reports
    <3>2. CASE f \in Elems(s) /\ g = x
      <4>1. f \in Kind(s, "CRC") /\ f.tick \in Int
        BY <1>0, <1>3 DEF Kind
      <4>2. CASE f.tick + Delay <= start
        BY <1>d, <1>x, <3>2, <4>1, <4>2 DEF Chain
      <4>3. CASE \E h \in Kind(s, "INPUT") : h.tick = f.tick + Delay
        <5>1. PICK h \in Kind(s, "INPUT") : h.tick = f.tick + Delay
          BY <4>3
        <5>2. h \in Elems(s) /\ Mark(h) /\ Val(h) = h.tick
          BY <1>0 DEF Kind, Mark
        <5>3. Val(h) < cap
          BY <5>2 DEF Chain
        <5> QED
          BY <1>x, <3>2, <5>1, <5>2, <5>3
      <4> QED
        BY <4>1, <4>2, <4>3 DEF Reports
    <3> QED
      BY <1>2, <2>2, <3>1, <3>2
  <2>3. ASSUME NEW f \in Kind(u, "CRC"), NEW g \in Elems(u), g.type = "BEGIN", Before(u, g, f)
        PROVE  g.tick <= f.tick
    <3>1. f # x
      BY <1>x DEF Kind
    <3> QED
      BY <1>2, <1>3, <1>4, <2>3, <3>1 DEF Reports
  <2> QED
    BY <2>1, <2>2, <2>3 DEF Reports
<1>7. Spaced(u, start)
  BY <1>3, <1>x DEF Spaced
<1> QED
  BY <1>3, <1>5, <1>6, <1>7 DEF u, t

\* Sending the CRC of the tick the host has just played, if it is due.
LEMMA SendCrc ==
  ASSUME NEW s \in Seq(Frame), NEW t \in Seq(Frame), NEW start \in Int, NEW k \in Nat,
         \A f \in Elems(t) : f.type = "CRC" /\ f.tick = k,
         Chain(s, start, k + Delay + 1), Full(s, start, k + Delay + 1), Reports(s, start), Spaced(s, start),
         \A b \in Kind(s, "BEGIN") : b.tick <= k
  PROVE  /\ Chain(s \o t, start, k + Delay + 1)
         /\ Full(s \o t, start, k + Delay + 1)
         /\ Reports(s \o t, start)
         /\ Spaced(s \o t, start)
         /\ Kind(s \o t, "INPUT") = Kind(s, "INPUT")
         /\ Kind(s \o t, "BEGIN") = Kind(s, "BEGIN")
         /\ \A f \in Kind(s \o t, "CRC") : f \in Kind(s, "CRC") \/ f.tick = k
<1> DEFINE u == s \o t
           cap == k + Delay + 1
<1>2. /\ Elems(u) = Elems(s) \cup Elems(t)
      /\ \A f, g : Before(u, f, g) =>
           Before(s, f, g) \/ Before(t, f, g) \/ (f \in Elems(s) /\ g \in Elems(t))
  BY SendQ
<1>d. Delay \in Int /\ cap \in Int
  BY ConstantAssumption
<1>c. Chain(s, start, cap) /\ Full(s, start, cap) /\ cap = k + Delay + 1
  OBVIOUS
<1> HIDE DEF u, cap
<1>0. \A f \in Elems(s) :
        /\ f.type \in {"INPUT", "CRC", "RESYNC", "BEGIN"} => f.tick \in Int
        /\ Mark(f) => Val(f) \in Int
        /\ f.type = "INPUT" => Val(f) = f.tick
        /\ f.type = "BEGIN" => Val(f) = f.tick + Delay - 1
  BY ElemType
<1>3. /\ Kind(u, "INPUT") = Kind(s, "INPUT")
      /\ Kind(u, "BEGIN") = Kind(s, "BEGIN")
      /\ \A f \in Kind(u, "CRC") : f \in Kind(s, "CRC") \/ f \in Elems(t)
      /\ \A f \in Elems(s) : f \in Elems(u)
      /\ \A f \in Elems(u) : Mark(f) => f \in Elems(s)
      /\ \A f \in Elems(t) : ~Mark(f) /\ f.type = "CRC" /\ f.tick = k
  BY <1>2 DEF Kind, Mark
<1>4. /\ \A f, g : Before(s, f, g) => f \in Elems(s) /\ g \in Elems(s)
      /\ \A f, g : Before(t, f, g) => f \in Elems(t) /\ g \in Elems(t)
  BY BeforeIn
<1>5. Chain(u, start, cap) /\ Full(u, start, cap)
  <2>1. start < cap
    BY <1>c DEF Chain
  <2>2. ASSUME NEW f \in Elems(u), Mark(f) PROVE start < Val(f) /\ Val(f) < cap
    BY <1>c, <1>3, <2>2 DEF Chain
  <2>3. ASSUME NEW f \in Elems(u), NEW g \in Elems(u), Before(u, f, g), Mark(f), Mark(g)
        PROVE  Val(f) < Val(g)
    <3>1. Before(s, f, g)
      BY <1>2, <1>3, <1>4, <2>3
    <3> QED
      BY <1>c, <1>4, <2>3, <3>1 DEF Chain
  <2>4. \A f \in Kind(u, "INPUT") :
          f.tick = start + 1 \/ \E g \in Elems(u) : Mark(g) /\ Val(g) = f.tick - 1
    BY <1>c, <1>3 DEF Chain
  <2>5. cap = start + 1 \/ \E g \in Elems(u) : Mark(g) /\ Val(g) = cap - 1
    BY <1>c, <1>3 DEF Full
  <2> QED
    BY <2>1, <2>2, <2>3, <2>4, <2>5 DEF Chain, Full
<1>6. Reports(u, start)
  <2>1. ASSUME NEW f \in Kind(u, "CRC")
        PROVE  f.tick + Delay <= start \/ \E g \in Kind(u, "INPUT") : g.tick = f.tick + Delay
    <3>1. CASE f \in Kind(s, "CRC")
      BY <1>3, <3>1 DEF Reports
    <3>2. CASE f \in Elems(t)
      <4>1. f.tick = k
        BY <3>2
      <4>2. CASE cap = start + 1
        BY <1>c, <1>d, <4>1, <4>2
      <4>3. CASE \E g \in Elems(s) : Mark(g) /\ Val(g) = cap - 1
        <5>1. PICK g \in Elems(s) : Mark(g) /\ Val(g) = cap - 1
          BY <4>3
        <5>2. g.type # "BEGIN"
          <6> SUFFICES ASSUME g.type = "BEGIN" PROVE FALSE
            OBVIOUS
          <6>1. g.tick <= k /\ g.tick \in Int /\ Val(g) = g.tick + Delay - 1
            BY <1>0 DEF Kind
          <6> QED
            BY <1>c, <1>d, <5>1, <6>1
        <5>3. g \in Kind(s, "INPUT") /\ Val(g) = g.tick
          BY <1>0, <5>1, <5>2 DEF Mark, Kind
        <5>4. g.tick = k + Delay
          BY <1>c, <1>d, <5>1, <5>3
        <5> QED
          BY <1>3, <4>1, <5>3, <5>4
      <4> QED
        BY <1>c, <4>2, <4>3 DEF Full
    <3> QED
      BY <1>3, <3>1, <3>2
  <2>2. ASSUME NEW f \in Kind(u, "CRC"), NEW g \in Elems(u), Mark(g), Before(u, f, g)
        PROVE  f.tick + Delay < Val(g)
    <3>1. Before(s, f, g)
      BY <1>2, <1>3, <1>4, <2>2
    <3>2. f \in Kind(s, "CRC")
      BY <1>4, <3>1 DEF Kind
    <3> QED
      BY <1>3, <2>2, <3>1, <3>2 DEF Reports
  <2>3. ASSUME NEW f \in Kind(u, "CRC"), NEW g \in Elems(u), g.type = "BEGIN", Before(u, g, f)
        PROVE  g.tick <= f.tick
    <3>1. g \in Kind(u, "BEGIN")
      BY <2>3 DEF Kind
    <3>2. CASE f \in Elems(t)
      BY <1>3, <3>1, <3>2
    <3>3. CASE f \notin Elems(t)
      <4>1. f \in Kind(s, "CRC") /\ Before(s, g, f) /\ g \in Elems(s)
        BY <1>2, <1>3, <1>4, <2>3, <3>3
      <4> QED
        BY <2>3, <4>1 DEF Reports
    <3> QED
      BY <3>2, <3>3
  <2> QED
    BY <2>1, <2>2, <2>3 DEF Reports
<1>7. Spaced(u, start)
  BY <1>3 DEF Spaced
<1>8. \A f \in Kind(u, "CRC") : f \in Kind(s, "CRC") \/ f.tick = k
  BY <1>3
<1> QED
  BY <1>3, <1>5, <1>6, <1>7, <1>8, <1>c DEF u, cap

\* Sending the image of a push made after tick k: everything under way lies
\* ResumeGap before the tick r it resumes at.
LEMMA SendImage ==
  ASSUME NEW s \in Seq(Frame), NEW t \in Seq(Frame), NEW start \in Int, NEW k \in Nat, NEW r \in Nat,
         NEW b \in Elems(t), b.type = "BEGIN", b.tick = r, r = k + 1 + ResumeGap,
         ~Before(t, b, b),
         \A f \in Elems(t) : f = b \/ f.type \in {"CHUNK", "END"},
         Chain(s, start, k + Delay + 1), Full(s, start, k + Delay + 1), Reports(s, start), Spaced(s, start),
         \A f \in Kind(s, "BEGIN") : f.tick <= k
  PROVE  /\ Chain(s \o t, start, r + Delay)
         /\ Full(s \o t, start, r + Delay)
         /\ Reports(s \o t, start)
         /\ Spaced(s \o t, start)
         /\ Kind(s \o t, "INPUT") = Kind(s, "INPUT")
         /\ Kind(s \o t, "BEGIN") = Kind(s, "BEGIN") \cup {b}
         /\ Kind(s \o t, "CRC") = Kind(s, "CRC")
<1> DEFINE u == s \o t
           cap == k + Delay + 1
<1>2. /\ Elems(u) = Elems(s) \cup Elems(t)
      /\ \A f, g : Before(u, f, g) =>
           Before(s, f, g) \/ Before(t, f, g) \/ (f \in Elems(s) /\ g \in Elems(t))
  BY SendQ
<1>d. /\ Delay \in Int /\ cap \in Int /\ ResumeGap \in Int /\ ResumeGap >= 1
      /\ cap <= r + Delay - 1
  BY ConstantAssumption
<1>c. Chain(s, start, cap) /\ Full(s, start, cap) /\ cap = k + Delay + 1
  OBVIOUS
<1> HIDE DEF u, cap
<1>0. \A f \in Elems(s) :
        /\ f.type \in {"INPUT", "CRC", "RESYNC", "BEGIN"} => f.tick \in Int
        /\ Mark(f) => Val(f) \in Int
        /\ f.type = "INPUT" => Val(f) = f.tick
        /\ f.type = "BEGIN" => Val(f) = f.tick + Delay - 1
  BY ElemType
<1>b. Mark(b) /\ Val(b) = r + Delay - 1 /\ b \in Elems(u) /\ b.type # "CRC" /\ b.type # "INPUT"
  BY <1>2 DEF Mark, Val
<1>3. /\ Kind(u, "INPUT") = Kind(s, "INPUT")
      /\ Kind(u, "BEGIN") = Kind(s, "BEGIN") \cup {b}
      /\ Kind(u, "CRC") = Kind(s, "CRC")
      /\ \A f \in Elems(s) : f \in Elems(u)
      /\ \A f \in Elems(u) : Mark(f) => f \in Elems(s) \/ f = b
      /\ \A f \in Elems(t) : (Mark(f) => f = b) /\ f.type # "CRC"
  BY <1>2 DEF Kind, Mark
<1>4. /\ \A f, g : Before(s, f, g) => f \in Elems(s) /\ g \in Elems(s)
      /\ \A f, g : Before(t, f, g) => f \in Elems(t) /\ g \in Elems(t)
  BY BeforeIn
<1>5. Chain(u, start, r + Delay) /\ Full(u, start, r + Delay)
  <2>1. start < cap /\ start < r + Delay
    BY <1>c, <1>d DEF Chain
  <2>2. ASSUME NEW f \in Elems(u), Mark(f) PROVE start < Val(f) /\ Val(f) < r + Delay
    <3>1. CASE f = b
      BY <1>b, <1>d, <2>1, <3>1
    <3>2. CASE f \in Elems(s)
      <4>1. start < Val(f) /\ Val(f) < cap /\ Val(f) \in Int
        BY <1>0, <1>c, <2>2, <3>2 DEF Chain
      <4> QED
        BY <1>d, <4>1
    <3> QED
      BY <1>3, <2>2, <3>1, <3>2
  <2>3. ASSUME NEW f \in Elems(u), NEW g \in Elems(u), Before(u, f, g), Mark(f), Mark(g)
        PROVE  Val(f) < Val(g)
    <3>1. CASE Before(s, f, g)
      BY <1>c, <1>4, <2>3, <3>1 DEF Chain
    <3>2. CASE f \in Elems(s) /\ g \in Elems(t)
      <4>1. Val(f) < cap /\ Val(f) \in Int /\ g = b
        BY <1>0, <1>3, <1>c, <2>3, <3>2 DEF Chain
      <4> QED
        BY <1>b, <1>d, <4>1
    <3>3. CASE Before(t, f, g)
      BY <1>3, <1>4, <2>3, <3>3
    <3> QED
      BY <1>2, <2>3, <3>1, <3>2, <3>3
  <2>4. \A f \in Kind(u, "INPUT") :
          f.tick = start + 1 \/ \E g \in Elems(u) : Mark(g) /\ Val(g) = f.tick - 1
    BY <1>c, <1>3 DEF Chain
  <2>5. \E g \in Elems(u) : Mark(g) /\ Val(g) = (r + Delay) - 1
    BY <1>b, <1>d
  <2> QED
    BY <2>1, <2>2, <2>3, <2>4, <2>5 DEF Chain, Full
<1>e. \A f \in Elems(s) : Mark(f) => Val(f) < cap
  BY <1>c DEF Chain
<1>f. \A f \in Kind(s, "INPUT") : f.tick \in Int /\ f.tick < cap /\ f \in Elems(s) /\ Mark(f)
  BY <1>0, <1>e DEF Kind, Mark
<1>6. Reports(u, start)
  <2>1. ASSUME NEW f \in Kind(u, "CRC")
        PROVE  f.tick + Delay <= start \/ \E g \in Kind(u, "INPUT") : g.tick = f.tick + Delay
    BY <1>3 DEF Reports
  <2>2. ASSUME NEW f \in Kind(u, "CRC"), NEW g \in Elems(u), Mark(g), Before(u, f, g)
        PROVE  f.tick + Delay < Val(g)
    <3>0. f \in Kind(s, "CRC") /\ f \in Elems(s) /\ f.tick \in Int /\ f \notin Elems(t)
      BY <1>0, <1>3 DEF Kind
    <3>1. CASE Before(s, f, g)
      BY <1>4, <2>2, <3>0, <3>1 DEF Reports
    <3>2. CASE g \in Elems(t)
      <4>1. g = b
        BY <1>3, <2>2, <3>2
      <4>2. f.tick + Delay < cap
        <5>1. CASE f.tick + Delay <= start
          BY <1>c, <1>d, <3>0, <5>1 DEF Chain
        <5>2. CASE \E h \in Kind(s, "INPUT") : h.tick = f.tick + Delay
          BY <1>f, <5>2
        <5> QED
          BY <3>0, <5>1, <5>2 DEF Reports
      <4> QED
        BY <1>b, <1>d, <3>0, <4>1, <4>2
    <3> QED
      BY <1>2, <1>4, <2>2, <3>0, <3>1, <3>2
  <2>3. ASSUME NEW f \in Kind(u, "CRC"), NEW g \in Elems(u), g.type = "BEGIN", Before(u, g, f)
        PROVE  g.tick <= f.tick
    <3>0. f \in Kind(s, "CRC") /\ f \notin Elems(t)
      BY <1>3 DEF Kind
    <3>1. Before(s, g, f) /\ g \in Elems(s)
      BY <1>2, <1>4, <2>3, <3>0
    <3> QED
      BY <2>3, <3>0, <3>1 DEF Reports
  <2> QED
    BY <2>1, <2>2, <2>3 DEF Reports
<1>7. Spaced(u, start)
  <2> SUFFICES ASSUME NEW a \in Kind(u, "BEGIN")
               PROVE  /\ \A f \in Kind(u, "INPUT") :
                           f.tick <= a.tick - 1 - ResumeGap + Delay \/ f.tick >= a.tick + Delay
                      /\ \A f \in Kind(u, "BEGIN") : f.tick < a.tick => f.tick <= a.tick - 1 - ResumeGap
                      /\ start <= a.tick - 1 - ResumeGap + Delay
    BY DEF Spaced
  <2>1. \A f \in Kind(s, "BEGIN") : f.tick \in Int /\ f.tick <= k
    BY <1>0 DEF Kind
  <2>2. CASE a = b
    <3>1. a.tick - 1 - ResumeGap = k
      BY <1>d, <2>2
    <3>2. \A f \in Kind(u, "INPUT") : f.tick <= k + Delay
      BY <1>3, <1>c, <1>d, <1>f
    <3>3. start <= k + Delay
      BY <1>c, <1>d DEF Chain
    <3>4. \A f \in Kind(u, "BEGIN") : f.tick < a.tick => f.tick <= k
      BY <1>3, <2>1, <2>2
    <3> QED
      BY <3>1, <3>2, <3>3, <3>4
  <2>3. CASE a \in Kind(s, "BEGIN")
    <3>1. ~(b.tick < a.tick)
      BY <1>d, <2>1, <2>3
    <3> QED
      BY <1>3, <2>3, <3>1 DEF Spaced
  <2> QED
    BY <1>3, <2>2, <2>3
<1> QED
  BY <1>3, <1>5, <1>6, <1>7 DEF u

\* What the relay still delivers when it dissolves the room: a prefix, and
\* maybe the PEER_LEFT.
Cut(s, u) ==
  /\ \A f \in Elems(u) : f \in Elems(s) \/ f = PeerLeftFrame
  /\ \A f, g : Before(u, f, g) => Before(s, f, g) \/ (f \in Elems(s) /\ g = PeerLeftFrame)
  /\ \A f \in Elems(u), g \in Elems(s) : f \in Elems(s) => g \in Elems(u) \/ Before(s, f, g)

LEMMA CutMade ==
  ASSUME NEW s \in Seq(Frame), NEW n \in 0 .. Len(s), Kind(s, "PEER_LEFT") = {}
  PROVE  /\ Cut(s, SubSeq(s, 1, n))
         /\ Cut(s, Append(SubSeq(s, 1, n), PeerLeftFrame))
         /\ Cut(s, << >>)
         /\ PeerLeftFrame \in Frame
<1> DEFINE p == SubSeq(s, 1, n)
           q == Append(p, PeerLeftFrame)
<1>0. PeerLeftFrame \in Frame /\ PeerLeftFrame.type = "PEER_LEFT"
  BY FrameType DEF PeerLeftFrame
<1>1. /\ p \in Seq(Frame)
      /\ Elems(p) \subseteq Elems(s)
      /\ \A f, g : Before(p, f, g) => Before(s, f, g)
      /\ \A f \in Elems(p), g \in Elems(s) : g \in Elems(p) \/ Before(s, f, g)
  BY CutQ
<1> HIDE DEF p
<1>2. /\ Elems(q) = Elems(p) \cup {PeerLeftFrame}
      /\ \A f, g : Before(q, f, g) => Before(p, f, g) \/ (f \in Elems(p) /\ g = PeerLeftFrame)
  BY <1>0, <1>1, AddQ
<1> HIDE DEF q
<1>3. PeerLeftFrame \notin Elems(s)
  BY <1>0 DEF Kind
<1>4. Cut(s, p)
  BY <1>1 DEF Cut
<1>5. Cut(s, q)
  BY <1>1, <1>2, <1>3 DEF Cut
<1>6. Cut(s, << >>)
  BY NoneQ DEF Cut
<1> QED
  BY <1>0, <1>4, <1>5, <1>6 DEF p, q

LEMMA CutKinds ==
  ASSUME NEW s, NEW u, Cut(s, u)
  PROVE  \A type \in {"INPUT", "CRC", "RESYNC", "BEGIN"} :
           /\ Kind(u, type) \subseteq Kind(s, type)
           /\ \A f \in Kind(u, type) : f \in Elems(u) /\ f \in Elems(s)
           /\ \A f \in Kind(s, type) : f \in Elems(u) => f \in Kind(u, type)
<1>1. PeerLeftFrame.type = "PEER_LEFT"
  BY DEF PeerLeftFrame
<1> QED
  BY <1>1 DEF Cut, Kind

LEMMA CutGuest ==
  ASSUME NEW s \in Seq(Frame), NEW u \in Seq(Frame), Cut(s, u), NEW start \in Int, NEW cap \in Int,
         NEW more \in Int, cap <= more,
         Chain(s, start, cap), Reports(s, start), Spaced(s, start)
  PROVE  /\ Chain(u, start, more)
         /\ Reports(u, start)
         /\ Spaced(u, start)
         /\ \A near \in Int : Near(s, near) => Near(u, near)
         /\ \A mid : \A last \in Int : Last(s, mid, last) => Last(u, mid, last)
         /\ \A mid : \A last \in Int, ahead \in Int : Images(s, mid, last, ahead) => Images(u, mid, last, ahead)
         /\ \A f \in Kind(u, "INPUT"), b \in Kind(s, "BEGIN") :
              b.tick + Delay <= f.tick => b \in Kind(u, "BEGIN")
<1>0. \A f \in Elems(s) :
        /\ f.type \in {"INPUT", "CRC", "RESYNC", "BEGIN"} => f.tick \in Int
        /\ Mark(f) => Val(f) \in Int
        /\ f.type = "INPUT" => Val(f) = f.tick
        /\ f.type = "BEGIN" => Val(f) = f.tick + Delay - 1
  BY ElemType
<1>d. Delay \in Int /\ ResumeGap \in Int
  BY ConstantAssumption
<1>k. \A type \in {"INPUT", "CRC", "RESYNC", "BEGIN"} :
        /\ Kind(u, type) \subseteq Kind(s, type)
        /\ \A f \in Kind(u, type) : f \in Elems(u) /\ f \in Elems(s)
        /\ \A f \in Kind(s, type) : f \in Elems(u) => f \in Kind(u, type)
  BY CutKinds
<1>1. /\ Kind(u, "INPUT") \subseteq Kind(s, "INPUT")
      /\ Kind(u, "BEGIN") \subseteq Kind(s, "BEGIN")
      /\ Kind(u, "CRC") \subseteq Kind(s, "CRC")
  BY <1>k
<1>2. \A f \in Elems(u) : (Mark(f) \/ f.type = "CRC") => f \in Elems(s)
  BY DEF Cut, Mark, PeerLeftFrame
<1>3. \A f, g : Before(u, f, g) /\ (Mark(g) \/ g.type = "CRC") => Before(s, f, g)
  BY DEF Cut, Mark, PeerLeftFrame
<1>4. ASSUME NEW f \in Elems(u), Mark(f), NEW g \in Elems(s), Mark(g), Val(g) <= Val(f)
      PROVE  g \in Elems(u)
  <2>1. f \in Elems(s)
    BY <1>2, <1>4
  <2>2. Before(s, f, g) => Val(f) < Val(g)
    BY <1>4, <2>1 DEF Chain
  <2>3. Val(f) \in Int /\ Val(g) \in Int
    BY <1>0, <1>4, <2>1
  <2> QED
    BY <1>4, <2>1, <2>2, <2>3 DEF Cut
<1>5. Chain(u, start, more)
  <2>1. start < more
    BY DEF Chain
  <2>2. ASSUME NEW f \in Elems(u), Mark(f) PROVE start < Val(f) /\ Val(f) < more
    <3>1. start < Val(f) /\ Val(f) < cap /\ Val(f) \in Int
      BY <1>0, <1>2, <2>2 DEF Chain
    <3> QED
      BY <3>1
  <2>3. \A f, g \in Elems(u) : Before(u, f, g) /\ Mark(f) /\ Mark(g) => Val(f) < Val(g)
    BY <1>2, <1>3 DEF Chain
  <2>4. ASSUME NEW f \in Kind(u, "INPUT")
        PROVE  f.tick = start + 1 \/ \E g \in Elems(u) : Mark(g) /\ Val(g) = f.tick - 1
    <3>1. f \in Elems(u) /\ f \in Elems(s) /\ Mark(f) /\ Val(f) = f.tick /\ f.tick \in Int
      BY <1>0, <1>k DEF Kind, Mark
    <3>2. CASE \E g \in Elems(s) : Mark(g) /\ Val(g) = f.tick - 1
      <4>1. PICK g \in Elems(s) : Mark(g) /\ Val(g) = f.tick - 1
        BY <3>2
      <4>2. Val(g) <= Val(f)
        BY <3>1, <4>1
      <4> QED
        BY <1>4, <3>1, <4>1, <4>2
    <3> QED
      BY <1>1, <3>2 DEF Chain
  <2> QED
    BY <2>1, <2>2, <2>3, <2>4 DEF Chain
<1>6. Reports(u, start)
  <2>1. ASSUME NEW f \in Kind(u, "CRC")
        PROVE  f.tick + Delay <= start \/ \E g \in Kind(u, "INPUT") : g.tick = f.tick + Delay
    <3>1. f \in Elems(u) /\ f \in Elems(s) /\ f \in Kind(s, "CRC")
      BY <1>k
    <3>2. CASE \E g \in Kind(s, "INPUT") : g.tick = f.tick + Delay
      <4>1. PICK g \in Kind(s, "INPUT") : g.tick = f.tick + Delay
        BY <3>2
      <4>2. g \in Elems(s) /\ Mark(g) /\ Val(g) = g.tick /\ Val(g) \in Int
        BY <1>0 DEF Kind, Mark
      <4>3. ~Before(s, f, g)
        BY <3>1, <4>1, <4>2 DEF Reports
      <4>4. g \in Kind(u, "INPUT")
        BY <1>k, <3>1, <4>2, <4>3 DEF Cut
      <4> QED
        BY <4>1, <4>4
    <3> QED
      BY <3>1, <3>2 DEF Reports
  <2>2. \A f \in Kind(u, "CRC"), g \in Elems(u) :
          /\ Mark(g) /\ Before(u, f, g) => f.tick + Delay < Val(g)
          /\ g.type = "BEGIN" /\ Before(u, g, f) => g.tick <= f.tick
    <3>1. ASSUME NEW f \in Kind(u, "CRC"), NEW g \in Elems(u), Mark(g), Before(u, f, g)
          PROVE  f.tick + Delay < Val(g)
      BY <1>1, <1>2, <1>3, <3>1 DEF Reports
    <3>2. ASSUME NEW f \in Kind(u, "CRC"), NEW g \in Elems(u), g.type = "BEGIN", Before(u, g, f)
          PROVE  g.tick <= f.tick
      <4>1. f.type = "CRC" /\ Mark(g)
        BY <3>2 DEF Kind, Mark
      <4> QED
        BY <1>1, <1>2, <1>3, <3>2, <4>1 DEF Reports
    <3> QED
      BY <3>1, <3>2
  <2> QED
    BY <2>1, <2>2 DEF Reports
<1>7. Spaced(u, start)
  BY <1>1 DEF Spaced
<1>8. ASSUME NEW f \in Kind(u, "INPUT"), NEW b \in Kind(s, "BEGIN"), b.tick + Delay <= f.tick
      PROVE  b \in Kind(u, "BEGIN")
  <2>1. f \in Elems(u) /\ f \in Elems(s) /\ Mark(f) /\ Val(f) = f.tick /\ f.tick \in Int
    BY <1>0, <1>k DEF Kind, Mark
  <2>2. b \in Elems(s) /\ Mark(b) /\ Val(b) = b.tick + Delay - 1 /\ b.tick \in Int
    BY <1>0 DEF Kind, Mark
  <2>3. Val(b) <= Val(f)
    BY <1>d, <1>8, <2>1, <2>2
  <2> QED
    BY <1>k, <1>4, <2>1, <2>2, <2>3
<1>9. ASSUME NEW near \in Int, Near(s, near) PROVE Near(u, near)
  BY <1>1, <1>8, <1>9 DEF Near
<1>10. ASSUME NEW mid, NEW last \in Int, Last(s, mid, last)
       PROVE  Last(u, mid, last)
  BY <1>1, <1>8, <1>10 DEF Last
<1>11. ASSUME NEW mid, NEW last \in Int, NEW ahead \in Int, Images(s, mid, last, ahead)
       PROVE  Images(u, mid, last, ahead)
  <2>1. ASSUME NEW b \in Kind(u, "BEGIN"), NEW a \in Kind(s, "BEGIN"), a.tick < b.tick
        PROVE  a \in Kind(u, "BEGIN")
    <3>1. b \in Elems(u) /\ b \in Elems(s) /\ Mark(b) /\ Val(b) = b.tick + Delay - 1 /\ b.tick \in Int
      BY <1>0, <1>k DEF Kind, Mark
    <3>2. a \in Elems(s) /\ Mark(a) /\ Val(a) = a.tick + Delay - 1 /\ a.tick \in Int
      BY <1>0 DEF Kind, Mark
    <3>3. Val(a) <= Val(b)
      BY <1>d, <2>1, <3>1, <3>2
    <3> QED
      BY <1>k, <1>4, <3>1, <3>2, <3>3
  <2> QED
    BY <1>1, <1>11, <2>1 DEF Images
<1> QED
  BY <1>5, <1>6, <1>7, <1>8, <1>9, <1>10, <1>11

-----------------------------------------------------------------------------
(* The queue to the host.                                                  *)

LEMMA HostTypes ==
  ASSUME NEW s \in Seq(Frame), NEW f \in Elems(s)
  PROVE  /\ f.type \in {"INPUT", "CRC", "RESYNC"} => f.tick \in Nat
         /\ Timed(f) => Due(f) \in Int /\ f.type # "RESYNC"
         /\ f.type = "INPUT" => Due(f) = f.tick /\ Timed(f)
         /\ f.type = "CRC" => Due(f) = f.tick + Delay + 1 /\ Timed(f)
  BY ElemType, ConstantAssumption DEF Timed, Due

\* Part of a queue in the same order.
LEMMA HostPart ==
  ASSUME NEW s, NEW u,
         \A f \in Elems(u) : Timed(f) \/ f.type = "RESYNC" => f \in Elems(s),
         \A f, g : Before(u, f, g) /\ (Timed(g) \/ g.type = "RESYNC") => Before(s, f, g)
  PROVE  /\ Sorted(s) => Sorted(u)
         /\ \A w, last, ahead, p0 : Lag(s, w, last, ahead, p0) => Lag(u, w, last, ahead, p0)
         /\ \A last, ahead, p0, p1 : Asked(s, last, ahead, p0, p1) => Asked(u, last, ahead, p0, p1)
<1>1. /\ Kind(u, "RESYNC") \subseteq Kind(s, "RESYNC")
      /\ Kind(u, "CRC") \subseteq Kind(s, "CRC")
      /\ \A f \in Kind(u, "RESYNC") : f.type = "RESYNC"
  BY DEF Kind, Timed
<1>2. Sorted(s) => Sorted(u)
  BY DEF Sorted
<1>3. ASSUME NEW w, NEW last, NEW ahead, NEW p0, Lag(s, w, last, ahead, p0)
      PROVE  Lag(u, w, last, ahead, p0)
  BY <1>1, <1>3 DEF Lag
<1>4. ASSUME NEW last, NEW ahead, NEW p0, NEW p1, Asked(s, last, ahead, p0, p1)
      PROVE  Asked(u, last, ahead, p0, p1)
  BY <1>1, <1>4 DEF Asked
<1> QED
  BY <1>2, <1>3, <1>4

LEMMA TakeHost ==
  ASSUME NEW s \in Seq(Frame), s # << >>
  PROVE  /\ Sorted(s) => Sorted(Tail(s))
         /\ \A w, last, ahead, p0 : Lag(s, w, last, ahead, p0) => Lag(Tail(s), w, last, ahead, p0)
         /\ \A last, ahead, p0, p1 : Asked(s, last, ahead, p0, p1) => Asked(Tail(s), last, ahead, p0, p1)
         /\ \A type : Kind(Tail(s), type) \subseteq Kind(s, type)
         /\ \A type : \A f \in Kind(s, type) : f = Head(s) \/ f \in Kind(Tail(s), type)
<1> DEFINE u == Tail(s)
<1>1. /\ Elems(s) = {Head(s)} \cup Elems(u)
      /\ \A f, g : Before(u, f, g) => Before(s, f, g)
  BY TakeQ
<1> HIDE DEF u
<1>2. /\ Sorted(s) => Sorted(u)
      /\ \A w, last, ahead, p0 : Lag(s, w, last, ahead, p0) => Lag(u, w, last, ahead, p0)
      /\ \A last, ahead, p0, p1 : Asked(s, last, ahead, p0, p1) => Asked(u, last, ahead, p0, p1)
  BY <1>1, HostPart
<1>3. /\ \A type : Kind(u, type) \subseteq Kind(s, type)
      /\ \A type : \A f \in Kind(s, type) : f = Head(s) \/ f \in Kind(u, type)
  BY <1>1 DEF Kind
<1> QED
  BY <1>2, <1>3 DEF u

LEMMA CutHost ==
  ASSUME NEW s, NEW u, Cut(s, u)
  PROVE  /\ Sorted(s) => Sorted(u)
         /\ \A w, last, ahead, p0 : Lag(s, w, last, ahead, p0) => Lag(u, w, last, ahead, p0)
         /\ \A last, ahead, p0, p1 : Asked(s, last, ahead, p0, p1) => Asked(u, last, ahead, p0, p1)
  BY HostPart DEF Cut, Timed, PeerLeftFrame

\* The host accepts an input: everything behind it is later.
LEMMA TakeLive ==
  ASSUME NEW s \in Seq(Frame), s # << >>, Head(s).type = "INPUT", Sorted(s)
  PROVE  /\ \A last, p0 : Lag(Tail(s), Head(s).tick, last, 0, p0)
         /\ \A g \in Kind(Tail(s), "INPUT") : Head(s).tick < g.tick
<1> DEFINE u == Tail(s)
           h == Head(s)
<1>1. /\ Elems(s) = {h} \cup Elems(u) /\ \A g \in Elems(u) : Before(s, h, g)
  BY TakeQ
<1> HIDE DEF u
<1>2. h.tick \in Int /\ Timed(h)
  BY <1>1, HostTypes
<1>3. \A f \in Elems(u) : Timed(f) => Due(f) \in Int
  BY <1>1, HostTypes
<1>t. h.type = "INPUT" /\ h \in Elems(s)
  BY <1>1
<1> HIDE DEF h
<1>4. ASSUME NEW f \in Elems(u), Timed(f) PROVE h.tick < Due(f)
  <2>1. IF h.type = f.type THEN h.tick < f.tick
        ELSE IF h.type = "INPUT" THEN h.tick < Due(f) ELSE Due(h) <= f.tick
    BY <1>1, <1>2, <1>4, <1>t DEF Sorted
  <2>2. CASE f.type = "INPUT"
    BY <1>t, <2>1, <2>2 DEF Due
  <2>3. CASE f.type # "INPUT"
    BY <1>t, <2>1, <2>3
  <2> QED
    BY <2>2, <2>3
<1>5. Leap \in Int /\ Leap >= 0
  BY ConstantAssumption DEF Leap
<1>6. \A last, p0 : Lag(u, h.tick, last, 0, p0)
  BY <1>2, <1>3, <1>4, <1>5 DEF Lag
<1>7. \A g \in Kind(u, "INPUT") : h.tick < g.tick
  BY <1>4 DEF Kind, Timed, Due
<1> QED
  BY <1>6, <1>7 DEF u, h

\* The host notices a divergence by a CRC of the current epoch.
LEMMA TakeNews ==
  ASSUME NEW s \in Seq(Frame), s # << >>, Head(s).type = "CRC", Sorted(s), NEW w \in Int, NEW last \in Int,
         NEW ahead \in Int, NEW p0, NEW p1,
         Lag(s, w, last, ahead, p0), Asked(s, last, ahead, p0, p1), ~Old(Head(s), last)
  PROVE  Lag(Tail(s), w, last, ahead, TRUE) /\ Asked(Tail(s), last, ahead, TRUE, p1) /\ ahead = 0
<1> DEFINE u == Tail(s)
           h == Head(s)
<1>1. /\ Elems(s) = {h} \cup Elems(u) /\ (\A g \in Elems(u) : Before(s, h, g))
      /\ \A f, g : Before(u, f, g) => Before(s, f, g)
  BY TakeQ
<1>a. Lag(u, w, last, ahead, p0) /\ Asked(u, last, ahead, p0, p1)
  BY TakeHost
<1> HIDE DEF u
<1>2. h.tick \in Int /\ Timed(h) /\ h \in Elems(s) /\ h.type = "CRC" /\ ~Old(h, last)
  BY <1>1, HostTypes
<1>d. Due(h) = h.tick + Delay + 1 /\ Due(h) \in Int /\ Delay \in Int
  BY <1>1, HostTypes, ConstantAssumption
<1>3. \A f \in Elems(u) :
        /\ Timed(f) => Due(f) \in Int
        /\ f.type = "INPUT" => f.tick = Due(f)
        /\ f.type = "CRC" => Due(f) = f.tick + Delay + 1 /\ f.tick \in Int
  BY <1>1, HostTypes
<1> HIDE DEF h
<1>4. ahead = 0 /\ w < Due(h)
  BY <1>2 DEF Lag
<1>5. ASSUME NEW f \in Elems(u), Timed(f) PROVE w < Due(f)
  <2>1. IF h.type = f.type THEN h.tick < f.tick
        ELSE IF h.type = "INPUT" THEN h.tick < Due(f) ELSE Due(h) <= f.tick
    BY <1>1, <1>2, <1>5 DEF Sorted
  <2>2. CASE f.type = "INPUT"
    BY <1>2, <1>3, <1>4, <1>5, <1>d, <2>1, <2>2
  <2>3. CASE f.type = "CRC"
    BY <1>2, <1>3, <1>4, <1>d, <2>1, <2>3
  <2> QED
    BY <1>5, <2>2, <2>3 DEF Timed
<1>6. Leap \in Int /\ Leap >= 0
  BY ConstantAssumption DEF Leap
<1>7. Lag(u, w, last, ahead, TRUE)
  BY <1>3, <1>4, <1>5, <1>6 DEF Lag
<1>8. \A f \in Kind(u, "RESYNC") : ~Old(f, last)
  <2> SUFFICES ASSUME NEW f \in Kind(u, "RESYNC") PROVE ~Old(f, last)
    OBVIOUS
  <2>1. f \in Kind(s, "RESYNC") /\ Before(s, h, f) /\ h \in Kind(s, "CRC")
    BY <1>1, <1>2 DEF Kind
  <2> QED
    BY <1>2, <2>1 DEF Asked
<1>9. Asked(u, last, ahead, TRUE, p1)
  BY <1>4, <1>8, <1>a DEF Asked
<1> QED
  BY <1>4, <1>7, <1>9 DEF u

\* The host takes a request.
LEMMA TakeRequest ==
  ASSUME NEW s \in Seq(Frame), s # << >>, Head(s).type = "RESYNC", NEW last \in Int,
         NEW ahead \in Int, NEW p0, NEW p1, Asked(s, last, ahead, p0, p1)
  PROVE  /\ Asked(Tail(s), last, ahead, TRUE, p1)
         /\ \A w \in Int : Lag(s, w, last, ahead, p0) => Lag(Tail(s), w, last, ahead, TRUE)
<1> DEFINE u == Tail(s)
           h == Head(s)
<1>1. /\ Elems(s) = {h} \cup Elems(u) /\ (\A g \in Elems(u) : Before(s, h, g))
      /\ \A f, g : Before(u, f, g) => Before(s, f, g)
  BY TakeQ
<1>a. /\ Asked(u, last, ahead, p0, p1)
      /\ \A w : Lag(s, w, last, ahead, p0) => Lag(u, w, last, ahead, p0)
  BY TakeHost
<1> HIDE DEF u
<1>2. h \in Kind(s, "RESYNC")
  BY <1>1 DEF Kind
<1> HIDE DEF h
<1>3. \A g \in Kind(u, "RESYNC") : Old(h, last) /\ ~Old(g, last) /\ ahead = 0 /\ p1
  <2> SUFFICES ASSUME NEW g \in Kind(u, "RESYNC")
               PROVE  Old(h, last) /\ ~Old(g, last) /\ ahead = 0 /\ p1
    OBVIOUS
  <2>1. g \in Kind(s, "RESYNC") /\ Before(s, h, g)
    BY <1>1 DEF Kind
  <2>2. Old(h, last) /\ ~Old(g, last)
    BY <1>2, <2>1 DEF Asked
  <2> QED
    BY <2>1, <2>2 DEF Asked
<1>4. ahead # 2 /\ (ahead = 1 => p1)
  <2>1. CASE Old(h, last)
    BY <1>2, <2>1 DEF Asked
  <2>2. CASE ~Old(h, last)
    BY <1>2, <2>2 DEF Asked
  <2> QED
    BY <2>1, <2>2
<1>5. Asked(u, last, ahead, TRUE, p1)
  <2>1. ASSUME NEW f \in Kind(u, "RESYNC")
        PROVE  /\ Old(f, last) => ~TRUE /\ (ahead > 0 => ahead = 1 /\ p1)
               /\ ~Old(f, last) => ahead = 0 /\ p1
               /\ \A g \in Kind(u, "RESYNC") : Before(u, f, g) => (Old(f, last) /\ ~Old(g, last))
               /\ \A g \in Kind(u, "CRC") : Before(u, g, f) /\ ~Old(g, last) => ~Old(f, last)
    BY <1>3, <1>a DEF Asked
  <2> QED
    BY <1>4, <2>1 DEF Asked
<1>6. ASSUME NEW w \in Int, Lag(s, w, last, ahead, p0)
      PROVE  Lag(u, w, last, ahead, TRUE)
  <2>1. Lag(u, w, last, ahead, p0)
    BY <1>6, <1>a
  <2>2. ASSUME NEW f \in Elems(u), Timed(f) PROVE w <= Due(f) + Leap
    <3>1. f \in Elems(s) /\ Before(s, h, f)
      BY <1>1
    <3> QED
      BY <1>2, <1>6, <2>2, <3>1 DEF Lag
  <2>3. ASSUME NEW f \in Elems(u), Timed(f), NEW g \in Kind(u, "RESYNC"), Before(u, g, f)
        PROVE  w < Due(f)
    BY <1>3, <2>1, <2>3 DEF Lag
  <2> QED
    BY <2>1, <2>2, <2>3 DEF Lag
<1> QED
  BY <1>5, <1>6 DEF u

\* The guest sends an input or a CRC.
LEMMA SendTimed ==
  ASSUME NEW s \in Seq(Frame), NEW x \in Frame, Timed(x), NEW w \in Int, NEW last \in Int,
         NEW ahead \in 0 .. 2, NEW p0, NEW p1,
         Asked(s, last, ahead, p0, p1)
  PROVE  /\ Asked(s \o <<x>>, last, ahead, p0, p1)
         /\ (/\ Lag(s, w, last, ahead, p0) /\ w <= Due(x) + ahead * Leap
             /\ ahead = 0 => w < Due(x)
             /\ ahead > 0 => Old(x, last))
            => Lag(s \o <<x>>, w, last, ahead, p0)
         /\ (/\ Sorted(s)
             /\ \A f \in Elems(s) : Timed(f) =>
                  IF f.type = x.type THEN f.tick < x.tick
                  ELSE IF f.type = "INPUT" THEN f.tick < Due(x) ELSE Due(f) <= x.tick)
            => Sorted(s \o <<x>>)
         /\ \A type : Kind(s \o <<x>>, type) = IF type = x.type THEN Kind(s, type) \cup {x} ELSE Kind(s, type)
         /\ Elems(s \o <<x>>) = Elems(s) \cup {x}
<1> DEFINE t == <<x>>
           u == s \o t
<1>1. t \in Seq(Frame) /\ Elems(t) = {x} /\ \A f, g : ~Before(t, f, g)
  BY OneQ
<1> HIDE DEF t
<1>2. /\ Elems(u) = Elems(s) \cup {x}
      /\ \A f, g : Before(u, f, g) => Before(s, f, g) \/ (f \in Elems(s) /\ g = x)
  BY <1>1, SendQ
<1> HIDE DEF u
<1>b. \A f, g : Before(s, f, g) => f \in Elems(s) /\ g \in Elems(s)
  BY BeforeIn
<1>3. /\ \A type : Kind(u, type) = IF type = x.type THEN Kind(s, type) \cup {x} ELSE Kind(s, type)
      /\ x.type # "RESYNC" /\ x.type \in {"INPUT", "CRC"}
  BY <1>2 DEF Kind, Timed
<1>4. Due(x) \in Int /\ Leap \in Int /\ Leap >= 0 /\ x.tick \in Int
  BY ConstantAssumption, FrameField DEF Leap, Due, Timed
<1>5. Asked(u, last, ahead, p0, p1)
  <2>1. Kind(u, "RESYNC") = Kind(s, "RESYNC") /\ \A f \in Kind(s, "RESYNC") : f # x
    BY <1>3 DEF Kind
  <2>2. \A f, g : Before(u, f, g) /\ g \in Kind(s, "RESYNC") => Before(s, f, g)
    BY <1>2, <2>1
  <2>3. ASSUME NEW f \in Kind(u, "RESYNC")
        PROVE  /\ Old(f, last) => ~p0 /\ (ahead > 0 => ahead = 1 /\ p1)
               /\ ~Old(f, last) => ahead = 0 /\ p1
               /\ \A g \in Kind(u, "RESYNC") : Before(u, f, g) => (Old(f, last) /\ ~Old(g, last))
               /\ \A g \in Kind(u, "CRC") : Before(u, g, f) /\ ~Old(g, last) => ~Old(f, last)
    <3>1. /\ Old(f, last) => ~p0 /\ (ahead > 0 => ahead = 1 /\ p1)
          /\ ~Old(f, last) => ahead = 0 /\ p1
          /\ \A g \in Kind(u, "RESYNC") : Before(u, f, g) => (Old(f, last) /\ ~Old(g, last))
      BY <2>1, <2>2 DEF Asked
    <3>2. ASSUME NEW g \in Kind(u, "CRC"), Before(u, g, f), ~Old(g, last) PROVE ~Old(f, last)
      <4>1. Before(s, g, f) /\ g \in Kind(s, "CRC")
        BY <1>b, <2>1, <2>2, <3>2 DEF Kind
      <4> QED
        BY <2>1, <3>2, <4>1 DEF Asked
    <3> QED
      BY <3>1, <3>2
  <2> QED
    BY <2>3 DEF Asked
<1>6. ASSUME Lag(s, w, last, ahead, p0), w <= Due(x) + ahead * Leap,
             ahead = 0 => w < Due(x), ahead > 0 => Old(x, last)
      PROVE  Lag(u, w, last, ahead, p0)
  <2>0. Kind(u, "RESYNC") = Kind(s, "RESYNC")
    BY <1>3
  <2>1. w <= Due(x) + 2 * Leap
    <3>1. ahead = 0 \/ ahead = 1 \/ ahead = 2
      OBVIOUS
    <3> QED
      BY <1>4, <1>6, <3>1
  <2>2. ahead # 2 => w <= Due(x) + Leap
    <3>1. ahead = 0 \/ ahead = 1 \/ ahead = 2
      OBVIOUS
    <3> QED
      BY <1>4, <1>6, <3>1
  <2>3. ASSUME p0 PROVE w <= Due(x) + Leap
    BY <2>2, <2>3 DEF Asked
  <2>4. ASSUME NEW g \in Kind(s, "RESYNC")
        PROVE  w <= Due(x) + Leap /\ (p0 \/ ~Old(g, last) => w < Due(x))
    <3>1. CASE Old(g, last)
      BY <1>6, <2>2, <3>1 DEF Asked
    <3>2. CASE ~Old(g, last)
      BY <1>6, <2>2, <3>2 DEF Asked
    <3> QED
      BY <3>1, <3>2
  <2>5. ASSUME NEW f \in Elems(u), Timed(f)
        PROVE  /\ w <= Due(f) + 2 * Leap
               /\ Old(f, last) \/ (ahead = 0 /\ w < Due(f))
               /\ p0 => w <= Due(f) + Leap
               /\ \A g \in Kind(u, "RESYNC") : Before(u, g, f) =>
                    /\ w <= Due(f) + Leap
                    /\ p0 \/ ~Old(g, last) => w < Due(f)
    <3>1. CASE f = x
      BY <1>6, <2>0, <2>1, <2>3, <2>4, <3>1
    <3>2. CASE f # x
      <4>1. f \in Elems(s) /\ \A g : Before(u, g, f) => Before(s, g, f)
        BY <1>2, <3>2
      <4> QED
        BY <1>6, <2>0, <2>5, <4>1 DEF Lag
    <3> QED
      BY <3>1, <3>2
  <2> QED
    BY <2>5 DEF Lag
<1>7. ASSUME Sorted(s),
             \A f \in Elems(s) : Timed(f) =>
               IF f.type = x.type THEN f.tick < x.tick
               ELSE IF f.type = "INPUT" THEN f.tick < Due(x) ELSE Due(f) <= x.tick
      PROVE  Sorted(u)
  <2> SUFFICES ASSUME NEW f \in Elems(u), NEW g \in Elems(u), Before(u, f, g), Timed(f), Timed(g)
               PROVE  IF f.type = g.type THEN f.tick < g.tick
                      ELSE IF f.type = "INPUT" THEN f.tick < Due(g) ELSE Due(f) <= g.tick
    BY DEF Sorted
  <2>1. CASE Before(s, f, g)
    BY <1>7, <1>b, <2>1 DEF Sorted
  <2>2. CASE f \in Elems(s) /\ g = x
    BY <1>7, <2>2
  <2> QED
    BY <1>2, <2>1, <2>2
<1> QED
  BY <1>2, <1>3, <1>5, <1>6, <1>7 DEF u, t

\* The guest asks for an image.
LEMMA SendRequest ==
  ASSUME NEW s \in Seq(Frame), NEW x \in Frame, x.type = "RESYNC", NEW last \in Int,
         NEW ahead \in 0 .. 2, NEW p0, Asked(s, last, ahead, p0, FALSE),
         ahead = 0 => ~Old(x, last),
         ahead = 1 => Old(x, last) /\ \A g \in Kind(s, "CRC") : Old(g, last)
  PROVE  /\ Asked(Append(s, x), last, ahead, p0, TRUE)
         /\ \A w \in Int : Lag(s, w, last, ahead, p0) => Lag(Append(s, x), w, last, ahead, p0)
         /\ Sorted(s) => Sorted(Append(s, x))
         /\ \A type : Kind(Append(s, x), type) =
              IF type = "RESYNC" THEN Kind(s, type) \cup {x} ELSE Kind(s, type)
         /\ Elems(Append(s, x)) = Elems(s) \cup {x}
<1> DEFINE u == Append(s, x)
<1>2. /\ Elems(u) = Elems(s) \cup {x}
      /\ \A f, g : Before(u, f, g) => Before(s, f, g) \/ (f \in Elems(s) /\ g = x)
  BY AddQ
<1> HIDE DEF u
<1>b. \A f, g : Before(s, f, g) => f \in Elems(s) /\ g \in Elems(s)
  BY BeforeIn
<1>3. \A type : Kind(u, type) = IF type = "RESYNC" THEN Kind(s, type) \cup {x} ELSE Kind(s, type)
  BY <1>2 DEF Kind
<1>a. ahead = 0 \/ ahead = 1
  <2>1. ahead # 2
    BY DEF Asked
  <2> QED
    BY <2>1
<1>4. ahead = 1 => ~p0 /\ Kind(s, "RESYNC") = {}
  BY DEF Asked
<1>5. \A f \in Kind(s, "RESYNC") : Old(f, last) /\ ~p0 /\ ahead = 0
  BY <1>4, <1>a DEF Asked
<1>6. Asked(u, last, ahead, p0, TRUE)
  <2>1. ASSUME NEW f \in Kind(u, "RESYNC")
        PROVE  /\ Old(f, last) => ~p0 /\ (ahead > 0 => ahead = 1 /\ TRUE)
               /\ ~Old(f, last) => ahead = 0 /\ TRUE
               /\ \A g \in Kind(u, "RESYNC") : Before(u, f, g) => (Old(f, last) /\ ~Old(g, last))
               /\ \A g \in Kind(u, "CRC") : Before(u, g, f) /\ ~Old(g, last) => ~Old(f, last)
    <3>1. CASE f \in Kind(s, "RESYNC")
      <4>1. \A g \in Kind(u, "RESYNC") : Before(u, f, g) => (Old(f, last) /\ ~Old(g, last))
        <5>1. ASSUME NEW g \in Kind(u, "RESYNC"), Before(u, f, g)
              PROVE  Old(f, last) /\ ~Old(g, last)
          <6>1. CASE Before(s, f, g)
            <7>1. g \in Kind(s, "RESYNC")
              BY <1>b, <5>1, <6>1 DEF Kind
            <7> QED
              BY <3>1, <6>1, <7>1 DEF Asked
          <6>2. CASE g = x
            BY <1>5, <3>1, <6>2
          <6> QED
            BY <1>2, <5>1, <6>1, <6>2
        <5> QED
          BY <5>1
      <4>2. \A g \in Kind(u, "CRC") : Before(u, g, f) /\ ~Old(g, last) => ~Old(f, last)
        <5>1. f # x
          BY <1>5, <3>1
        <5> QED
          BY <1>2, <1>3, <3>1, <5>1 DEF Asked
      <4> QED
        BY <1>5, <3>1, <4>1, <4>2
    <3>2. CASE f = x /\ f \notin Kind(s, "RESYNC")
      <4>1. f \notin Elems(s)
        BY <3>2 DEF Kind
      <4>2. \A g : ~Before(u, f, g)
        BY <1>2, <1>b, <4>1
      <4>3. \A g \in Kind(u, "CRC") : g \in Kind(s, "CRC")
        BY <1>3
      <4> QED
        BY <1>4, <1>a, <3>2, <4>2, <4>3
    <3> QED
      BY <1>3, <3>1, <3>2
  <2>2. ahead = 1 /\ p0 => TRUE
    OBVIOUS
  <2> QED
    BY <1>a, <2>1 DEF Asked
<1>7. ASSUME NEW w \in Int, Lag(s, w, last, ahead, p0)
      PROVE  Lag(u, w, last, ahead, p0)
  <2>1. ASSUME NEW f \in Elems(u), Timed(f)
        PROVE  f \in Elems(s) /\ \A g \in Kind(u, "RESYNC") : Before(u, g, f) => Before(s, g, f) /\ g \in Kind(s, "RESYNC")
    BY <1>2, <1>b, <2>1 DEF Timed, Kind
  <2> QED
    BY <1>7, <2>1 DEF Lag
<1>8. ASSUME Sorted(s) PROVE Sorted(u)
  <2>1. \A f, g : Before(u, f, g) /\ Timed(g) => Before(s, f, g) /\ f \in Elems(s) /\ g \in Elems(s)
    BY <1>2, <1>b DEF Timed
  <2> QED
    BY <1>8, <2>1 DEF Sorted
<1> QED
  BY <1>2, <1>3, <1>6, <1>7, <1>8 DEF u

\* The host pushes: nobody else asked meanwhile.
LEMMA PushAsked ==
  ASSUME NEW s \in Seq(Frame), NEW last \in Int, NEW r \in Int, NEW ahead \in 0 .. 2, NEW p1,
         Asked(s, last, ahead, TRUE, p1),
         \A f \in Kind(s, "RESYNC") : f.tick < r,
         \A f \in Kind(s, "CRC") : f.tick < r
  PROVE  /\ Asked(s, r, ahead + 1, FALSE, p1) /\ ahead + 1 \in 1 .. 2
         /\ \A w \in Int, v \in Int :
              (/\ Lag(s, w, last, ahead, TRUE) /\ v <= w + Leap
               /\ \A f \in Kind(s, "INPUT") : f.tick < r + Delay)
              => Lag(s, v, r, ahead + 1, FALSE)
<1>1. ahead = 0 \/ ahead = 1
  <2>1. ahead # 2
    BY DEF Asked
  <2> QED
    BY <2>1
<1>2. \A f \in Kind(s, "RESYNC") : ~Old(f, last) /\ ahead = 0 /\ p1 /\ Old(f, r)
  <2> SUFFICES ASSUME NEW f \in Kind(s, "RESYNC") PROVE ~Old(f, last) /\ ahead = 0 /\ p1 /\ Old(f, r)
    OBVIOUS
  <2>1. Old(f, r)
    BY DEF Kind, Old
  <2> QED
    BY <2>1 DEF Asked
<1>3. \A f \in Kind(s, "CRC") : Old(f, r)
  BY DEF Kind, Old
<1>4. \A f, g \in Kind(s, "RESYNC") : ~Before(s, f, g)
  BY <1>2 DEF Asked
<1>5. ahead + 1 = 2 => p1
  BY DEF Asked
<1>6. Asked(s, r, ahead + 1, FALSE, p1)
  BY <1>1, <1>2, <1>3, <1>4, <1>5 DEF Asked
<1>7. ASSUME NEW w \in Int, NEW v \in Int, Lag(s, w, last, ahead, TRUE), v <= w + Leap,
             \A f \in Kind(s, "INPUT") : f.tick < r + Delay
      PROVE  Lag(s, v, r, ahead + 1, FALSE)
  <2>0. Leap \in Int /\ Leap >= 0
    BY ConstantAssumption DEF Leap
  <2>1. ASSUME NEW f \in Elems(s), Timed(f)
        PROVE  /\ v <= Due(f) + 2 * Leap
               /\ Old(f, r)
               /\ \A g \in Kind(s, "RESYNC") : Before(s, g, f) => v <= Due(f) + Leap
    <3>1. Due(f) \in Int
      BY <2>1, HostTypes
    <3>2. w <= Due(f) + Leap
      BY <1>7, <2>1 DEF Lag
    <3>3. Old(f, r)
      BY <1>7, <2>1 DEF Old, Kind, Timed
    <3>4. ASSUME NEW g \in Kind(s, "RESYNC"), Before(s, g, f) PROVE w < Due(f)
      BY <1>7, <2>1, <3>4 DEF Lag
    <3> QED
      BY <1>7, <2>0, <3>1, <3>2, <3>3, <3>4
  <2> QED
    BY <1>2, <2>1 DEF Lag
<1>8. ahead + 1 \in 1 .. 2
  BY <1>1
<1> QED
  BY <1>6, <1>7, <1>8

\* The guest completes an image.
LEMMA EndAsked ==
  ASSUME NEW s \in Seq(Frame), NEW last \in Int, NEW ahead \in 1 .. 2, NEW p0,
         NEW p1, Asked(s, last, ahead, p0, p1)
  PROVE  /\ Asked(s, last, ahead - 1, p0, FALSE)
         /\ \A w \in Int : Lag(s, w, last, ahead, p0) => Lag(s, w, last, ahead - 1, p0)
<1>1. CASE ahead = 1
  BY <1>1 DEF Asked, Lag
<1>2. CASE ahead = 2
  BY <1>2 DEF Asked, Lag
<1>3. ahead = 1 \/ ahead = 2
  OBVIOUS
<1> QED
  BY <1>1, <1>2, <1>3

-----------------------------------------------------------------------------
(* Sixteen-bit differences and low bytes are exact over short distances.   *)

LEMMA ModDiff ==
  ASSUME NEW m \in Nat \ {0}, NEW a \in Int, NEW b \in Int, a % m = b % m, -m < a - b, a - b < m
  PROVE  a = b
<1>1. /\ a = m * (a \div m) + (a % m) /\ (a \div m) \in Int
      /\ b = m * (b \div m) + (b % m) /\ (b \div m) \in Int
      /\ a % m \in Int
  OBVIOUS
<1> DEFINE q == (a \div m) - (b \div m)
<1>2. q \in Int
  BY <1>1
<1>3. a - b = m * q
  BY <1>1
<1> HIDE DEF q
<1>4. q = 0
  BY <1>2, <1>3
<1> QED
  BY <1>3, <1>4

LEMMA BehindExact ==
  ASSUME Sized, NEW a \in Int, NEW b \in Int
  PROVE  /\ b <= a /\ a < b + 2 * Leap => ~Behind(a, b)
         /\ a < b /\ b <= a + 2 * Leap => Behind(a, b)
<1>1. /\ TickMod \in Nat \ {0} /\ Leap \in Nat /\ Leap >= 1 /\ TickMod >= 4 * Leap
  BY ConstantAssumption DEF Sized, Leap
<1>2. TickMod \div 2 >= 2 * Leap /\ TickMod \div 2 \in Nat /\ TickMod - 2 * Leap >= TickMod \div 2
  BY <1>1
<1>3. ASSUME b <= a, a < b + 2 * Leap PROVE ~Behind(a, b)
  <2>1. (a - b) % TickMod = a - b
    BY <1>1, <1>3
  <2> QED
    BY <1>2, <1>1, <1>3, <2>1 DEF Behind
<1>4. ASSUME a < b, b <= a + 2 * Leap PROVE Behind(a, b)
  <2>1. (a - b) % TickMod = (a - b) + TickMod
    BY <1>1, <1>4
  <2> QED
    BY <1>2, <1>1, <1>4, <2>1 DEF Behind
<1> QED
  BY <1>3, <1>4

LEMMA SameExact ==
  ASSUME Sized, NEW a \in Int, NEW b \in Int, a < b + 4 * Leap, b < a + 4 * Leap
  PROVE  SameTick(a, b) <=> a = b
<1>1. TickMod \in Nat \ {0} /\ TickMod >= 4 * Leap /\ Leap \in Nat
  BY ConstantAssumption DEF Sized, Leap
<1> QED
  <2>1. ASSUME SameTick(a, b) PROVE a = b
    <3>1. a % TickMod = b % TickMod /\ -TickMod < a - b /\ a - b < TickMod
      BY <1>1, <2>1 DEF SameTick
    <3> QED
      BY <1>1, <3>1, ModDiff
  <2> QED
    BY <2>1 DEF SameTick

\* Ticks that are in use at the same time have different slots of the ring.
LEMMA SlotExact ==
  ASSUME Sized, NEW a \in Nat, NEW b \in Nat, a < b, b <= a + 2 * Delay + 1
  PROVE  RingSlot(a) # RingSlot(b)
<1>1. LowMod \in Nat \ {0} /\ LowMod >= 2 * Delay + 2 /\ Delay \in Nat
  BY ConstantAssumption DEF Sized
<1>2. -LowMod < a - b /\ a - b < LowMod /\ a # b /\ a \in Int /\ b \in Int
  BY <1>1
<1> QED
  <2>1. ASSUME RingSlot(a) = RingSlot(b) PROVE a = b
    <3>1. a % LowMod = b % LowMod
      BY <2>1 DEF RingSlot
    <3> QED
      BY <1>1, <1>2, <3>1, ModDiff
  <2> QED
    BY <1>2, <2>1

LEMMA SlotType == \A t \in Nat : RingSlot(t) \in 0 .. LowMod - 1
  BY ConstantAssumption DEF RingSlot

\* No CRC is ever reported for the tick the records are cleared to.
LEMMA FillerNever ==
  ASSUME Sized, NEW t \in Nat, t % CrcPeriod = 0
  PROVE  ~SameTick(TickMod - 1, t)
<1> SUFFICES ASSUME SameTick(TickMod - 1, t) PROVE FALSE
  OBVIOUS
<1>1. TickMod \in Nat \ {0} /\ CrcPeriod \in Nat \ {0} /\ CrcPeriod > 1 /\ TickMod % CrcPeriod = 0
  BY ConstantAssumption DEF Sized
<1>2. t % TickMod = TickMod - 1
  BY <1>1 DEF SameTick
<1>3. PICK q \in Int : t = TickMod * q + (TickMod - 1)
  BY <1>1, <1>2
<1>4. PICK p \in Int : TickMod = CrcPeriod * p
  BY <1>1
<1>n. t = CrcPeriod * (t \div CrcPeriod) + (t % CrcPeriod) /\ (t \div CrcPeriod) \in Int
  BY <1>1
<1>5. PICK n \in Int : t = CrcPeriod * n
  BY <1>1, <1>n
<1>6. PICK z \in Int : z = p * q + p - n
  OBVIOUS
<1>7. CrcPeriod * z = 1
  <2>1. CrcPeriod * n = (CrcPeriod * p) * q + CrcPeriod * p - 1
    BY <1>1, <1>3, <1>4, <1>5
  <2> QED
    BY <1>1, <1>6, <2>1
<1>8. CASE z >= 1
  BY <1>1, <1>7, <1>8
<1>9. CASE z <= 0
  BY <1>1, <1>7, <1>9
<1> QED
  BY <1>8, <1>9

-----------------------------------------------------------------------------
(* A step of one side, seen from the other.                                *)

LEMMA Flat ==
  ASSUME TypeOK
  PROVE  /\ 0 \in Seats /\ 1 \in Seats /\ \A c \in Seats : c = 0 \/ c = 1
         /\ \A c \in Seats :
              /\ tick[c] \in Nat /\ wm[c] \in Nat /\ resume[c] \in Nat /\ rebases[c] \in Nat
              /\ hold[c] \in BOOLEAN /\ pend[c] \in BOOLEAN /\ dropped[c] \in BOOLEAN
              /\ chan[c] \in Seq(Frame)
              /\ \A s \in Seats, t \in Nat : ring[c][s][RingSlot(t)] \in Inputs
              /\ \A p \in played[c] : p.tick \in Nat /\ p.in \in [Seats -> Inputs]
              /\ Cap(c) \in Nat /\ tick[c] + Delay <= Cap(c) /\ Cap(c) <= tick[c] + Delay + 1
         /\ room \in BOOLEAN /\ Ahead \in Int /\ Start \in Int /\ NearTick \in Int
         /\ Delay \in Nat /\ Delay >= 1 /\ ResumeGap \in Nat /\ ResumeGap >= 1 /\ Leap \in Nat
<1>1. 0 \in Seats /\ 1 \in Seats /\ \A c \in Seats : c = 0 \/ c = 1
  BY DEF Seats
<1>2. \A c \in Seats :
        /\ tick[c] \in Nat /\ wm[c] \in Nat /\ resume[c] \in Nat /\ rebases[c] \in Nat
        /\ hold[c] \in BOOLEAN /\ pend[c] \in BOOLEAN /\ dropped[c] \in BOOLEAN
        /\ chan[c] \in Seq(Frame)
        /\ played[c] \subseteq [tick : Nat, in : [Seats -> Inputs]]
        /\ ring[c] \in [Seats -> [0 .. LowMod - 1 -> Inputs]]
  BY DEF TypeOK, EngineType, RecoveryType, ControlType, ChanType, SimType
<1>3. \A c \in Seats, s \in Seats, t \in Nat : ring[c][s][RingSlot(t)] \in Inputs
  <2> SUFFICES ASSUME NEW c \in Seats, NEW s \in Seats, NEW t \in Nat
               PROVE  ring[c][s][RingSlot(t)] \in Inputs
    OBVIOUS
  <2>1. RingSlot(t) \in 0 .. LowMod - 1
    BY SlotType
  <2>2. ring[c][s] \in [0 .. LowMod - 1 -> Inputs]
    BY <1>2
  <2> QED
    BY <2>1, <2>2
<1>4. \A c \in Seats : \A p \in played[c] : p.tick \in Nat /\ p.in \in [Seats -> Inputs]
  BY <1>2
<1>5. Delay \in Nat /\ Delay >= 1 /\ ResumeGap \in Nat /\ ResumeGap >= 1 /\ Leap \in Nat
  BY ConstantAssumption DEF Leap
<1>6. \A c \in Seats : Cap(c) \in Nat /\ tick[c] + Delay <= Cap(c) /\ Cap(c) <= tick[c] + Delay + 1
  BY <1>2, <1>5 DEF Cap
<1>7. room \in BOOLEAN /\ Ahead \in Int /\ Start \in Int /\ NearTick \in Int
  BY <1>1, <1>2, <1>5 DEF TypeOK, ControlType, Ahead, Start, NearTick
<1> QED
  BY <1>1, <1>2, <1>3, <1>4, <1>5, <1>6, <1>7

\* Nothing the guest's side speaks of has changed.
LEMMA GuestKeep ==
  ASSUME GuestSide, chan'[1] = chan[1], room' = room, rebases' = rebases,
         tick'[1] = tick[1], ring'[1] = ring[1], wm'[1] = wm[1], hold'[1] = hold[1],
         resume' = resume, Cap(0)' = Cap(0), Cap(1)' = Cap(1),
         tick'[0] = tick[0], played'[0] = played[0],
         ~dropped'[0] => ~dropped[0] /\ ring'[0][0] = ring[0][0]
  PROVE  GuestSide'
<1>1. \A t, v : Right(0, t, v) => Right(0, t, v)'
  BY DEF Right, Owns
<1>2. Ahead' = Ahead /\ Start' = Start /\ NearTick' = NearTick /\ Mid' = Mid
  BY DEF Ahead, Start, NearTick, Mid
<1>3. \A r : Pending(r)' = Pending(r)
  BY <1>2 DEF Pending
<1>4. \A r : ImageRight(r) => ImageRight(r)'
  BY <1>1 DEF ImageRight
<1>5. \A x : Beyond(x) => Beyond(x)'
  BY <1>2 DEF Beyond
<1>6. GuestQueue'
  BY <1>2, <1>3 DEF GuestSide, GuestQueue
<1>7. GuestRight'
  BY <1>1, <1>3, <1>4 DEF GuestSide, GuestRight
<1>8. GuestBound'
  BY <1>5 DEF GuestSide, GuestBound
<1> QED
  BY <1>6, <1>7, <1>8 DEF GuestSide

\* Nothing the host's side speaks of has changed.
LEMMA HostKeep ==
  ASSUME HostSide, chan'[0] = chan[0], room' = room, rebases' = rebases,
         tick'[0] = tick[0], ring'[0] = ring[0], wm'[0] = wm[0], pend'[0] = pend[0],
         resume'[0] = resume[0], rec'[0] = rec[0], Cap(0)' = Cap(0), Cap(1)' = Cap(1),
         tick'[1] = tick[1], played'[1] = played[1],
         ~dropped'[1] => ~dropped[1] /\ ring'[1][1] = ring[1][1]
  PROVE  HostSide'
<1>1. \A t, v : Right(1, t, v) => Right(1, t, v)'
  BY DEF Right, Owns
<1>2. Ahead' = Ahead
  BY DEF Ahead
<1>3. HostQueue'
  BY <1>2 DEF HostSide, HostQueue
<1>4. HostClock'
  BY <1>2 DEF HostSide, HostClock
<1>5. HostRight'
  BY <1>1, <1>2 DEF HostSide, HostRight
<1>6. HostBound'
  BY DEF HostSide, HostBound
<1> QED
  BY <1>3, <1>4, <1>5, <1>6 DEF HostSide

\* Steps that only move a console along its pass.
LEMMA IdleStep ==
  ASSUME TypeOK, Paced,
         UNCHANGED <<tick, ring, wm, hold, pend, resume, rec, dropped, rebases, chan, room, played>>,
         \A c \in Seats :
           /\ pc'[c] \in {"gate", "stall", "off"} <=> pc[c] \in {"gate", "stall", "off"}
           /\ pc'[c] = "off" => pc[c] = "off"
           /\ dropped[c] /\ pc'[c] \in Pumping => pc[c] \in Pumping
           /\ dropped[c] /\ pc'[c] \in {"head", "gate", "stall"} => pc[c] \in {"head", "gate", "stall"}
  PROVE  Paced'
<1>0. 0 \in Seats /\ 1 \in Seats /\ tick[1] \in Nat
  BY Flat
<1>1. Cap(0)' = Cap(0) /\ Cap(1)' = Cap(1) /\ Ahead' = Ahead
  BY <1>0 DEF Cap, Ahead
<1>2. Late' = Late \/ (Late' = 1 /\ Late = 0)
  <2>1. dropped[1] /\ pc'[1] \in {"head", "gate", "stall"} => pc[1] \in {"head", "gate", "stall"}
    BY <1>0
  <2>2. dropped'[1] = dropped[1]
    OBVIOUS
  <2> QED
    BY <2>1, <2>2 DEF Late
<1>3. Cap(0) \in Nat /\ resume[0] \in Nat
  BY <1>0, Flat
<1>4. Basic'
  BY <1>1 DEF Paced, Basic
<1>5. IF Ahead' = 0 THEN tick'[1] <= Cap(0)' + Late' ELSE tick'[1] < resume'[0] + Late'
  BY <1>0, <1>1, <1>2, <1>3 DEF Paced, Shared, Late
<1>6. Shared'
  BY <1>1, <1>5 DEF Paced, Shared
<1>7. Agree'
  BY DEF Paced, Agree
<1>8. ~dropped'[1] => GuestSide'
  BY <1>1, GuestKeep DEF Paced
<1>9. ~dropped'[0] => HostSide'
  BY <1>1, HostKeep DEF Paced
<1> QED
  BY <1>4, <1>6, <1>7, <1>8, <1>9 DEF Paced

\* Less under way to the host.
LEMMA SharedLess ==
  ASSUME TypeOK, Shared, Late' >= Late, UNCHANGED <<tick, resume, rebases, pend>>,
         \A q \in played'[1] : q \in played[1],
         Cap(0)' = Cap(0), Cap(1)' >= Cap(1), Late' \in 0 .. 1, Late \in 0 .. 1, Cap(1)' \in Nat,
         \A type \in {"INPUT", "CRC"} : Kind(chan'[0], type) \subseteq Kind(chan[0], type),
         Asked(chan[0], resume[0], Ahead, pend[0], pend[1]) =>
           Asked(chan'[0], resume[0], Ahead, pend[0], pend[1])
  PROVE  Shared'
<1>0. Ahead' = Ahead
  BY DEF Ahead
<1>1. Cap(0) \in Nat /\ Cap(1) \in Nat /\ tick[1] \in Nat /\ resume[0] \in Nat /\ chan[0] \in Seq(Frame)
  BY Flat
<1>2. Asked(chan'[0], resume'[0], Ahead', pend'[0], pend'[1])
  BY <1>0 DEF Shared
<1>3. ASSUME NEW f \in Kind(chan'[0], "INPUT") PROVE f.tick < Cap(1)'
  <2>1. f \in Kind(chan[0], "INPUT") /\ f \in Elems(chan[0]) /\ f.type = "INPUT"
    BY DEF Kind
  <2>2. f.tick \in Nat
    BY <1>1, <2>1, HostTypes
  <2>3. f.tick < Cap(1)
    BY <2>1 DEF Shared
  <2> QED
    BY <1>1, <2>2, <2>3
<1>4. \A f \in Kind(chan'[0], "CRC") : f.tick < tick'[1] /\ f.tick % CrcPeriod = 0
  BY DEF Shared
<1>5. IF Ahead' = 0 THEN tick'[1] <= Cap(0)' + Late' ELSE tick'[1] < resume'[0] + Late'
  <2>1. CASE Ahead = 0
    <3>1. tick[1] <= Cap(0) + Late
      BY <2>1 DEF Shared
    <3> QED
      BY <1>0, <1>1, <2>1, <3>1
  <2>2. CASE Ahead # 0
    <3>1. tick[1] < resume[0] + Late
      BY <2>2 DEF Shared
    <3> QED
      BY <1>0, <1>1, <2>2, <3>1
  <2> QED
    BY <2>1, <2>2
<1>6. Ahead' > 0 => \A q \in played'[1] : q.tick < resume'[0]
  BY <1>0 DEF Shared
<1> QED
  BY <1>2, <1>3, <1>4, <1>5, <1>6 DEF Shared

LEMMA LateType == Late \in 0 .. 1 /\ (~dropped[1] => Late = 0) /\ (pc[1] \in {"head", "gate", "stall"} => Late = 0)
  BY DEF Late

\* A console gives its peer up, by a timer or because the relay says so.
LEMMA DropStep ==
  ASSUME TypeOK, TypeOK', Paced, NEW c \in Seats, NET_DROP(c),
         UNCHANGED <<tick, pend, resume, rec, rebases, room, played>>,
         hold' = hold \/ hold' = [hold EXCEPT ![c] = FALSE],
         Cap(0)' = Cap(0), Cap(1)' = Cap(1),
         \A d \in Seats : d # c => pc'[d] = pc[d],
         pc'[c] = "off" => pc[c] = "off",
         pc'[c] \in {"head", "gate", "stall"} => pc[c] \in {"head", "gate", "stall"},
         \/ chan' = chan /\ pc'[c] \notin Pumping
         \/ /\ chan[c] # << >> /\ Head(chan[c]).type = "PEER_LEFT"
            /\ chan' = [chan EXCEPT ![c] = Tail(@)]
  PROVE  Paced'
<1>0. /\ 0 \in Seats /\ 1 \in Seats /\ (\A d \in Seats : d = 0 \/ d = 1)
      /\ chan \in [Seats -> Seq(Frame)] /\ hold \in [Seats -> BOOLEAN]
      /\ dropped \in [Seats -> BOOLEAN]
      /\ DOMAIN ring = Seats /\ DOMAIN wm = Seats
  BY Flat DEF TypeOK, ChanType, RecoveryType, ControlType, EngineType
<1>1. /\ \A d \in Seats : d # c => /\ dropped'[d] = dropped[d] /\ ring'[d] = ring[d] /\ wm'[d] = wm[d]
                                   /\ hold'[d] = hold[d] /\ chan'[d] = chan[d]
      /\ dropped'[c] = TRUE
      /\ ~hold[0] /\ ~hold'[0]
  BY <1>0 DEF NET_DROP, Paced, Basic
<1>2. /\ Elems(chan'[c]) \subseteq Elems(chan[c])
      /\ \A f, g : Before(chan'[c], f, g) => Before(chan[c], f, g)
      /\ pc'[c] \in Pumping => ~room /\ chan'[c] = << >>
      /\ \A type : Kind(chan'[c], type) \subseteq Kind(chan[c], type)
      /\ Asked(chan[c], resume[0], Ahead, pend[0], pend[1]) => Asked(chan'[c], resume[0], Ahead, pend[0], pend[1])
  <2>1. CASE chan' = chan /\ pc'[c] \notin Pumping
    BY <2>1
  <2>2. CASE /\ chan[c] # << >> /\ Head(chan[c]).type = "PEER_LEFT"
             /\ chan' = [chan EXCEPT ![c] = Tail(@)]
    <3> DEFINE s == chan[c]
    <3>1. s \in Seq(Frame) /\ s # << >> /\ chan'[c] = Tail(s) /\ Head(s).type = "PEER_LEFT"
      BY <1>0, <2>2
    <3>a. \A f, g \in Elems(s) : Before(s, f, g) => f.type # "PEER_LEFT"
      BY DEF Paced, Basic
    <3>b. room => Kind(s, "PEER_LEFT") = {}
      BY DEF Paced, Basic
    <3> HIDE DEF s
    <3>2. /\ Head(s) \in Frame /\ Tail(s) \in Seq(Frame)
          /\ Elems(s) = {Head(s)} \cup Elems(Tail(s))
          /\ \A g \in Elems(Tail(s)) : Before(s, Head(s), g)
          /\ \A f, g : Before(Tail(s), f, g) => Before(s, f, g)
      BY <3>1, TakeQ
    <3>3. ~room
      BY <3>1, <3>2, <3>b DEF Kind
    <3>4. Elems(Tail(s)) = {}
      BY <3>1, <3>2, <3>a
    <3>5. Tail(s) = << >>
      <4> SUFFICES ASSUME Tail(s) # << >> PROVE FALSE
        OBVIOUS
      <4>1. Head(Tail(s)) \in Elems(Tail(s))
        <5> DEFINE v == Tail(s)
        <5>1. v \in Seq(Frame) /\ v # << >>
          BY <3>2
        <5> HIDE DEF v
        <5>2. Elems(v) = {Head(v)} \cup Elems(Tail(v))
          BY <5>1, TakeQ
        <5> QED
          BY <5>2 DEF v
      <4> QED
        BY <3>4, <4>1
    <3>6. /\ \A last, ahead, p0, p1 : Asked(s, last, ahead, p0, p1) => Asked(Tail(s), last, ahead, p0, p1)
          /\ \A type : Kind(Tail(s), type) \subseteq Kind(s, type)
      BY <3>1, TakeHost
    <3> QED
      BY <3>1, <3>2, <3>3, <3>5, <3>6 DEF s
  <2> QED
    BY <2>1, <2>2
<1>3. /\ \A d \in Seats :
           /\ Elems(chan'[d]) \subseteq Elems(chan[d])
           /\ \A f, g : Before(chan'[d], f, g) => Before(chan[d], f, g)
           /\ \A type : Kind(chan'[d], type) \subseteq Kind(chan[d], type)
      /\ Asked(chan[0], resume[0], Ahead, pend[0], pend[1]) => Asked(chan'[0], resume[0], Ahead, pend[0], pend[1])
  BY <1>0, <1>1, <1>2
<1>4. Ahead' = Ahead
  BY DEF Ahead
<1>5. \A d \in Seats : dropped'[d] /\ pc'[d] \in Pumping => ~room' /\ chan'[d] = << >>
  <2> SUFFICES ASSUME NEW d \in Seats, dropped'[d], pc'[d] \in Pumping PROVE ~room' /\ chan'[d] = << >>
    OBVIOUS
  <2>1. CASE d = c
    BY <1>2, <2>1
  <2>2. CASE d # c
    BY <1>1, <2>2 DEF Paced, Basic
  <2> QED
    BY <2>1, <2>2
<1>6. Basic'
  <2>1. \A d \in Seats : pc'[d] = "off" => ~room'
    BY DEF Paced, Basic
  <2>2. \A d \in Seats :
          /\ \A f, g \in Elems(chan'[d]) : Before(chan'[d], f, g) => f.type # "PEER_LEFT"
          /\ room' => Kind(chan'[d], "PEER_LEFT") = {}
          /\ \A p \in played'[d] : p.tick < tick'[d]
    BY <1>3 DEF Paced, Basic
  <2>3. /\ ~hold'[0] /\ resume'[0] <= tick'[0]
        /\ \A f \in Elems(chan'[0]) : f.type \in {"INPUT", "CRC", "RESYNC", "PEER_LEFT"}
        /\ \A f \in Elems(chan'[1]) : f.type # "RESYNC"
        /\ \A f \in Kind(chan'[0], "RESYNC") : f.tick < tick'[0]
        /\ \A f \in Kind(chan'[1], "CRC") : f.tick < tick'[0]
        /\ Ahead' \in 0 .. 2
    BY <1>0, <1>1, <1>3, <1>4 DEF Paced, Basic
  <2> QED
    BY <1>5, <2>1, <2>2, <2>3 DEF Basic
<1>7. Shared'
  <2>1. Late' \in 0 .. 1 /\ Late \in 0 .. 1
    BY DEF Late
  <2>2. Late' >= Late
    <3>1. dropped[1] => dropped'[1]
      BY <1>0, <1>1
    <3>2. pc'[1] \in {"head", "gate", "stall"} => pc[1] \in {"head", "gate", "stall"}
      BY <1>0
    <3> QED
      BY <3>1, <3>2 DEF Late
  <2>3. Cap(1)' \in Nat /\ Cap(1)' >= Cap(1)
    BY <1>0, Flat
  <2> QED
    BY <1>0, <1>3, <2>1, <2>2, <2>3, SharedLess DEF Paced
<1>8. Agree'
  BY DEF Paced, Agree
<1>9. ~dropped'[1] => GuestSide'
  <2> SUFFICES ASSUME ~dropped'[1] PROVE GuestSide'
    OBVIOUS
  <2>1. c = 0
    BY <1>0, <1>1
  <2> QED
    BY <1>0, <1>1, <2>1, GuestKeep DEF Paced
<1>10. ~dropped'[0] => HostSide'
  <2> SUFFICES ASSUME ~dropped'[0] PROVE HostSide'
    OBVIOUS
  <2>1. c = 1
    BY <1>0, <1>1
  <2> QED
    BY <1>0, <1>1, <2>1, HostKeep DEF Paced
<1> QED
  BY <1>6, <1>7, <1>8, <1>9, <1>10 DEF Paced

\* The relay loses a console.
LEMMA LeaveStep ==
  ASSUME TypeOK, TypeOK', Paced, NEW c \in Seats, Leave(c)
  PROVE  Paced'
<1> USE DEF engine, recovery, history
<1>0. /\ 0 \in Seats /\ 1 \in Seats /\ (\A d \in Seats : d = 0 \/ d = 1)
      /\ chan \in [Seats -> Seq(Frame)] /\ Other(c) \in Seats /\ c # Other(c)
      /\ \A d \in Seats : d = c \/ d = Other(c)
  BY Flat DEF TypeOK, ChanType, Other, Seats
<1>1. /\ UNCHANGED <<tick, ring, wm, hold, pend, resume, rec, dropped, rebases, played>>
      /\ room /\ room' = FALSE
      /\ \A d \in Seats : pc'[d] = pc[d] \/ pc'[d] = "off"
  BY DEF Leave, TypeOK, ControlType
<1>2. \A d \in Seats : Cut(chan[d], chan'[d]) /\ chan'[d] \in Seq(Frame)
  <2>1. PICK n \in 0 .. Len(chan[Other(c)]), m \in 0 .. Len(chan[c]), reset \in BOOLEAN :
          chan' = [chan EXCEPT ![Other(c)] = Append(SubSeq(@, 1, n), PeerLeftFrame),
                               ![c] = IF reset THEN << >> ELSE SubSeq(@, 1, m)]
    BY DEF Leave
  <2>2. /\ chan'[Other(c)] = Append(SubSeq(chan[Other(c)], 1, n), PeerLeftFrame)
        /\ chan'[c] = IF reset THEN << >> ELSE SubSeq(chan[c], 1, m)
    BY <1>0, <2>1
  <2>3. \A d \in Seats : Kind(chan[d], "PEER_LEFT") = {}
    BY <1>1 DEF Paced, Basic
  <2>4. Cut(chan[Other(c)], chan'[Other(c)])
    BY <1>0, <2>2, <2>3, CutMade
  <2>5. Cut(chan[c], chan'[c])
    <3>1. Cut(chan[c], << >>) /\ Cut(chan[c], SubSeq(chan[c], 1, m))
      BY <1>0, <2>3, CutMade
    <3> QED
      BY <2>2, <3>1
  <2>6. \A d \in Seats : chan'[d] \in Seq(Frame)
    BY DEF TypeOK, ChanType
  <2> QED
    BY <1>0, <2>4, <2>5, <2>6
<1>3. \A d \in Seats : Cap(d)' \in Nat /\ Cap(d) \in Nat /\ Cap(d) <= Cap(d)' /\ Cap(d)' <= Cap(d) + 1
  <2> SUFFICES ASSUME NEW d \in Seats
               PROVE  Cap(d)' \in Nat /\ Cap(d) \in Nat /\ Cap(d) <= Cap(d)' /\ Cap(d)' <= Cap(d) + 1
    OBVIOUS
  <2>1. tick[d] \in Nat /\ Delay \in Nat
    BY Flat
  <2> QED
    BY <1>1, <2>1 DEF Cap
<1>4. /\ Ahead' = Ahead /\ Start' = Start /\ NearTick' = NearTick /\ Mid' = Mid
      /\ \A s \in Seats : \A t, v : Right(s, t, v)' = Right(s, t, v)
  BY <1>1 DEF Ahead, Start, NearTick, Mid, Right, Owns
<1>5. \A d \in Seats : \A type \in {"INPUT", "CRC", "RESYNC", "BEGIN"} :
        Kind(chan'[d], type) \subseteq Kind(chan[d], type)
  BY <1>2, CutKinds
<1>f. \A d \in Seats : /\ chan[d] \in Seq(Frame) /\ tick[d] \in Nat /\ wm[d] \in Nat /\ resume[d] \in Nat
                       /\ hold[d] \in BOOLEAN /\ dropped[d] \in BOOLEAN
                       /\ \A p \in played[d] : p.tick \in Nat
  BY Flat
<1>g. /\ room \in BOOLEAN /\ Ahead \in Int /\ Start \in Int /\ NearTick \in Int
      /\ Delay \in Nat /\ ResumeGap \in Nat /\ Leap \in Nat
  BY Flat
<1>h. /\ Cap(0)' \in Nat /\ Cap(0) \in Nat /\ Cap(0) <= Cap(0)' /\ Cap(0)' <= Cap(0) + 1
      /\ Cap(1)' \in Nat /\ Cap(1) \in Nat /\ Cap(1) <= Cap(1)' /\ Cap(1)' <= Cap(1) + 1
      /\ wm[0] \in Nat /\ wm[1] \in Nat /\ tick[0] \in Nat /\ tick[1] \in Nat
  BY <1>0, <1>3, <1>f
<1>6. Basic'
  <2>0. PeerLeftFrame.type = "PEER_LEFT"
    BY DEF PeerLeftFrame
  <2>1. /\ ~hold'[0] /\ resume'[0] <= tick'[0]
        /\ \A f \in Kind(chan'[0], "RESYNC") : f.tick < tick'[0]
        /\ \A f \in Kind(chan'[1], "CRC") : f.tick < tick'[0]
        /\ Ahead' \in 0 .. 2
    BY <1>0, <1>1, <1>4, <1>5 DEF Paced, Basic
  <2>2. /\ \A f \in Elems(chan'[0]) : f.type \in {"INPUT", "CRC", "RESYNC", "PEER_LEFT"}
        /\ \A f \in Elems(chan'[1]) : f.type # "RESYNC"
    <3>1. \A d \in Seats : \A f \in Elems(chan'[d]) : f \in Elems(chan[d]) \/ f.type = "PEER_LEFT"
      BY <1>2, <2>0 DEF Cut
    <3> QED
      BY <1>0, <3>1 DEF Paced, Basic
  <2>3. \A d \in Seats : \A f, g \in Elems(chan'[d]) : Before(chan'[d], f, g) => f.type # "PEER_LEFT"
    <3> SUFFICES ASSUME NEW d \in Seats, NEW f, NEW g, Before(chan'[d], f, g) PROVE f.type # "PEER_LEFT"
      OBVIOUS
    <3>1. f \in Elems(chan[d])
      BY <1>2, BeforeIn DEF Cut
    <3>2. Kind(chan[d], "PEER_LEFT") = {}
      BY <1>1 DEF Paced, Basic
    <3> QED
      BY <3>1, <3>2 DEF Kind
  <2>4. \A d \in Seats : /\ ~(dropped'[d] /\ pc'[d] \in Pumping)
                         /\ \A p \in played'[d] : p.tick < tick'[d]
    BY <1>1 DEF Paced, Basic, Pumping
  <2> QED
    BY <1>1, <2>1, <2>2, <2>3, <2>4 DEF Basic
<1>7. Shared'
  <2>1. Late' \in 0 .. 1 /\ Late \in 0 .. 1
    BY DEF Late
  <2>2. Late' >= Late
    <3>1. dropped'[1] = dropped[1] /\ (pc'[1] = pc[1] \/ pc'[1] = "off")
      BY <1>0, <1>1
    <3> QED
      BY <3>1 DEF Late
  <2>3. IF Ahead' = 0 THEN tick'[1] <= Cap(0)' + Late' ELSE tick'[1] < resume'[0] + Late'
    <3>1. CASE Ahead = 0
      <4>1. tick[1] <= Cap(0) + Late
        BY <3>1 DEF Paced, Shared
      <4>2. tick'[1] = tick[1] /\ tick[1] \in Nat /\ Cap(0) \in Nat /\ Cap(0)' \in Nat /\ Cap(0) <= Cap(0)'
        BY <1>0, <1>1, <1>3, <1>f
      <4> QED
        BY <1>4, <2>1, <2>2, <3>1, <4>1, <4>2
    <3>2. CASE Ahead # 0
      <4>1. tick[1] < resume[0] + Late
        BY <3>2 DEF Paced, Shared
      <4>2. tick'[1] = tick[1] /\ tick[1] \in Nat /\ resume'[0] = resume[0] /\ resume[0] \in Nat
        BY <1>0, <1>1, <1>f
      <4> QED
        BY <1>4, <2>1, <2>2, <3>2, <4>1, <4>2
    <3> QED
      BY <3>1, <3>2
  <2>4. Asked(chan'[0], resume'[0], Ahead', pend'[0], pend'[1])
    BY <1>0, <1>1, <1>2, <1>4, CutHost DEF Paced, Shared
  <2>5. ASSUME NEW f \in Kind(chan'[0], "INPUT") PROVE f.tick < Cap(1)'
    <3>1. f \in Kind(chan[0], "INPUT") /\ f.tick < Cap(1) /\ f \in Elems(chan[0]) /\ f.type = "INPUT"
      BY <1>0, <1>5 DEF Paced, Shared, Kind
    <3>2. f.tick \in Nat
      BY <1>0, <1>f, <3>1, HostTypes
    <3> QED
      BY <1>0, <1>3, <3>1, <3>2, SMTT(30)
  <2>6. \A f \in Kind(chan'[0], "CRC") : f.tick < tick'[1] /\ f.tick % CrcPeriod = 0
    BY <1>0, <1>1, <1>5 DEF Paced, Shared
  <2>7. Ahead' > 0 => \A q \in played'[1] : q.tick < resume'[0]
    BY <1>1, <1>4 DEF Paced, Shared
  <2> QED
    BY <2>3, <2>4, <2>5, <2>6, <2>7 DEF Shared
<1>8. Agree'
  BY <1>1 DEF Paced, Agree
<1>9. ASSUME ~dropped'[1] PROVE GuestSide'
  <2>0. GuestSide
    BY <1>1, <1>9 DEF Paced
  <2>1. /\ Cut(chan[1], chan'[1]) /\ Cap(0) <= Cap(0)' /\ Cap(0)' \in Int /\ Cap(0) \in Int
        /\ chan[1] \in Seq(Frame) /\ chan'[1] \in Seq(Frame)
    BY <1>0, <1>2, <1>f, <1>h
  <2>2. /\ Chain(chan[1], Start, Cap(0)) /\ Reports(chan[1], Start) /\ Spaced(chan[1], Start)
        /\ Near(chan[1], NearTick) /\ Images(chan[1], Mid, resume[0], Ahead)
    BY <2>0 DEF GuestSide, GuestQueue
  <2>3. /\ Chain(chan'[1], Start, Cap(0)')
        /\ Reports(chan'[1], Start)
        /\ Spaced(chan'[1], Start)
        /\ \A near \in Int : Near(chan[1], near) => Near(chan'[1], near)
        /\ \A mid : \A last \in Int : Last(chan[1], mid, last) => Last(chan'[1], mid, last)
        /\ \A mid : \A last \in Int, ahead \in Int : Images(chan[1], mid, last, ahead) => Images(chan'[1], mid, last, ahead)
        /\ \A f \in Kind(chan'[1], "INPUT"), b \in Kind(chan[1], "BEGIN") :
             b.tick + Delay <= f.tick => b \in Kind(chan'[1], "BEGIN")
    BY <1>g, <2>1, <2>2, CutGuest
  <2>4. GuestQueue'
    <3>1. /\ Near(chan'[1], NearTick) /\ Images(chan'[1], Mid, resume[0], Ahead)
          /\ Ahead > 0 => Last(chan'[1], Mid, resume[0])
      BY <1>0, <1>f, <1>g, <2>0, <2>2, <2>3 DEF GuestSide, GuestQueue
    <3> QED
      BY <1>0, <1>1, <1>4, <1>5, <2>0, <2>3, <3>1, SMTT(30) DEF GuestSide, GuestQueue
  <2>5. \A r : Pending(r)' => Pending(r)
    BY <1>0, <1>1, <1>5 DEF Pending
  <2>6. ASSUME NEW r \in Nat, ImageRight(r) PROVE ImageRight(r)'
    <3>1. r + Delay <= Cap(0)'
      BY <1>0, <1>3, <1>g, <2>6 DEF ImageRight
    <3> QED
      BY <1>0, <1>1, <1>4, <2>6, <3>1 DEF ImageRight
  <2>7. GuestRight'
    <3>1. wm[1] < Cap(0)'
      BY <1>0, <1>3, <1>f, <2>0, SMTT(30) DEF GuestSide, GuestRight
    <3> QED
      BY <1>0, <1>1, <1>4, <1>5, <2>0, <2>5, <2>6, <3>1 DEF GuestSide, GuestRight
  <2>8. GuestBound'
    <3> SUFFICES ASSUME NEW p \in played[0], p.tick >= tick[1]
                 PROVE  (p.tick < Cap(1)' /\ p.in[1] = ring[1][1][RingSlot(p.tick)]) \/ Beyond(p.tick)'
      BY <1>1 DEF GuestBound
    <3>1. CASE p.tick < Cap(1) /\ p.in[1] = ring[1][1][RingSlot(p.tick)]
      <4>1. p.tick \in Nat
        BY <1>0, <1>f
      <4> QED
        BY <1>h, <3>1, <4>1
    <3>2. CASE Beyond(p.tick)
      BY <1>0, <1>1, <1>4, <1>5, <2>3, <3>2 DEF Beyond
    <3> QED
      BY <2>0, <3>1, <3>2 DEF GuestSide, GuestBound
  <2> QED
    BY <2>4, <2>7, <2>8 DEF GuestSide
<1>10. ASSUME ~dropped'[0] PROVE HostSide'
  <2>0. HostSide
    BY <1>1, <1>10 DEF Paced
  <2>1. HostQueue'
    BY <1>0, <1>1, <1>2, <1>4, <2>0, CutHost DEF HostSide, HostQueue
  <2>2. HostClock'
    <3>1. IF Ahead = 0 THEN wm[0] < Cap(1)' ELSE wm[0] <= Cap(1)' + Ahead * Leap
      <4>1. CASE Ahead = 0
        BY <1>0, <1>3, <1>f, <2>0, <4>1, SMTT(30) DEF HostSide, HostClock
      <4>2. CASE Ahead # 0
        <5>1. wm[0] <= Cap(1) + Ahead * Leap /\ Ahead * Leap \in Int
          BY <1>g, <2>0, <4>2 DEF HostSide, HostClock
        <5> QED
          BY <1>h, <4>2, <5>1
      <4> QED
        BY <4>1, <4>2
    <3> QED
      BY <1>1, <1>4, <2>0, <3>1 DEF HostSide, HostClock
  <2>3. HostRight'
    <3> SUFFICES ASSUME Ahead = 0
                 PROVE  /\ \A t \in tick[0] .. wm[0] : Right(1, t, ring[0][1][RingSlot(t)])
                        /\ \A f \in Kind(chan'[0], "INPUT") : f.tick > wm[0] =>
                             Right(1, f.tick, f.in) /\ f.tick <= tick[0] + 2 * Delay + 1
                        /\ \A t \in wm[0] + 1 .. Cap(1)' - 1 :
                             (room' \/ \E f \in Kind(chan'[0], "INPUT") : f.tick >= t) =>
                               \/ \E f \in Kind(chan'[0], "INPUT") : f.tick = t
                               \/ t = resume[0] + Delay /\ Right(1, t, Idle)
      BY <1>0, <1>1, <1>4 DEF HostRight
    <3>1. /\ \A t \in tick[0] .. wm[0] : Right(1, t, ring[0][1][RingSlot(t)])
          /\ \A f \in Kind(chan'[0], "INPUT") : f.tick > wm[0] =>
               Right(1, f.tick, f.in) /\ f.tick <= tick[0] + 2 * Delay + 1
      BY <1>0, <1>5, <2>0 DEF HostSide, HostRight
    <3>2. ASSUME NEW t \in wm[0] + 1 .. Cap(1)' - 1, NEW f \in Kind(chan'[0], "INPUT"), f.tick >= t
          PROVE  \/ \E g \in Kind(chan'[0], "INPUT") : g.tick = t
                 \/ t = resume[0] + Delay /\ Right(1, t, Idle)
      <4>1. f \in Kind(chan[0], "INPUT") /\ f \in Elems(chan'[0]) /\ f \in Elems(chan[0]) /\ f.type = "INPUT"
        BY <1>0, <1>2, <1>5 DEF Kind
      <4>2. f.tick \in Nat /\ f.tick < Cap(1) /\ Timed(f)
        BY <1>0, <1>f, <4>1, HostTypes DEF Paced, Shared
      <4>3. t \in wm[0] + 1 .. Cap(1) - 1
        BY <1>h, <3>2, <4>2
      <4>4. CASE \E g \in Kind(chan[0], "INPUT") : g.tick = t
        <5>1. PICK g \in Kind(chan[0], "INPUT") : g.tick = t
          BY <4>4
        <5>2. g \in Elems(chan[0]) /\ g.type = "INPUT" /\ Timed(g)
          BY DEF Kind, Timed
        <5>3. Before(chan[0], f, g) => f.tick < g.tick
          BY <2>0, <4>1, <4>2, <5>2 DEF HostSide, HostQueue, Sorted
        <5>4. ~Before(chan[0], f, g)
          BY <3>2, <4>2, <4>3, <5>1, <5>3
        <5>5. g \in Elems(chan'[0])
          BY <1>0, <1>2, <4>1, <5>2, <5>4 DEF Cut
        <5>6. g \in Kind(chan'[0], "INPUT")
          BY <5>2, <5>5 DEF Kind
        <5> QED
          BY <5>1, <5>6
      <4> QED
        BY <2>0, <3>2, <4>1, <4>3, <4>4 DEF HostSide, HostRight
    <3> QED
      BY <1>1, <3>1, <3>2
  <2>4. HostBound'
    <3> SUFFICES ASSUME NEW q \in played[1], q.tick >= tick[0]
                 PROVE  q.tick < Cap(0)' /\ q.in[0] = ring[0][0][RingSlot(q.tick)]
      BY <1>1 DEF HostBound
    <3> QED
      <4>1. q.tick \in Nat
        BY <1>0, <1>f
      <4>2. q.tick < Cap(0) /\ q.in[0] = ring[0][0][RingSlot(q.tick)]
        BY <2>0 DEF HostSide, HostBound
      <4> QED
        BY <1>h, <4>1, <4>2
  <2> QED
    BY <2>1, <2>2, <2>3, <2>4 DEF HostSide
<1> QED
  BY <1>6, <1>7, <1>8, <1>9, <1>10 DEF Paced

-----------------------------------------------------------------------------
(* Receiving.                                                              *)

LEMMA BasicTake ==
  ASSUME TypeOK, Basic, NEW c \in Seats, pc[c] \in Pumping, chan[c] # << >>, chan'[c] = Tail(chan[c]),
         \A d \in Seats : d # c => chan'[d] = chan[d],
         UNCHANGED <<pc, room, dropped, played>>, ~hold'[0], resume'[0] = resume[0],
         \A d \in Seats : tick'[d] \in Nat /\ tick[d] <= tick'[d], Ahead' \in 0 .. 2
  PROVE  Basic' /\ ~dropped[c]
<1>0. /\ 0 \in Seats /\ 1 \in Seats
      /\ \A d \in Seats : /\ chan[d] \in Seq(Frame) /\ tick[d] \in Nat
                          /\ resume[d] \in Nat /\ \A p \in played[d] : p.tick \in Nat
  BY Flat
<1>1. ~dropped[c]
  BY DEF Basic
<1>2. \A d \in Seats : /\ Elems(chan'[d]) \subseteq Elems(chan[d])
                       /\ \A f, g : Before(chan'[d], f, g) => Before(chan[d], f, g)
                       /\ \A type : Kind(chan'[d], type) \subseteq Kind(chan[d], type)
  <2> SUFFICES ASSUME NEW d \in Seats
               PROVE  /\ Elems(chan'[d]) \subseteq Elems(chan[d])
                      /\ \A f, g : Before(chan'[d], f, g) => Before(chan[d], f, g)
                      /\ \A type : Kind(chan'[d], type) \subseteq Kind(chan[d], type)
    OBVIOUS
  <2>1. CASE d = c
    <3> DEFINE s == chan[c]
    <3>1. s \in Seq(Frame) /\ s # << >> /\ chan'[c] = Tail(s)
      BY <1>0
    <3> HIDE DEF s
    <3>2. /\ Elems(s) = {Head(s)} \cup Elems(Tail(s))
          /\ \A f, g : Before(Tail(s), f, g) => Before(s, f, g)
      BY <3>1, TakeQ
    <3>3. \A type : Kind(Tail(s), type) \subseteq Kind(s, type)
      BY <3>2 DEF Kind
    <3> QED
      BY <2>1, <3>1, <3>2, <3>3 DEF s
  <2>2. CASE d # c
    BY <2>2
  <2> QED
    BY <2>1, <2>2
<1>3. \A d \in Seats : dropped'[d] /\ pc'[d] \in Pumping => ~room' /\ chan'[d] = << >>
  BY <1>1 DEF Basic
<1>4. ~hold'[0] /\ resume'[0] <= tick'[0]
  BY <1>0 DEF Basic
<1>5. /\ \A f \in Elems(chan'[0]) : f.type \in {"INPUT", "CRC", "RESYNC", "PEER_LEFT"}
      /\ \A f \in Elems(chan'[1]) : f.type # "RESYNC"
  BY <1>0, <1>2 DEF Basic
<1>6. ASSUME NEW f, f \in Kind(chan'[0], "RESYNC") \/ f \in Kind(chan'[1], "CRC") PROVE f.tick < tick'[0]
  <2>1. f \in Kind(chan[0], "RESYNC") \/ f \in Kind(chan[1], "CRC")
    BY <1>0, <1>2, <1>6
  <2>2. f.tick < tick[0]
    BY <2>1 DEF Basic
  <2>3. f.tick \in Nat
    BY <1>0, <2>1, ElemType DEF Kind
  <2> QED
    BY <1>0, <2>2, <2>3
<1>7. \A d \in Seats :
        /\ \A f, g \in Elems(chan'[d]) : Before(chan'[d], f, g) => f.type # "PEER_LEFT"
        /\ room' => Kind(chan'[d], "PEER_LEFT") = {}
        /\ pc'[d] = "off" => ~room'
  BY <1>2 DEF Basic
<1>8. ASSUME NEW d \in Seats, NEW p \in played'[d] PROVE p.tick < tick'[d]
  <2>1. p.tick \in Nat /\ p.tick < tick[d]
    BY <1>0 DEF Basic
  <2> QED
    BY <1>0, <2>1
<1> QED
  BY <1>1, <1>3, <1>4, <1>5, <1>6, <1>7, <1>8 DEF Basic

\* The guest receives an input of the host: the one after its watermark.
LEMMA GuestInputStep ==
  ASSUME TypeOK, TypeOK', Sized, ImageUnbroken(1), Paced, OnInput(1)
  PROVE  Paced'
<1> USE DEF engine, recovery, history
<1> DEFINE s == chan[1]
           f == Head(chan[1])
           w == wm[1]
<1>0. 0 \in Seats /\ 1 \in Seats /\ (\A c \in Seats : c = 0 \/ c = 1) /\ Other(1) = 0
  BY Flat DEF Other
<1>t. /\ chan \in [Seats -> Seq(Frame)] /\ wm \in [Seats -> Nat] /\ DOMAIN ring = Seats
      /\ ring[1] \in [Seats -> [0 .. LowMod - 1 -> Inputs]]
  BY <1>0 DEF TypeOK, ChanType, EngineType
<1>1. /\ pc[1] \in Pumping /\ s # << >> /\ f.type = "INPUT"
      /\ chan'[1] = Tail(s) /\ chan'[0] = chan[0]
      /\ UNCHANGED <<pc, room, dropped, played, tick, rebases, hold, pend, resume, rec>>
  BY <1>0, <1>t DEF OnInput, Receives
<1>a. IF Accepts(1, f.tick)
      THEN wm' = [wm EXCEPT ![1] = f.tick] /\ ring' = [ring EXCEPT ![1][0][RingSlot(f.tick)] = f.in]
      ELSE wm' = wm /\ ring' = ring
  BY <1>0 DEF OnInput
<1>2. /\ s \in Seq(Frame) /\ w \in Nat /\ tick[1] \in Nat /\ tick[0] \in Nat /\ Cap(0) \in Nat
      /\ resume[0] \in Nat /\ resume[1] \in Nat /\ Ahead \in Int
      /\ Delay \in Nat /\ ResumeGap \in Nat /\ ResumeGap >= 1 /\ Leap \in Nat /\ Leap >= 1
      /\ Cap(0)' = Cap(0) /\ Cap(1)' = Cap(1) /\ Ahead' = Ahead /\ Late' = Late
  <2>1. Cap(0)' = Cap(0) /\ Cap(1)' = Cap(1) /\ Ahead' = Ahead /\ Late' = Late
    BY <1>1 DEF Cap, Ahead, Late
  <2>2. Leap \in Nat /\ Leap >= 1
    BY ConstantAssumption DEF Leap
  <2> QED
    BY <1>0, <2>1, <2>2, Flat
<1>3. Basic' /\ ~dropped[1]
  <2>1. Ahead' \in 0 .. 2 /\ ~hold'[0]
    BY <1>1, <1>2 DEF Paced, Basic
  <2>2. \A d \in Seats : tick'[d] \in Nat /\ tick[d] <= tick'[d]
    BY <1>1, Flat
  <2>3. \A d \in Seats : d # 1 => chan'[d] = chan[d]
    BY <1>0, <1>1
  <2> QED
    BY <1>0, <1>1, <2>1, <2>2, <2>3, BasicTake DEF Paced
<1>4. GuestQueue /\ GuestRight /\ GuestBound
  BY <1>3 DEF Paced, GuestSide
<1>5. ~hold[1]
  <2> SUFFICES ASSUME hold[1] PROVE FALSE
    OBVIOUS
  <2>1. f.type \in FollowsMidImage
    BY <1>0, <1>1, <1>3, HeadFollows
  <2> QED
    BY <1>1, <2>1 DEF FollowsMidImage
<1>6. Start = w /\ NearTick = tick[1] + 2 * Delay + 1 /\ NearTick \in Int /\ Mid = {} /\ Mid' = {}
  BY <1>1, <1>2, <1>5 DEF Start, NearTick, Mid
<1>7. /\ f.tick = w + 1 /\ f.tick < Cap(0)
      /\ Chain(Tail(s), w + 1, Cap(0))
      /\ Full(s, w, Cap(0)) => Full(Tail(s), w + 1, Cap(0))
      /\ Reports(Tail(s), w + 1)
      /\ Spaced(Tail(s), w + 1)
      /\ \A near \in Int : Near(s, near) => Near(Tail(s), near) /\ w + 1 <= near
      /\ \A mid, last : Last(s, mid, last) => Last(Tail(s), mid, last)
      /\ \A mid, last, ahead : Images(s, mid, last, ahead) => Images(Tail(s), mid, last, ahead)
      /\ Kind(Tail(s), "INPUT") \subseteq Kind(s, "INPUT")
      /\ Kind(Tail(s), "BEGIN") = Kind(s, "BEGIN")
      /\ Kind(Tail(s), "CRC") = Kind(s, "CRC")
      /\ f \in Kind(s, "INPUT")
  <2>1. Chain(s, w, Cap(0)) /\ Reports(s, w) /\ Spaced(s, w)
    BY <1>4, <1>6 DEF GuestQueue
  <2>2. w \in Int /\ Cap(0) \in Int
    BY <1>2
  <2> QED
    BY <1>1, <1>2, <2>1, <2>2, TakeInput
<1>8. w + 1 <= tick[1] + 2 * Delay + 1
  BY <1>4, <1>6, <1>7 DEF GuestQueue
<1>9. wm'[1] = w + 1 /\ wm'[0] = wm[0] /\ ring' = [ring EXCEPT ![1][0][RingSlot(w + 1)] = f.in]
  <2>1. ~Behind(w + 1, w)
    BY <1>2, BehindExact
  <2>2. ~SameTick(w + 1, w)
    <3>1. w + 1 \in Int /\ w \in Int /\ w + 1 < w + 4 * Leap /\ w < (w + 1) + 4 * Leap /\ w + 1 # w
      BY <1>2
    <3> QED
      BY <3>1, SameExact
  <2>3. Accepts(1, f.tick)
    BY <1>7, <2>1, <2>2 DEF Accepts
  <2> QED
    BY <1>0, <1>t, <1>7, <1>a, <2>3
<1>10. /\ ring'[0] = ring[0] /\ ring'[1][1] = ring[1][1]
       /\ ring'[1][0] = [ring[1][0] EXCEPT ![RingSlot(w + 1)] = f.in]
  BY <1>0, <1>t, <1>9
<1>11. \A b \in Kind(s, "BEGIN") : b.tick \in Nat /\ w + 1 <= b.tick - ResumeGap + Delay
  <2> SUFFICES ASSUME NEW b \in Kind(s, "BEGIN") PROVE b.tick \in Nat /\ w + 1 <= b.tick - ResumeGap + Delay
    OBVIOUS
  <2>1. b.tick \in Nat
    BY <1>2, ElemType DEF Kind
  <2>2. w <= b.tick - 1 - ResumeGap + Delay
    BY <1>4, <1>6 DEF GuestQueue, Spaced
  <2> QED
    BY <1>2, <2>1, <2>2
<1>12. Ahead > 0 => w + 1 <= Limit(resume[0])
  <2> SUFFICES ASSUME Ahead > 0 PROVE w + 1 <= Limit(resume[0])
    OBVIOUS
  <2>1. Last(s, {}, resume[0])
    BY <1>4, <1>6 DEF GuestQueue
  <2>2. CASE f.tick <= Limit(resume[0])
    <3>1. f.tick = w + 1
      BY <1>7
    <3> QED
      BY <2>2, <3>1
  <2>3. CASE f.tick >= resume[0] + Delay /\ \E b \in Kind(s, "BEGIN") : b.tick = resume[0]
    <3>1. PICK b \in Kind(s, "BEGIN") : b.tick = resume[0]
      BY <2>3
    <3>2. w + 1 <= b.tick - ResumeGap + Delay /\ f.tick = w + 1 /\ w + 1 >= b.tick + Delay
      BY <1>7, <1>11, <2>3, <3>1
    <3>3. b.tick \in Nat /\ ResumeGap \in Nat /\ ResumeGap >= 1 /\ w \in Nat /\ Delay \in Nat
      BY <1>2, <1>11
    <3> HIDE DEF w
    <3> QED
      BY <3>2, <3>3, SMTT(30)
  <2> QED
    BY <1>7, <2>1, <2>2, <2>3 DEF Last
<1>13. GuestQueue'
  <2>1. Start' = w + 1 /\ NearTick' = NearTick
    BY <1>1, <1>5, <1>9 DEF Start, NearTick
  <2>2. /\ Near(Tail(s), NearTick) /\ Images(Tail(s), Mid, resume[0], Ahead)
        /\ Ahead > 0 => Last(Tail(s), Mid, resume[0])
        /\ room => Full(Tail(s), w + 1, Cap(0))
    BY <1>4, <1>6, <1>7 DEF GuestQueue
  <2>3. Ahead > 0 /\ room => Pending(resume[0])'
    <3>1. resume'[0] = resume[0] /\ Mid' = Mid /\ Kind(chan'[1], "BEGIN") = Kind(s, "BEGIN")
      BY <1>1, <1>6, <1>7
    <3>2. Ahead > 0 /\ room => Pending(resume[0])
      BY <1>4 DEF GuestQueue
    <3> QED
      BY <3>1, <3>2 DEF Pending
  <2>4. Ahead = 0 => \A g \in Kind(Tail(s), "CRC") : g.tick >= resume[0]
    BY <1>4, <1>7 DEF GuestQueue
  <2> QED
    BY <1>1, <1>2, <1>5, <1>6, <1>7, <1>9, <1>12, <2>1, <2>2, <2>3, <2>4 DEF GuestQueue
<1>14. GuestRight'
  <2>1. \A t, v : Right(0, t, v)' = Right(0, t, v)
    BY <1>1, <1>10 DEF Right, Owns
  <2>2. \A r : Pending(r)' = Pending(r) /\ ImageRight(r)' = ImageRight(r)
    BY <1>1, <1>2, <1>6, <1>7, <2>1 DEF Pending, ImageRight
  <2>3. /\ w + 1 < Cap(0) /\ tick[1] <= (w + 1) + 1 /\ w + 1 <= tick[1] + 2 * Delay + 1
    <3>1. w + 1 < Cap(0)
      BY <1>7
    <3>2. tick[1] <= w + 1
      BY <1>4 DEF GuestRight
    <3>3. w \in Nat /\ tick[1] \in Nat
      BY <1>2
    <3>4. tick[1] <= (w + 1) + 1
      BY <3>2, <3>3, SMTT(30)
    <3> QED
      BY <1>8, <3>1, <3>4
  <2>4. ASSUME NEW t \in tick[1] .. w + 1 PROVE Right(0, t, ring'[1][0][RingSlot(t)])
    <3>a. t \in Nat /\ w + 1 \in Nat /\ t >= tick[1] /\ t <= w + 1
      BY <1>2
    <3>0. t \in Nat /\ ring[1][0] \in [0 .. LowMod - 1 -> Inputs] /\ RingSlot(w + 1) \in 0 .. LowMod - 1
          /\ RingSlot(t) \in 0 .. LowMod - 1
      BY <1>0, <1>t, <3>a, SlotType
    <3>1. CASE t = w + 1
      <4>1. ring'[1][0][RingSlot(t)] = f.in
        BY <1>10, <3>0, <3>1
      <4> QED
        BY <1>4, <1>7, <3>1, <4>1 DEF GuestRight
    <3>2. CASE t # w + 1
      <4>1. RingSlot(t) # RingSlot(w + 1)
        <5>1. t < w + 1 /\ w + 1 <= t + 2 * Delay + 1 /\ w + 1 \in Nat
          <6>1. w \in Nat /\ tick[1] \in Nat /\ Delay \in Nat
            BY <1>2
          <6>2. w + 1 <= tick[1] + 2 * Delay + 1
            BY <1>8
          <6> HIDE DEF w
          <6>3. w + 1 <= t + 2 * Delay + 1
            BY <3>a, <6>1, <6>2, SMTT(30)
          <6> QED
            BY <3>a, <3>2, <6>1, <6>3, SMTT(30)
        <5> QED
          BY <3>0, <5>1, SlotExact
      <4>2. ring'[1][0][RingSlot(t)] = ring[1][0][RingSlot(t)]
        BY <1>10, <3>0, <4>1
      <4>3. t \in tick[1] .. w
        BY <1>2, <3>2
      <4> QED
        BY <1>4, <4>2, <4>3 DEF GuestRight
    <3> QED
      BY <3>1, <3>2
  <2>5. \A g \in Kind(chan'[1], "INPUT") : Right(0, g.tick, g.in)
    BY <1>1, <1>4, <1>7 DEF GuestRight
  <2>6. /\ wm'[1] < Cap(0)' /\ tick'[1] <= wm'[1] + 1 /\ wm'[1] <= tick'[1] + 2 * Delay + 1
    BY <1>1, <1>2, <1>9, <2>3
  <2>7. \A g \in Kind(chan'[1], "INPUT") : Right(0, g.tick, g.in)'
    BY <2>1, <2>5
  <2>8. \A t \in tick'[1] .. wm'[1] : Right(0, t, ring[1][0][RingSlot(t)])'
    <3>1. ASSUME NEW t \in tick[1] .. w + 1 PROVE Right(0, t, ring[1][0][RingSlot(t)])'
      BY <1>1, <1>10, <2>4 DEF Right, Owns
    <3> QED
      BY <1>1, <1>9, <3>1
  <2>9. \A r \in Nat : Pending(r)' => ImageRight(r)'
    BY <1>4, <2>2 DEF GuestRight
  <2> QED
    BY <2>6, <2>7, <2>8, <2>9 DEF GuestRight
<1>15. GuestBound'
  <2>1. ASSUME NEW x \in Nat, Beyond(x) PROVE Beyond(x)'
    <3>1. Ahead > 0 /\ x > w
      BY <2>1 DEF Beyond
    <3>2. f.tick < x
      <4>1. ~\E b \in Kind(s, "BEGIN") : b.tick + Delay <= f.tick
        BY <1>2, <1>7, <1>11, SMTT(30)
      <4> QED
        BY <1>5, <1>7, <2>1, <4>1 DEF Beyond
    <3>3. \A g \in Kind(chan'[1], "INPUT") :
            g.tick < x \/ hold'[1] \/ \E b \in Kind(chan'[1], "BEGIN") : b.tick + Delay <= g.tick
      BY <1>1, <1>7, <2>1 DEF Beyond
    <3> QED
      BY <1>2, <1>7, <1>9, <3>1, <3>2, <3>3 DEF Beyond
  <2>2. \A p \in played[0] : p.tick \in Nat
    BY <1>0, Flat
  <2> QED
    BY <1>1, <1>2, <1>4, <1>10, <2>1, <2>2 DEF GuestBound
<1>16. Shared'
  BY <1>1, <1>2 DEF Paced, Shared
<1>17. Agree'
  BY <1>1 DEF Paced, Agree
<1>18. ~dropped'[0] => HostSide'
  BY <1>1, <1>2, <1>9, <1>10, HostKeep DEF Paced
<1> QED
  BY <1>3, <1>13, <1>14, <1>15, <1>16, <1>17, <1>18 DEF Paced, GuestSide

\* The guest takes a frame that moves neither its watermark nor its hold.
LEMMA GuestTake ==
  ASSUME TypeOK, GuestSide, chan[1] # << >>, ~Mark(Head(chan[1])), chan'[1] = Tail(chan[1]),
         room' = room, rebases' = rebases,
         tick'[1] = tick[1], ring'[1] = ring[1], wm'[1] = wm[1], hold'[1] = hold[1],
         resume' = resume, Cap(0)' = Cap(0), Cap(1)' = Cap(1),
         tick'[0] = tick[0], played'[0] = played[0],
         ~dropped'[0] => ~dropped[0] /\ ring'[0][0] = ring[0][0]
  PROVE  GuestSide'
<1> DEFINE u == chan[1]
<1>0. GuestQueue /\ GuestRight /\ GuestBound
  BY DEF GuestSide
<1>1. \A t, v : Right(0, t, v) => Right(0, t, v)'
  BY DEF Right, Owns
<1>2. Ahead' = Ahead /\ Start' = Start /\ NearTick' = NearTick /\ Mid' = Mid
  BY DEF Ahead, Start, NearTick, Mid
<1>3. /\ Chain(Tail(u), Start, Cap(0))
      /\ Full(u, Start, Cap(0)) => Full(Tail(u), Start, Cap(0))
      /\ Reports(Tail(u), Start)
      /\ Spaced(Tail(u), Start)
      /\ \A near \in Int : Near(u, near) => Near(Tail(u), near)
      /\ \A mid, last : Last(u, mid, last) => Last(Tail(u), mid, last)
      /\ \A mid, last, ahead : Images(u, mid, last, ahead) => Images(Tail(u), mid, last, ahead)
      /\ Kind(Tail(u), "INPUT") = Kind(u, "INPUT")
      /\ Kind(Tail(u), "BEGIN") = Kind(u, "BEGIN")
      /\ Kind(Tail(u), "CRC") \subseteq Kind(u, "CRC")
  <2>1. u \in Seq(Frame) /\ Start \in Int /\ Cap(0) \in Int /\ NearTick \in Int
    BY Flat
  <2>2. Chain(u, Start, Cap(0)) /\ Reports(u, Start) /\ Spaced(u, Start)
    BY <1>0 DEF GuestQueue
  <2> QED
    BY <2>1, <2>2, TakeOther
<1>4. NearTick \in Int
  BY Flat
<1>5. \A r : Pending(r)' <=> Pending(r)
  BY <1>2, <1>3 DEF Pending
<1>6. \A r : ImageRight(r) => ImageRight(r)'
  BY <1>1 DEF ImageRight
<1>7. \A x : Beyond(x) => Beyond(x)'
  BY <1>2, <1>3 DEF Beyond
<1>8. GuestQueue'
  <2>1. Ahead > 0 /\ room => Pending(resume[0])'
    BY <1>0, <1>2, <1>3 DEF GuestQueue, Pending
  <2>2. Near(Tail(u), NearTick)
    BY <1>0, <1>3, <1>4 DEF GuestQueue
  <2> QED
    BY <1>0, <1>2, <1>3, <2>1, <2>2 DEF GuestQueue
<1>9. GuestRight'
  BY <1>0, <1>1, <1>3, <1>5, <1>6 DEF GuestRight
<1>10. GuestBound'
  BY <1>0, <1>7 DEF GuestBound
<1> QED
  BY <1>8, <1>9, <1>10 DEF GuestSide

\* Frames other than inputs are sent to the host or taken by it.
LEMMA HostQueued ==
  ASSUME HostSide, HostQueue', Kind(chan'[0], "INPUT") = Kind(chan[0], "INPUT"), room' = room, rebases' = rebases,
         tick'[0] = tick[0], ring'[0] = ring[0], wm'[0] = wm[0],
         resume'[0] = resume[0], rec'[0] = rec[0], Cap(0)' = Cap(0), Cap(1)' = Cap(1),
         tick'[1] = tick[1], played'[1] = played[1],
         ~dropped'[1] => ~dropped[1] /\ ring'[1][1] = ring[1][1]
  PROVE  HostSide'
<1>1. \A t, v : Right(1, t, v) => Right(1, t, v)'
  BY DEF Right, Owns
<1>2. Ahead' = Ahead
  BY DEF Ahead
<1>4. HostClock'
  BY <1>2 DEF HostSide, HostClock
<1>5. HostRight'
  BY <1>1, <1>2 DEF HostSide, HostRight
<1>6. HostBound'
  BY DEF HostSide, HostBound
<1> QED
  BY <1>4, <1>5, <1>6 DEF HostSide

\* The guest receives a CRC of the host.
LEMMA GuestCrcStep ==
  ASSUME TypeOK, TypeOK', Sized, ImageUnbroken(1), Paced, OnCrc(1)
  PROVE  Paced'
<1> USE DEF engine, recovery, history
<1> DEFINE s == chan[1]
           f == Head(chan[1])
           x == ResyncFrame(f.tick)
<1>0. 0 \in Seats /\ 1 \in Seats /\ (\A c \in Seats : c = 0 \/ c = 1) /\ 1 # Host /\ Host = 0
  BY Flat DEF Host
<1>t. chan \in [Seats -> Seq(Frame)] /\ pend \in [Seats -> BOOLEAN]
  BY <1>0 DEF TypeOK, ChanType, RecoveryType
<1>1. /\ pc[1] \in Pumping /\ s # << >> /\ f.type = "CRC" /\ chan'[1] = Tail(s)
      /\ UNCHANGED <<pc, room, dropped, played, tick, ring, wm, rebases, hold, resume, rec>>
      /\ \/ pend' = pend /\ chan'[0] = chan[0]
         \/ /\ ~hold[1] /\ ~pend[1] /\ pend' = [pend EXCEPT ![1] = TRUE]
            /\ chan'[0] = IF room THEN Append(chan[0], x) ELSE chan[0]
  BY <1>0, <1>t DEF OnCrc, CrcDisagrees
<1>2. /\ s \in Seq(Frame) /\ chan[0] \in Seq(Frame) /\ tick[1] \in Nat /\ tick[0] \in Nat
      /\ resume[0] \in Nat /\ Ahead \in 0 .. 2 /\ Delay \in Nat
      /\ Cap(0)' = Cap(0) /\ Cap(1)' = Cap(1) /\ Ahead' = Ahead /\ Late' = Late /\ pend[0] \in BOOLEAN
      /\ wm[0] \in Int
  <2>1. Cap(0)' = Cap(0) /\ Cap(1)' = Cap(1) /\ Ahead' = Ahead /\ Late' = Late
    BY <1>1 DEF Cap, Ahead, Late
  <2>2. Ahead \in 0 .. 2
    BY DEF Paced, Basic
  <2> QED
    BY <1>0, <2>1, <2>2, Flat
<1>3. /\ f \in Kind(s, "CRC") /\ f.tick \in Nat /\ f.tick < tick[0]
      /\ \A g \in Elems(Tail(s)) : Before(s, f, g)
      /\ Elems(s) = {f} \cup Elems(Tail(s))
  <2>1. /\ f \in Elems(s) /\ \A g \in Elems(Tail(s)) : Before(s, f, g)
        /\ Elems(s) = {f} \cup Elems(Tail(s))
    BY <1>1, <1>2, TakeQ
  <2>2. f.tick \in Nat /\ f \in Kind(s, "CRC")
    BY <1>1, <1>2, <2>1, ElemType DEF Kind
  <2> QED
    BY <2>1, <2>2 DEF Paced, Basic
<1>4. ~dropped[1]
  BY <1>0, <1>1 DEF Paced, Basic
<1>5. GuestSide'
  <2>1. ~Mark(f)
    BY <1>1 DEF Mark
  <2> QED
    BY <1>1, <1>2, <1>4, <2>1, GuestTake DEF Paced
<1>6. Agree'
  BY <1>1 DEF Paced, Agree
<1>7. CASE pend' = pend /\ chan'[0] = chan[0]
  <2>1. Basic'
    <3>1. Ahead' \in 0 .. 2 /\ ~hold'[0]
      BY <1>1, <1>2 DEF Paced, Basic
    <3>2. \A d \in Seats : tick'[d] \in Nat /\ tick[d] <= tick'[d]
      BY <1>1, Flat
    <3>3. \A d \in Seats : d # 1 => chan'[d] = chan[d]
      BY <1>0, <1>7
    <3> QED
      BY <1>0, <1>1, <3>1, <3>2, <3>3, BasicTake DEF Paced
  <2>2. Shared'
    BY <1>1, <1>2, <1>7 DEF Paced, Shared
  <2>3. ~dropped'[0] => HostSide'
    BY <1>1, <1>2, <1>7, HostKeep DEF Paced
  <2> QED
    BY <1>5, <1>6, <2>1, <2>2, <2>3 DEF Paced
<1>8. CASE /\ ~hold[1] /\ ~pend[1] /\ pend' = [pend EXCEPT ![1] = TRUE] /\ ~room
           /\ chan'[0] = chan[0]
  <2>0. pend'[0] = pend[0] /\ pend'[1] = TRUE /\ pend[1] = FALSE
    BY <1>0, <1>t, <1>8
  <2>1. Basic'
    <3>1. Ahead' \in 0 .. 2 /\ ~hold'[0]
      BY <1>1, <1>2 DEF Paced, Basic
    <3>2. \A d \in Seats : tick'[d] \in Nat /\ tick[d] <= tick'[d]
      BY <1>1, Flat
    <3>3. \A d \in Seats : d # 1 => chan'[d] = chan[d]
      BY <1>0, <1>8
    <3> QED
      BY <1>0, <1>1, <3>1, <3>2, <3>3, BasicTake DEF Paced
  <2>2. Shared'
    <3>1. Asked(chan[0], resume[0], Ahead, pend[0], FALSE)
      BY <2>0 DEF Paced, Shared
    <3>2. Asked(chan[0], resume[0], Ahead, pend[0], TRUE)
      BY <3>1 DEF Asked
    <3> QED
      BY <1>1, <1>2, <1>8, <2>0, <3>2 DEF Paced, Shared
  <2>3. ~dropped'[0] => HostSide'
    BY <1>1, <1>2, <1>8, <2>0, HostKeep DEF Paced
  <2> QED
    BY <1>5, <1>6, <2>1, <2>2, <2>3 DEF Paced
<1>9. CASE /\ ~hold[1] /\ ~pend[1] /\ pend' = [pend EXCEPT ![1] = TRUE] /\ room
           /\ chan'[0] = Append(chan[0], x)
  <2>0. /\ pend'[0] = pend[0] /\ pend'[1] = TRUE /\ pend[1] = FALSE
        /\ x \in Frame /\ x.type = "RESYNC" /\ x.tick = f.tick
    BY <1>0, <1>t, <1>3, <1>9, FrameType DEF ResyncFrame
  <2>1. Asked(chan[0], resume[0], Ahead, pend[0], FALSE)
    BY <2>0 DEF Paced, Shared
  <2>2. Ahead = 0 => ~Old(x, resume[0])
    <3>1. Ahead = 0 => f.tick >= resume[0]
      BY <1>3, <1>4 DEF Paced, GuestSide, GuestQueue
    <3> QED
      BY <1>2, <1>3, <2>0, <3>1 DEF Old
  <2>3. Ahead = 1 => Old(x, resume[0]) /\ \A g \in Kind(chan[0], "CRC") : Old(g, resume[0])
    <3> SUFFICES ASSUME Ahead = 1 PROVE Old(x, resume[0]) /\ \A g \in Kind(chan[0], "CRC") : Old(g, resume[0])
      OBVIOUS
    <3>1. Pending(resume[0]) /\ Mid = {}
      BY <1>4, <1>9 DEF Paced, GuestSide, GuestQueue, Mid
    <3>2. PICK b \in Kind(s, "BEGIN") : b.tick = resume[0]
      BY <3>1 DEF Pending
    <3>3. Before(s, f, b) /\ Mark(b) /\ Val(b) = resume[0] + Delay - 1 /\ b \in Elems(s)
      BY <1>1, <1>3, <3>2 DEF Kind, Mark, Val
    <3>4. f.tick + Delay < resume[0] + Delay - 1
      BY <1>3, <1>4, <3>3 DEF Paced, GuestSide, GuestQueue, Reports
    <3>5. f.tick < resume[0]
      BY <1>2, <1>3, <3>4
    <3>6. tick[1] < resume[0]
      <4>1. tick[1] < resume[0] + Late /\ Late = 0
        BY <1>4 DEF Paced, Shared, Late
      <4> QED
        BY <1>2, <4>1
    <3>7. ASSUME NEW g \in Kind(chan[0], "CRC") PROVE Old(g, resume[0])
      <4>1. g.tick < tick[1] /\ g.type = "CRC" /\ g.tick \in Nat
        BY <1>2, HostTypes DEF Paced, Shared, Kind
      <4> QED
        BY <1>2, <3>6, <4>1 DEF Old
    <3> QED
      BY <2>0, <3>5, <3>7 DEF Old
  <2>4. /\ Asked(chan'[0], resume[0], Ahead, pend[0], TRUE)
        /\ \A w \in Int : Lag(chan[0], w, resume[0], Ahead, pend[0]) => Lag(chan'[0], w, resume[0], Ahead, pend[0])
        /\ Sorted(chan[0]) => Sorted(chan'[0])
        /\ \A type : Kind(chan'[0], type) =
             IF type = "RESYNC" THEN Kind(chan[0], type) \cup {x} ELSE Kind(chan[0], type)
        /\ Elems(chan'[0]) = Elems(chan[0]) \cup {x}
    <3>1. resume[0] \in Int
      BY <1>2
    <3> HIDE DEF x
    <3> QED
      <4>1. /\ Asked(Append(chan[0], x), resume[0], Ahead, pend[0], TRUE)
            /\ \A w \in Int : Lag(chan[0], w, resume[0], Ahead, pend[0])
                              => Lag(Append(chan[0], x), w, resume[0], Ahead, pend[0])
            /\ Sorted(chan[0]) => Sorted(Append(chan[0], x))
            /\ \A type : Kind(Append(chan[0], x), type) =
                 IF type = "RESYNC" THEN Kind(chan[0], type) \cup {x} ELSE Kind(chan[0], type)
            /\ Elems(Append(chan[0], x)) = Elems(chan[0]) \cup {x}
        BY <1>2, <2>0, <2>1, <2>2, <2>3, <3>1, SendRequest
      <4> QED
        BY <1>9, <4>1
  <2>5. Kind(chan'[0], "INPUT") = Kind(chan[0], "INPUT") /\ Kind(chan'[0], "CRC") = Kind(chan[0], "CRC")
        /\ Kind(chan'[0], "RESYNC") = Kind(chan[0], "RESYNC") \cup {x}
        /\ Kind(chan'[0], "PEER_LEFT") = Kind(chan[0], "PEER_LEFT")
    BY <2>4
  <2>6. Basic'
    <3> HIDE DEF x
    <3>1. /\ ~hold'[0] /\ resume'[0] <= tick'[0] /\ room'
          /\ \A g \in Elems(chan'[0]) : g.type \in {"INPUT", "CRC", "RESYNC", "PEER_LEFT"}
          /\ \A g \in Elems(chan'[1]) : g.type # "RESYNC"
          /\ \A g \in Kind(chan'[0], "RESYNC") : g.tick < tick'[0]
          /\ Ahead' \in 0 .. 2
      BY <1>1, <1>2, <1>3, <1>9, <2>0, <2>4, <2>5 DEF Paced, Basic
    <3>2. \A c \in Seats : /\ dropped'[c] /\ pc'[c] \in Pumping => ~room' /\ chan'[c] = << >>
                           /\ pc'[c] = "off" => ~room'
                           /\ \A p \in played'[c] : p.tick < tick'[c]
      BY <1>1, <1>9 DEF Paced, Basic
    <3>3. \A g \in Kind(chan'[1], "CRC") : g.tick < tick'[0]
      BY <1>1, <1>3 DEF Paced, Basic, Kind
    <3>4. \A c \in Seats : Kind(chan'[c], "PEER_LEFT") = {}
      <4>1. Kind(chan[0], "PEER_LEFT") = {} /\ Kind(s, "PEER_LEFT") = {}
        BY <1>0, <1>9 DEF Paced, Basic
      <4>2. Kind(chan'[1], "PEER_LEFT") = {}
        BY <1>1, <1>3, <4>1 DEF Kind
      <4> QED
        BY <1>0, <2>5, <4>1, <4>2
    <3>5. \A c \in Seats : \A g, h \in Elems(chan'[c]) : Before(chan'[c], g, h) => g.type # "PEER_LEFT"
      BY <3>4 DEF Kind
    <3> QED
      BY <3>1, <3>2, <3>3, <3>4, <3>5 DEF Basic
  <2>7. Shared'
    BY <1>1, <1>2, <2>0, <2>4, <2>5 DEF Paced, Shared
  <2>8. ~dropped'[0] => HostSide'
    <3> SUFFICES ASSUME ~dropped[0] PROVE HostSide'
      BY <1>1
    <3>1. HostQueue'
      BY <1>1, <1>2, <2>0, <2>4 DEF Paced, HostSide, HostQueue
    <3> QED
      BY <1>1, <1>2, <2>5, <3>1, HostQueued DEF Paced
  <2> QED
    BY <1>5, <1>6, <2>6, <2>7, <2>8 DEF Paced
<1> QED
  BY <1>1, <1>7, <1>8, <1>9

\* The guest receives a chunk of an image, or the end of one it has given up.
LEMMA GuestSkipStep ==
  ASSUME TypeOK, TypeOK', Paced, pc[1] \in Pumping, chan[1] # << >>, ~Mark(Head(chan[1])),
         chan' = [chan EXCEPT ![1] = Tail(@)],
         UNCHANGED <<pc, room, dropped, played, tick, ring, wm, rebases, hold, pend, resume, rec>>
  PROVE  Paced'
<1>0. 0 \in Seats /\ 1 \in Seats /\ (\A c \in Seats : c = 0 \/ c = 1) /\ chan \in [Seats -> Seq(Frame)]
  BY Flat DEF TypeOK, ChanType
<1>1. /\ chan'[1] = Tail(chan[1]) /\ chan'[0] = chan[0]
      /\ \A d \in Seats : d # 1 => chan'[d] = chan[d]
  BY <1>0
<1>2. Cap(0)' = Cap(0) /\ Cap(1)' = Cap(1) /\ Ahead' = Ahead /\ Late' = Late
  BY DEF Cap, Ahead, Late
<1>3. Basic' /\ ~dropped[1]
  <2>1. Ahead' \in 0 .. 2 /\ ~hold'[0]
    BY <1>2 DEF Paced, Basic
  <2>2. \A d \in Seats : tick'[d] \in Nat /\ tick[d] <= tick'[d]
    BY Flat
  <2> QED
    BY <1>0, <1>1, <2>1, <2>2, BasicTake DEF Paced
<1>4. GuestSide'
  BY <1>1, <1>2, <1>3, GuestTake DEF Paced
<1>5. Shared' /\ Agree'
  BY <1>1, <1>2 DEF Paced, Shared, Agree
<1>6. ~dropped'[0] => HostSide'
  BY <1>1, <1>2, HostKeep DEF Paced
<1> QED
  BY <1>3, <1>4, <1>5, <1>6 DEF Paced

\* The guest receives the beginning of an image.
LEMMA GuestBeginStep ==
  ASSUME TypeOK, TypeOK', Sized, ImageUnbroken(1), Paced, OnBegin(1)
  PROVE  Paced'
<1> USE DEF engine, recovery, history
<1> DEFINE s == chan[1]
           f == Head(chan[1])
           w == wm[1]
           r == f.tick
<1>0. 0 \in Seats /\ 1 \in Seats /\ (\A c \in Seats : c = 0 \/ c = 1)
  BY Flat
<1>t. chan \in [Seats -> Seq(Frame)] /\ hold \in [Seats -> BOOLEAN] /\ DOMAIN resume = Seats /\ DOMAIN rec = Seats
  BY <1>0 DEF TypeOK, ChanType, RecoveryType
<1>1. /\ pc[1] \in Pumping /\ s # << >> /\ f.type = "BEGIN"
      /\ chan'[1] = Tail(s) /\ chan'[0] = chan[0]
      /\ UNCHANGED <<pc, room, dropped, played, tick, ring, wm, rebases, pend>>
      /\ hold'[1] = TRUE /\ hold'[0] = hold[0] /\ resume'[1] = r /\ resume'[0] = resume[0] /\ rec'[0] = rec[0]
  BY <1>0, <1>t DEF OnBegin, Receives, RS_ENTER_HOLD
<1>2. /\ s \in Seq(Frame) /\ w \in Nat /\ tick[1] \in Nat /\ tick[0] \in Nat /\ Cap(0) \in Nat
      /\ resume[0] \in Nat /\ Ahead \in 0 .. 2
      /\ Delay \in Nat /\ ResumeGap \in Nat /\ ResumeGap > Delay
      /\ Cap(0)' = Cap(0) /\ Cap(1)' = Cap(1) /\ Ahead' = Ahead /\ Late' = Late
  <2>1. Cap(0)' = Cap(0) /\ Cap(1)' = Cap(1) /\ Ahead' = Ahead /\ Late' = Late
    BY <1>1 DEF Cap, Ahead, Late
  <2>2. Ahead \in 0 .. 2
    BY DEF Paced, Basic
  <2> QED
    BY <1>0, <2>1, <2>2, Flat DEF Sized
<1>3. Basic' /\ ~dropped[1]
  <2>1. Ahead' \in 0 .. 2 /\ ~hold'[0]
    BY <1>1, <1>2 DEF Paced, Basic
  <2>2. \A d \in Seats : tick'[d] \in Nat /\ tick[d] <= tick'[d]
    BY <1>1, Flat
  <2>3. \A d \in Seats : d # 1 => chan'[d] = chan[d]
    BY <1>0, <1>1
  <2> QED
    BY <1>0, <1>1, <2>1, <2>2, <2>3, BasicTake DEF Paced
<1>4. GuestQueue /\ GuestRight /\ GuestBound
  BY <1>3 DEF Paced, GuestSide
<1>5. ~hold[1]
  <2> SUFFICES ASSUME hold[1] PROVE FALSE
    OBVIOUS
  <2>1. f.type \in FollowsMidImage
    BY <1>0, <1>1, <1>3, HeadFollows
  <2> QED
    BY <1>1, <2>1 DEF FollowsMidImage
<1>r. r \in Nat
  <2>1. f \in Elems(s)
    BY <1>1, <1>2, TakeQ
  <2> QED
    BY <1>1, <1>2, <2>1, ElemType
<1>6. /\ Start = w /\ NearTick = tick[1] + 2 * Delay + 1 /\ NearTick \in Int /\ Mid = {} /\ Mid' = {r}
      /\ Start' = r + Delay - 1 /\ NearTick' = r + 2 * Delay
  BY <1>1, <1>2, <1>5 DEF Start, NearTick, Mid
<1>7. /\ w <= Limit(r) /\ w < r + Delay - 1
      /\ Chain(Tail(s), r + Delay - 1, Cap(0))
      /\ Full(s, w, Cap(0)) => Full(Tail(s), r + Delay - 1, Cap(0))
      /\ Reports(Tail(s), r + Delay - 1)
      /\ Spaced(Tail(s), r + Delay - 1)
      /\ \A near \in Int : Near(s, near) /\ near <= r + 2 * Delay => Near(Tail(s), r + 2 * Delay)
      /\ \A last \in Int : Last(s, {}, last) => Last(Tail(s), {r}, last)
      /\ \A last \in Int, ahead \in 0 .. 2 : Images(s, {}, last, ahead) => Images(Tail(s), {r}, last, ahead)
      /\ Kind(Tail(s), "INPUT") = Kind(s, "INPUT")
      /\ Kind(Tail(s), "BEGIN") \subseteq Kind(s, "BEGIN")
      /\ f \in Kind(s, "BEGIN")
      /\ \A b \in Kind(s, "BEGIN") : b.tick = r \/ b \in Kind(Tail(s), "BEGIN")
      /\ Kind(Tail(s), "CRC") = Kind(s, "CRC")
      /\ \A g \in Kind(s, "CRC") : g.tick >= r
  <2>1. Chain(s, w, Cap(0)) /\ Reports(s, w) /\ Spaced(s, w)
    BY <1>4, <1>6 DEF GuestQueue
  <2>2. w \in Int /\ Cap(0) \in Int
    BY <1>2
  <2> QED
    BY <1>1, <1>2, <1>r, <2>1, <2>2, TakeBegin
<1>8. \A x : Pending(x)' <=> Pending(x)
  BY <1>1, <1>6, <1>7 DEF Pending
<1>9. GuestQueue'
  <2>1. NearTick <= r + 2 * Delay
    <3>1. tick[1] <= w + 1 /\ w <= r - 1 - ResumeGap + Delay
      BY <1>4, <1>7 DEF GuestRight, Limit
    <3> HIDE DEF r, w
    <3> QED
      BY <1>2, <1>6, <1>r, <3>1
  <2>2. Near(Tail(s), r + 2 * Delay)
    BY <1>4, <1>6, <1>7, <2>1 DEF GuestQueue
  <2>i. resume[0] \in Int /\ Images(s, {}, resume[0], Ahead) /\ (Ahead > 0 => Last(s, {}, resume[0]))
    BY <1>2, <1>4, <1>6 DEF GuestQueue
  <2>3. Images(Tail(s), {r}, resume[0], Ahead)
    BY <1>2, <1>7, <2>i
  <2>4. Ahead > 0 => Last(Tail(s), {r}, resume[0])
    BY <1>7, <2>i
  <2>5. room => Full(Tail(s), r + Delay - 1, Cap(0))
    BY <1>4, <1>6, <1>7 DEF GuestQueue
  <2>6. Ahead > 0 /\ room => Pending(resume[0])'
    <3>1. Ahead > 0 /\ room => Pending(resume[0])
      BY <1>4 DEF GuestQueue
    <3> QED
      BY <1>1, <1>6, <1>7, <3>1 DEF Pending
  <2>7. Ahead > 0 => w <= Limit(resume[0])
    BY <1>4 DEF GuestQueue
  <2>8. Ahead = 0 => \A g \in Kind(Tail(s), "CRC") : g.tick >= resume[0]
    BY <1>4, <1>7 DEF GuestQueue
  <2> QED
    BY <1>1, <1>2, <1>6, <1>7, <2>2, <2>3, <2>4, <2>5, <2>6, <2>7, <2>8 DEF GuestQueue
<1>10. GuestRight'
  <2>1. \A t, v : Right(0, t, v) <=> Right(0, t, v)'
    BY <1>1 DEF Right, Owns
  <2>2. \A x : ImageRight(x) => ImageRight(x)'
    BY <1>1, <1>2, <2>1 DEF ImageRight
  <2> QED
    BY <1>1, <1>2, <1>4, <1>7, <1>8, <2>1, <2>2 DEF GuestRight
<1>11. GuestBound'
  <2>1. \A x : Beyond(x) => Beyond(x)'
    BY <1>1, <1>2 DEF Beyond
  <2> QED
    BY <1>1, <1>2, <1>4, <2>1 DEF GuestBound
<1>12. Shared' /\ Agree'
  BY <1>1, <1>2 DEF Paced, Shared, Agree
<1>13. ~dropped'[0] => HostSide'
  BY <1>1, <1>2, HostKeep DEF Paced
<1> QED
  BY <1>3, <1>9, <1>10, <1>11, <1>12, <1>13 DEF Paced, GuestSide

LEMMA NearMore ==
  ASSUME NEW u \in Seq(Frame), NEW near \in Int, NEW more \in Int, near <= more, Near(u, near)
  PROVE  Near(u, more)
<1> SUFFICES ASSUME NEW f \in Kind(u, "INPUT"), f.tick <= near PROVE f.tick <= more
  BY DEF Near
<1>1. f.tick \in Nat
  BY ElemType DEF Kind
<1> QED
  BY <1>1

\* The guest completes an image: it starts over at the image's tick.
LEMMA GuestEndStep ==
  ASSUME TypeOK, TypeOK', Sized, Paced, OnEnd(1), hold[1]
  PROVE  Paced'
<1> USE DEF engine, recovery, history
<1> DEFINE s == chan[1]
           w == wm[1]
           r == resume[1]
           R == resume[0]
<1>0. 0 \in Seats /\ 1 \in Seats /\ (\A c \in Seats : c = 0 \/ c = 1)
  BY Flat
<1>t. /\ chan \in [Seats -> Seq(Frame)] /\ hold \in [Seats -> BOOLEAN] /\ pend \in [Seats -> BOOLEAN]
      /\ DOMAIN resume = Seats /\ DOMAIN rec = Seats /\ tick \in [Seats -> Nat] /\ wm \in [Seats -> Nat]
      /\ rebases \in [Seats -> Nat] /\ DOMAIN ring = Seats
  BY <1>0 DEF TypeOK, ChanType, RecoveryType, EngineType
<1>1. /\ pc[1] \in Pumping /\ s # << >> /\ Head(s).type = "END"
      /\ chan'[1] = Tail(s) /\ chan'[0] = chan[0]
      /\ UNCHANGED <<pc, room, dropped, played, resume>>
      /\ hold'[1] = FALSE /\ hold'[0] = hold[0] /\ rec'[0] = rec[0]
      /\ tick'[1] = r /\ tick'[0] = tick[0] /\ wm'[1] = r + Delay - 1 /\ wm'[0] = wm[0]
      /\ ring'[1] = LS_RING_INIT /\ ring'[0] = ring[0]
      /\ pend'[1] = FALSE /\ pend'[0] = pend[0]
      /\ rebases'[1] = rebases[1] + 1 /\ rebases'[0] = rebases[0]
  BY <1>0, <1>t DEF OnEnd, Receives, RS_REBASE, RebaseWatermark
<1>2. /\ s \in Seq(Frame) /\ w \in Nat /\ tick[1] \in Nat /\ tick[0] \in Nat /\ Cap(0) \in Nat /\ Cap(1) \in Nat
      /\ R \in Nat /\ r \in Nat /\ wm[0] \in Nat /\ chan[0] \in Seq(Frame)
      /\ Delay \in Nat /\ Delay >= 1 /\ ResumeGap \in Nat /\ ResumeGap > Delay /\ Leap \in Nat
      /\ Cap(1) <= tick[1] + Delay + 1
      /\ \A p \in played[0] : p.tick \in Nat
      /\ \A p \in played[1] : p.tick \in Nat
  BY <1>0, Flat DEF Sized
<1>3. /\ Ahead \in 0 .. 2 /\ ~dropped[1] /\ R <= tick[0]
  BY <1>0, <1>1 DEF Paced, Basic
<1>4. GuestQueue /\ GuestRight /\ GuestBound
  BY <1>3 DEF Paced, GuestSide
<1>5. Mid = {r} /\ Mid' = {} /\ Start = r + Delay - 1 /\ NearTick = r + 2 * Delay
  BY <1>1 DEF Mid, Start, NearTick
<1>6. Ahead = 1 \/ Ahead = 2
  BY <1>3, <1>4, <1>5 DEF GuestQueue, Images
<1>7. Ahead' = Ahead - 1
  <2>1. rebases[0] \in Nat /\ rebases[1] \in Nat
    BY <1>0, <1>t
  <2> QED
    BY <1>1, <2>1 DEF Ahead
<1>8. ImageRight(r)
  BY <1>2, <1>4, <1>5 DEF GuestRight, Pending
<1>9. /\ Ahead = 1 => r = R /\ Kind(s, "BEGIN") = {}
      /\ Ahead = 2 => r < R /\ \A b \in Kind(s, "BEGIN") : b.tick = R
  BY <1>4, <1>5 DEF GuestQueue, Images
<1>10. Ahead = 2 => r + 1 + ResumeGap <= R /\ (~dropped[0] => R <= r + Leap)
  BY <1>2, <1>8, <1>9 DEF ImageRight
<1>11. tick[1] < r
  <2>1. tick[1] <= w + 1 /\ w <= r - 1 - ResumeGap + Delay
    BY <1>4 DEF GuestRight, GuestQueue, Limit
  <2> HIDE DEF r, w
  <2> QED
    BY <1>2, <2>1
<1>12. /\ Cap(0)' = Cap(0) /\ Late = 0 /\ Late' = 0
       /\ Cap(1)' \in Nat /\ Cap(1) < Cap(1)' /\ r + Delay <= Cap(1)' /\ Cap(1)' <= r + Delay + 1
       /\ Cap(1) <= r + Delay
  <2>1. Cap(0)' = Cap(0) /\ Late = 0 /\ Late' = 0
    BY <1>1, <1>3 DEF Cap, Late
  <2>2. Cap(1)' \in Nat /\ Cap(1) < Cap(1)' /\ r + Delay <= Cap(1)' /\ Cap(1)' <= r + Delay + 1
        /\ Cap(1) <= r + Delay
    <3>1. pc'[1] = pc[1] /\ tick'[1] = r
      BY <1>1
    <3> HIDE DEF r
    <3> QED
      BY <1>2, <1>11, <3>1, SMTT(30) DEF Cap
  <2> QED
    BY <2>1, <2>2
<1>13. /\ Chain(Tail(s), Start, Cap(0))
       /\ Full(s, Start, Cap(0)) => Full(Tail(s), Start, Cap(0))
       /\ Reports(Tail(s), Start)
       /\ Spaced(Tail(s), Start)
       /\ \A near \in Int : Near(s, near) => Near(Tail(s), near)
       /\ \A mid, last : Last(s, mid, last) => Last(Tail(s), mid, last)
       /\ Kind(Tail(s), "INPUT") = Kind(s, "INPUT")
       /\ Kind(Tail(s), "BEGIN") = Kind(s, "BEGIN")
       /\ Kind(Tail(s), "CRC") \subseteq Kind(s, "CRC")
  <2>1. Start \in Int /\ Cap(0) \in Int
    BY <1>2, Flat
  <2>2. Chain(s, Start, Cap(0)) /\ Reports(s, Start) /\ Spaced(s, Start)
    BY <1>4 DEF GuestQueue
  <2>3. ~Mark(Head(s))
    BY <1>1 DEF Mark
  <2> QED
    BY <1>1, <1>2, <2>1, <2>2, <2>3, TakeOther
<1>14. Tail(s) \in Seq(Frame)
  BY <1>1, <1>2, TakeQ
<1>15. Basic'
  <2>1. Ahead' \in 0 .. 2 /\ ~hold'[0]
    BY <1>1, <1>6, <1>7 DEF Paced, Basic
  <2>2. \A d \in Seats : tick'[d] \in Nat /\ tick[d] <= tick'[d]
    <3>1. tick'[0] \in Nat /\ tick[0] <= tick'[0] /\ tick'[1] \in Nat /\ tick[1] <= tick'[1]
      BY <1>1, <1>2, <1>11, SMTT(30)
    <3> QED
      BY <1>0, <3>1
  <2>3. \A d \in Seats : d # 1 => chan'[d] = chan[d]
    BY <1>0, <1>1
  <2> QED
    BY <1>0, <1>1, <2>1, <2>2, <2>3, BasicTake DEF Paced
<1>16. GuestQueue'
  <2>1. Start' = Start /\ NearTick' = r + 2 * Delay + 1
    BY <1>1, <1>5 DEF Start, NearTick
  <2>2. Near(Tail(s), r + 2 * Delay + 1)
    <3>1. Near(Tail(s), r + 2 * Delay)
      BY <1>2, <1>4, <1>5, <1>13 DEF GuestQueue
    <3>2. r + 2 * Delay \in Int /\ r + 2 * Delay + 1 \in Int /\ r + 2 * Delay <= r + 2 * Delay + 1
      BY <1>2, SMTT(30)
    <3> QED
      BY <1>14, <3>1, <3>2, NearMore
  <2>3. Images(Tail(s), {}, R, Ahead')
    BY <1>6, <1>7, <1>9, <1>13 DEF Images
  <2>4. Ahead' > 0 => Last(Tail(s), {}, R)
    <3> SUFFICES ASSUME Ahead = 2 PROVE Last(Tail(s), {}, R)
      BY <1>6, <1>7
    <3>1. Last(s, {r}, R)
      BY <1>4, <1>5 DEF GuestQueue
    <3> QED
      BY <1>2, <1>9, <1>13, <3>1, SMTT(30) DEF Last
  <2>5. Ahead' > 0 => r + Delay - 1 <= Limit(R)
    BY <1>2, <1>6, <1>7, <1>10, SMTT(30) DEF Limit
  <2>6. Ahead' > 0 /\ room => Pending(R)'
    <3> SUFFICES ASSUME Ahead = 2, room PROVE Pending(R)'
      BY <1>6, <1>7
    <3>1. Pending(R) /\ R # r
      BY <1>2, <1>4, <1>9 DEF GuestQueue
    <3> QED
      BY <1>1, <1>5, <1>13, <3>1 DEF Pending
  <2>7. Ahead' = 0 => \A g \in Kind(Tail(s), "CRC") : g.tick >= R
    BY <1>4, <1>6, <1>7, <1>9, <1>13 DEF GuestQueue
  <2>8. room => Full(Tail(s), Start, Cap(0))
    BY <1>4, <1>13 DEF GuestQueue
  <2> QED
    BY <1>1, <1>5, <1>12, <1>13, <2>1, <2>2, <2>3, <2>4, <2>5, <2>6, <2>7, <2>8 DEF GuestQueue
<1>i. \A c \in Seats : \A t \in Nat : ring'[1][c][RingSlot(t)] = Idle
  BY <1>1, SlotType DEF LS_RING_INIT
<1>17. GuestRight'
  <2>1. \A t, v : Right(0, t, v) <=> Right(0, t, v)'
    BY <1>1 DEF Right, Owns
  <2>2. \A x : ImageRight(x) => ImageRight(x)'
    BY <1>1, <1>12, <2>1 DEF ImageRight
  <2>3. \A x : Pending(x)' => Pending(x)
    BY <1>1, <1>5, <1>13 DEF Pending
  <2>4. wm'[1] < Cap(0)' /\ tick'[1] <= wm'[1] + 1 /\ wm'[1] <= tick'[1] + 2 * Delay + 1
    <3>1. r + Delay <= Cap(0)
      BY <1>8 DEF ImageRight
    <3> HIDE DEF r
    <3> QED
      BY <1>1, <1>2, <1>12, <3>1
  <2>5. ASSUME NEW t \in tick'[1] .. wm'[1] PROVE Right(0, t, ring[1][0][RingSlot(t)])'
    <3>1. t \in r .. r + Delay - 1 /\ t \in Nat
      BY <1>1, <1>2
    <3>2. Right(0, t, Idle)
      BY <1>8, <3>1 DEF ImageRight
    <3>3. ring'[1][0][RingSlot(t)] = Idle
      BY <1>0, <1>i, <3>1
    <3> QED
      BY <1>1, <3>2, <3>3 DEF Right, Owns
  <2>6. \A f \in Kind(chan'[1], "INPUT") : Right(0, f.tick, f.in)'
    BY <1>1, <1>4, <1>13, <2>1 DEF GuestRight
  <2>7. \A x \in Nat : Pending(x)' => ImageRight(x)'
    BY <1>4, <2>2, <2>3 DEF GuestRight
  <2> QED
    BY <2>4, <2>5, <2>6, <2>7 DEF GuestRight
<1>18. GuestBound'
  <2> SUFFICES ASSUME NEW p \in played[0], p.tick >= r
               PROVE  (p.tick < Cap(1)' /\ p.in[1] = ring'[1][1][RingSlot(p.tick)]) \/ Beyond(p.tick)'
    BY <1>1 DEF GuestBound
  <2>1. p.tick \in Nat /\ p.in[1] = Idle /\ (p.tick < r + Delay \/ (r < R /\ p.tick >= R))
    BY <1>2, <1>8 DEF ImageRight
  <2>2. p.in[1] = ring'[1][1][RingSlot(p.tick)]
    BY <1>0, <1>i, <2>1
  <2>3. CASE p.tick < r + Delay
    BY <1>2, <1>12, <2>1, <2>2, <2>3
  <2>4. CASE r < R /\ p.tick >= R
    <3>1. Ahead = 2 /\ Ahead' > 0
      BY <1>2, <1>6, <1>7, <1>9, <2>4
    <3>2. p.tick > wm'[1]
      BY <1>1, <1>2, <1>10, <2>1, <2>4, <3>1
    <3>3. ASSUME NEW f \in Kind(chan'[1], "INPUT")
          PROVE  f.tick < p.tick \/ \E b \in Kind(chan'[1], "BEGIN") : b.tick + Delay <= f.tick
      <4>1. f \in Kind(s, "INPUT") /\ f.tick \in Nat
        BY <1>1, <1>2, <1>13, ElemType DEF Kind
      <4>2. Last(s, {r}, R)
        BY <1>4, <1>5, <3>1 DEF GuestQueue
      <4>3. CASE f.tick <= Limit(R)
        BY <1>2, <2>1, <2>4, <4>1, <4>3, SMTT(30) DEF Limit
      <4>4. CASE f.tick >= R + Delay /\ \E b \in Kind(s, "BEGIN") : b.tick = R
        BY <1>1, <1>2, <1>13, <4>1, <4>4
      <4> QED
        <5>1. R \notin {r}
          BY <1>2, <2>4
        <5>2. \/ f.tick <= Limit(R)
              \/ f.tick >= R + Delay /\ (R \in {r} \/ \E b \in Kind(s, "BEGIN") : b.tick = R)
          BY <4>1, <4>2 DEF Last
        <5> QED
          BY <4>3, <4>4, <5>1, <5>2
    <3> QED
      BY <3>1, <3>2, <3>3 DEF Beyond
  <2> QED
    BY <2>1, <2>3, <2>4
<1>19. Shared'
  <2>1. /\ Asked(chan[0], R, Ahead - 1, pend[0], FALSE)
        /\ \A v \in Int : Lag(chan[0], v, R, Ahead, pend[0]) => Lag(chan[0], v, R, Ahead - 1, pend[0])
    <3>1. Asked(chan[0], R, Ahead, pend[0], pend[1]) /\ R \in Int /\ Ahead \in 1 .. 2
      BY <1>2, <1>6 DEF Paced, Shared
    <3> QED
      BY <1>2, <3>1, EndAsked
  <2>2. ASSUME NEW f \in Kind(chan[0], "INPUT") PROVE f.tick < Cap(1)'
    <3>1. f.tick \in Nat /\ f.tick < Cap(1)
      BY <1>2, HostTypes DEF Paced, Shared, Kind
    <3> QED
      BY <1>2, <1>12, <3>1
  <2>3. ASSUME NEW f \in Kind(chan[0], "CRC") PROVE f.tick < r /\ f.tick % CrcPeriod = 0
    <3>1. f.tick \in Nat /\ f.tick < tick[1] /\ f.tick % CrcPeriod = 0
      BY <1>2, HostTypes DEF Paced, Shared, Kind
    <3> QED
      BY <1>2, <1>11, <3>1
  <2>4. IF Ahead' = 0 THEN r <= Cap(0) + 0 ELSE r < R + 0
    <3>1. r + Delay <= Cap(0)
      BY <1>8 DEF ImageRight
    <3>2. CASE Ahead = 1
      BY <1>2, <1>7, <3>1, <3>2
    <3>3. CASE Ahead = 2
      BY <1>2, <1>7, <1>9, <3>3
    <3> QED
      BY <1>6, <3>2, <3>3
  <2>5. \A q \in played[1] : q.tick < R
    BY <1>6 DEF Paced, Shared
  <2> QED
    BY <1>1, <1>7, <1>12, <2>1, <2>2, <2>3, <2>4, <2>5 DEF Shared
<1>20. Agree'
  BY <1>1 DEF Paced, Agree
<1>21. ASSUME ~dropped'[0] PROVE HostSide'
  <2>0. HostQueue /\ HostClock /\ HostRight /\ HostBound /\ ~dropped[0]
    BY <1>1, <1>21 DEF Paced, HostSide
  <2>1. HostQueue'
    <3>1. Asked(chan[0], R, Ahead, pend[0], pend[1]) /\ R \in Int /\ Ahead \in 1 .. 2 /\ wm[0] \in Int
      BY <1>2, <1>6 DEF Paced, Shared
    <3>2. Lag(chan[0], wm[0], R, Ahead, pend[0]) => Lag(chan[0], wm[0], R, Ahead - 1, pend[0])
      BY <1>2, <3>1, EndAsked
    <3> QED
      BY <1>1, <1>7, <2>0, <3>2 DEF HostQueue
  <2>w. wm[0] = R + Delay - 1
    BY <1>6, <2>0 DEF HostClock
  <2>2. HostClock'
    <3>1. IF Ahead' = 0 THEN wm[0] < Cap(1)' ELSE wm[0] <= Cap(1)' + Ahead' * Leap
      <4>1. CASE Ahead = 1
        BY <1>2, <1>7, <1>9, <1>12, <2>w, <4>1
      <4>2. CASE Ahead = 2
        <5>1. Ahead' = 1 /\ R <= r + Leap /\ Ahead' * Leap = Leap
          BY <1>2, <1>7, <1>10, <2>0, <4>2
        <5> QED
          <6>1. wm[0] <= Cap(1)' + Leap
            <7> HIDE DEF r, R
            <7> QED
              BY <1>2, <1>12, <2>w, <5>1
          <6> QED
            BY <5>1, <6>1
      <4> QED
        BY <1>6, <4>1, <4>2
    <3> QED
      BY <1>1, <1>6, <1>12, <2>0, <2>w, <3>1 DEF HostClock
  <2>3. HostRight'
    <3> SUFFICES ASSUME Ahead' = 0 PROVE HostRight'
      BY DEF HostRight
    <3>0. Ahead = 1 /\ r = R
      BY <1>6, <1>7, <1>9
    <3>1. ASSUME NEW t \in Nat, t >= R PROVE Right(1, t, Idle)'
      <4>1. \A q \in played[1] : q.tick # t
        <5> SUFFICES ASSUME NEW q \in played[1] PROVE q.tick < R /\ q.tick \in Nat
          BY <1>2, <3>1
        <5> QED
          BY <1>2, <3>0 DEF Paced, Shared
      <4>2. ring'[1][1][RingSlot(t)] = Idle
        BY <1>0, <1>i
      <4> QED
        BY <1>1, <4>1, <4>2 DEF Right, Owns
    <3>2. ASSUME NEW t \in tick[0] .. wm[0] PROVE Right(1, t, ring[0][1][RingSlot(t)])'
      <4>1. t \in Nat /\ t >= R
        BY <1>2, <1>3
      <4>2. ring'[0][1][RingSlot(t)] = Idle
        BY <1>1, <2>0, <2>w, <4>1, SlotType DEF HostClock
      <4> QED
        BY <3>1, <4>1, <4>2 DEF Right, Owns
    <3>3. ASSUME NEW f \in Kind(chan[0], "INPUT") PROVE ~(f.tick > wm[0])
      <4>1. f.tick \in Nat /\ f.tick < Cap(1)
        BY <1>2, HostTypes DEF Paced, Shared, Kind
      <4> QED
        BY <1>2, <1>12, <2>w, <3>0, <4>1
    <3>4. ASSUME NEW t \in wm[0] + 1 .. Cap(1)' - 1 PROVE t = R + Delay /\ Right(1, t, Idle)'
      <4>1. t = R + Delay /\ t \in Nat /\ t >= R
        BY <1>2, <1>12, <2>w, <3>0, SMTT(30)
      <4> QED
        BY <3>1, <4>1
    <3> QED
      BY <1>1, <3>2, <3>3, <3>4 DEF HostRight
  <2>4. HostBound'
    BY <1>1, <1>12, <2>0 DEF HostBound
  <2> QED
    BY <2>1, <2>2, <2>3, <2>4 DEF HostSide
<1> QED
  BY <1>15, <1>16, <1>17, <1>18, <1>19, <1>20, <1>21 DEF Paced, GuestSide

\* The host receives an input of the guest.
LEMMA HostInputStep ==
  ASSUME TypeOK, TypeOK', Sized, Paced, OnInput(0)
  PROVE  Paced'
<1> USE DEF engine, recovery, history
<1> DEFINE s == chan[0]
           f == Head(chan[0])
           k == f.tick
           w == wm[0]
           R == resume[0]
<1>0. 0 \in Seats /\ 1 \in Seats /\ (\A c \in Seats : c = 0 \/ c = 1) /\ Other(0) = 1
  BY Flat DEF Other
<1>t. /\ chan \in [Seats -> Seq(Frame)] /\ wm \in [Seats -> Nat] /\ DOMAIN ring = Seats
      /\ ring[0] \in [Seats -> [0 .. LowMod - 1 -> Inputs]]
  BY <1>0 DEF TypeOK, ChanType, EngineType
<1>1. /\ pc[0] \in Pumping /\ s # << >> /\ f.type = "INPUT"
      /\ chan'[0] = Tail(s) /\ chan'[1] = chan[1]
      /\ UNCHANGED <<pc, room, dropped, played, tick, rebases, hold, pend, resume, rec>>
  BY <1>0, <1>t DEF OnInput, Receives
<1>a. IF Accepts(0, k)
      THEN wm' = [wm EXCEPT ![0] = k] /\ ring' = [ring EXCEPT ![0][1][RingSlot(k)] = f.in]
      ELSE wm' = wm /\ ring' = ring
  BY <1>0 DEF OnInput
<1>2. /\ s \in Seq(Frame) /\ w \in Nat /\ tick[1] \in Nat /\ tick[0] \in Nat /\ Cap(0) \in Nat /\ Cap(1) \in Nat
      /\ R \in Nat /\ Ahead \in 0 .. 2
      /\ Delay \in Nat /\ ResumeGap \in Nat /\ Leap \in Nat /\ Leap >= 2 * Delay + 2
      /\ Cap(0)' = Cap(0) /\ Cap(1)' = Cap(1) /\ Ahead' = Ahead /\ Late' = Late
  <2>1. Cap(0)' = Cap(0) /\ Cap(1)' = Cap(1) /\ Ahead' = Ahead /\ Late' = Late
    BY <1>1 DEF Cap, Ahead, Late
  <2>2. Leap \in Nat /\ Leap >= 2 * Delay + 2
    BY ConstantAssumption DEF Leap, Sized
  <2>3. Ahead \in 0 .. 2
    BY DEF Paced, Basic
  <2> QED
    BY <1>0, <2>1, <2>2, <2>3, Flat
<1>3. Basic' /\ ~dropped[0]
  <2>1. Ahead' \in 0 .. 2 /\ ~hold'[0]
    BY <1>1, <1>2 DEF Paced, Basic
  <2>2. \A d \in Seats : tick'[d] \in Nat /\ tick[d] <= tick'[d]
    BY <1>1, Flat
  <2>3. \A d \in Seats : d # 0 => chan'[d] = chan[d]
    BY <1>0, <1>1
  <2> QED
    BY <1>0, <1>1, <2>1, <2>2, <2>3, BasicTake DEF Paced
<1>4. HostQueue /\ HostClock /\ HostRight /\ HostBound
  BY <1>3 DEF Paced, HostSide
<1>5. /\ Tail(s) \in Seq(Frame) /\ f \in Kind(s, "INPUT") /\ f \in Elems(s) /\ k \in Nat /\ k < Cap(1)
      /\ \A g \in Elems(Tail(s)) : Before(s, f, g)
      /\ Elems(s) = {f} \cup Elems(Tail(s))
  <2>1. /\ Tail(s) \in Seq(Frame) /\ f \in Elems(s) /\ \A g \in Elems(Tail(s)) : Before(s, f, g)
        /\ Elems(s) = {f} \cup Elems(Tail(s))
    BY <1>1, <1>2, TakeQ
  <2>2. k \in Nat /\ f \in Kind(s, "INPUT")
    BY <1>1, <1>2, <2>1, ElemType DEF Kind
  <2> QED
    BY <2>1, <2>2 DEF Paced, Shared
<1>6. /\ Sorted(Tail(s))
      /\ \A v, last, ahead, p0 : Lag(s, v, last, ahead, p0) => Lag(Tail(s), v, last, ahead, p0)
      /\ \A last, ahead, p0, p1 : Asked(s, last, ahead, p0, p1) => Asked(Tail(s), last, ahead, p0, p1)
      /\ \A type : Kind(Tail(s), type) \subseteq Kind(s, type)
      /\ \A type : \A g \in Kind(s, type) : g = f \/ g \in Kind(Tail(s), type)
  BY <1>1, <1>2, <1>4, TakeHost DEF HostQueue
<1>7. Shared'
  <2>1. Late' \in 0 .. 1 /\ Late \in 0 .. 1 /\ Late' >= Late /\ Cap(1)' \in Nat /\ Cap(1)' >= Cap(1)
    BY <1>2, LateType
  <2>2. \A type \in {"INPUT", "CRC"} : Kind(chan'[0], type) \subseteq Kind(chan[0], type)
    BY <1>1, <1>6
  <2>3. Asked(chan[0], resume[0], Ahead, pend[0], pend[1]) =>
          Asked(chan'[0], resume[0], Ahead, pend[0], pend[1])
    BY <1>1, <1>6
  <2>4. \A q \in played'[1] : q \in played[1]
    BY <1>1
  <2> QED
    BY <1>1, <1>2, <2>1, <2>2, <2>3, <2>4, SharedLess DEF Paced
<1>8. Agree'
  BY <1>1 DEF Paced, Agree
<1>9. /\ ring'[1] = ring[1] /\ ring'[0][0] = ring[0][0] /\ wm'[1] = wm[1]
  BY <1>0, <1>t, <1>a
<1>10. ~dropped'[1] => GuestSide'
  BY <1>1, <1>2, <1>3, <1>9, GuestKeep DEF Paced
<1>11. HostBound'
  BY <1>1, <1>2, <1>4, <1>9 DEF HostBound
<1>12. \A t, v : Right(1, t, v) <=> Right(1, t, v)'
  BY <1>1, <1>9 DEF Right, Owns
<1>13. /\ tick[0] <= w + 1 /\ w <= tick[0] + 2 * Delay + 1 /\ R + Delay - 1 <= w
       /\ w <= k + 2 * Leap /\ (k < R + Delay \/ Ahead = 0)
  <2>1. tick[0] <= w + 1 /\ w <= tick[0] + 2 * Delay + 1 /\ R + Delay - 1 <= w
    BY <1>4 DEF HostClock
  <2>2. Timed(f) /\ Due(f) = k
    BY <1>1 DEF Timed, Due
  <2>3. w <= k + 2 * Leap /\ (Old(f, R) \/ Ahead = 0)
    BY <1>4, <1>5, <2>2 DEF HostQueue, Lag
  <2> QED
    BY <1>1, <2>1, <2>3 DEF Old
<1>14. CASE k <= w
  <2>1. ~Accepts(0, k)
    <3>1. CASE k = w
      BY <3>1 DEF Accepts, SameTick
    <3>2. CASE k < w
      <4>1. Behind(k, w)
        <5>1. k \in Int /\ w \in Int /\ k < w /\ w <= k + 2 * Leap
          BY <1>2, <1>5, <1>13, <3>2, SMTT(30)
        <5> QED
          BY <5>1, BehindExact
      <4> QED
        BY <4>1 DEF Accepts
    <3> QED
      BY <1>2, <1>5, <1>14, <3>1, <3>2, SMTT(30)
  <2>2. wm' = wm /\ ring' = ring
    BY <1>a, <2>1
  <2>3. HostQueue'
    BY <1>1, <1>2, <1>4, <1>6, <2>2 DEF HostQueue
  <2>4. HostClock'
    BY <1>1, <1>2, <1>4, <2>2 DEF HostClock
  <2>5. HostRight'
    <3> SUFFICES ASSUME Ahead = 0 PROVE HostRight'
      BY <1>2 DEF HostRight
    <3>1. \A t \in tick[0] .. wm[0] : Right(1, t, ring[0][1][RingSlot(t)])'
      BY <1>1, <1>4, <1>9, <2>2 DEF HostRight, Right, Owns
    <3>2. \A g \in Kind(chan'[0], "INPUT") : g.tick > w =>
            Right(1, g.tick, g.in)' /\ g.tick <= tick[0] + 2 * Delay + 1
      BY <1>1, <1>4, <1>6, <1>12 DEF HostRight
    <3>3. ASSUME NEW t \in w + 1 .. Cap(1) - 1, room \/ \E g \in Kind(chan'[0], "INPUT") : g.tick >= t
          PROVE  \/ \E g \in Kind(chan'[0], "INPUT") : g.tick = t
                 \/ t = R + Delay /\ Right(1, t, Idle)'
      <4>1. room \/ \E g \in Kind(s, "INPUT") : g.tick >= t
        BY <1>1, <1>6, <3>3
      <4>2. (\E g \in Kind(s, "INPUT") : g.tick = t) \/ (t = R + Delay /\ Right(1, t, Idle))
        BY <1>4, <4>1 DEF HostRight
      <4>3. CASE \E g \in Kind(s, "INPUT") : g.tick = t
        <5>1. PICK g \in Kind(s, "INPUT") : g.tick = t
          BY <4>3
        <5>2. t # k
          BY <1>2, <1>5, <1>14
        <5>3. g \in Kind(Tail(s), "INPUT")
          BY <1>6, <5>1, <5>2
        <5> QED
          BY <1>1, <5>1, <5>3
      <4> QED
        BY <1>12, <4>2, <4>3
    <3> QED
      BY <1>1, <1>2, <2>2, <3>1, <3>2, <3>3 DEF HostRight
  <2> QED
    BY <1>3, <1>7, <1>8, <1>10, <1>11, <2>3, <2>4, <2>5 DEF Paced, HostSide
<1>15. CASE k > w
  <2>1. Ahead = 0
    <3> HIDE DEF k, w, R
    <3> QED
      BY <1>2, <1>5, <1>13, <1>15
  <2>2. Right(1, k, f.in) /\ k <= tick[0] + 2 * Delay + 1
    BY <1>4, <1>5, <1>15, <2>1 DEF HostRight
  <2>3. Accepts(0, k)
    <3>1. k \in Int /\ w \in Int /\ w <= k /\ k < w + 2 * Leap /\ k < w + 4 * Leap /\ w < k + 4 * Leap /\ k # w
      <4> HIDE DEF k, w, R
      <4> QED
        BY <1>2, <1>5, <1>13, <1>15, <2>2
    <3>2. ~Behind(k, w)
      BY <3>1, BehindExact
    <3>3. ~SameTick(k, w)
      BY <3>1, SameExact
    <3> QED
      BY <3>2, <3>3 DEF Accepts
  <2>4. /\ wm'[0] = k
        /\ ring'[0][1] = [ring[0][1] EXCEPT ![RingSlot(k)] = f.in]
        /\ ring[0][1] \in [0 .. LowMod - 1 -> Inputs] /\ RingSlot(k) \in 0 .. LowMod - 1
    <3>1. wm' = [wm EXCEPT ![0] = k] /\ ring' = [ring EXCEPT ![0][1][RingSlot(k)] = f.in]
      BY <1>a, <2>3
    <3>2. RingSlot(k) \in 0 .. LowMod - 1
      BY <1>5, SlotType
    <3> QED
      BY <1>0, <1>t, <3>1, <3>2
  <2>5. HostQueue'
    <3>1. Sorted(s)
      BY <1>4 DEF HostQueue
    <3>2. \A last, p0 : Lag(Tail(s), k, last, 0, p0)
      BY <1>1, <1>2, <3>1, TakeLive
    <3> QED
      BY <1>1, <1>2, <1>6, <2>1, <2>4, <3>2 DEF HostQueue
  <2>6. HostClock'
    <3>1. tick[0] <= k + 1 /\ k <= tick[0] + 2 * Delay + 1 /\ R + Delay - 1 <= k /\ k # R + Delay - 1
      <4> HIDE DEF k, w, R
      <4> QED
        BY <1>2, <1>5, <1>13, <1>15, <2>2
    <3> QED
      BY <1>1, <1>2, <1>4, <1>5, <2>1, <2>4, <3>1 DEF HostClock
  <2>7. HostRight'
    <3>1. ASSUME NEW t \in tick[0] .. k PROVE Right(1, t, ring'[0][1][RingSlot(t)])
      <4>0. t \in Nat /\ t >= tick[0] /\ t <= k
        BY <1>2, <1>5
      <4>a. RingSlot(t) \in 0 .. LowMod - 1
        BY <4>0, SlotType
      <4>1. CASE t = k
        BY <2>2, <2>4, <4>1
      <4>2. CASE t < k
        <5>1. RingSlot(t) # RingSlot(k)
          <6>1. k \in Nat /\ t < k /\ k <= t + 2 * Delay + 1
            BY <1>2, <1>5, <2>2, <4>0, <4>2, SMTT(30)
          <6> QED
            BY <4>0, <6>1, SlotExact
        <5>2. ring'[0][1][RingSlot(t)] = ring[0][1][RingSlot(t)]
          BY <2>4, <4>a, <5>1
        <5>3. CASE t <= w
          <6>1. t \in tick[0] .. w
            BY <1>2, <4>0, <5>3
          <6> QED
            BY <1>4, <2>1, <5>2, <6>1 DEF HostRight
        <5>4. CASE t > w
          <6>1. t \in w + 1 .. Cap(1) - 1 /\ k >= t
            BY <1>2, <1>5, <4>0, <5>4, SMTT(30)
          <6>2. (\E g \in Kind(s, "INPUT") : g.tick = t) \/ (t = R + Delay /\ Right(1, t, Idle))
            BY <1>4, <1>5, <2>1, <6>1 DEF HostRight
          <6>3. ASSUME NEW g \in Kind(s, "INPUT") PROVE g.tick # t
            <7>1. CASE g = f
              BY <1>5, <4>0, <4>2, <7>1
            <7>2. CASE g # f
              <8>1. g \in Elems(s) /\ g.type = "INPUT" /\ g \in Elems(Tail(s)) /\ g.tick \in Nat
                BY <1>2, <1>5, <7>2, HostTypes DEF Kind
              <8>2. Before(s, f, g) /\ Timed(f) /\ Timed(g)
                BY <1>1, <1>5, <8>1 DEF Timed
              <8>3. k < g.tick
                BY <1>1, <1>4, <1>5, <8>1, <8>2 DEF HostQueue, Sorted
              <8> QED
                BY <1>5, <4>0, <8>1, <8>3
            <7> QED
              BY <7>1, <7>2
          <6>4. t = R + Delay /\ Right(1, t, Idle)
            BY <6>2, <6>3
          <6>5. w = R + Delay - 1
            <7> HIDE DEF k, w, R
            <7> QED
              BY <1>2, <1>13, <4>0, <5>4, <6>4
          <6>6. ring[0][1][RingSlot(t)] = Idle
            BY <1>4, <4>a, <6>5 DEF HostClock
          <6> QED
            BY <5>2, <6>4, <6>6
        <5> QED
          BY <1>2, <4>0, <5>3, <5>4
      <4> QED
        BY <1>5, <4>0, <4>1, <4>2
    <3>2. \A t \in tick[0] .. k : Right(1, t, ring[0][1][RingSlot(t)])'
      BY <1>1, <1>9, <3>1 DEF Right, Owns
    <3>3. ASSUME NEW g \in Kind(chan'[0], "INPUT"), g.tick > k
          PROVE  Right(1, g.tick, g.in)' /\ g.tick <= tick[0] + 2 * Delay + 1
      <4>1. g \in Kind(s, "INPUT") /\ g.tick \in Nat
        BY <1>1, <1>2, <1>6, HostTypes DEF Kind
      <4>2. g.tick > w
        BY <1>2, <1>5, <1>15, <3>3, <4>1
      <4> QED
        BY <1>4, <1>12, <2>1, <4>1, <4>2 DEF HostRight
    <3>4. ASSUME NEW t \in k + 1 .. Cap(1) - 1, room \/ \E g \in Kind(chan'[0], "INPUT") : g.tick >= t
          PROVE  \/ \E g \in Kind(chan'[0], "INPUT") : g.tick = t
                 \/ t = R + Delay /\ Right(1, t, Idle)'
      <4>0. t \in w + 1 .. Cap(1) - 1 /\ t # k
        BY <1>2, <1>5, <1>15, SMTT(30)
      <4>1. room \/ \E g \in Kind(s, "INPUT") : g.tick >= t
        BY <1>1, <1>6, <3>4
      <4>2. (\E g \in Kind(s, "INPUT") : g.tick = t) \/ (t = R + Delay /\ Right(1, t, Idle))
        BY <1>4, <2>1, <4>0, <4>1 DEF HostRight
      <4>3. CASE \E g \in Kind(s, "INPUT") : g.tick = t
        BY <1>1, <1>6, <4>0, <4>3
      <4> QED
        BY <1>12, <4>2, <4>3
    <3> QED
      BY <1>1, <1>2, <2>4, <3>2, <3>3, <3>4 DEF HostRight
  <2> QED
    BY <1>3, <1>7, <1>8, <1>10, <1>11, <2>5, <2>6, <2>7 DEF Paced, HostSide
<1> QED
  BY <1>2, <1>5, <1>14, <1>15

LEMMA SlotOfCrc == \A t \in Nat : CrcSlot(t) \in CrcSlots
<1> SUFFICES ASSUME NEW t \in Nat PROVE CrcSlot(t) \in CrcSlots
  OBVIOUS
<1> DEFINE a == t % LowMod
<1>1. a \in Nat /\ a <= LowMod - 1 /\ LowMod - 1 \in Nat /\ CrcPeriod \in Nat \ {0}
  BY ConstantAssumption
<1> HIDE DEF a
<1>2. a \div CrcPeriod \in Nat /\ a \div CrcPeriod <= (LowMod - 1) \div CrcPeriod
  BY <1>1
<1> QED
  BY <1>1, <1>2 DEF CrcSlot, CrcSlots, a

\* The host takes a frame that is not an input, and may note a disagreement.
LEMMA HostNoteStep ==
  ASSUME TypeOK, TypeOK', Paced, pc[0] \in Pumping, chan[0] # << >>, Head(chan[0]).type # "INPUT",
         chan' = [chan EXCEPT ![0] = Tail(@)],
         UNCHANGED <<pc, room, dropped, played, tick, ring, wm, rebases, hold, resume, rec>>,
         pend'[1] = pend[1],
         Asked(Tail(chan[0]), resume[0], Ahead, pend'[0], pend[1]),
         Lag(Tail(chan[0]), wm[0], resume[0], Ahead, pend'[0])
  PROVE  Paced'
<1> DEFINE s == chan[0]
<1>0. 0 \in Seats /\ 1 \in Seats /\ (\A c \in Seats : c = 0 \/ c = 1) /\ chan \in [Seats -> Seq(Frame)]
  BY Flat DEF TypeOK, ChanType
<1>1. /\ chan'[0] = Tail(s) /\ chan'[1] = chan[1] /\ s \in Seq(Frame)
      /\ \A d \in Seats : d # 0 => chan'[d] = chan[d]
  BY <1>0
<1>2. Cap(0)' = Cap(0) /\ Cap(1)' = Cap(1) /\ Ahead' = Ahead /\ Late' = Late
  BY DEF Cap, Ahead, Late
<1>3. Basic' /\ ~dropped[0]
  <2>1. Ahead' \in 0 .. 2 /\ ~hold'[0]
    BY <1>2 DEF Paced, Basic
  <2>2. \A d \in Seats : tick'[d] \in Nat /\ tick[d] <= tick'[d]
    <3>1. \A d \in Seats : tick[d] \in Nat /\ tick'[d] = tick[d]
      BY Flat
    <3> QED
      BY <3>1, SMTT(30)
  <2> QED
    BY <1>0, <1>1, <2>1, <2>2, BasicTake DEF Paced
<1>4. HostSide
  BY <1>3 DEF Paced
<1>5. /\ Kind(Tail(s), "INPUT") = Kind(s, "INPUT") /\ Kind(Tail(s), "CRC") \subseteq Kind(s, "CRC")
      /\ Sorted(Tail(s))
  <2>1. /\ Sorted(s) => Sorted(Tail(s))
        /\ \A type : Kind(Tail(s), type) \subseteq Kind(s, type)
        /\ \A type : \A f \in Kind(s, type) : f = Head(s) \/ f \in Kind(Tail(s), type)
    BY <1>1, TakeHost
  <2>2. Head(s) \notin Kind(s, "INPUT")
    BY DEF Kind
  <2> QED
    BY <1>4, <2>1, <2>2 DEF HostSide, HostQueue
<1>6. Shared'
  BY <1>1, <1>2, <1>5 DEF Paced, Shared
<1>7. Agree'
  BY DEF Paced, Agree
<1>8. ~dropped'[1] => GuestSide'
  BY <1>1, <1>2, <1>3, GuestKeep DEF Paced
<1>9. HostSide'
  <2>1. HostQueue'
    BY <1>1, <1>2, <1>5 DEF HostQueue
  <2> QED
    BY <1>1, <1>2, <1>4, <1>5, <2>1, HostQueued
<1> QED
  BY <1>3, <1>6, <1>7, <1>8, <1>9 DEF Paced

\* The host receives a CRC of the guest: only one of the current epoch can be
\* found to disagree.
LEMMA HostCrcStep ==
  ASSUME TypeOK, TypeOK', Sized, Paced, OnCrc(0)
  PROVE  Paced'
<1> USE DEF engine, recovery, history
<1> DEFINE s == chan[0]
           f == Head(chan[0])
           own == rec[0][CrcSlot(f.tick)]
           R == resume[0]
<1>0. 0 \in Seats /\ 1 \in Seats /\ (\A c \in Seats : c = 0 \/ c = 1) /\ Host = 0
  BY Flat DEF Host
<1>t. chan \in [Seats -> Seq(Frame)] /\ pend \in [Seats -> BOOLEAN] /\ rec \in [Seats -> [CrcSlots -> [tick : Nat, crc : Crc]]]
  BY <1>0 DEF TypeOK, ChanType, RecoveryType
<1>1. /\ pc[0] \in Pumping /\ s # << >> /\ f.type = "CRC" /\ chan' = [chan EXCEPT ![0] = Tail(@)]
      /\ UNCHANGED <<pc, room, dropped, played, tick, ring, wm, rebases, hold, resume, rec>>
      /\ \/ pend' = pend
         \/ SameTick(own.tick, f.tick) /\ pend'[0] = TRUE /\ pend'[1] = pend[1]
  BY <1>0, <1>t DEF OnCrc, CrcDisagrees
<1>2. /\ s \in Seq(Frame) /\ R \in Int /\ wm[0] \in Int /\ Ahead \in Int /\ tick[0] \in Nat
      /\ Leap \in Nat /\ Delay \in Nat /\ Leap >= Delay + 2
  <2>1. Leap >= Delay + 2
    BY ConstantAssumption DEF Leap, Sized
  <2> QED
    BY <1>0, <2>1, Flat, SMTT(30)
<1>3. ~dropped[0]
  BY <1>0, <1>1 DEF Paced, Basic
<1>4. HostQueue /\ HostClock
  BY <1>3 DEF Paced, HostSide
<1>5. f \in Elems(s) /\ f \in Kind(s, "CRC") /\ f.tick \in Nat /\ f.tick % CrcPeriod = 0
  <2>1. f \in Elems(s) /\ f \in Kind(s, "CRC")
    BY <1>1, <1>2, TakeQ DEF Kind
  <2> QED
    BY <1>1, <1>2, <2>1, HostTypes DEF Paced, Shared
<1>6. CASE pend' = pend
  <2>1. /\ \A v, last, ahead, p0 : Lag(s, v, last, ahead, p0) => Lag(Tail(s), v, last, ahead, p0)
        /\ \A last, ahead, p0, p1 : Asked(s, last, ahead, p0, p1) => Asked(Tail(s), last, ahead, p0, p1)
    BY <1>1, <1>2, TakeHost
  <2>2. Asked(Tail(s), R, Ahead, pend'[0], pend[1]) /\ Lag(Tail(s), wm[0], R, Ahead, pend'[0])
    BY <1>4, <1>6, <2>1 DEF Paced, Shared, HostQueue
  <2> QED
    BY <1>1, <1>6, <2>2, HostNoteStep
<1>7. CASE SameTick(own.tick, f.tick) /\ pend'[0] = TRUE /\ pend'[1] = pend[1]
  <2>1. CrcSlot(f.tick) \in CrcSlots
    BY <1>5, SlotOfCrc
  <2>2. own.tick \in Nat
    BY <1>0, <1>t, <2>1
  <2>3. own.tick # TickMod - 1
    BY <1>5, <1>7, FillerNever
  <2>4. R <= own.tick /\ own.tick < tick[0]
    BY <1>4, <2>1, <2>3 DEF HostClock
  <2>5. ~Old(f, R)
    <3> SUFFICES ASSUME Old(f, R) PROVE FALSE
      OBVIOUS
    <3>1. f.tick < R
      BY <1>1 DEF Old
    <3>2. wm[0] <= f.tick + Delay + 1 + 2 * Leap /\ tick[0] <= wm[0] + 1
      <4>1. Timed(f) /\ Due(f) = f.tick + Delay + 1
        BY <1>1 DEF Timed, Due
      <4> QED
        BY <1>4, <1>5, <4>1 DEF HostQueue, Lag, HostClock
    <3> DEFINE a == own.tick
               b == f.tick
    <3>3. a \in Int /\ b \in Int /\ a < b + 4 * Leap /\ b < a + 4 * Leap /\ a # b
      <4>1. a \in Nat /\ b \in Nat /\ b < R /\ R <= a /\ a < tick[0] /\ wm[0] <= b + Delay + 1 + 2 * Leap
        BY <1>5, <2>2, <2>4, <3>1, <3>2
      <4> HIDE DEF a, b, R
      <4> QED
        BY <1>2, <3>2, <4>1
    <3>4. SameTick(a, b)
      BY <1>7
    <3> HIDE DEF a, b
    <3> QED
      BY <3>3, <3>4, SameExact
  <2>6. Lag(Tail(s), wm[0], R, Ahead, TRUE) /\ Asked(Tail(s), R, Ahead, TRUE, pend[1])
    <3>1. Lag(s, wm[0], R, Ahead, pend[0]) /\ Asked(s, R, Ahead, pend[0], pend[1]) /\ Sorted(s)
      BY <1>4 DEF HostQueue, Paced, Shared
    <3>2. s # << >> /\ Head(s).type = "CRC" /\ ~Old(Head(s), R)
      BY <1>1, <2>5
    <3> HIDE DEF s, R
    <3> QED
      BY <1>2, <3>1, <3>2, TakeNews
  <2> QED
    BY <1>1, <1>7, <2>6, HostNoteStep
<1> QED
  BY <1>1, <1>6, <1>7

\* The host is asked for an image.
LEMMA HostResyncStep ==
  ASSUME TypeOK, TypeOK', Paced, OnResync(0)
  PROVE  Paced'
<1> USE DEF engine, recovery, history
<1> DEFINE s == chan[0]
           R == resume[0]
<1>0. 0 \in Seats /\ 1 \in Seats /\ (\A c \in Seats : c = 0 \/ c = 1) /\ Host = 0
  BY Flat DEF Host
<1>t. chan \in [Seats -> Seq(Frame)] /\ pend \in [Seats -> BOOLEAN]
  BY <1>0 DEF TypeOK, ChanType, RecoveryType
<1>1. /\ pc[0] \in Pumping /\ s # << >> /\ Head(s).type = "RESYNC" /\ chan' = [chan EXCEPT ![0] = Tail(@)]
      /\ UNCHANGED <<pc, room, dropped, played, tick, ring, wm, rebases, hold, resume, rec>>
      /\ pend' = pend \/ (pend'[0] = TRUE /\ pend'[1] = pend[1])
  BY <1>0, <1>t DEF OnResync, Receives
<1>2. s \in Seq(Frame) /\ R \in Int /\ wm[0] \in Int /\ Ahead \in Int
  BY <1>0, Flat
<1>3. ~dropped[0]
  BY <1>0, <1>1 DEF Paced, Basic
<1>4. Asked(s, R, Ahead, pend[0], pend[1]) /\ Lag(s, wm[0], R, Ahead, pend[0])
  BY <1>3 DEF Paced, HostSide, HostQueue, Shared
<1>6. CASE pend' = pend
  <2>1. /\ \A v, last, ahead, p0 : Lag(s, v, last, ahead, p0) => Lag(Tail(s), v, last, ahead, p0)
        /\ \A last, ahead, p0, p1 : Asked(s, last, ahead, p0, p1) => Asked(Tail(s), last, ahead, p0, p1)
    BY <1>1, <1>2, TakeHost
  <2>2. Asked(Tail(s), R, Ahead, pend'[0], pend[1]) /\ Lag(Tail(s), wm[0], R, Ahead, pend'[0])
    BY <1>4, <1>6, <2>1
  <2> QED
    BY <1>1, <1>6, <2>2, HostNoteStep
<1>7. CASE pend'[0] = TRUE /\ pend'[1] = pend[1]
  <2>1. Asked(Tail(s), R, Ahead, TRUE, pend[1]) /\ Lag(Tail(s), wm[0], R, Ahead, TRUE)
    BY <1>1, <1>2, <1>4, TakeRequest
  <2> QED
    BY <1>1, <1>7, <2>1, HostNoteStep
<1> QED
  BY <1>1, <1>6, <1>7

-----------------------------------------------------------------------------
(* Capturing and sending an input.                                         *)

LEMMA ChainMore ==
  ASSUME NEW u \in Seq(Frame), NEW start \in Int, NEW cap \in Int, NEW more \in Int, cap <= more,
         Chain(u, start, cap)
  PROVE  Chain(u, start, more)
<1>1. start < cap
  BY DEF Chain
<1>2. ASSUME NEW f \in Elems(u), Mark(f) PROVE Val(f) < more
  <2>1. Val(f) \in Int /\ Val(f) < cap
    BY <1>2, ElemType DEF Chain
  <2> QED
    BY <2>1
<1> QED
  BY <1>1, <1>2 DEF Chain

\* What a capture does: the input is stored for the tick that is due, no other
\* tick that is still to be played loses its own, and the peer is told.
LEMMA CaptureMade ==
  ASSUME TypeOK, TypeOK', Sized, Basic, NEW c \in Seats, Capture(c)
  PROVE  /\ Cap(c) = tick[c] + Delay /\ Cap(c)' = Cap(c) + 1 /\ Cap(Other(c))' = Cap(Other(c))
         /\ UNCHANGED <<tick, wm, hold, pend, resume, rec, dropped, rebases, room, played>>
         /\ ring'[Other(c)] = ring[Other(c)] /\ ring'[c][Other(c)] = ring[c][Other(c)]
         /\ pc[c] = "head" /\ pc' = [pc EXCEPT ![c] = "gate"]
         /\ room => ~dropped[c]
         /\ \A t \in Nat : tick[c] <= t /\ t < Cap(c) =>
              ring'[c][c][RingSlot(t)] = ring[c][c][RingSlot(t)]
         /\ \A t \in Nat : \A v : t < Cap(c) /\ Right(c, t, v) => Right(c, t, v)'
         /\ \E i \in Inputs :
              /\ \A k : k = Cap(c) => Right(c, k, i)'
              /\ InputFrame(Cap(c), i) \in Frame
              /\ chan'[c] = chan[c]
              /\ chan'[Other(c)] = IF room THEN chan[Other(c)] \o <<InputFrame(Cap(c), i)>> ELSE chan[Other(c)]
<1> USE DEF engine, recovery, history
<1> DEFINE k == tick[c] + Delay
<1>0. /\ c \in {0, 1} /\ Other(c) \in Seats /\ Other(c) # c /\ chan \in [Seats -> Seq(Frame)] /\ DOMAIN pc = Seats
      /\ DOMAIN ring = Seats /\ ring[c] \in [Seats -> [0 .. LowMod - 1 -> Inputs]]
      /\ tick[c] \in Nat /\ Delay \in Nat /\ Delay >= 1
  <2>1. c \in {0, 1} /\ Other(c) \in Seats /\ Other(c) # c
    BY DEF Other, Seats
  <2> QED
    BY <2>1, Flat DEF TypeOK, ChanType, EngineType, ControlType
<1>1. PICK i \in Inputs : /\ ring' = [ring EXCEPT ![c][c][RingSlot(k)] = i]
                          /\ chan' = Relayed(c, <<InputFrame(k, i)>>)
  BY DEF Capture
<1>2. /\ UNCHANGED <<tick, wm, hold, pend, resume, rec, dropped, rebases, room, played>>
      /\ pc[c] = "head" /\ pc' = [pc EXCEPT ![c] = "gate"]
  BY DEF Capture
<1>3. Cap(c) = k /\ Cap(c)' = Cap(c) + 1 /\ Cap(Other(c))' = Cap(Other(c))
  <2>1. pc'[c] = "gate" /\ pc'[Other(c)] = pc[Other(c)] /\ tick' = tick
    BY <1>0, <1>2
  <2> QED
    BY <1>0, <1>2, <2>1 DEF Cap
<1>4. k \in Nat /\ RingSlot(k) \in 0 .. LowMod - 1 /\ InputFrame(k, i) \in Frame
  <2>1. k \in Nat
    BY <1>0
  <2> HIDE DEF k
  <2> QED
    BY <2>1, SlotType, FrameType
<1>5. /\ ring'[Other(c)] = ring[Other(c)] /\ ring'[c][Other(c)] = ring[c][Other(c)]
      /\ ring'[c][c] = [ring[c][c] EXCEPT ![RingSlot(k)] = i]
      /\ ring[c][c] \in [0 .. LowMod - 1 -> Inputs]
  BY <1>0, <1>1
<1>6. ASSUME NEW t \in Nat, tick[c] <= t, t < k
      PROVE  ring'[c][c][RingSlot(t)] = ring[c][c][RingSlot(t)]
  <2>1. RingSlot(t) # RingSlot(k)
    <3>1. k <= t + 2 * Delay + 1
      BY <1>0, <1>6
    <3> QED
      BY <1>4, <1>6, <3>1, SlotExact
  <2>2. RingSlot(t) \in 0 .. LowMod - 1
    BY SlotType
  <2> QED
    BY <1>5, <2>1, <2>2
<1>7. ASSUME NEW t \in Nat, NEW v, t < k, Right(c, t, v) PROVE Right(c, t, v)'
  BY <1>0, <1>2, <1>6, <1>7 DEF Right, Owns
<1>8. Right(c, k, i)'
  <2>1. \A p \in played[c] : p.tick # k
    <3> SUFFICES ASSUME NEW p \in played[c] PROVE p.tick < tick[c] /\ p.tick \in Nat
      BY <1>0
    <3> QED
      BY Flat DEF Basic
  <2>2. ring'[c][c][RingSlot(k)] = i
    BY <1>4, <1>5
  <2> QED
    BY <1>2, <2>1, <2>2 DEF Right, Owns
<1>9. chan'[c] = chan[c] /\ chan'[Other(c)] = IF room THEN chan[Other(c)] \o <<InputFrame(k, i)>> ELSE chan[Other(c)]
  BY <1>0, <1>1 DEF Relayed
<1>10. room => ~dropped[c]
  BY <1>2 DEF Basic, Pumping
<1>11. \E j \in Inputs :
              /\ \A kk : kk = k => Right(c, kk, j)'
              /\ InputFrame(k, j) \in Frame
              /\ chan'[c] = chan[c]
              /\ chan'[Other(c)] = IF room THEN chan[Other(c)] \o <<InputFrame(k, j)>> ELSE chan[Other(c)]
  <2>1. \A kk : kk = k => Right(c, kk, i)'
    BY <1>2, <1>8 DEF Right, Owns
  <2> QED
    BY <1>4, <1>9, <2>1
<1> QED
  BY <1>2, <1>3, <1>5, <1>6, <1>7, <1>10, <1>11

\* Console c sends t, if the room still stands.
LEMMA BasicSent ==
  ASSUME TypeOK, TypeOK', Basic, NEW c \in Seats, NEW o \in Seats, o # c, NEW t \in Seq(Frame),
         chan'[c] = chan[c], chan'[o] = IF room THEN chan[o] \o t ELSE chan[o],
         UNCHANGED <<room, dropped, hold>>,
         resume'[0] <= tick'[0], \A d \in Seats : tick[d] <= tick'[d], Ahead' \in 0 .. 2,
         pc'[c] \notin Pumping, pc'[c] # "off", pc'[o] = pc[o],
         \A p \in played'[c] : p.tick < tick'[c], played'[o] = played[o],
         \A f \in Elems(t) : /\ f.type \notin {"PEER_LEFT", "RESYNC"}
                             /\ c = 1 => f.type \in {"INPUT", "CRC"}
                             /\ c = 0 /\ f.type = "CRC" => f.tick < tick'[0]
  PROVE  Basic'
<1>0. /\ 0 \in Seats /\ 1 \in Seats /\ (\A d \in Seats : d = 0 \/ d = 1) /\ (\A d \in Seats : d = c \/ d = o)
      /\ \A d \in Seats : chan[d] \in Seq(Frame) /\ tick[d] \in Nat /\ \A p \in played[d] : p.tick \in Nat
  BY Flat
<1>1. \A d \in Seats : tick'[d] \in Nat
  BY DEF TypeOK, EngineType
<1>2. \A d \in Seats : \A f \in Elems(chan'[d]) : f \in Elems(chan[d]) \/ (room /\ d = o /\ f \in Elems(t))
  <2>1. Elems(chan[o] \o t) = Elems(chan[o]) \cup Elems(t)
    BY <1>0, SendQ
  <2> QED
    BY <1>0, <2>1
<1>3. /\ \A f \in Elems(chan'[0]) : f.type \in {"INPUT", "CRC", "RESYNC", "PEER_LEFT"}
      /\ \A f \in Elems(chan'[1]) : f.type # "RESYNC"
  BY <1>0, <1>2 DEF Basic
<1>4. ASSUME NEW f \in Kind(chan'[0], "RESYNC") PROVE f.tick < tick'[0]
  <2>1. f \in Kind(chan[0], "RESYNC") /\ f.tick \in Nat
    BY <1>0, <1>2, ElemType DEF Kind
  <2>2. f.tick < tick[0] /\ tick[0] <= tick'[0] /\ tick'[0] \in Nat /\ tick[0] \in Nat
    BY <1>0, <1>1, <2>1 DEF Basic
  <2> QED
    BY <2>1, <2>2
<1>5. ASSUME NEW f \in Kind(chan'[1], "CRC") PROVE f.tick < tick'[0]
  <2>1. CASE f \in Elems(chan[1])
    <3>1. f \in Kind(chan[1], "CRC") /\ f.tick \in Nat
      BY <1>0, <2>1, ElemType DEF Kind
    <3>2. f.tick < tick[0] /\ tick[0] <= tick'[0] /\ tick'[0] \in Nat /\ tick[0] \in Nat
      BY <1>0, <1>1, <3>1 DEF Basic
    <3> QED
      BY <3>1, <3>2
  <2>2. CASE o = 1 /\ f \in Elems(t)
    BY <1>0, <2>2 DEF Kind
  <2> QED
    BY <1>0, <1>2, <2>1, <2>2 DEF Kind
<1>6. ASSUME NEW d \in Seats PROVE room => Kind(chan'[d], "PEER_LEFT") = {}
  <2>1. room => Kind(chan[d], "PEER_LEFT") = {}
    BY DEF Basic
  <2> QED
    BY <1>2, <2>1 DEF Kind
<1>7. ASSUME NEW d \in Seats, NEW f \in Elems(chan'[d]), NEW g \in Elems(chan'[d]), Before(chan'[d], f, g)
      PROVE  f.type # "PEER_LEFT"
  <2>1. CASE room
    BY <1>6, <2>1 DEF Kind
  <2>2. CASE ~room
    BY <1>0, <1>7, <2>2 DEF Basic
  <2> QED
    BY <2>1, <2>2
<1>8. ASSUME NEW d \in Seats
      PROVE  /\ dropped'[d] /\ pc'[d] \in Pumping => ~room' /\ chan'[d] = << >>
             /\ pc'[d] = "off" => ~room'
  <2>1. CASE d = c
    BY <2>1
  <2>2. CASE d = o
    BY <2>2 DEF Basic
  <2> QED
    BY <1>0, <2>1, <2>2
<1>9. ASSUME NEW d \in Seats, NEW p \in played'[d] PROVE p.tick < tick'[d]
  <2>1. CASE d = c
    BY <1>9, <2>1
  <2>2. CASE d = o
    <3>1. p.tick \in Nat /\ p.tick < tick[d] /\ tick[d] <= tick'[d] /\ tick[d] \in Nat /\ tick'[d] \in Nat
      BY <1>0, <1>1, <1>9, <2>2 DEF Basic
    <3> QED
      BY <3>1
  <2> QED
    BY <1>0, <2>1, <2>2
<1> QED
  BY <1>3, <1>4, <1>5, <1>6, <1>7, <1>8, <1>9 DEF Basic

\* The host captures.
LEMMA HostCaptureStep ==
  ASSUME TypeOK, TypeOK', Sized, Paced, Capture(0)
  PROVE  Paced'
<1> DEFINE s == chan[1]
           k == Cap(0)
           R == resume[0]
<1>0. 0 \in Seats /\ 1 \in Seats /\ (\A c \in Seats : c = 0 \/ c = 1) /\ Other(0) = 1
  BY Flat DEF Other
<1>1. /\ k = tick[0] + Delay /\ Cap(0)' = k + 1 /\ Cap(1)' = Cap(1)
      /\ UNCHANGED <<tick, wm, hold, pend, resume, rec, dropped, rebases, room, played>>
      /\ ring'[1] = ring[1] /\ ring'[0][1] = ring[0][1]
      /\ pc[0] = "head" /\ pc' = [pc EXCEPT ![0] = "gate"]
      /\ room => ~dropped[0]
      /\ \A t \in Nat : tick[0] <= t /\ t < k =>
           ring'[0][0][RingSlot(t)] = ring[0][0][RingSlot(t)]
      /\ \A t \in Nat : \A v : t < k /\ Right(0, t, v) => Right(0, t, v)'
      /\ \E i \in Inputs :
           /\ \A kk : kk = k => Right(0, kk, i)'
           /\ InputFrame(k, i) \in Frame
           /\ chan'[0] = chan[0]
           /\ chan'[1] = IF room THEN s \o <<InputFrame(k, i)>> ELSE s
  BY <1>0, CaptureMade DEF Paced
<1>2. PICK i \in Inputs :
           /\ \A kk : kk = k => Right(0, kk, i)'
           /\ InputFrame(k, i) \in Frame
           /\ chan'[0] = chan[0]
           /\ chan'[1] = IF room THEN s \o <<InputFrame(k, i)>> ELSE s
  BY <1>1
<1> DEFINE x == InputFrame(k, i)
<1>3. x \in Frame /\ x.type = "INPUT" /\ x.tick = k /\ x.in = i /\ x = InputFrame(k, i)
  BY <1>2 DEF InputFrame
<1>4. /\ s \in Seq(Frame) /\ tick[0] \in Nat /\ tick[1] \in Nat /\ wm[1] \in Nat /\ wm[0] \in Nat /\ R \in Nat /\ resume[1] \in Nat
      /\ k \in Nat /\ Cap(1) \in Nat /\ Cap(1) <= tick[1] + Delay + 1
      /\ Delay \in Nat /\ Delay >= 1 /\ ResumeGap \in Nat /\ Start \in Int /\ NearTick \in Int
      /\ (\A p \in played[0] : p.tick \in Nat) /\ (\A p \in played[1] : p.tick \in Nat)
  BY <1>0, Flat
<1>5. Ahead' = Ahead /\ Ahead \in 0 .. 2 /\ Start' = Start /\ NearTick' = NearTick /\ Mid' = Mid
      /\ pc'[1] = pc[1] /\ pc'[0] = "gate" /\ Late' = Late
  <2>1. pc'[1] = pc[1] /\ pc'[0] = "gate"
    BY <1>0, <1>1 DEF TypeOK, ControlType
  <2> QED
    BY <1>1, <2>1 DEF Ahead, Start, NearTick, Mid, Paced, Basic, Late
<1> HIDE DEF x, k
<1>6. Basic'
  <2>1. <<x>> \in Seq(Frame) /\ Elems(<<x>>) = {x}
    BY <1>3, OneQ
  <2>2. chan'[1] = IF room THEN chan[1] \o <<x>> ELSE chan[1]
    BY <1>2 DEF x
  <2>3. \A d \in Seats : tick[d] <= tick'[d]
    <3>1. \A d \in Seats : tick[d] \in Nat /\ tick'[d] = tick[d]
      BY <1>1, Flat
    <3> QED
      BY <3>1, SMTT(30)
  <2>4. resume'[0] <= tick'[0] /\ \A p \in played'[0] : p.tick < tick'[0]
    BY <1>0, <1>1 DEF Paced, Basic
  <2>5. "gate" \notin Pumping
    BY DEF Pumping
  <2> QED
    BY <1>0, <1>1, <1>2, <1>3, <1>5, <2>1, <2>2, <2>3, <2>4, <2>5, BasicSent DEF Paced
<1>7. Shared'
  <2>1. IF Ahead' = 0 THEN tick'[1] <= Cap(0)' + Late' ELSE tick'[1] < resume'[0] + Late'
    <3>1. CASE Ahead = 0
      <4>1. tick[1] <= k + Late /\ Late \in 0 .. 1
        BY <3>1, LateType DEF Paced, Shared, k
      <4> QED
        BY <1>1, <1>4, <1>5, <3>1, <4>1, SMTT(30)
    <3>2. CASE Ahead # 0
      BY <1>1, <1>5, <3>2 DEF Paced, Shared
    <3> QED
      BY <3>1, <3>2
  <2> QED
    BY <1>1, <1>2, <1>5, <2>1 DEF Paced, Shared
<1>8. Agree'
  BY <1>1 DEF Paced, Agree
<1>9. ASSUME ~dropped'[0] PROVE HostSide'
  <2>0. HostQueue /\ HostClock /\ HostRight /\ HostBound
    BY <1>1, <1>9 DEF Paced, HostSide
  <2>1. HostQueue' /\ HostClock'
    BY <1>1, <1>2, <1>5, <2>0 DEF HostQueue, HostClock
  <2>2. \A t, v : Right(1, t, v) <=> Right(1, t, v)'
    BY <1>1 DEF Right, Owns
  <2>3. HostRight'
    BY <1>1, <1>2, <1>5, <2>0, <2>2 DEF HostRight
  <2>4. HostBound'
    <3> SUFFICES ASSUME NEW q \in played[1], q.tick >= tick[0]
                 PROVE  q.tick < Cap(0)' /\ q.in[0] = ring'[0][0][RingSlot(q.tick)]
      BY <1>1 DEF HostBound
    <3>1. q.tick \in Nat /\ q.tick < k /\ q.in[0] = ring[0][0][RingSlot(q.tick)]
      BY <1>4, <2>0 DEF HostBound, k
    <3> QED
      BY <1>1, <1>4, <3>1
  <2> QED
    BY <2>1, <2>3, <2>4 DEF HostSide
<1>10. ASSUME ~dropped'[1] PROVE GuestSide'
  <2>0. GuestQueue /\ GuestRight /\ GuestBound
    BY <1>1, <1>10 DEF Paced, GuestSide
  <2>1. \A r \in Nat : Pending(r) => r + Delay <= k
    BY <2>0 DEF GuestRight, ImageRight, k
  <2>2. \A b \in Kind(s, "BEGIN") : b.tick \in Nat /\ b.tick + Delay <= k
    BY <1>4, <2>1, ElemType DEF Pending, Kind
  <2>r. ASSUME NEW r \in Nat, ImageRight(r) PROVE ImageRight(r)'
    <3>1. r + Delay <= Cap(0)'
      BY <1>1, <1>4, <2>r DEF ImageRight, k
    <3>2. ASSUME NEW t \in r .. r + Delay - 1 PROVE Right(0, t, Idle)'
      <4>1. t \in Nat /\ t < k
        BY <1>4, <2>r DEF ImageRight, k
      <4> QED
        BY <1>1, <2>r, <4>1 DEF ImageRight
    <3>3. resume' = resume /\ dropped'[0] = dropped[0] /\ played'[0] = played[0]
      BY <1>1
    <3> QED
      BY <2>r, <3>1, <3>2, <3>3, SMTT(30) DEF ImageRight
  <2>3. /\ wm'[1] < Cap(0)' /\ tick'[1] <= wm'[1] + 1 /\ wm'[1] <= tick'[1] + 2 * Delay + 1
        /\ \A t \in tick'[1] .. wm'[1] : Right(0, t, ring[1][0][RingSlot(t)])'
    <3>1. wm[1] < k /\ tick[1] <= wm[1] + 1 /\ wm[1] <= tick[1] + 2 * Delay + 1
      BY <2>0 DEF GuestRight, k
    <3>2. ASSUME NEW t \in tick[1] .. wm[1] PROVE Right(0, t, ring[1][0][RingSlot(t)])'
      <4>1. t \in Nat /\ t < k
        BY <1>4, <3>1
      <4>2. Right(0, t, ring[1][0][RingSlot(t)])
        BY <2>0 DEF GuestRight
      <4> DEFINE v == ring[1][0][RingSlot(t)]
      <4>3. ring'[1][0][RingSlot(t)] = v
        BY <1>1
      <4>4. \A vv : vv = v => Right(0, t, vv)'
        BY <1>1, <4>1, <4>2
      <4> QED
        BY <4>3, <4>4
    <3> QED
      BY <1>1, <1>4, <3>1, <3>2
  <2>4. ASSUME NEW f \in Kind(s, "INPUT") PROVE Right(0, f.tick, f.in)'
    <3>1. f.tick \in Nat /\ f.tick < k
      <4>1. f \in Elems(s) /\ f.type = "INPUT" /\ Mark(f) /\ Val(f) = f.tick
        BY DEF Kind, Mark, Val
      <4> QED
        BY <1>4, <2>0, <4>1, ElemType DEF GuestQueue, Chain, k
    <3> QED
      BY <1>1, <2>0, <3>1 DEF GuestRight
  <2>5. CASE ~room
    <3>1. chan'[1] = chan[1]
      BY <1>2, <2>5
    <3>2. \A r : Pending(r)' <=> Pending(r)
      BY <1>5, <3>1 DEF Pending
    <3>3. GuestQueue'
      <4>1. Chain(s, Start, k + 1)
        <5>1. k \in Int /\ k + 1 \in Int /\ k <= k + 1 /\ Chain(s, Start, k)
          BY <1>4, <2>0 DEF GuestQueue, k
        <5> QED
          BY <1>4, <5>1, ChainMore
      <4> QED
        BY <1>1, <1>5, <2>0, <2>5, <3>1, <4>1 DEF GuestQueue
    <3>4. GuestRight'
      BY <2>0, <2>3, <2>4, <2>r, <3>1, <3>2 DEF GuestRight
    <3>5. \A y : Beyond(y) => Beyond(y)'
      BY <1>1, <1>5, <3>1 DEF Beyond
    <3>6. GuestBound'
      BY <1>1, <2>0, <3>5 DEF GuestBound
    <3> QED
      BY <3>3, <3>4, <3>6 DEF GuestSide
  <2>6. CASE room
    <3>0. HostClock /\ ~dropped[0]
      BY <1>1, <2>6 DEF Paced, HostSide
    <3>1. /\ Chain(s \o <<x>>, Start, k + 1)
          /\ Full(s \o <<x>>, Start, k + 1)
          /\ Reports(s \o <<x>>, Start)
          /\ Spaced(s \o <<x>>, Start)
          /\ Kind(s \o <<x>>, "INPUT") = Kind(s, "INPUT") \cup {x}
          /\ Kind(s \o <<x>>, "BEGIN") = Kind(s, "BEGIN")
          /\ Kind(s \o <<x>>, "CRC") = Kind(s, "CRC")
      <4>1. Chain(s, Start, k) /\ Full(s, Start, k) /\ Reports(s, Start) /\ Spaced(s, Start)
        BY <2>0, <2>6 DEF GuestQueue, k
      <4> QED
        BY <1>3, <1>4, <2>2, <4>1, SendInput, SMTT(30)
    <3>2. chan'[1] = s \o <<x>>
      BY <1>2, <2>6 DEF x
    <3>3. \A r : Pending(r)' <=> Pending(r)
      BY <1>5, <3>1, <3>2 DEF Pending
    <3>4. Ahead > 0 => Pending(R) /\ R + Delay <= k /\ k <= R + 2 * Delay
      <4> SUFFICES ASSUME Ahead > 0 PROVE Pending(R) /\ R + Delay <= k /\ k <= R + 2 * Delay
        OBVIOUS
      <4>1. Pending(R)
        BY <2>0, <2>6 DEF GuestQueue
      <4>2. R + Delay <= k
        BY <1>4, <2>1, <4>1
      <4>3. wm[0] = R + Delay - 1 /\ tick[0] <= wm[0] + 1
        BY <3>0 DEF HostClock
      <4>4. k = tick[0] + Delay
        BY <1>1
      <4>5. k <= R + 2 * Delay
        <5> HIDE DEF R
        <5> QED
          BY <1>4, <4>3, <4>4
      <4> QED
        BY <4>1, <4>2, <4>5
    <3>5. Near(s \o <<x>>, NearTick)
      <4>1. k <= NearTick \/ \E b \in Kind(s, "BEGIN") : b.tick + Delay <= k /\ k <= b.tick + 2 * Delay
        <5>1. CASE Ahead = 0
          <6>1. ~hold[1]
            BY <2>0, <5>1 DEF GuestQueue, Images, Mid
          <6>2. tick[0] <= wm[0] + 1 /\ wm[0] < Cap(1)
            BY <3>0, <5>1 DEF HostClock
          <6>3. NearTick = tick[1] + 2 * Delay + 1 /\ k = tick[0] + Delay
            BY <1>1, <6>1 DEF NearTick
          <6>4. k <= NearTick
            BY <1>4, <6>2, <6>3, SMTT(30)
          <6> QED
            BY <6>4
        <5>2. CASE Ahead > 0
          <6>1. CASE R \in Mid
            <7>1. NearTick = R + 2 * Delay
              BY <6>1 DEF Mid, NearTick
            <7> QED
              BY <3>4, <5>2, <7>1
          <6>2. CASE \E b \in Kind(s, "BEGIN") : b.tick = R
            BY <3>4, <5>2, <6>2
          <6> QED
            BY <3>4, <5>2, <6>1, <6>2 DEF Pending
        <5> QED
          BY <1>5, <5>1, <5>2
      <4> QED
        BY <1>3, <2>0, <3>1, <4>1 DEF GuestQueue, Near
    <3>6. Images(s \o <<x>>, Mid, R, Ahead)
      BY <2>0, <3>1 DEF GuestQueue, Images
    <3>7. Ahead > 0 => Last(s \o <<x>>, Mid, R)
      <4> SUFFICES ASSUME Ahead > 0 PROVE Last(s \o <<x>>, Mid, R)
        OBVIOUS
      <4>1. R \in Mid \/ \E b \in Kind(s, "BEGIN") : b.tick = R
        BY <3>4 DEF Pending
      <4>2. Last(s, Mid, R)
        BY <2>0 DEF GuestQueue
      <4> QED
        BY <1>3, <3>1, <3>4, <4>1, <4>2 DEF Last
    <3>8. GuestQueue'
      <4>1. Ahead > 0 => Pending(R)'
        BY <3>3, <3>4, <1>1, <1>5, <3>1, <3>2 DEF Pending
      <4>2. /\ Ahead > 0 => wm[1] <= Limit(R)
            /\ hold[1] => /\ wm[1] <= Limit(resume[1])
                          /\ \A f \in Kind(chan[1], "CRC") : f.tick >= resume[1]
            /\ Ahead = 0 => \A f \in Kind(chan[1], "CRC") : f.tick >= R
        BY <2>0 DEF GuestQueue
      <4> QED
        BY <1>1, <1>5, <3>1, <3>2, <3>5, <3>6, <3>7, <4>1, <4>2 DEF GuestQueue
    <3>9. GuestRight'
      <4>1. \A f \in Kind(chan'[1], "INPUT") : Right(0, f.tick, f.in)'
        <5>1. ASSUME NEW f, f = x PROVE Right(0, f.tick, f.in)'
          <6>1. f.tick = k /\ f.in = i
            BY <1>3, <5>1
          <6> QED
            BY <1>2, <6>1
        <5>2. ASSUME NEW f \in Kind(chan'[1], "INPUT") PROVE Right(0, f.tick, f.in)'
          <6>1. f \in Kind(s, "INPUT") \/ f = x
            BY <3>1, <3>2
          <6> QED
            BY <2>4, <5>1, <6>1
        <5> QED
          BY <5>2
      <4>2. \A r \in Nat : Pending(r)' => ImageRight(r)'
        BY <2>0, <2>r, <3>3 DEF GuestRight
      <4> QED
        BY <2>3, <4>1, <4>2 DEF GuestRight
    <3>10. ASSUME NEW y, Beyond(y) PROVE Beyond(y)'
      <4>1. Ahead > 0 /\ y > wm[1]
        BY <3>10 DEF Beyond
      <4>2. hold[1] \/ \E b \in Kind(s, "BEGIN") : b.tick + Delay <= x.tick
        BY <1>3, <3>4, <4>1 DEF Pending, Mid
      <4> QED
        BY <1>1, <1>5, <3>1, <3>2, <3>10, <4>2 DEF Beyond
    <3>11. GuestBound'
      BY <1>1, <2>0, <3>10 DEF GuestBound
    <3> QED
      BY <3>8, <3>9, <3>11 DEF GuestSide
  <2> QED
    BY <2>5, <2>6
<1> QED
  BY <1>6, <1>7, <1>8, <1>9, <1>10 DEF Paced

\* The guest captures.
LEMMA GuestCaptureStep ==
  ASSUME TypeOK, TypeOK', Sized, Paced, Capture(1)
  PROVE  Paced'
<1> DEFINE s == chan[0]
           k == Cap(1)
           R == resume[0]
<1>0. 0 \in Seats /\ 1 \in Seats /\ (\A c \in Seats : c = 0 \/ c = 1) /\ Other(1) = 0
  BY Flat DEF Other
<1>1. /\ k = tick[1] + Delay /\ Cap(1)' = k + 1 /\ Cap(0)' = Cap(0)
      /\ UNCHANGED <<tick, wm, hold, pend, resume, rec, dropped, rebases, room, played>>
      /\ ring'[0] = ring[0] /\ ring'[1][0] = ring[1][0]
      /\ pc[1] = "head" /\ pc' = [pc EXCEPT ![1] = "gate"]
      /\ room => ~dropped[1]
      /\ \A t \in Nat : tick[1] <= t /\ t < k =>
           ring'[1][1][RingSlot(t)] = ring[1][1][RingSlot(t)]
      /\ \A t \in Nat : \A v : t < k /\ Right(1, t, v) => Right(1, t, v)'
      /\ \E i \in Inputs :
           /\ \A kk : kk = k => Right(1, kk, i)'
           /\ InputFrame(k, i) \in Frame
           /\ chan'[1] = chan[1]
           /\ chan'[0] = IF room THEN s \o <<InputFrame(k, i)>> ELSE s
  BY <1>0, CaptureMade DEF Paced
<1>2. PICK i \in Inputs :
           /\ \A kk : kk = k => Right(1, kk, i)'
           /\ InputFrame(k, i) \in Frame
           /\ chan'[1] = chan[1]
           /\ chan'[0] = IF room THEN s \o <<InputFrame(k, i)>> ELSE s
  BY <1>1
<1> DEFINE x == InputFrame(k, i)
<1>3. x \in Frame /\ x.type = "INPUT" /\ x.tick = k /\ x.in = i /\ Timed(x) /\ Due(x) = k
  BY <1>2 DEF InputFrame, Timed, Due
<1>4. /\ s \in Seq(Frame) /\ tick[0] \in Nat /\ tick[1] \in Nat /\ wm[0] \in Nat /\ R \in Nat
      /\ k \in Nat /\ Cap(0) \in Nat /\ Cap(0) <= tick[0] + Delay + 1
      /\ Delay \in Nat /\ Delay >= 1 /\ Leap \in Nat
      /\ (\A p \in played[0] : p.tick \in Nat) /\ (\A p \in played[1] : p.tick \in Nat)
  BY <1>0, Flat
<1>k. k = tick[1] + Delay
  BY <1>1
<1>5. /\ Ahead' = Ahead /\ Ahead \in 0 .. 2 /\ pc'[0] = pc[0] /\ pc'[1] = "gate" /\ Late = 0 /\ Late' = 0
      /\ Start' = Start /\ NearTick' = NearTick /\ Mid' = Mid
  <2>1. pc'[0] = pc[0] /\ pc'[1] = "gate"
    BY <1>0, <1>1 DEF TypeOK, ControlType
  <2> QED
    BY <1>1, <2>1 DEF Ahead, Paced, Basic, Late, Start, NearTick, Mid
<1> HIDE DEF x, k
<1>6. Basic'
  <2>1. <<x>> \in Seq(Frame) /\ Elems(<<x>>) = {x}
    BY <1>3, OneQ
  <2>2. chan'[0] = IF room THEN chan[0] \o <<x>> ELSE chan[0]
    BY <1>2 DEF x
  <2>3. \A d \in Seats : tick[d] <= tick'[d]
    BY <1>1, Flat, SMTT(30)
  <2>4. resume'[0] <= tick'[0] /\ \A p \in played'[1] : p.tick < tick'[1]
    BY <1>0, <1>1 DEF Paced, Basic
  <2>5. "gate" \notin Pumping
    BY DEF Pumping
  <2> QED
    <3>1. /\ Basic /\ 0 \in Seats /\ 1 \in Seats /\ 0 # 1
          /\ UNCHANGED <<room, dropped, hold>> /\ played'[0] = played[0]
          /\ chan'[1] = chan[1]
      BY <1>0, <1>1, <1>2 DEF Paced
    <3>2. pc'[1] \notin Pumping /\ pc'[1] # "off" /\ pc'[0] = pc[0] /\ Ahead' \in 0 .. 2
      BY <1>5, <2>5
    <3>3. \A f \in Elems(<<x>>) : f.type = "INPUT"
      BY <1>3, <2>1
    <3> DEFINE u == <<x>>
    <3>4. u \in Seq(Frame) /\ chan'[0] = IF room THEN chan[0] \o u ELSE chan[0]
      BY <2>1, <2>2
    <3>5. \A f \in Elems(u) : /\ f.type \notin {"PEER_LEFT", "RESYNC"}
                              /\ f.type \in {"INPUT", "CRC"}
      BY <3>3
    <3> HIDE DEF u, s, R
    <3> QED
      BY <2>3, <2>4, <3>1, <3>2, <3>4, <3>5, BasicSent, SMTT(30)
<1>7. IF Ahead = 0 THEN tick[1] <= Cap(0) ELSE tick[1] < R
  BY <1>4, <1>5 DEF Paced, Shared
<1>8. /\ Asked(s \o <<x>>, R, Ahead, pend[0], pend[1])
      /\ (/\ Lag(s, wm[0], R, Ahead, pend[0]) /\ wm[0] <= Due(x) + Ahead * Leap
          /\ Ahead = 0 => wm[0] < Due(x)
          /\ Ahead > 0 => Old(x, R))
         => Lag(s \o <<x>>, wm[0], R, Ahead, pend[0])
      /\ (/\ Sorted(s)
          /\ \A f \in Elems(s) : Timed(f) =>
               IF f.type = x.type THEN f.tick < x.tick
               ELSE IF f.type = "INPUT" THEN f.tick < Due(x) ELSE Due(f) <= x.tick)
         => Sorted(s \o <<x>>)
      /\ \A type : Kind(s \o <<x>>, type) = IF type = x.type THEN Kind(s, type) \cup {x} ELSE Kind(s, type)
      /\ Elems(s \o <<x>>) = Elems(s) \cup {x}
  <2>1. wm[0] \in Int /\ R \in Int /\ Asked(s, R, Ahead, pend[0], pend[1])
    BY <1>4 DEF Paced, Shared
  <2> QED
    <3>1. s \in Seq(Frame) /\ x \in Frame /\ Timed(x) /\ Ahead \in 0 .. 2
      BY <1>3, <1>4, <1>5
    <3> HIDE DEF s, R
    <3>2. Asked(s \o <<x>>, R, Ahead, pend[0], pend[1])
      BY <2>1, <3>1, SendTimed, SMTT(30)
    <3>3. ASSUME Lag(s, wm[0], R, Ahead, pend[0]), wm[0] <= Due(x) + Ahead * Leap,
                 Ahead = 0 => wm[0] < Due(x),
                 Ahead > 0 => Old(x, R)
          PROVE  Lag(s \o <<x>>, wm[0], R, Ahead, pend[0])
      BY <2>1, <3>1, <3>3, SendTimed, SMTT(30)
    <3>4. ASSUME Sorted(s),
                 \A f \in Elems(s) : Timed(f) =>
                   IF f.type = x.type THEN f.tick < x.tick
                   ELSE IF f.type = "INPUT" THEN f.tick < Due(x) ELSE Due(f) <= x.tick
          PROVE  Sorted(s \o <<x>>)
      BY <2>1, <3>1, <3>4, SendTimed, SMTT(30)
    <3>6. Elems(s \o <<x>>) = Elems(s) \cup {x}
      BY <2>1, <3>1, SendTimed, SMTT(30)
    <3>5. \A type : Kind(s \o <<x>>, type) = IF type = x.type THEN Kind(s, type) \cup {x} ELSE Kind(s, type)
      BY <3>6 DEF Kind
    <3> QED
      BY <3>2, <3>3, <3>4, <3>5, <3>6
<1>9. Kind(s \o <<x>>, "INPUT") = Kind(s, "INPUT") \cup {x} /\ Kind(s \o <<x>>, "CRC") = Kind(s, "CRC")
  BY <1>3, <1>8
<1>10. \A f \in Kind(s, "INPUT") : f.tick \in Nat /\ f.tick < k
  BY <1>4, HostTypes DEF Paced, Shared, Kind, k
<1>11. Shared'
  <2>1. Asked(chan'[0], resume'[0], Ahead', pend'[0], pend'[1])
    BY <1>1, <1>2, <1>5, <1>8 DEF Paced, Shared, x
  <2>2. ASSUME NEW f \in Kind(chan'[0], "INPUT") PROVE f.tick < Cap(1)'
    <3>1. f \in Kind(s, "INPUT") \/ f = x
      BY <1>2, <1>9 DEF x
    <3>2. f.tick = k \/ (f.tick \in Nat /\ f.tick < k)
      BY <1>3, <1>10, <3>1
    <3>3. Cap(1)' = k + 1
      BY <1>1
    <3> QED
      BY <1>4, <3>2, <3>3
  <2>3. \A f \in Kind(chan'[0], "CRC") : f \in Kind(chan[0], "CRC")
    BY <1>2, <1>9 DEF x
  <2> QED
    BY <1>1, <1>5, <2>1, <2>2, <2>3 DEF Paced, Shared
<1>12. Agree'
  BY <1>1 DEF Paced, Agree
<1>13. ASSUME ~dropped'[1] PROVE GuestSide'
  <2>0. GuestQueue /\ GuestRight /\ GuestBound
    BY <1>1, <1>13 DEF Paced, GuestSide
  <2>1. \A t, v : Right(0, t, v) <=> Right(0, t, v)'
    BY <1>1 DEF Right, Owns
  <2>2. \A r : Pending(r)' <=> Pending(r)
    BY <1>2, <1>5 DEF Pending
  <2>3. \A r : ImageRight(r) => ImageRight(r)'
    BY <1>1, <2>1 DEF ImageRight
  <2>4. \A y : Beyond(y) => Beyond(y)'
    BY <1>1, <1>2, <1>5 DEF Beyond
  <2>5. GuestQueue'
    BY <1>1, <1>2, <1>5, <2>0, <2>2 DEF GuestQueue
  <2>6. GuestRight'
    BY <1>1, <1>2, <2>0, <2>1, <2>2, <2>3 DEF GuestRight
  <2>7. GuestBound'
    <3> SUFFICES ASSUME NEW p \in played[0], p.tick >= tick[1]
                 PROVE  (p.tick < Cap(1)' /\ p.in[1] = ring'[1][1][RingSlot(p.tick)]) \/ Beyond(p.tick)'
      BY <1>1 DEF GuestBound
    <3>1. CASE p.tick < k /\ p.in[1] = ring[1][1][RingSlot(p.tick)]
      <4>1. p.tick \in Nat
        BY <1>4
      <4> QED
        BY <1>1, <1>4, <3>1, <4>1, SMTT(30)
    <3> QED
      BY <2>0, <2>4, <3>1 DEF GuestBound, k
  <2> QED
    BY <2>5, <2>6, <2>7 DEF GuestSide
<1>14. ASSUME ~dropped'[0] PROVE HostSide'
  <2>0. HostQueue /\ HostClock /\ HostRight /\ HostBound
    BY <1>1, <1>14 DEF Paced, HostSide
  <2>1. IF Ahead = 0 THEN wm[0] < k ELSE wm[0] <= k + Ahead * Leap
    BY <2>0 DEF HostClock, k
  <2>l. Ahead * Leap \in Int /\ Ahead \in Int /\ (Ahead = 0 => Ahead * Leap = 0)
    BY <1>4, <1>5
  <2>2. HostClock'
    <3>1. IF Ahead = 0 THEN wm[0] < Cap(1)' ELSE wm[0] <= Cap(1)' + Ahead * Leap
      <4>1. Cap(1)' = k + 1
        BY <1>1
      <4> QED
        BY <1>4, <2>1, <2>l, <4>1, SMTT(30)
    <3> QED
      BY <1>1, <1>5, <2>0, <3>1 DEF HostClock
  <2>3. HostBound'
    BY <1>1, <2>0 DEF HostBound
  <2>4. HostQueue'
    <3>1. CASE ~room
      BY <1>1, <1>2, <1>5, <2>0, <3>1 DEF HostQueue
    <3>2. CASE room
      <4>1. wm[0] <= Due(x) + Ahead * Leap /\ (Ahead = 0 => wm[0] < Due(x))
        <5>1. Due(x) = k
          BY <1>3
        <5>2. wm[0] <= k + Ahead * Leap /\ (Ahead = 0 => wm[0] < k)
          <6> DEFINE z == Ahead * Leap
          <6>1. z \in Int /\ (Ahead = 0 => z = 0) /\ (IF Ahead = 0 THEN wm[0] < k ELSE wm[0] <= k + z)
            BY <2>1, <2>l
          <6> HIDE DEF z
          <6>2. wm[0] <= k + z /\ (Ahead = 0 => wm[0] < k)
            BY <1>4, <6>1
          <6> QED
            BY <6>2 DEF z
        <5> QED
          BY <5>1, <5>2
      <4>2. Ahead > 0 => Old(x, R)
        BY <1>3, <1>4, <1>k, <1>7 DEF Old
      <4>3. ASSUME NEW f \in Elems(s), Timed(f)
            PROVE  IF f.type = x.type THEN f.tick < x.tick
                   ELSE IF f.type = "INPUT" THEN f.tick < Due(x) ELSE Due(f) <= x.tick
        <5>1. CASE f.type = "INPUT"
          BY <1>3, <1>10, <5>1 DEF Kind
        <5>2. CASE f.type = "CRC"
          <6>1. f.tick \in Nat /\ f.tick < tick[1] /\ Due(f) = f.tick + Delay + 1
            BY <1>4, <5>2, HostTypes DEF Paced, Shared, Kind
          <6> QED
            BY <1>3, <1>4, <1>k, <5>2, <6>1
        <5> QED
          BY <4>3, <5>1, <5>2 DEF Timed
      <4>4. Lag(s \o <<x>>, wm[0], R, Ahead, pend[0]) /\ Sorted(s \o <<x>>)
        BY <1>8, <2>0, <4>1, <4>2, <4>3 DEF HostQueue
      <4> QED
        BY <1>1, <1>2, <1>5, <3>2, <4>4 DEF HostQueue, x
    <3> QED
      BY <3>1, <3>2
  <2>5. HostRight'
    <3> SUFFICES ASSUME Ahead = 0 PROVE HostRight'
      BY <1>5 DEF HostRight
    <3>w. wm[0] < k
      BY <2>1
    <3>1. ASSUME NEW t \in tick[0] .. wm[0] PROVE Right(1, t, ring[0][1][RingSlot(t)])'
      <4>1. t \in Nat /\ t < k
        BY <1>4, <3>w
      <4>2. Right(1, t, ring[0][1][RingSlot(t)])
        BY <2>0 DEF HostRight
      <4> DEFINE v == ring[0][1][RingSlot(t)]
      <4>3. ring'[0][1][RingSlot(t)] = v
        BY <1>1
      <4>4. \A vv : vv = v => Right(1, t, vv)'
        BY <1>1, <4>1, <4>2
      <4> QED
        BY <4>3, <4>4
    <3>2. ASSUME NEW f \in Kind(chan'[0], "INPUT"), f.tick > wm[0]
          PROVE  Right(1, f.tick, f.in)' /\ f.tick <= tick[0] + 2 * Delay + 1
      <4>1. CASE f \in Kind(s, "INPUT")
        <5>1. Right(1, f.tick, f.in) /\ f.tick <= tick[0] + 2 * Delay + 1
          BY <2>0, <3>2, <4>1 DEF HostRight
        <5> QED
          BY <1>1, <1>10, <4>1, <5>1
      <4>2. CASE f = x
        <5>1. f.tick = k /\ f.in = i
          BY <1>3, <4>2
        <5>2. Right(1, f.tick, f.in)'
          BY <1>2, <5>1
        <5>3. k <= tick[0] + 2 * Delay + 1
          BY <1>4, <1>7, <1>k
        <5> QED
          BY <5>1, <5>2, <5>3
      <4> QED
        BY <1>2, <1>9, <4>1, <4>2 DEF x
    <3>3. ASSUME NEW t \in wm[0] + 1 .. k, room \/ \E f \in Kind(chan'[0], "INPUT") : f.tick >= t
          PROVE  \/ \E f \in Kind(chan'[0], "INPUT") : f.tick = t
                 \/ t = R + Delay /\ Right(1, t, Idle)'
      <4>1. CASE room /\ t = k
        BY <1>2, <1>3, <1>9, <4>1 DEF x
      <4>2. CASE t < k
        <5>1. t \in wm[0] + 1 .. k - 1 /\ t \in Nat
          BY <1>4, <4>2
        <5>2. room \/ \E f \in Kind(s, "INPUT") : f.tick >= t
          BY <1>2, <3>3
        <5>3. (\E f \in Kind(s, "INPUT") : f.tick = t) \/ (t = R + Delay /\ Right(1, t, Idle))
          BY <2>0, <5>1, <5>2 DEF HostRight, k
        <5>4. Right(1, t, Idle) => Right(1, t, Idle)'
          BY <1>1, <4>2, <5>1
        <5>5. Kind(s, "INPUT") \subseteq Kind(chan'[0], "INPUT")
          BY <1>2, <1>9 DEF x
        <5> QED
          BY <5>3, <5>4, <5>5
      <4>3. CASE ~room /\ t = k
        <5>1. PICK f \in Kind(s, "INPUT") : f.tick >= t
          BY <1>2, <3>3, <4>3
        <5> QED
          BY <1>4, <1>10, <4>3, <5>1
      <4> QED
        BY <1>4, <4>1, <4>2, <4>3
    <3>4. Cap(1)' - 1 = k /\ wm'[0] = wm[0]
      BY <1>1, <1>4
    <3> QED
      BY <1>1, <1>5, <3>1, <3>2, <3>3, <3>4 DEF HostRight
  <2> QED
    BY <2>2, <2>3, <2>4, <2>5 DEF HostSide
<1> QED
  BY <1>6, <1>11, <1>12, <1>13, <1>14 DEF Paced

-----------------------------------------------------------------------------
(* Playing a tick.                                                         *)

LEMMA GateExact ==
  ASSUME TypeOK, Sized, NEW c \in Seats, ~dropped[c], GateOpen(c), tick[c] <= wm[c] + 1
  PROVE  tick[c] <= wm[c]
<1>1. tick[c] \in Int /\ wm[c] \in Int /\ Leap \in Nat /\ Leap >= 1
  <2>1. Leap \in Nat /\ Leap >= 1
    BY ConstantAssumption DEF Leap
  <2> QED
    BY <2>1, Flat
<1>2. ~Behind(wm[c], tick[c])
  BY DEF GateOpen
<1>3. ~(wm[c] < tick[c] /\ tick[c] <= wm[c] + 2 * Leap)
  BY <1>1, <1>2, BehindExact
<1> QED
  BY <1>1, <1>3

\* What a tick leaves in the history of its console.
LEMMA GamePlayed ==
  ASSUME TypeOK, NEW c \in Seats, GameTick(c)
  PROVE  /\ pc[c] = "gate" /\ GateOpen(c) /\ pc'[c] = "pass" /\ UNCHANGED <<dropped, room>>
         /\ \A d \in Seats : d # c => pc'[d] = pc[d] /\ played'[d] = played[d]
         /\ Cap(c) = tick[c] + Delay + 1
         /\ \A p \in played'[c] :
              \/ p \in played[c]
              \/ /\ ~dropped[c] /\ p.tick = tick[c] /\ p.in \in [Seats -> Inputs]
                 /\ \A s \in Seats : p.in[s] = ring[c][s][RingSlot(tick[c])]
         /\ \A t, v : Right(c, t, v) => \A p \in played'[c] : p.tick = t => p.in[c] = v
<1> USE DEF history
<1>0. /\ DOMAIN pc = Seats /\ DOMAIN played = Seats /\ Replay(c) \in [Seats -> Inputs]
      /\ tick[c] \in Nat /\ Delay \in Nat
  BY TickType, Flat DEF TypeOK, ControlType, SimType
<1>1. /\ pc[c] = "gate" /\ GateOpen(c) /\ pc'[c] = "pass" /\ UNCHANGED <<dropped, room>>
      /\ \A d \in Seats : d # c => pc'[d] = pc[d] /\ played'[d] = played[d]
      /\ played'[c] = IF dropped[c] THEN played[c] ELSE played[c] \cup {[tick |-> tick[c], in |-> Replay(c)]}
  BY <1>0 DEF GameTick
<1>2. Cap(c) = tick[c] + Delay + 1
  BY <1>0, <1>1 DEF Cap
<1>3. ASSUME NEW p \in played'[c]
      PROVE  \/ p \in played[c]
             \/ /\ ~dropped[c] /\ p.tick = tick[c] /\ p.in \in [Seats -> Inputs]
                /\ \A s \in Seats : p.in[s] = ring[c][s][RingSlot(tick[c])]
  <2>1. p \in played[c] \/ (~dropped[c] /\ p = [tick |-> tick[c], in |-> Replay(c)])
    BY <1>1
  <2>2. CASE ~dropped[c] /\ p = [tick |-> tick[c], in |-> Replay(c)]
    <3>1. p.tick = tick[c] /\ p.in = Replay(c)
      BY <2>2
    <3> QED
      BY <1>0, <2>2, <3>1 DEF Replay
  <2> QED
    BY <2>1, <2>2
<1>4. ASSUME NEW t, NEW v, Right(c, t, v), NEW p \in played'[c], p.tick = t PROVE p.in[c] = v
  BY <1>0, <1>3, <1>4 DEF Right, Owns
<1> QED
  BY <1>1, <1>2, <1>3, <1>4

\* What the host plays agrees with what the guest has played or will play.
LEMMA HostPlays ==
  ASSUME TypeOK, Sized, Paced, GameTick(0)
  PROVE  /\ Agree'
         /\ ~dropped[0] => tick[0] <= wm[0]
         /\ ~dropped[0] /\ Ahead > 0 => ring[0][1][RingSlot(tick[0])] = Idle /\ tick[0] < resume[0] + Delay
         /\ ~dropped[1] => \A p \in played'[0] : p.tick >= tick[1] =>
              (p.tick < Cap(1) /\ p.in[1] = ring[1][1][RingSlot(p.tick)]) \/ Beyond(p.tick)
         /\ ~dropped[1] => \A r \in Nat : Pending(r) =>
              /\ Ahead > 0 /\ r <= resume[0]
              /\ Ahead = 1 => r = resume[0]
              /\ \A p \in played'[0] : p.tick >= r =>
                   p.in[1] = Idle /\ (p.tick < r + Delay \/ (r < resume[0] /\ p.tick >= resume[0]))
<1> DEFINE R == resume[0]
           v == ring[0][1][RingSlot(tick[0])]
<1>0. 0 \in Seats /\ 1 \in Seats /\ (\A c \in Seats : c = 0 \/ c = 1)
  BY Flat
<1>1. /\ pc[0] = "gate" /\ GateOpen(0) /\ UNCHANGED dropped /\ played'[1] = played[1]
      /\ \A p \in played'[0] :
           \/ p \in played[0]
           \/ /\ ~dropped[0] /\ p.tick = tick[0] /\ p.in \in [Seats -> Inputs]
              /\ p.in[0] = ring[0][0][RingSlot(tick[0])] /\ p.in[1] = v
  BY <1>0, GamePlayed
<1>2. /\ tick[0] \in Nat /\ tick[1] \in Nat /\ wm[0] \in Nat /\ wm[1] \in Nat /\ R \in Nat /\ Ahead \in 0 .. 2 /\ R <= tick[0]
      /\ Cap(1) \in Nat /\ Delay \in Nat /\ ResumeGap \in Nat /\ ResumeGap > Delay
      /\ chan[1] \in Seq(Frame) /\ RingSlot(tick[0]) \in 0 .. LowMod - 1
      /\ \A q \in played[1] : q.tick \in Nat /\ q.in \in [Seats -> Inputs]
      /\ \A q \in played[0] : q.tick \in Nat
  <2>1. tick[0] \in Nat
    BY <1>0, Flat
  <2> QED
    BY <1>0, <2>1, Flat, SlotType DEF Paced, Basic, Sized
<1>3. ~dropped[0] => /\ HostClock /\ HostRight /\ HostBound /\ tick[0] <= wm[0]
                     /\ Ahead > 0 => v = Idle /\ tick[0] < R + Delay
  <2> SUFFICES ASSUME ~dropped[0] PROVE /\ HostClock /\ HostRight /\ HostBound /\ tick[0] <= wm[0]
                                        /\ Ahead > 0 => v = Idle /\ tick[0] < R + Delay
    OBVIOUS
  <2>1. HostClock /\ HostRight /\ HostBound
    BY DEF Paced, HostSide
  <2>2. tick[0] <= wm[0]
    BY <1>0, <1>1, <2>1, GateExact DEF HostClock
  <2>3. Ahead > 0 => wm[0] = R + Delay - 1 /\ v = Idle
    BY <1>2, <2>1 DEF HostClock
  <2> QED
    BY <1>2, <2>1, <2>2, <2>3
<1>4. Agree'
  <2> SUFFICES ASSUME NEW p \in played'[0], NEW q \in played[1], p.tick = q.tick PROVE p.in = q.in
    BY <1>1 DEF Agree
  <2>1. CASE p \in played[0]
    BY <2>1 DEF Paced, Agree
  <2>2. CASE /\ ~dropped[0] /\ p.tick = tick[0] /\ p.in \in [Seats -> Inputs]
             /\ p.in[0] = ring[0][0][RingSlot(tick[0])] /\ p.in[1] = v
    <3>1. q.tick = tick[0] /\ q.in \in [Seats -> Inputs]
      BY <1>2, <2>2
    <3>2. q.in[0] = p.in[0]
      BY <1>2, <1>3, <2>2, <3>1 DEF HostBound
    <3>3. Ahead = 0
      <4> SUFFICES ASSUME Ahead # 0 PROVE FALSE
        OBVIOUS
      <4>1. q.tick < R
        BY <1>2 DEF Paced, Shared
      <4> QED
        BY <1>2, <3>1, <4>1
    <3>4. q.in[1] = p.in[1]
      <4>1. tick[0] \in tick[0] .. wm[0]
        BY <1>2, <1>3, <2>2
      <4>2. Right(1, tick[0], v)
        BY <1>3, <2>2, <3>3, <4>1 DEF HostRight
      <4> QED
        BY <2>2, <3>1, <4>2 DEF Right, Owns
    <3> QED
      BY <1>0, <2>2, <3>1, <3>2, <3>4
  <2> QED
    BY <1>1, <2>1, <2>2
<1>5. ASSUME ~dropped[1], NEW p \in played'[0], p.tick >= tick[1]
      PROVE  (p.tick < Cap(1) /\ p.in[1] = ring[1][1][RingSlot(p.tick)]) \/ Beyond(p.tick)
  <2>0. GuestQueue /\ GuestBound
    BY <1>5 DEF Paced, GuestSide
  <2>1. CASE p \in played[0]
    BY <1>5, <2>0, <2>1 DEF GuestBound
  <2>2. CASE /\ ~dropped[0] /\ p.tick = tick[0] /\ p.in[1] = v
    <3>1. CASE Ahead = 0
      <4>1. tick[0] \in tick[0] .. wm[0] /\ wm[0] < Cap(1)
        BY <1>2, <1>3, <2>2, <3>1 DEF HostClock
      <4>2. Right(1, tick[0], v)
        BY <1>3, <2>2, <3>1, <4>1 DEF HostRight
      <4>3. tick[0] < Cap(1)
        BY <1>2, <1>3, <2>2, <4>1
      <4> QED
        BY <1>5, <2>2, <4>2, <4>3 DEF Right, Owns
    <3>2. CASE Ahead > 0
      <4>1. wm[1] <= Limit(R) /\ Last(chan[1], Mid, R)
        BY <2>0, <3>2 DEF GuestQueue
      <4>2. Limit(R) \in Int /\ Limit(R) < tick[0]
        BY <1>2, SMTT(30) DEF Limit
      <4>3. ASSUME NEW f \in Kind(chan[1], "INPUT")
            PROVE  f.tick < tick[0] \/ hold[1] \/ \E b \in Kind(chan[1], "BEGIN") : b.tick + Delay <= f.tick
        <5>1. f.tick \in Nat
          BY <1>2, ElemType DEF Kind
        <5>2. CASE f.tick <= Limit(R)
          BY <1>2, <4>2, <5>1, <5>2
        <5>3. CASE f.tick >= R + Delay /\ \E b \in Kind(chan[1], "BEGIN") : b.tick = R
          BY <5>3
        <5>4. CASE R \in Mid
          BY <5>4 DEF Mid
        <5> QED
          BY <4>1, <5>2, <5>3, <5>4 DEF Last
      <4>4. tick[0] > wm[1]
        BY <1>2, <4>1, <4>2
      <4>5. Beyond(tick[0])
        BY <3>2, <4>3, <4>4 DEF Beyond
      <4> QED
        BY <2>2, <4>5
    <3> QED
      BY <1>2, <3>1, <3>2
  <2> QED
    BY <1>1, <2>1, <2>2
<1>6. ASSUME ~dropped[1], NEW r \in Nat, Pending(r)
      PROVE  /\ Ahead > 0 /\ r <= R
             /\ Ahead = 1 => r = R
             /\ \A p \in played'[0] : p.tick >= r =>
                  p.in[1] = Idle /\ (p.tick < r + Delay \/ (r < R /\ p.tick >= R))
  <2>0. GuestQueue /\ ImageRight(r)
    BY <1>6 DEF Paced, GuestSide, GuestRight
  <2>1. Ahead > 0 /\ (Ahead = 1 => r = R)
    BY <1>2, <1>6, <2>0 DEF GuestQueue, Images, Pending
  <2>2. r <= R /\ (r = R \/ r < R)
    BY <1>2, <2>0 DEF ImageRight
  <2>3. ASSUME NEW p \in played'[0], p.tick >= r
        PROVE  p.in[1] = Idle /\ (p.tick < r + Delay \/ (r < R /\ p.tick >= R))
    <3>1. CASE p \in played[0]
      BY <2>0, <2>3, <3>1 DEF ImageRight
    <3>2. CASE ~dropped[0] /\ p.tick = tick[0] /\ p.in[1] = v
      BY <1>2, <1>3, <2>1, <2>2, <3>2
    <3> QED
      BY <1>1, <3>1, <3>2
  <2> QED
    BY <2>1, <2>2, <2>3
<1> QED
  BY <1>3, <1>4, <1>5, <1>6

LEMMA ReportMade ==
  ASSUME TypeOK, NEW c \in Seats
  PROVE  /\ CrcReport(c) \in Seq(Frame)
         /\ \A f \in Elems(CrcReport(c)) : f.type = "CRC" /\ f.tick = tick[c]
         /\ \/ CrcReport(c) = << >>
            \/ \E x \in Frame : /\ CrcReport(c) = <<x>> /\ x.type = "CRC" /\ x.tick = tick[c]
                                /\ tick[c] % CrcPeriod = 0
<1> DEFINE x == CrcFrame(tick[c], LS_CKSUM(Simulated(c)))
<1>1. x \in Frame
  <2>1. tick[c] \in Nat /\ LS_CKSUM(Simulated(c)) \in Crc
    BY Flat, TickType
  <2> QED
    BY <2>1, FrameType
<1>2. x.type = "CRC" /\ x.tick = tick[c]
  BY DEF CrcFrame
<1>3. CrcReport(c) = IF tick[c] % CrcPeriod = 0 THEN <<x>> ELSE << >>
  BY DEF CrcReport, CrcDue
<1> HIDE DEF x
<1>4. /\ <<x>> \in Seq(Frame) /\ Elems(<<x>>) = {x}
      /\ Elems(<< >>) = {} /\ << >> \in Seq(Frame)
  BY <1>1, OneQ, NoneQ
<1> QED
  BY <1>1, <1>2, <1>3, <1>4

\* The host plays a tick after which it pushes nothing.
LEMMA HostRunStep ==
  ASSUME TypeOK, TypeOK', Sized, Paced, RunTick(0)
  PROVE  Paced'
<1> USE DEF engine, recovery, history
<1> DEFINE s == chan[1]
           k == tick[0]
           t1 == CrcReport(0)
           R == resume[0]
<1>0. 0 \in Seats /\ 1 \in Seats /\ (\A c \in Seats : c = 0 \/ c = 1) /\ Other(0) = 1
  BY Flat DEF Other
<1>t. tick \in [Seats -> Nat] /\ chan \in [Seats -> Seq(Frame)] /\ rec \in [Seats -> [CrcSlots -> [tick : Nat, crc : Crc]]]
  BY DEF TypeOK, EngineType, ChanType, RecoveryType
<1>g. GameTick(0)
  BY DEF RunTick
<1>1. /\ UNCHANGED <<ring, wm, rebases, hold, pend, resume, dropped, room>>
      /\ chan'[0] = chan[0] /\ chan'[1] = IF room THEN s \o t1 ELSE s
      /\ tick'[0] = k + 1 /\ tick'[1] = tick[1]
      /\ rec'[0] = Recorded(0)
      /\ pc[0] = "gate" /\ pc'[0] = "pass" /\ pc'[1] = pc[1] /\ played'[1] = played[1]
  <2>1. /\ UNCHANGED <<ring, wm, rebases, hold, pend, resume>> /\ chan' = Relayed(0, t1)
        /\ tick' = [tick EXCEPT ![0] = @ + 1] /\ rec' = [rec EXCEPT ![0] = Recorded(0)]
    BY DEF RunTick
  <2>2. /\ pc[0] = "gate" /\ pc'[0] = "pass" /\ UNCHANGED <<dropped, room>>
        /\ pc'[1] = pc[1] /\ played'[1] = played[1]
    BY <1>0, <1>g, GamePlayed
  <2>3. chan'[0] = chan[0] /\ chan'[1] = IF room THEN s \o t1 ELSE s
    BY <1>0, <1>t, <2>1 DEF Relayed
  <2> QED
    BY <1>0, <1>t, <2>1, <2>2, <2>3
<1>2. /\ k \in Nat /\ tick[1] \in Nat /\ wm[0] \in Nat /\ wm[1] \in Nat /\ R \in Nat /\ resume[1] \in Nat
      /\ s \in Seq(Frame) /\ Cap(0) \in Nat /\ Cap(1) \in Nat
      /\ Delay \in Nat /\ Delay >= 1 /\ Start \in Int /\ NearTick \in Int
      /\ Ahead \in 0 .. 2 /\ R <= k /\ Cap(0) = k + Delay + 1
      /\ (\A p \in played[0] : p.tick \in Nat) /\ (\A p \in played[1] : p.tick \in Nat)
  <2>1. Cap(0) = k + Delay + 1
    BY <1>0, <1>g, GamePlayed
  <2>2. Ahead \in 0 .. 2 /\ R <= k
    BY DEF Paced, Basic
  <2> QED
    BY <1>0, <2>1, <2>2, Flat
<1>3. /\ Cap(0)' = Cap(0) /\ Cap(1)' = Cap(1) /\ Ahead' = Ahead /\ Late' = Late
      /\ Start' = Start /\ NearTick' = NearTick /\ Mid' = Mid
  <2>1. Cap(0)' = k + 1 + Delay
    BY <1>1, <1>2 DEF Cap
  <2>2. Cap(0)' = Cap(0)
    BY <1>2, <2>1
  <2> QED
    BY <1>1, <2>2 DEF Cap, Ahead, Late, Start, NearTick, Mid
<1>4. /\ Agree'
      /\ ~dropped[0] => k <= wm[0]
      /\ ~dropped[1] => \A p \in played'[0] : p.tick >= tick[1] =>
           (p.tick < Cap(1) /\ p.in[1] = ring[1][1][RingSlot(p.tick)]) \/ Beyond(p.tick)
      /\ ~dropped[1] => \A r \in Nat : Pending(r) =>
           /\ Ahead > 0 /\ r <= R
           /\ \A p \in played'[0] : p.tick >= r =>
                p.in[1] = Idle /\ (p.tick < r + Delay \/ (r < R /\ p.tick >= R))
  BY <1>g, HostPlays
<1>5. /\ \A p \in played'[0] : p \in played[0] \/ (~dropped[0] /\ p.tick = k)
      /\ \A t, v : Right(0, t, v) => \A p \in played'[0] : p.tick = t => p.in[0] = v
  BY <1>0, <1>g, GamePlayed
<1>6. t1 \in Seq(Frame) /\ \A f \in Elems(t1) : f.type = "CRC" /\ f.tick = k
  BY <1>0, ReportMade
<1> HIDE DEF t1
<1>7. Basic'
  <2>1. \A p \in played'[0] : p.tick < k + 1
    <3> SUFFICES ASSUME NEW p \in played'[0] PROVE p.tick < k + 1
      OBVIOUS
    <3>1. CASE p \in played[0]
      <4>1. p.tick \in Nat /\ p.tick < k
        BY <1>0, <1>2, <3>1 DEF Paced, Basic
      <4> QED
        BY <1>2, <4>1
    <3>2. CASE p.tick = k
      BY <1>2, <3>2
    <3> QED
      BY <1>5, <3>1, <3>2
  <2>2. \A d \in Seats : tick[d] <= tick'[d]
    <3>1. tick[0] <= tick'[0] /\ tick[1] <= tick'[1]
      BY <1>1, <1>2
    <3> QED
      BY <1>0, <3>1
  <2>3. resume'[0] <= tick'[0] /\ k < tick'[0]
    BY <1>1, <1>2
  <2>4. "pass" \notin Pumping
    BY DEF Pumping
  <2>5. \A f \in Elems(t1) : /\ f.type \notin {"PEER_LEFT", "RESYNC"}
                             /\ f.type = "CRC" => f.tick < tick'[0]
    BY <1>6, <2>3
  <2> QED
    BY <1>0, <1>1, <1>2, <1>3, <1>6, <2>1, <2>2, <2>3, <2>4, <2>5, BasicSent DEF Paced
<1>8. Shared'
  BY <1>1, <1>3 DEF Paced, Shared
<1>9. ASSUME ~dropped'[0] PROVE HostSide'
  <2>0. HostQueue /\ HostClock /\ HostRight /\ HostBound /\ ~dropped[0]
    BY <1>1, <1>9 DEF Paced, HostSide
  <2>1. HostQueue'
    BY <1>1, <1>3, <2>0 DEF HostQueue
  <2>2. HostClock'
    <3>1. tick'[0] <= wm[0] + 1 /\ wm[0] <= tick'[0] + 2 * Delay + 1
      <4>1. k <= wm[0] /\ wm[0] <= k + 2 * Delay + 1
        BY <1>4, <2>0 DEF HostClock
      <4>2. tick'[0] = k + 1
        BY <1>1
      <4>3. k \in Nat /\ wm[0] \in Nat /\ Delay \in Nat
        BY <1>2
      <4> HIDE DEF k
      <4> QED
        BY <4>1, <4>2, <4>3
    <3>2. ASSUME NEW x \in CrcSlots
          PROVE  \/ rec'[0][x].tick = TickMod - 1
                 \/ /\ rec'[0][x].tick % CrcPeriod = 0
                    /\ R <= rec'[0][x].tick /\ rec'[0][x].tick < tick'[0]
      <4>0. rec[0] \in [CrcSlots -> [tick : Nat, crc : Crc]]
        BY <1>0, <1>t
      <4>1. CASE rec'[0][x] = rec[0][x]
        <5>1. CASE rec[0][x].tick = TickMod - 1
          BY <4>1, <5>1
        <5>2. CASE rec[0][x].tick # TickMod - 1
          <6>1. /\ rec[0][x].tick \in Nat /\ rec[0][x].tick % CrcPeriod = 0
                /\ R <= rec[0][x].tick /\ rec[0][x].tick < k
            BY <2>0, <4>0, <5>2 DEF HostClock
          <6>2. tick'[0] = k + 1 /\ k \in Nat
            BY <1>1, <1>2
          <6>3. rec[0][x].tick < tick'[0]
            <7> HIDE DEF k
            <7> QED
              BY <6>1, <6>2, SMTT(30)
          <6> QED
            BY <4>1, <6>1, <6>3
        <5> QED
          BY <5>1, <5>2
      <4>2. CASE rec'[0][x].tick = k /\ k % CrcPeriod = 0
        BY <1>1, <1>2, <4>2
      <4>3. rec'[0][x] = rec[0][x] \/ (rec'[0][x].tick = k /\ k % CrcPeriod = 0)
        <5>1. CASE k % CrcPeriod = 0
          <6>1. rec'[0] = [rec[0] EXCEPT ![CrcSlot(k)] = [tick |-> k, crc |-> LS_CKSUM(Simulated(0))]]
            BY <1>1, <5>1 DEF Recorded, CrcDue
          <6> QED
            BY <4>0, <5>1, <6>1
        <5>2. CASE k % CrcPeriod # 0
          BY <1>1, <5>2 DEF Recorded, CrcDue
        <5> QED
          BY <5>1, <5>2
      <4> QED
        BY <4>1, <4>2, <4>3
    <3> QED
      BY <1>1, <1>3, <2>0, <3>1, <3>2 DEF HostClock
  <2>3. HostRight'
    <3>1. \A t, v : Right(1, t, v) <=> Right(1, t, v)'
      BY <1>1 DEF Right, Owns
    <3> SUFFICES ASSUME Ahead = 0 PROVE HostRight'
      BY <1>3 DEF HostRight
    <3>2. ASSUME NEW t \in tick'[0] .. wm[0] PROVE Right(1, t, ring[0][1][RingSlot(t)])'
      <4>1. t \in tick[0] .. wm[0]
        BY <1>1, <1>2
      <4>2. Right(1, t, ring[0][1][RingSlot(t)])
        BY <2>0, <4>1 DEF HostRight
      <4> QED
        BY <1>1, <4>2 DEF Right, Owns
    <3>3. ASSUME NEW f \in Kind(chan[0], "INPUT"), f.tick > wm[0]
          PROVE  Right(1, f.tick, f.in)' /\ f.tick <= tick'[0] + 2 * Delay + 1
      <4>1. Right(1, f.tick, f.in) /\ f.tick <= k + 2 * Delay + 1 /\ f.tick \in Nat
        BY <1>0, <2>0, <3>3, Flat, HostTypes DEF HostRight, Kind
      <4>2. tick'[0] = k + 1 /\ k \in Nat /\ Delay \in Nat
        BY <1>1, <1>2
      <4>3. f.tick <= tick'[0] + 2 * Delay + 1
        <5> HIDE DEF k
        <5> QED
          BY <4>1, <4>2, SMTT(30)
      <4> QED
        BY <3>1, <4>1, <4>3
    <3> QED
      BY <1>1, <1>3, <2>0, <3>1, <3>2, <3>3 DEF HostRight
  <2>4. HostBound'
    <3> SUFFICES ASSUME NEW q \in played[1], q.tick >= k + 1
                 PROVE  q.tick < Cap(0) /\ q.in[0] = ring[0][0][RingSlot(q.tick)]
      BY <1>1, <1>3 DEF HostBound
    <3>1. q.tick >= k
      BY <1>2, SMTT(30)
    <3> QED
      BY <2>0, <3>1 DEF HostBound
  <2> QED
    BY <2>1, <2>2, <2>3, <2>4 DEF HostSide
<1>10. ASSUME ~dropped'[1] PROVE GuestSide'
  <2>0. GuestQueue /\ GuestRight /\ GuestBound /\ ~dropped[1]
    BY <1>1, <1>10 DEF Paced, GuestSide
  <2>1. \A b \in Kind(s, "BEGIN") : b.tick \in Nat /\ b.tick <= k
    <3> SUFFICES ASSUME NEW b \in Kind(s, "BEGIN") PROVE b.tick \in Nat /\ b.tick <= k
      OBVIOUS
    <3>1. b.tick \in Nat
      BY <1>2, ElemType DEF Kind
    <3>2. b.tick <= R
      BY <1>4, <2>0, <3>1 DEF Pending
    <3> QED
      BY <1>2, <3>1, <3>2
  <2>2. hold[1] => resume[1] <= k
    <3> SUFFICES ASSUME hold[1] PROVE resume[1] <= k
      OBVIOUS
    <3>1. resume[1] <= R
      BY <1>2, <1>4, <2>0 DEF Pending, Mid
    <3> QED
      BY <1>2, <3>1
  <2>3. /\ Chain(chan'[1], Start, Cap(0))
        /\ room => Full(chan'[1], Start, Cap(0))
        /\ Reports(chan'[1], Start)
        /\ Spaced(chan'[1], Start)
        /\ Kind(chan'[1], "INPUT") = Kind(s, "INPUT")
        /\ Kind(chan'[1], "BEGIN") = Kind(s, "BEGIN")
        /\ \A f \in Kind(chan'[1], "CRC") : f \in Kind(s, "CRC") \/ f.tick = k
    <3>1. CASE ~room
      BY <1>1, <2>0, <3>1 DEF GuestQueue
    <3>2. CASE room
      <4>1. /\ Chain(s, Start, k + Delay + 1) /\ Full(s, Start, k + Delay + 1)
            /\ Reports(s, Start) /\ Spaced(s, Start)
        BY <1>2, <2>0, <3>2 DEF GuestQueue
      <4>a. s \in Seq(Frame) /\ t1 \in Seq(Frame) /\ Start \in Int /\ k \in Nat
        BY <1>2, <1>6
      <4>b. \A b \in Kind(s, "BEGIN") : b.tick <= k
        BY <2>1
      <4>c. \A f \in Elems(t1) : f.type = "CRC" /\ f.tick = k
        BY <1>6
      <4> HIDE DEF s, k
      <4>2. /\ Chain(s \o t1, Start, k + Delay + 1)
            /\ Full(s \o t1, Start, k + Delay + 1)
            /\ Reports(s \o t1, Start)
            /\ Spaced(s \o t1, Start)
            /\ Kind(s \o t1, "INPUT") = Kind(s, "INPUT")
            /\ Kind(s \o t1, "BEGIN") = Kind(s, "BEGIN")
            /\ \A f \in Kind(s \o t1, "CRC") : f \in Kind(s, "CRC") \/ f.tick = k
        BY <4>a, <4>b, <4>c, <4>1, SendCrc
      <4> QED
        BY <1>1, <1>2, <3>2, <4>2
    <3> QED
      BY <3>1, <3>2
  <2>4. \A r : Pending(r)' <=> Pending(r)
    BY <1>3, <2>3 DEF Pending
  <2>5. GuestQueue'
    <3>1. /\ Near(chan'[1], NearTick) /\ Images(chan'[1], Mid, R, Ahead)
          /\ Ahead > 0 => Last(chan'[1], Mid, R)
      BY <2>0, <2>3 DEF GuestQueue, Near, Images, Last
    <3>2. Ahead > 0 /\ room => Pending(R)'
      <4>1. Ahead > 0 /\ room => Pending(R)
        BY <2>0 DEF GuestQueue
      <4> QED
        BY <1>1, <1>3, <2>3, <4>1 DEF Pending
    <3>3. \A f \in Kind(chan'[1], "CRC") : (hold[1] => f.tick >= resume[1]) /\ (Ahead = 0 => f.tick >= R)
      <4> SUFFICES ASSUME NEW f \in Kind(chan'[1], "CRC")
                   PROVE  (hold[1] => f.tick >= resume[1]) /\ (Ahead = 0 => f.tick >= R)
        OBVIOUS
      <4>1. CASE f \in Kind(s, "CRC")
        BY <2>0, <4>1 DEF GuestQueue
      <4>2. CASE f.tick = k
        BY <1>2, <2>2, <4>2
      <4> QED
        BY <2>3, <4>1, <4>2
    <3>4. /\ Ahead > 0 => wm[1] <= Limit(R)
          /\ hold[1] => wm[1] <= Limit(resume[1])
      BY <2>0 DEF GuestQueue
    <3> QED
      BY <1>1, <1>3, <2>3, <3>1, <3>2, <3>3, <3>4 DEF GuestQueue
  <2>6. ASSUME NEW t \in Nat, NEW v, Right(0, t, v) PROVE Right(0, t, v)'
    <3>1. \A p \in played'[0] : p.tick = t => p.in[0] = v
      BY <1>5, <2>6
    <3>2. t >= k + 1 => t >= k
      BY <1>2
    <3> QED
      BY <1>1, <2>6, <3>1, <3>2 DEF Right, Owns
  <2>7. ASSUME NEW r \in Nat, Pending(r) PROVE ImageRight(r)'
    <3>0. ImageRight(r)
      BY <2>0, <2>7 DEF GuestRight
    <3>1. \A p \in played'[0] : p.tick >= r =>
            p.in[1] = Idle /\ (p.tick < r + Delay \/ (r < R /\ p.tick >= R))
      BY <1>4, <2>0, <2>7
    <3>2. ASSUME NEW t \in r .. r + Delay - 1 PROVE Right(0, t, Idle)'
      <4>1. t \in Nat
        BY <1>2
      <4> QED
        BY <2>6, <3>0, <4>1 DEF ImageRight
    <3> QED
      BY <1>1, <1>3, <3>0, <3>1, <3>2 DEF ImageRight
  <2>8. GuestRight'
    <3>1. ASSUME NEW t \in tick[1] .. wm[1] PROVE Right(0, t, ring[1][0][RingSlot(t)])'
      <4>1. t \in Nat /\ Right(0, t, ring[1][0][RingSlot(t)])
        BY <1>2, <2>0 DEF GuestRight
      <4> DEFINE v == ring[1][0][RingSlot(t)]
      <4>3. ring'[1][0][RingSlot(t)] = v
        BY <1>1
      <4>4. \A vv : vv = v => Right(0, t, vv)'
        BY <2>6, <4>1
      <4> QED
        BY <4>3, <4>4
    <3>2. ASSUME NEW f \in Kind(chan'[1], "INPUT") PROVE Right(0, f.tick, f.in)'
      <4>1. f.tick \in Nat /\ Right(0, f.tick, f.in)
        BY <1>2, <2>0, <2>3, ElemType DEF GuestRight, Kind
      <4> QED
        BY <2>6, <4>1
    <3>3. \A r \in Nat : Pending(r)' => ImageRight(r)'
      BY <2>4, <2>7
    <3>4. wm'[1] < Cap(0)' /\ tick'[1] <= wm'[1] + 1 /\ wm'[1] <= tick'[1] + 2 * Delay + 1
      BY <1>1, <1>3, <2>0 DEF GuestRight
    <3> QED
      BY <1>1, <3>1, <3>2, <3>3, <3>4 DEF GuestRight
  <2>9. GuestBound'
    <3>1. \A y : Beyond(y) => Beyond(y)'
      BY <1>1, <1>3, <2>3 DEF Beyond
    <3> QED
      BY <1>1, <1>3, <1>4, <2>0, <3>1 DEF GuestBound
  <2> QED
    BY <2>5, <2>8, <2>9 DEF GuestSide
<1> QED
  BY <1>4, <1>7, <1>8, <1>9, <1>10 DEF Paced

LEMMA GuestRunStep ==
  ASSUME TypeOK, TypeOK', Sized, Paced, RunTick(1)
  PROVE  Paced'
<1> USE DEF engine, recovery, history
<1> DEFINE s == chan[0]
           k == tick[1]
           t1 == CrcReport(1)
           R == resume[0]
<1>0. 0 \in Seats /\ 1 \in Seats /\ (\A c \in Seats : c = 0 \/ c = 1) /\ Other(1) = 0
  BY Flat DEF Other
<1>t. tick \in [Seats -> Nat] /\ chan \in [Seats -> Seq(Frame)] /\ rec \in [Seats -> [CrcSlots -> [tick : Nat, crc : Crc]]]
  BY DEF TypeOK, EngineType, ChanType, RecoveryType
<1>g. GameTick(1)
  BY DEF RunTick
<1>1. /\ UNCHANGED <<ring, wm, rebases, hold, pend, resume, dropped, room>>
      /\ chan'[1] = chan[1] /\ chan'[0] = IF room THEN s \o t1 ELSE s
      /\ tick'[1] = k + 1 /\ tick'[0] = tick[0]
      /\ rec'[0] = rec[0]
      /\ pc[1] = "gate" /\ pc'[1] = "pass" /\ pc'[0] = pc[0] /\ played'[0] = played[0]
  <2>1. /\ UNCHANGED <<ring, wm, rebases, hold, pend, resume>> /\ chan' = Relayed(1, t1)
        /\ tick' = [tick EXCEPT ![1] = @ + 1] /\ rec' = [rec EXCEPT ![1] = Recorded(1)]
    BY DEF RunTick
  <2>2. /\ pc[1] = "gate" /\ pc'[1] = "pass" /\ UNCHANGED <<dropped, room>>
        /\ pc'[0] = pc[0] /\ played'[0] = played[0]
    BY <1>0, <1>g, GamePlayed
  <2>3. chan'[1] = chan[1] /\ chan'[0] = IF room THEN s \o t1 ELSE s
    BY <1>0, <1>t, <2>1 DEF Relayed
  <2> QED
    BY <1>0, <1>t, <2>1, <2>2, <2>3
<1>2. /\ k \in Nat /\ tick[0] \in Nat /\ wm[0] \in Nat /\ wm[1] \in Nat /\ R \in Nat /\ resume[1] \in Nat
      /\ s \in Seq(Frame) /\ Cap(0) \in Nat /\ Cap(1) \in Nat
      /\ Delay \in Nat /\ Delay >= 1 /\ Start \in Int /\ NearTick \in Int
      /\ Ahead \in 0 .. 2 /\ Cap(1) = k + Delay + 1
      /\ (\A p \in played[0] : p.tick \in Nat) /\ (\A p \in played[1] : p.tick \in Nat)
  <2>1. Cap(1) = k + Delay + 1
    BY <1>0, <1>g, GamePlayed
  <2>2. Ahead \in 0 .. 2
    BY DEF Paced, Basic
  <2> QED
    BY <1>0, <2>1, <2>2, Flat
<1>3. /\ Cap(0)' = Cap(0) /\ Cap(1)' = Cap(1) /\ Ahead' = Ahead
      /\ Start' = Start /\ Mid' = Mid
      /\ Late = 0 /\ Late' = IF dropped[1] THEN 1 ELSE 0
  <2>1. Cap(1)' = k + 1 + Delay
    BY <1>1, <1>2 DEF Cap
  <2>2. Cap(1)' = Cap(1)
    BY <1>2, <2>1
  <2> QED
    BY <1>1, <2>2 DEF Cap, Ahead, Late, Start, Mid
<1>4. ~dropped[1] => /\ k <= wm[1] /\ wm[1] < Cap(0)
                     /\ Right(0, k, ring[1][0][RingSlot(k)])
                     /\ Ahead > 0 => wm[1] <= Limit(R)
  <2> SUFFICES ASSUME ~dropped[1]
               PROVE  /\ k <= wm[1] /\ wm[1] < Cap(0)
                      /\ Right(0, k, ring[1][0][RingSlot(k)])
                      /\ Ahead > 0 => wm[1] <= Limit(R)
    OBVIOUS
  <2>1. GuestRight /\ GuestQueue
    BY DEF Paced, GuestSide
  <2>2. k <= wm[1]
    <3>1. tick[1] <= wm[1] + 1 /\ GateOpen(1)
      BY <1>0, <1>g, <2>1, GamePlayed DEF GuestRight
    <3> QED
      BY <1>0, <3>1, GateExact
  <2>3. k \in tick[1] .. wm[1]
    BY <1>2, <2>2
  <2> QED
    BY <2>1, <2>2, <2>3 DEF GuestRight, GuestQueue
<1>5. \A q \in played'[1] :
        \/ q \in played[1]
        \/ /\ ~dropped[1] /\ q.tick = k /\ q.in \in [Seats -> Inputs]
           /\ q.in[0] = ring[1][0][RingSlot(k)] /\ q.in[1] = ring[1][1][RingSlot(k)]
  BY <1>0, <1>g, GamePlayed
<1>6. \/ t1 = << >>
      \/ \E x \in Frame : t1 = <<x>> /\ x.type = "CRC" /\ x.tick = k /\ k % CrcPeriod = 0
  BY <1>0, ReportMade
<1>7. t1 \in Seq(Frame) /\ \A f \in Elems(t1) : f.type = "CRC"
  BY <1>0, ReportMade
<1> HIDE DEF t1
<1>8. Ahead > 0 => k < R
  BY <1>3, <1>2 DEF Paced, Shared
<1>9. Basic'
  <2>1. \A q \in played'[1] : q.tick < k + 1
    <3> SUFFICES ASSUME NEW q \in played'[1] PROVE q.tick < k + 1
      OBVIOUS
    <3>1. CASE q \in played[1]
      <4>1. q.tick \in Nat /\ q.tick < k
        BY <1>0, <1>2, <3>1 DEF Paced, Basic
      <4> QED
        BY <1>2, <4>1
    <3>2. CASE q.tick = k
      BY <1>2, <3>2
    <3> QED
      BY <1>5, <3>1, <3>2
  <2>2. \A d \in Seats : tick[d] <= tick'[d]
    <3>1. tick[0] <= tick'[0] /\ tick[1] <= tick'[1]
      BY <1>1, <1>2
    <3> QED
      BY <1>0, <3>1
  <2>3. resume'[0] <= tick'[0]
    BY <1>1 DEF Paced, Basic
  <2>4. "pass" \notin Pumping
    BY DEF Pumping
  <2>5. \A f \in Elems(t1) : f.type = "CRC"
    BY <1>7
  <2> QED
    BY <1>0, <1>1, <1>2, <1>3, <1>7, <2>1, <2>2, <2>3, <2>4, <2>5, BasicSent DEF Paced
<1>10. /\ Asked(chan'[0], R, Ahead, pend[0], pend[1])
       /\ Kind(chan'[0], "INPUT") = Kind(s, "INPUT")
       /\ \A f \in Kind(chan'[0], "CRC") : f \in Kind(s, "CRC") \/ (f.tick = k /\ k % CrcPeriod = 0)
       /\ ~dropped[0] => HostQueue'
  <2>0. Asked(s, R, Ahead, pend[0], pend[1])
    BY DEF Paced, Shared
  <2>1. CASE ~room \/ t1 = << >>
    <3>0. s \o << >> = s
      <4>1. s \in Seq(Frame)
        BY <1>2
      <4> HIDE DEF s
      <4> QED
        BY <4>1
    <3>1. chan'[0] = s
      BY <1>1, <2>1, <3>0
    <3>2. ~dropped[0] => HostQueue'
      BY <1>1, <1>3, <3>1 DEF Paced, HostSide, HostQueue
    <3> QED
      BY <2>0, <3>1, <3>2
  <2>2. CASE room /\ t1 # << >>
    <3>1. PICK x \in Frame : t1 = <<x>> /\ x.type = "CRC" /\ x.tick = k /\ k % CrcPeriod = 0
      BY <1>6, <2>2
    <3>2. chan'[0] = s \o <<x>>
      BY <1>1, <2>2, <3>1
    <3>3. Timed(x) /\ Due(x) = k + Delay + 1
      BY <3>1 DEF Timed, Due
    <3>4. R \in Int /\ Ahead \in 0 .. 2 /\ wm[0] \in Int /\ s \in Seq(Frame)
      BY <1>2
    <3>5. /\ Asked(s \o <<x>>, R, Ahead, pend[0], pend[1])
          /\ Kind(s \o <<x>>, "INPUT") = Kind(s, "INPUT")
          /\ Kind(s \o <<x>>, "CRC") = Kind(s, "CRC") \cup {x}
      <4>1. /\ Asked(s \o <<x>>, R, Ahead, pend[0], pend[1])
            /\ \A type : Kind(s \o <<x>>, type) = IF type = x.type THEN Kind(s, type) \cup {x} ELSE Kind(s, type)
        BY <2>0, <3>3, <3>4, SendTimed
      <4>2. "INPUT" # x.type /\ "CRC" = x.type
        BY <3>1
      <4> QED
        BY <4>1, <4>2
    <3>6. ASSUME ~dropped[0] PROVE HostQueue'
      <4>0. HostQueue /\ HostClock
        BY <3>6 DEF Paced, HostSide
      <4>1. wm[0] <= Due(x) + Ahead * Leap /\ (Ahead = 0 => wm[0] < Due(x))
        <5>1. Due(x) = Cap(1)
          BY <1>2, <3>3
        <5>2. IF Ahead = 0 THEN wm[0] < Cap(1) ELSE wm[0] <= Cap(1) + Ahead * Leap
          BY <4>0 DEF HostClock
        <5>3. CASE Ahead = 0
          <6>1. Ahead * Leap = 0
            BY <1>0, <5>3, Flat
          <6> QED
            BY <1>2, <5>1, <5>2, <5>3, <6>1
        <5>4. CASE Ahead # 0
          BY <5>1, <5>2, <5>4
        <5> QED
          BY <5>3, <5>4
      <4>2. Ahead > 0 => Old(x, R)
        BY <1>8, <3>1 DEF Old
      <4>3. \A f \in Elems(s) : Timed(f) =>
              IF f.type = x.type THEN f.tick < x.tick
              ELSE IF f.type = "INPUT" THEN f.tick < Due(x) ELSE Due(f) <= x.tick
        <5> SUFFICES ASSUME NEW f \in Elems(s), Timed(f)
                     PROVE  IF f.type = x.type THEN f.tick < x.tick
                            ELSE IF f.type = "INPUT" THEN f.tick < Due(x) ELSE Due(f) <= x.tick
          OBVIOUS
        <5>1. CASE f.type = "CRC"
          BY <3>1, <5>1 DEF Paced, Shared, Kind
        <5>2. CASE f.type = "INPUT"
          <6>1. f.tick < Cap(1)
            BY <5>2 DEF Paced, Shared, Kind
          <6>2. f.tick < Due(x)
            BY <1>2, <3>3, <6>1
          <6> QED
            BY <3>1, <5>2, <6>2
        <5> QED
          BY <5>1, <5>2 DEF Timed
      <4>4. Lag(s, wm[0], R, Ahead, pend[0]) /\ Sorted(s)
        BY <4>0 DEF HostQueue
      <4>5. Lag(s \o <<x>>, wm[0], R, Ahead, pend[0])
        BY <2>0, <3>3, <3>4, <4>1, <4>2, <4>4, SendTimed
      <4>6. Sorted(s \o <<x>>)
        BY <2>0, <3>3, <3>4, <4>3, <4>4, SendTimed
      <4> QED
        BY <1>1, <1>3, <3>2, <4>5, <4>6 DEF HostQueue
    <3> QED
      BY <3>1, <3>2, <3>5, <3>6
  <2> QED
    BY <2>1, <2>2
<1>11. Shared'
  <2>1. IF Ahead = 0 THEN k + 1 <= Cap(0) + Late' ELSE k + 1 < R + Late'
    <3>0. IF Ahead = 0 THEN k <= Cap(0) ELSE k < R
      BY <1>2, <1>3 DEF Paced, Shared
    <3>1. CASE dropped[1]
      <4>1. Late' = 1
        BY <1>3, <3>1
      <4>2. k \in Nat /\ R \in Nat /\ Cap(0) \in Nat
        BY <1>2
      <4> HIDE DEF k, R
      <4> QED
        BY <3>0, <4>1, <4>2, SMTT(30)
    <3>2. CASE ~dropped[1]
      <4>1. Late' = 0
        BY <1>3, <3>2
      <4>2. k + 1 <= Cap(0)
        BY <1>2, <1>4, <3>2
      <4>3. Ahead > 0 => k + 1 < R
        <5>1. Ahead > 0 => k <= wm[1] /\ wm[1] <= R - 1 - ResumeGap + Delay
          BY <1>4, <3>2 DEF Limit
        <5>2. ResumeGap > Delay /\ ResumeGap \in Nat
          BY Flat DEF Sized
        <5> QED
          BY <1>2, <5>1, <5>2, SMTT(30)
      <4> QED
        BY <1>2, <4>1, <4>2, <4>3
    <3> QED
      BY <3>1, <3>2
  <2>2. Ahead > 0 => \A q \in played'[1] : q.tick < R
    BY <1>5, <1>8 DEF Paced, Shared
  <2>3. \A f \in Kind(chan'[0], "CRC") : f.tick < k + 1 /\ f.tick % CrcPeriod = 0
    <3> SUFFICES ASSUME NEW f \in Kind(chan'[0], "CRC") PROVE f.tick < k + 1 /\ f.tick % CrcPeriod = 0
      OBVIOUS
    <3>1. CASE f \in Kind(s, "CRC")
      <4>1. f.tick < k /\ f.tick % CrcPeriod = 0
        BY <3>1 DEF Paced, Shared
      <4>2. f.tick \in Nat
        BY <1>2, <3>1, HostTypes DEF Kind
      <4> QED
        BY <1>2, <4>1, <4>2
    <3>2. CASE f.tick = k /\ k % CrcPeriod = 0
      BY <1>2, <3>2
    <3> QED
      BY <1>10, <3>1, <3>2
  <2>4. \A f \in Kind(chan'[0], "INPUT") : f.tick < Cap(1)
    BY <1>10 DEF Paced, Shared
  <2> QED
    BY <1>1, <1>3, <1>10, <2>1, <2>2, <2>3, <2>4 DEF Shared
<1>12. Agree'
  <2> SUFFICES ASSUME NEW p \in played[0], NEW q \in played'[1], p.tick = q.tick PROVE p.in = q.in
    BY <1>1 DEF Agree
  <2>1. CASE q \in played[1]
    BY <2>1 DEF Paced, Agree
  <2>2. CASE q \notin played[1]
    <3>1. /\ ~dropped[1] /\ q.tick = k /\ q.in \in [Seats -> Inputs]
          /\ q.in[0] = ring[1][0][RingSlot(k)] /\ q.in[1] = ring[1][1][RingSlot(k)]
      BY <1>5, <2>2
    <3>2. p.in \in [Seats -> Inputs]
      BY <1>0, Flat
    <3>3. p.in[0] = q.in[0]
      BY <1>4, <3>1 DEF Right, Owns
    <3>4. ~Beyond(p.tick)
      <4>1. ~(k > wm[1])
        BY <1>2, <1>4, <3>1
      <4> QED
        BY <3>1, <4>1 DEF Beyond
    <3>5. p.in[1] = ring[1][1][RingSlot(p.tick)]
      <4>1. p.tick >= tick[1]
        BY <1>2, <3>1
      <4> QED
        BY <3>1, <3>4, <4>1 DEF Paced, GuestSide, GuestBound
    <3> QED
      BY <1>0, <3>1, <3>2, <3>3, <3>5
  <2> QED
    BY <2>1, <2>2
<1>13. ASSUME ~dropped'[0] PROVE HostSide'
  <2>0. HostQueue /\ HostClock /\ HostRight /\ HostBound /\ ~dropped[0]
    BY <1>1, <1>13 DEF Paced, HostSide
  <2>1. HostClock'
    BY <1>1, <1>3, <2>0 DEF HostClock
  <2>2. ASSUME NEW t \in Nat, NEW v, Right(1, t, v) PROVE Right(1, t, v)'
    <3>1. \A q \in played'[1] : q.tick = t => q.in[1] = v
      BY <1>0, <1>g, <2>2, GamePlayed
    <3>2. t >= k + 1 => t >= k
      BY <1>2
    <3> QED
      BY <1>1, <2>2, <3>1, <3>2 DEF Right, Owns
  <2>3. HostRight'
    <3> SUFFICES ASSUME Ahead = 0 PROVE HostRight'
      BY <1>3 DEF HostRight
    <3>2. ASSUME NEW t \in tick[0] .. wm[0] PROVE Right(1, t, ring[0][1][RingSlot(t)])'
      <4>1. t \in Nat /\ Right(1, t, ring[0][1][RingSlot(t)])
        BY <1>2, <2>0 DEF HostRight
      <4> DEFINE v == ring[0][1][RingSlot(t)]
      <4>3. ring'[0][1][RingSlot(t)] = v
        BY <1>1
      <4>4. \A vv : vv = v => Right(1, t, vv)'
        BY <2>2, <4>1
      <4> QED
        BY <4>3, <4>4
    <3>3. ASSUME NEW f \in Kind(chan[0], "INPUT"), f.tick > wm[0]
          PROVE  Right(1, f.tick, f.in)' /\ f.tick <= tick[0] + 2 * Delay + 1
      <4>1. Right(1, f.tick, f.in) /\ f.tick <= tick[0] + 2 * Delay + 1 /\ f.tick \in Nat
        BY <1>0, <2>0, <3>3, Flat, HostTypes DEF HostRight, Kind
      <4> QED
        BY <2>2, <4>1
    <3>4. ASSUME NEW t \in wm[0] + 1 .. Cap(1) - 1,
                 room \/ \E f \in Kind(chan[0], "INPUT") : f.tick >= t
          PROVE  \/ \E f \in Kind(chan[0], "INPUT") : f.tick = t
                 \/ t = resume[0] + Delay /\ Right(1, t, Idle)'
      <4>1. \/ \E f \in Kind(chan[0], "INPUT") : f.tick = t
            \/ t = resume[0] + Delay /\ Right(1, t, Idle)
        BY <2>0, <3>4 DEF HostRight
      <4>2. t \in Nat
        BY <1>2
      <4> QED
        BY <2>2, <4>1, <4>2
    <3> QED
      BY <1>1, <1>3, <1>10, <3>2, <3>3, <3>4 DEF HostRight
  <2>4. HostBound'
    <3> SUFFICES ASSUME NEW q \in played'[1], q.tick >= tick[0]
                 PROVE  q.tick < Cap(0) /\ q.in[0] = ring[0][0][RingSlot(q.tick)]
      BY <1>1, <1>3 DEF HostBound
    <3>1. CASE q \in played[1]
      BY <2>0, <3>1 DEF HostBound
    <3>2. CASE q \notin played[1]
      <4>1. /\ ~dropped[1] /\ q.tick = k
            /\ q.in[0] = ring[1][0][RingSlot(k)]
        BY <1>5, <3>2
      <4>2. k < Cap(0)
        BY <1>2, <1>4, <4>1
      <4>3. ring[0][0][RingSlot(k)] = ring[1][0][RingSlot(k)]
        BY <1>4, <2>0, <4>1 DEF Right, Owns
      <4> QED
        BY <4>1, <4>2, <4>3
    <3> QED
      BY <3>1, <3>2
  <2> QED
    BY <1>10, <2>0, <2>1, <2>3, <2>4 DEF HostSide
<1>14. ASSUME ~dropped'[1] PROVE GuestSide'
  <2>0. GuestQueue /\ GuestRight /\ GuestBound /\ ~dropped[1]
    BY <1>1, <1>14 DEF Paced, GuestSide
  <2>1. Near(chan[1], NearTick')
    <3>1. NearTick <= NearTick' /\ NearTick' \in Int
      <4>1. CASE hold[1]
        <5>1. NearTick' = NearTick
          BY <1>1, <4>1 DEF NearTick
        <5> QED
          BY <1>2, <5>1
      <4>2. CASE ~hold[1]
        <5>1. NearTick' = k + 1 + 2 * Delay + 1 /\ NearTick = k + 2 * Delay + 1
          BY <1>1, <4>2 DEF NearTick
        <5>2. k \in Nat /\ Delay \in Nat
          BY <1>2
        <5> HIDE DEF k
        <5> QED
          BY <5>1, <5>2
      <4> QED
        BY <4>1, <4>2
    <3>2. chan[1] \in Seq(Frame) /\ Near(chan[1], NearTick)
      BY <1>0, <1>t, <2>0 DEF GuestQueue
    <3>3. ASSUME NEW more \in Int, NearTick <= more PROVE Near(chan[1], more)
      BY <1>2, <3>2, <3>3, NearMore
    <3> QED
      BY <3>1, <3>3
  <2>2. \A r : Pending(r)' <=> Pending(r)
    BY <1>1, <1>3 DEF Pending
  <2>3. GuestQueue'
    BY <1>1, <1>3, <2>0, <2>1, <2>2 DEF GuestQueue, Pending
  <2>4. \A r : ImageRight(r) => ImageRight(r)'
    BY <1>1, <1>3 DEF ImageRight, Right, Owns
  <2>5. GuestRight'
    <3>1. k + 1 <= wm[1] + 1 /\ wm[1] <= k + 1 + 2 * Delay + 1
      <4>1. k <= wm[1] /\ wm[1] <= k + 2 * Delay + 1
        BY <1>4, <2>0 DEF GuestRight
      <4>2. k \in Nat /\ wm[1] \in Nat /\ Delay \in Nat
        BY <1>2
      <4> HIDE DEF k
      <4> QED
        BY <4>1, <4>2
    <3>2. ASSUME NEW t \in k + 1 .. wm[1] PROVE Right(0, t, ring[1][0][RingSlot(t)])'
      <4>1. t \in tick[1] .. wm[1]
        BY <1>2
      <4>2. Right(0, t, ring[1][0][RingSlot(t)])
        BY <2>0, <4>1 DEF GuestRight
      <4> QED
        BY <1>1, <4>2 DEF Right, Owns
    <3>3. \A f \in Kind(chan[1], "INPUT") : Right(0, f.tick, f.in)'
      BY <1>1, <2>0 DEF GuestRight, Right, Owns
    <3>4. \A r \in Nat : Pending(r)' => ImageRight(r)'
      BY <2>0, <2>2, <2>4 DEF GuestRight
    <3> QED
      BY <1>1, <1>3, <2>0, <3>1, <3>2, <3>3, <3>4 DEF GuestRight
  <2>6. GuestBound'
    <3> SUFFICES ASSUME NEW p \in played[0], p.tick >= k + 1
                 PROVE  (p.tick < Cap(1) /\ p.in[1] = ring[1][1][RingSlot(p.tick)]) \/ Beyond(p.tick)'
      BY <1>1, <1>3 DEF GuestBound
    <3>1. p.tick >= tick[1]
      BY <1>2, SMTT(30)
    <3>2. Beyond(p.tick) => Beyond(p.tick)'
      BY <1>1, <1>3 DEF Beyond
    <3> QED
      BY <2>0, <3>1, <3>2 DEF GuestBound
  <2> QED
    BY <2>3, <2>5, <2>6 DEF GuestSide
<1> QED
  BY <1>9, <1>11, <1>12, <1>13, <1>14 DEF Paced

\* An image on the wire has one BEGIN, for the tick it resumes at.
LEMMA ImageMade ==
  ASSUME TypeOK, NEW r \in Nat
  PROVE  /\ Image(0, r) \in Seq(Frame)
         /\ BeginFrame(r) \in Elems(Image(0, r)) /\ BeginFrame(r).type = "BEGIN" /\ BeginFrame(r).tick = r
         /\ ~Before(Image(0, r), BeginFrame(r), BeginFrame(r))
         /\ \A f \in Elems(Image(0, r)) : f = BeginFrame(r) \/ f.type \in {"CHUNK", "END"}
<1> DEFINE chunks == [k \in Parts |-> ChunkFrame(k, Simulated(0)[k])]
           body == <<BeginFrame(r)>> \o chunks
           im == body \o <<EndFrame>>
           b == BeginFrame(r)
<1>0. 0 \in Seats
  BY DEF Seats
<1>1. /\ chunks \in Seq(Frame) /\ Len(chunks) = NChunks
      /\ \A k \in Parts : chunks[k].type = "CHUNK"
  <2>1. \A k \in Parts : ChunkFrame(k, Simulated(0)[k]) \in Frame
    BY <1>0, TickType, FrameType
  <2>2. chunks \in Seq(Frame) /\ Len(chunks) = NChunks
    BY <2>1, ConstantAssumption DEF Parts
  <2>3. \A k \in Parts : chunks[k].type = "CHUNK"
    BY DEF ChunkFrame
  <2> QED
    BY <2>2, <2>3
<1> HIDE DEF chunks
<1>2. b \in Frame /\ EndFrame \in Frame /\ b.type = "BEGIN" /\ b.tick = r /\ EndFrame.type = "END"
  BY FrameType DEF BeginFrame, EndFrame
<1> HIDE DEF b
<1>3. /\ body \in Seq(Frame) /\ Len(body) = NChunks + 1
      /\ body[1] = b
      /\ \A i \in 2 .. NChunks + 1 : body[i] = chunks[i - 1]
  BY <1>1, <1>2, ConstantAssumption DEF b
<1> HIDE DEF body
<1>4. /\ im \in Seq(Frame) /\ Len(im) = NChunks + 2
      /\ \A i \in 1 .. NChunks + 1 : im[i] = body[i]
      /\ im[NChunks + 2] = EndFrame
  BY <1>2, <1>3, ConstantAssumption
<1> HIDE DEF im
<1>5. \A i \in 2 .. NChunks + 1 : im[i].type = "CHUNK"
  BY <1>1, <1>3, <1>4, ConstantAssumption DEF Parts
<1>6. im[NChunks + 2].type = "END"
  BY <1>2, <1>4
<1>7. im[1] = b /\ 1 \in 1 .. Len(im)
  BY <1>3, <1>4, ConstantAssumption
<1>8. \A i \in 1 .. Len(im) : i = 1 \/ im[i].type \in {"CHUNK", "END"}
  <2> SUFFICES ASSUME NEW i \in 1 .. Len(im), i # 1 PROVE im[i].type \in {"CHUNK", "END"}
    OBVIOUS
  <2>1. i \in 2 .. NChunks + 1 \/ i = NChunks + 2
    BY <1>4, ConstantAssumption
  <2> QED
    BY <1>5, <1>6, <2>1
<1>9. b \in Elems(im) /\ \A f \in Elems(im) : f = b \/ f.type \in {"CHUNK", "END"}
  BY <1>7, <1>8 DEF Elems
<1>10. ~Before(im, b, b)
  <2> SUFFICES ASSUME Before(im, b, b) PROVE FALSE
    OBVIOUS
  <2>1. PICK i \in 1 .. Len(im), j \in 1 .. Len(im) : i < j /\ im[j] = b
    BY DEF Before
  <2>2. j # 1
    BY <1>4, <2>1, ConstantAssumption
  <2> QED
    BY <1>2, <1>8, <2>1, <2>2
<1>11. im = Image(0, r)
  BY DEF im, body, chunks, Image
<1> QED
  BY <1>2, <1>4, <1>9, <1>10, <1>11 DEF b

\* The tick's CRC and then the image.
LEMMA SendPush ==
  ASSUME NEW s \in Seq(Frame), NEW t1 \in Seq(Frame), NEW t2 \in Seq(Frame),
         NEW start \in Int, NEW k \in Nat, NEW r \in Nat,
         \A f \in Elems(t1) : f.type = "CRC" /\ f.tick = k,
         NEW b \in Elems(t2), b.type = "BEGIN", b.tick = r, r = k + 1 + ResumeGap,
         ~Before(t2, b, b),
         \A f \in Elems(t2) : f = b \/ f.type \in {"CHUNK", "END"},
         Chain(s, start, k + Delay + 1), Full(s, start, k + Delay + 1), Reports(s, start), Spaced(s, start),
         \A f \in Kind(s, "BEGIN") : f.tick <= k
  PROVE  /\ Chain(s \o (t1 \o t2), start, r + Delay)
         /\ Full(s \o (t1 \o t2), start, r + Delay)
         /\ Reports(s \o (t1 \o t2), start)
         /\ Spaced(s \o (t1 \o t2), start)
         /\ Kind(s \o (t1 \o t2), "INPUT") = Kind(s, "INPUT")
         /\ Kind(s \o (t1 \o t2), "BEGIN") = Kind(s, "BEGIN") \cup {b}
         /\ \A f \in Kind(s \o (t1 \o t2), "CRC") : f \in Kind(s, "CRC") \/ f.tick = k
<1> DEFINE u == s \o t1
<1>1. /\ Chain(u, start, k + Delay + 1)
      /\ Full(u, start, k + Delay + 1)
      /\ Reports(u, start)
      /\ Spaced(u, start)
      /\ Kind(u, "INPUT") = Kind(s, "INPUT")
      /\ Kind(u, "BEGIN") = Kind(s, "BEGIN")
      /\ \A f \in Kind(u, "CRC") : f \in Kind(s, "CRC") \/ f.tick = k
  BY SendCrc
<1>2. u \in Seq(Frame) /\ s \o (t1 \o t2) = u \o t2
  BY SMTT(30)
<1>3. \A f \in Kind(u, "BEGIN") : f.tick <= k
  BY <1>1
<1> HIDE DEF u
<1>4. /\ Chain(u \o t2, start, r + Delay)
      /\ Full(u \o t2, start, r + Delay)
      /\ Reports(u \o t2, start)
      /\ Spaced(u \o t2, start)
      /\ Kind(u \o t2, "INPUT") = Kind(u, "INPUT")
      /\ Kind(u \o t2, "BEGIN") = Kind(u, "BEGIN") \cup {b}
      /\ Kind(u \o t2, "CRC") = Kind(u, "CRC")
  BY <1>1, <1>2, <1>3, SendImage
<1> QED
  BY <1>1, <1>2, <1>4

\* What a push changes.
LEMMA PushMade ==
  ASSUME TypeOK, TypeOK', Sized, Paced, RunPush(0)
  PROVE  /\ GameTick(0) /\ pend[0] = TRUE /\ pend'[0] = FALSE /\ pend'[1] = pend[1]
         /\ UNCHANGED <<hold, dropped, room>>
         /\ \A r : r = tick[0] + 1 + ResumeGap =>
              /\ r \in Nat /\ tick'[0] = r /\ wm'[0] = r + Delay - 1 /\ resume'[0] = r
              /\ chan'[1] = (IF room THEN chan[1] \o (CrcReport(0) \o Image(0, r)) ELSE chan[1])
              /\ Cap(0)' = r + Delay
         /\ tick'[1] = tick[1] /\ wm'[1] = wm[1] /\ resume'[1] = resume[1] /\ ring'[1] = ring[1]
         /\ ring'[0] = LS_RING_INIT /\ rec'[0] = RS_CLR_CRC
         /\ Ahead' = Ahead + 1
         /\ chan'[0] = chan[0]
         /\ pc'[0] = "pass" /\ pc'[1] = pc[1] /\ played'[1] = played[1]
         /\ Cap(1)' = Cap(1) /\ Late' = Late /\ Start' = Start /\ NearTick' = NearTick /\ Mid' = Mid
<1> DEFINE R == ResumeTick(0)
<1>0. 0 \in Seats /\ 1 \in Seats /\ (\A c \in Seats : c = 0 \/ c = 1) /\ Other(0) = 1
  BY Flat DEF Other
<1>t. /\ tick \in [Seats -> Nat] /\ chan \in [Seats -> Seq(Frame)]
      /\ rec \in [Seats -> [CrcSlots -> [tick : Nat, crc : Crc]]]
      /\ wm \in [Seats -> Nat] /\ rebases \in [Seats -> Nat] /\ resume \in [Seats -> Nat]
      /\ hold \in [Seats -> BOOLEAN] /\ pend \in [Seats -> BOOLEAN]
      /\ ring \in [Seats -> [Seats -> [0 .. LowMod - 1 -> Inputs]]]
  BY DEF TypeOK, EngineType, ChanType, RecoveryType
<1>1. GameTick(0) /\ pend[0] /\ ~hold[0]
  BY DEF RunPush, PushNow, PushWanted
<1>2. /\ pend' = [pend EXCEPT ![0] = FALSE]
      /\ tick' = [tick EXCEPT ![0] = R]
      /\ ring' = [ring EXCEPT ![0] = LS_RING_INIT]
      /\ wm' = [wm EXCEPT ![0] = RebaseWatermark(R)]
      /\ rec' = [rec EXCEPT ![0] = RS_CLR_CRC]
      /\ hold' = [hold EXCEPT ![0] = FALSE]
      /\ rebases' = [rebases EXCEPT ![0] = @ + 1]
      /\ resume' = [resume EXCEPT ![0] = R]
      /\ chan' = Relayed(0, CrcReport(0) \o Image(0, R))
  BY DEF RunPush, RS_REBASE
<1>3. /\ UNCHANGED <<dropped, room>>
      /\ pc'[0] = "pass" /\ pc'[1] = pc[1] /\ played'[1] = played[1]
  BY <1>0, <1>1, GamePlayed
<1>4. R = tick[0] + 1 + ResumeGap /\ R \in Nat
  <2>1. tick[0] \in Nat /\ ResumeGap \in Nat
    BY <1>0, Flat
  <2> QED
    BY <2>1, SMTT(30) DEF ResumeTick
<1> HIDE DEF R
<1>5. /\ pend'[0] = FALSE /\ pend'[1] = pend[1] /\ pend[0] = TRUE
      /\ tick'[0] = R /\ tick'[1] = tick[1]
      /\ ring'[0] = LS_RING_INIT /\ ring'[1] = ring[1]
      /\ wm'[0] = R + Delay - 1 /\ wm'[1] = wm[1]
      /\ rec'[0] = RS_CLR_CRC
      /\ resume'[0] = R /\ resume'[1] = resume[1]
      /\ rebases'[0] = rebases[0] + 1 /\ rebases'[1] = rebases[1]
  BY <1>0, <1>t, <1>1, <1>2 DEF RebaseWatermark
<1>6. hold' = hold
  BY <1>0, <1>t, <1>1, <1>2
<1>7. chan'[0] = chan[0] /\ chan'[1] = (IF room THEN chan[1] \o (CrcReport(0) \o Image(0, R)) ELSE chan[1])
  <2> DEFINE t == CrcReport(0) \o Image(0, R)
  <2>1. chan' = IF room THEN [chan EXCEPT ![1] = chan[1] \o t] ELSE chan
    BY <1>0, <1>2 DEF Relayed
  <2> HIDE DEF t
  <2>2. chan'[0] = chan[0] /\ chan'[1] = (IF room THEN chan[1] \o t ELSE chan[1])
    BY <1>0, <1>t, <2>1
  <2> QED
    BY <2>2 DEF t
<1>8. Cap(0)' = R + Delay
  BY <1>0, <1>3, <1>4, <1>5, Flat, SMTT(30) DEF Cap
<1>9. Ahead' = Ahead + 1
  BY <1>0, <1>t, <1>5 DEF Ahead
<1>10. Cap(1)' = Cap(1) /\ Late' = Late /\ Start' = Start /\ NearTick' = NearTick /\ Mid' = Mid
  BY <1>3, <1>5, <1>6 DEF Cap, Late, Start, NearTick, Mid
<1> QED
  BY <1>1, <1>3, <1>4, <1>5, <1>6, <1>7, <1>8, <1>9, <1>10

LEMMA HostPushStep ==
  ASSUME TypeOK, TypeOK', Sized, Paced, RunPush(0)
  PROVE  Paced'
<1> DEFINE s == chan[1]
           k == tick[0]
           R == resume[0]
           r == k + 1 + ResumeGap
           t1 == CrcReport(0)
           t2 == Image(0, r)
<1>0. 0 \in Seats /\ 1 \in Seats /\ (\A c \in Seats : c = 0 \/ c = 1)
  BY Flat
<1>1. /\ GameTick(0) /\ pend[0] = TRUE /\ pend'[0] = FALSE /\ pend'[1] = pend[1]
      /\ UNCHANGED <<hold, dropped, room>>
      /\ tick'[0] = r /\ wm'[0] = r + Delay - 1 /\ resume'[0] = r
      /\ chan'[1] = (IF room THEN s \o (t1 \o t2) ELSE s)
      /\ Cap(0)' = r + Delay
      /\ tick'[1] = tick[1] /\ wm'[1] = wm[1] /\ resume'[1] = resume[1] /\ ring'[1] = ring[1]
      /\ ring'[0] = LS_RING_INIT /\ rec'[0] = RS_CLR_CRC
      /\ Ahead' = Ahead + 1
      /\ chan'[0] = chan[0]
      /\ pc'[0] = "pass" /\ pc'[1] = pc[1] /\ played'[1] = played[1]
      /\ Cap(1)' = Cap(1) /\ Late' = Late /\ Start' = Start /\ NearTick' = NearTick /\ Mid' = Mid
  BY PushMade
<1>2. /\ k \in Nat /\ tick[1] \in Nat /\ wm[0] \in Nat /\ wm[1] \in Nat /\ R \in Nat /\ resume[1] \in Nat
      /\ s \in Seq(Frame) /\ chan[0] \in Seq(Frame) /\ Cap(0) \in Nat /\ Cap(1) \in Nat
      /\ Delay \in Nat /\ Delay >= 1 /\ Start \in Int /\ NearTick \in Int
      /\ Ahead \in 0 .. 2 /\ R <= k /\ Cap(0) = k + Delay + 1
      /\ ResumeGap \in Nat /\ ResumeGap > Delay
      /\ (\A p \in played[0] : p.tick \in Nat) /\ (\A p \in played[1] : p.tick \in Nat)
  <2>1. Cap(0) = k + Delay + 1
    BY <1>0, <1>1, GamePlayed
  <2>2. Ahead \in 0 .. 2 /\ R <= k
    BY DEF Paced, Basic
  <2>3. ResumeGap > Delay
    BY DEF Sized
  <2> QED
    BY <1>0, <2>1, <2>2, <2>3, Flat
<1>n. /\ k \in Nat /\ tick[1] \in Nat /\ wm[0] \in Nat /\ wm[1] \in Nat /\ R \in Nat
      /\ Delay \in Nat /\ Delay >= 1 /\ ResumeGap \in Nat /\ ResumeGap > Delay /\ R <= k
  BY <1>2
<1>r. r \in Nat /\ r = k + 1 + ResumeGap /\ k < r /\ k + Delay + 1 < r
  <2> HIDE DEF k, R
  <2> QED
    BY <1>n
<1>3. t1 \in Seq(Frame) /\ \A f \in Elems(t1) : f.type = "CRC" /\ f.tick = k
  BY <1>0, ReportMade
<1>4. /\ t2 \in Seq(Frame) /\ BeginFrame(r) \in Elems(t2) /\ BeginFrame(r).type = "BEGIN" /\ BeginFrame(r).tick = r
      /\ ~Before(t2, BeginFrame(r), BeginFrame(r))
      /\ \A f \in Elems(t2) : f = BeginFrame(r) \/ f.type \in {"CHUNK", "END"}
  BY <1>r, ImageMade
<1> HIDE DEF t1, t2
<1>5. /\ Agree'
      /\ ~dropped[0] => k <= wm[0]
      /\ ~dropped[0] /\ Ahead > 0 => k < R + Delay
      /\ ~dropped[1] => \A p \in played'[0] : p.tick >= tick[1] =>
           (p.tick < Cap(1) /\ p.in[1] = ring[1][1][RingSlot(p.tick)]) \/ Beyond(p.tick)
      /\ ~dropped[1] => \A m \in Nat : Pending(m) =>
           /\ Ahead > 0 /\ m <= R
           /\ Ahead = 1 => m = R
           /\ \A p \in played'[0] : p.tick >= m =>
                p.in[1] = Idle /\ (p.tick < m + Delay \/ (m < R /\ p.tick >= R))
  BY <1>1, HostPlays
<1>6. /\ \A p \in played'[0] : p \in played[0] \/ (~dropped[0] /\ p.tick = k)
      /\ \A t, v : Right(0, t, v) => \A p \in played'[0] : p.tick = t => p.in[0] = v
  BY <1>0, <1>1, GamePlayed
<1>7. \A p \in played'[0] : p.tick \in Nat /\ p.tick <= k
  <2> SUFFICES ASSUME NEW p \in played'[0] PROVE p.tick \in Nat /\ p.tick <= k
    OBVIOUS
  <2>1. CASE p \in played[0]
    <3>1. p.tick \in Nat /\ p.tick < k
      BY <1>0, <1>2, <2>1 DEF Paced, Basic
    <3> QED
      BY <1>2, <3>1
  <2>2. CASE p.tick = k
    BY <1>2, <2>2
  <2> QED
    BY <1>6, <2>1, <2>2
<1>8. Late \in 0 .. 1 /\ tick[1] < r + Late /\ tick[1] <= r
  <2>0. Late \in 0 .. 1
    BY LateType
  <2>1. CASE Ahead = 0
    <3>1. tick[1] <= k + Delay + 1 + Late
      BY <1>2, <2>1 DEF Paced, Shared
    <3> HIDE DEF r, k
    <3> QED
      BY <1>2, <1>r, <2>0, <3>1, SMTT(30)
  <2>2. CASE Ahead # 0
    <3>1. tick[1] < R + Late /\ R <= k
      BY <1>2, <2>2 DEF Paced, Shared
    <3> HIDE DEF r, k, R
    <3> QED
      BY <1>2, <1>r, <2>0, <3>1
  <2> QED
    BY <2>1, <2>2
<1> HIDE DEF r
<1>9. \A q \in played[1] : q.tick < r
  <2> SUFFICES ASSUME NEW q \in played[1] PROVE q.tick < r
    OBVIOUS
  <2>1. q.tick < tick[1] /\ q.tick \in Nat
    BY <1>0, <1>2 DEF Paced, Basic
  <2> HIDE DEF k
  <2> QED
    BY <1>n, <1>r, <1>8, <2>1
<1>10. /\ Asked(chan[0], r, Ahead + 1, FALSE, pend[1]) /\ Ahead + 1 \in 1 .. 2
       /\ \A w \in Int, v \in Int :
            (/\ Lag(chan[0], w, R, Ahead, TRUE) /\ v <= w + Leap
             /\ \A f \in Kind(chan[0], "INPUT") : f.tick < r + Delay)
            => Lag(chan[0], v, r, Ahead + 1, FALSE)
  <2>1. Asked(chan[0], R, Ahead, TRUE, pend[1])
    BY <1>1 DEF Paced, Shared
  <2>2. \A f \in Kind(chan[0], "RESYNC") : f.tick < r
    <3> SUFFICES ASSUME NEW f \in Kind(chan[0], "RESYNC") PROVE f.tick < r
      OBVIOUS
    <3>1. f.tick < k /\ f.tick \in Nat
      BY <1>2, HostTypes DEF Paced, Basic, Kind
    <3> HIDE DEF k
    <3> QED
      BY <1>n, <1>r, <3>1, SMTT(30)
  <2>3. \A f \in Kind(chan[0], "CRC") : f.tick < r
    <3> SUFFICES ASSUME NEW f \in Kind(chan[0], "CRC") PROVE f.tick < r
      OBVIOUS
    <3>1. f.tick < tick[1]
      BY DEF Paced, Shared
    <3>2. f.tick \in Nat
      BY <1>2, HostTypes DEF Kind
    <3> HIDE DEF k, R
    <3> QED
      BY <1>n, <1>r, <1>8, <3>1, <3>2
  <2>4. chan[0] \in Seq(Frame) /\ R \in Int /\ r \in Int /\ Ahead \in 0 .. 2
    BY <1>2, <1>r
  <2> HIDE DEF R
  <2> QED
    BY <2>1, <2>2, <2>3, <2>4, PushAsked
<1>11. Basic'
  <2>1. \A p \in played'[0] : p.tick < r
    <3> SUFFICES ASSUME NEW p \in played'[0] PROVE p.tick < r
      OBVIOUS
    <3>1. p.tick \in Nat /\ p.tick <= k
      BY <1>7
    <3> QED
      BY <1>2, <1>r, <3>1
  <2>2. \A d \in Seats : tick[d] <= tick'[d]
    <3>a. tick[0] = k /\ tick'[0] = r /\ tick'[1] = tick[1]
      BY <1>1
    <3>1. tick[0] <= tick'[0] /\ tick[1] <= tick'[1]
      <4> HIDE DEF k, R
      <4> QED
        BY <1>n, <1>r, <3>a
    <3> QED
      BY <1>0, <3>1
  <2>3. resume'[0] <= tick'[0]
    BY <1>1, <1>r
  <2>4. "pass" \notin Pumping
    BY DEF Pumping
  <2>5. t1 \o t2 \in Seq(Frame) /\ Elems(t1 \o t2) = Elems(t1) \cup Elems(t2)
    BY <1>3, <1>4, SendQ
  <2>6. \A f \in Elems(t1 \o t2) : /\ f.type \notin {"PEER_LEFT", "RESYNC"}
                                   /\ f.type = "CRC" => f.tick < tick'[0]
    BY <1>1, <1>3, <1>4, <1>r, <2>5
  <2>7. Ahead' \in 0 .. 2
    <3>1. Ahead' = Ahead + 1 /\ Ahead + 1 \in 1 .. 2
      BY <1>1, <1>10
    <3> QED
      BY <3>1
  <2>8. \A p \in played'[0] : p.tick < tick'[0]
    BY <1>1, <2>1
  <2> QED
    BY <1>0, <1>1, <2>2, <2>3, <2>4, <2>5, <2>6, <2>7, <2>8, BasicSent DEF Paced
<1>12. Shared'
  <2>1. Ahead + 1 > 0 /\ Ahead + 1 # 0
    BY <1>2, SMTT(30)
  <2>2. Asked(chan[0], r, Ahead + 1, FALSE, pend[1])
    BY <1>10
  <2> QED
    BY <1>1, <1>8, <1>9, <2>1, <2>2 DEF Paced, Shared
<1>13. ASSUME ~dropped'[0] PROVE HostSide'
  <2>0. HostQueue /\ HostClock /\ HostRight /\ HostBound /\ ~dropped[0]
    BY <1>1, <1>13 DEF Paced, HostSide
  <2>1. /\ r + Delay - 1 \in Int /\ wm[0] \in Int
        /\ r + Delay - 1 <= wm[0] + Leap /\ k <= wm[0] /\ wm[0] <= k + 2 * Delay + 1
    <3>1. k <= wm[0] + 1 /\ wm[0] <= k + 2 * Delay + 1 /\ k <= wm[0]
      BY <1>5, <2>0 DEF HostClock
    <3>2. Leap = ResumeGap + Delay + 1
      BY DEF Leap
    <3> HIDE DEF k, R
    <3> QED
      BY <1>n, <1>r, <3>1, <3>2
  <2>2. \A f \in Kind(chan[0], "INPUT") : f.tick < r + Delay
    <3> SUFFICES ASSUME NEW f \in Kind(chan[0], "INPUT") PROVE f.tick < r + Delay
      OBVIOUS
    <3>1. f.tick \in Nat /\ f \in Elems(chan[0]) /\ Timed(f) /\ f.type = "INPUT"
      BY <1>2, HostTypes DEF Kind
    <3>2. CASE Ahead = 0
      <4>1. f.tick > wm[0] => f.tick <= k + 2 * Delay + 1
        BY <2>0, <3>2 DEF HostRight
      <4> HIDE DEF k, R
      <4>2. f.tick <= k + 2 * Delay + 1
        BY <1>n, <2>1, <3>1, <4>1
      <4> QED
        BY <1>n, <1>r, <3>1, <4>2
    <3>3. CASE Ahead # 0
      <4>1. Old(f, R)
        BY <2>0, <3>1, <3>3 DEF HostQueue, Lag
      <4>2. f.tick < R + Delay
        BY <3>1, <4>1 DEF Old
      <4> HIDE DEF k, R
      <4> QED
        BY <1>2, <1>r, <3>1, <4>2
    <3> QED
      BY <3>2, <3>3
  <2>3. HostQueue'
    <3>1. Lag(chan[0], wm[0], R, Ahead, TRUE) /\ Sorted(chan[0])
      BY <1>1, <2>0 DEF HostQueue
    <3>2. Lag(chan[0], r + Delay - 1, r, Ahead + 1, FALSE)
      BY <1>10, <2>1, <2>2, <3>1
    <3> QED
      BY <1>1, <3>1, <3>2 DEF HostQueue
  <2>4. HostClock'
    <3>1. /\ r <= r + Delay - 1 + 1 /\ r + Delay - 1 <= r + 2 * Delay + 1
          /\ r + Delay - 1 <= r + Delay - 1
      <4> HIDE DEF k, R
      <4> QED
        BY <1>n, <1>r
    <3>2. \A x \in 0 .. LowMod - 1 : ring'[0][1][x] = Idle
      BY <1>0, <1>1 DEF LS_RING_INIT
    <3>3. r + Delay - 1 <= Cap(1) + (Ahead + 1) * Leap
      <4>1. wm[0] <= Cap(1) + Ahead * Leap
        <5>1. IF Ahead = 0 THEN wm[0] < Cap(1) ELSE wm[0] <= Cap(1) + Ahead * Leap
          BY <2>0 DEF HostClock
        <5>2. CASE Ahead = 0
          <6>1. Ahead * Leap = 0
            BY <1>0, <5>2, Flat
          <6> QED
            BY <1>2, <5>1, <5>2, <6>1
        <5>3. CASE Ahead # 0
          BY <5>1, <5>3
        <5> QED
          BY <5>2, <5>3
      <4>2. Leap \in Nat /\ Ahead \in 0 .. 2 /\ Cap(1) \in Nat
        BY <1>2, Flat
      <4>3. (Ahead + 1) * Leap = Ahead * Leap + Leap /\ Ahead * Leap \in Nat
        <5>1. Ahead = 0 \/ Ahead = 1 \/ Ahead = 2
          BY <4>2
        <5> QED
          BY <4>2, <5>1
      <4> QED
        BY <2>1, <4>1, <4>2, <4>3
    <3>4. \A x \in CrcSlots : rec'[0][x].tick = TickMod - 1
      BY <1>1 DEF RS_CLR_CRC
    <3>5. Ahead' # 0 /\ Ahead' = Ahead + 1
      BY <1>1, <1>2
    <3> QED
      BY <1>1, <3>1, <3>2, <3>3, <3>4, <3>5 DEF HostClock
  <2>5. HostRight'
    <3>1. Ahead' # 0
      BY <1>1, <1>2
    <3> QED
      BY <3>1 DEF HostRight
  <2>6. HostBound'
    <3> SUFFICES ASSUME NEW q \in played[1], q.tick >= r PROVE FALSE
      BY <1>1 DEF HostBound
    <3>1. q.tick < r /\ q.tick \in Nat
      BY <1>2, <1>9
    <3> QED
      BY <1>r, <3>1
  <2> QED
    BY <2>3, <2>4, <2>5, <2>6 DEF HostSide
<1>14. ASSUME ~dropped'[1] PROVE GuestSide'
  <2>0. GuestQueue /\ GuestRight /\ GuestBound /\ ~dropped[1]
    BY <1>1, <1>14 DEF Paced, GuestSide
  <2>1. \A b \in Kind(s, "BEGIN") : b.tick \in Nat /\ b.tick <= k /\ b.tick <= R /\ Pending(b.tick)
    <3> SUFFICES ASSUME NEW b \in Kind(s, "BEGIN")
                 PROVE  b.tick \in Nat /\ b.tick <= k /\ b.tick <= R /\ Pending(b.tick)
      OBVIOUS
    <3>1. b.tick \in Nat
      BY <1>2, ElemType DEF Kind
    <3>2. Pending(b.tick)
      BY DEF Pending
    <3>3. b.tick <= R
      BY <1>5, <2>0, <3>1, <3>2
    <3> QED
      BY <1>2, <3>1, <3>2, <3>3
  <2>2. hold[1] => resume[1] <= k
    <3> SUFFICES ASSUME hold[1] PROVE resume[1] <= k
      OBVIOUS
    <3>1. resume[1] <= R
      BY <1>2, <1>5, <2>0 DEF Pending, Mid
    <3> QED
      BY <1>2, <3>1
  <2>3. /\ Chain(chan'[1], Start, r + Delay)
        /\ room => Full(chan'[1], Start, r + Delay)
        /\ Reports(chan'[1], Start)
        /\ Spaced(chan'[1], Start)
        /\ Kind(chan'[1], "INPUT") = Kind(s, "INPUT")
        /\ \A b \in Kind(s, "BEGIN") : b \in Kind(chan'[1], "BEGIN")
        /\ \A b \in Kind(chan'[1], "BEGIN") : b \in Kind(s, "BEGIN") \/ (room /\ b.tick = r)
        /\ room => \E b \in Kind(chan'[1], "BEGIN") : b.tick = r
        /\ \A f \in Kind(chan'[1], "CRC") : f \in Kind(s, "CRC") \/ f.tick = k
    <3>0. /\ Chain(s, Start, Cap(0)) /\ (room => Full(s, Start, Cap(0)))
          /\ Reports(s, Start) /\ Spaced(s, Start)
      BY <2>0 DEF GuestQueue
    <3>1. CASE ~room
      <4>1. Cap(0) <= r + Delay /\ r + Delay \in Int /\ Cap(0) \in Int
        BY <1>2, <1>r, SMTT(30)
      <4>2. Chain(s, Start, r + Delay)
        BY <1>2, <3>0, <4>1, ChainMore
      <4> QED
        BY <1>1, <3>0, <3>1, <4>2
    <3>2. CASE room
      <4>1. /\ Chain(s, Start, k + Delay + 1) /\ Full(s, Start, k + Delay + 1)
            /\ Reports(s, Start) /\ Spaced(s, Start)
        BY <1>2, <3>0, <3>2
      <4>a. s \in Seq(Frame) /\ t1 \in Seq(Frame) /\ t2 \in Seq(Frame) /\ Start \in Int /\ k \in Nat
            /\ r \in Nat /\ r = k + 1 + ResumeGap
        BY <1>2, <1>3, <1>4, <1>r
      <4>b. \A b \in Kind(s, "BEGIN") : b.tick <= k
        BY <2>1
      <4>c. \A f \in Elems(t1) : f.type = "CRC" /\ f.tick = k
        BY <1>3
      <4>d. chan'[1] = s \o (t1 \o t2)
        BY <1>1, <3>2
      <4> HIDE DEF s, k
      <4> DEFINE bf == BeginFrame(r)
      <4>e. /\ bf \in Elems(t2) /\ bf.type = "BEGIN" /\ bf.tick = r
            /\ ~Before(t2, bf, bf)
            /\ \A f \in Elems(t2) : f = bf \/ f.type \in {"CHUNK", "END"}
        BY <1>4
      <4> HIDE DEF bf
      <4>2. /\ Chain(s \o (t1 \o t2), Start, r + Delay)
            /\ Full(s \o (t1 \o t2), Start, r + Delay)
            /\ Reports(s \o (t1 \o t2), Start)
            /\ Spaced(s \o (t1 \o t2), Start)
            /\ Kind(s \o (t1 \o t2), "INPUT") = Kind(s, "INPUT")
            /\ Kind(s \o (t1 \o t2), "BEGIN") = Kind(s, "BEGIN") \cup {bf}
            /\ \A f \in Kind(s \o (t1 \o t2), "CRC") : f \in Kind(s, "CRC") \/ f.tick = k
        BY <4>1, <4>a, <4>b, <4>c, <4>e, SendPush, SMTT(30)
      <4> QED
        BY <3>2, <4>2, <4>d, <4>e
    <3> QED
      BY <3>1, <3>2
  <2>4. \A m : Pending(m)' => Pending(m) \/ m = r
    BY <1>1, <2>3 DEF Pending
  <2>5. wm[1] <= Limit(r) /\ Limit(r) = k + Delay /\ wm[1] < k + Delay + 1
    <3>1. wm[1] < k + Delay + 1
      BY <1>2, <2>0 DEF GuestRight
    <3>2. Limit(r) = r - 1 - ResumeGap + Delay
      BY DEF Limit
    <3> HIDE DEF k
    <3> QED
      BY <1>2, <1>r, <3>1, <3>2
  <2>6. Ahead = 0 \/ Ahead = 1
    BY <1>2, <1>10
  <2>7. Images(chan'[1], Mid, r, Ahead + 1)
    <3>0. Images(s, Mid, R, Ahead)
      BY <2>0 DEF GuestQueue
    <3>1. CASE Ahead = 0
      <4>1. Mid = {} /\ Kind(s, "BEGIN") = {}
        BY <3>0, <3>1 DEF Images
      <4>2. Ahead + 1 = 1
        BY <3>1
      <4>3. \A b \in Kind(chan'[1], "BEGIN") : b.tick = r
        BY <2>3, <4>1
      <4> QED
        BY <4>1, <4>2, <4>3 DEF Images
    <3>2. CASE Ahead = 1
      <4>1. /\ \A m \in Mid : m = R
            /\ \A b \in Kind(s, "BEGIN") : b.tick = R /\ Mid = {}
        BY <3>0, <3>2 DEF Images
      <4>2. Ahead + 1 = 2
        BY <3>2
      <4>3. R < r /\ r \in Nat /\ R \in Nat
        BY <1>2, <1>r
      <4>4. room => Pending(R)
        BY <2>0, <3>2 DEF GuestQueue
      <4>5. \A b \in Kind(chan'[1], "BEGIN") : (b \in Kind(s, "BEGIN") /\ b.tick = R) \/ (room /\ b.tick = r)
        BY <2>3, <4>1
      <4>6. ASSUME NEW m \in Mid PROVE m < r /\ \A b \in Kind(chan'[1], "BEGIN") : b.tick = r
        BY <4>1, <4>3, <4>5
      <4>7. ASSUME NEW b \in Kind(chan'[1], "BEGIN")
            PROVE  /\ b.tick = r => Mid # {} \/ \E a \in Kind(chan'[1], "BEGIN") : a.tick < r
                   /\ b.tick < r => \A a \in Kind(chan'[1], "BEGIN") : a.tick > b.tick => a.tick = r
                   /\ b.tick <= r
        <5>1. b.tick = r => Mid # {} \/ \E a \in Kind(chan'[1], "BEGIN") : a.tick < r
          <6> SUFFICES ASSUME b.tick = r PROVE Mid # {} \/ \E a \in Kind(chan'[1], "BEGIN") : a.tick < r
            OBVIOUS
          <6>1. room
            BY <4>3, <4>5
          <6>2. CASE R \in Mid
            BY <6>2
          <6>3. CASE \E a \in Kind(s, "BEGIN") : a.tick = R
            BY <2>3, <4>3, <6>3
          <6> QED
            BY <4>4, <6>1, <6>2, <6>3 DEF Pending
        <5>2. b.tick < r => \A a \in Kind(chan'[1], "BEGIN") : a.tick > b.tick => a.tick = r
          BY <4>3, <4>5
        <5>3. b.tick <= r
          BY <4>3, <4>5
        <5> QED
          BY <5>1, <5>2, <5>3
      <4> QED
        BY <4>2, <4>6, <4>7 DEF Images
    <3> QED
      BY <2>6, <3>1, <3>2
  <2>8. GuestQueue'
    <3>1. Near(chan'[1], NearTick)
      BY <2>0, <2>3 DEF GuestQueue, Near
    <3>2. Last(chan'[1], Mid, r)
      <4> SUFFICES ASSUME NEW f \in Kind(s, "INPUT") PROVE f.tick <= Limit(r)
        BY <2>3 DEF Last
      <4>1. f.tick \in Nat /\ f \in Elems(s) /\ Mark(f) /\ Val(f) = f.tick
        BY <1>2, ElemType DEF Kind, Mark
      <4>2. f.tick < Cap(0)
        BY <2>0, <4>1 DEF GuestQueue, Chain
      <4> QED
        BY <1>2, <2>5, <4>1, <4>2
    <3>4. hold[1] => \A f \in Kind(chan'[1], "CRC") : f.tick >= resume[1]
      <4> SUFFICES ASSUME hold[1], NEW f \in Kind(chan'[1], "CRC") PROVE f.tick >= resume[1]
        OBVIOUS
      <4>1. CASE f \in Kind(s, "CRC")
        BY <2>0, <4>1 DEF GuestQueue
      <4>2. CASE f.tick = k
        BY <1>2, <2>2, <4>2
      <4> QED
        BY <2>3, <4>1, <4>2
    <3>5. hold[1] => wm[1] <= Limit(resume[1])
      BY <2>0 DEF GuestQueue
    <3>6. Ahead' # 0 /\ Ahead' = Ahead + 1
      BY <1>1, <1>2
    <3>7. room => Pending(resume[0])'
      <4>2. room => \E b \in Kind(chan'[1], "BEGIN") : b.tick = resume'[0]
        BY <1>1, <2>3
      <4> QED
        BY <4>2 DEF Pending
    <3> QED
      BY <1>1, <2>3, <2>5, <2>7, <3>1, <3>2, <3>4, <3>5, <3>6, <3>7 DEF GuestQueue
  <2>9. ASSUME NEW t \in Nat, NEW v, t < r, Right(0, t, v) PROVE Right(0, t, v)'
    <3>1. \A p \in played'[0] : p.tick = t => p.in[0] = v
      BY <1>6, <2>9
    <3>2. ~(t >= tick'[0])
      BY <1>1, <1>r, <2>9
    <3> QED
      BY <3>1, <3>2 DEF Right, Owns
  <2>10. ASSUME NEW t \in Nat PROVE t >= r => Right(0, t, Idle)'
    <3> SUFFICES ASSUME t >= r PROVE Right(0, t, Idle)'
      OBVIOUS
    <3>1. \A p \in played'[0] : p.tick # t
      BY <1>2, <1>7, <1>r, SMTT(30)
    <3>2. RingSlot(t) \in 0 .. LowMod - 1
      BY SlotType
    <3>3. ring'[0][0][RingSlot(t)] = Idle
      BY <1>0, <1>1, <3>2 DEF LS_RING_INIT
    <3> QED
      BY <3>1, <3>3 DEF Right, Owns
  <2>11. ASSUME NEW m \in Nat, m = r PROVE ImageRight(m)'
    <3>1. m + Delay <= m + Delay
      BY <1>n
    <3>2. ASSUME NEW t \in m .. m + Delay - 1 PROVE Right(0, t, Idle)'
      <4>1. t \in Nat /\ t >= r
        BY <1>n, <2>11
      <4> QED
        BY <2>10, <4>1
    <3>3. ASSUME NEW p \in played'[0] PROVE ~(p.tick >= m)
      <4>1. p.tick \in Nat /\ p.tick <= k
        BY <1>7
      <4> HIDE DEF k, R
      <4> QED
        BY <1>n, <1>r, <2>11, <4>1
    <3>4. Cap(0)' = m + Delay /\ resume'[0] = m
      BY <1>1, <2>11
    <3> QED
      BY <3>1, <3>2, <3>3, <3>4 DEF ImageRight
  <2>12. ASSUME NEW m \in Nat, Pending(m) PROVE ImageRight(m)'
    <3>0. ImageRight(m) /\ Ahead = 1 /\ m = R
      <4>1. ImageRight(m) /\ Ahead > 0
        BY <1>5, <2>0, <2>12 DEF GuestRight
      <4>2. Ahead = 1
        BY <2>6, <4>1
      <4> QED
        BY <1>5, <2>0, <2>12, <4>1, <4>2
    <3>1. /\ m + Delay <= r + Delay /\ m + 1 + ResumeGap <= r
          /\ ~dropped[0] => r <= m + Leap
      <4>1. m <= k /\ (~dropped[0] => k < m + Delay)
        BY <1>2, <1>5, <3>0
      <4>2. Leap = ResumeGap + Delay + 1
        BY DEF Leap
      <4> HIDE DEF k
      <4> QED
        BY <1>2, <1>r, <4>1, <4>2
    <3>2. ASSUME NEW t \in m .. m + Delay - 1 PROVE Right(0, t, Idle)'
      <4>1. t \in Nat /\ t < r
        <5>1. m <= k
          BY <1>2, <3>0
        <5> HIDE DEF k
        <5> QED
          BY <1>2, <1>r, <5>1
      <4>2. Right(0, t, Idle)
        BY <3>0 DEF ImageRight
      <4> QED
        BY <2>9, <4>1, <4>2
    <3>3. ASSUME NEW p \in played'[0], p.tick >= m PROVE p.in[1] = Idle /\ p.tick < m + Delay
      <4>1. p.in[1] = Idle /\ (p.tick < m + Delay \/ m < R)
        BY <1>5, <2>0, <2>12, <3>3
      <4> QED
        BY <1>2, <3>0, <4>1
    <3> QED
      BY <1>1, <3>1, <3>2, <3>3 DEF ImageRight
  <2>13. GuestRight'
    <3>1. ASSUME NEW t \in tick[1] .. wm[1] PROVE Right(0, t, ring[1][0][RingSlot(t)])'
      <4>1. t \in Nat /\ Right(0, t, ring[1][0][RingSlot(t)])
        BY <1>2, <2>0 DEF GuestRight
      <4>2. t < r
        <5>1. t < k + Delay + 1 /\ k + Delay + 1 < r
          BY <1>2, <1>r, <2>5, <4>1
        <5>2. k \in Nat
          BY <1>2
        <5> HIDE DEF k
        <5> QED
          BY <1>2, <1>r, <4>1, <5>1, <5>2
      <4> DEFINE v == ring[1][0][RingSlot(t)]
      <4>3. ring'[1][0][RingSlot(t)] = v
        BY <1>1
      <4>4. \A vv : vv = v => Right(0, t, vv)'
        BY <2>9, <4>1, <4>2
      <4> QED
        BY <4>3, <4>4
    <3>2. ASSUME NEW f \in Kind(chan'[1], "INPUT") PROVE Right(0, f.tick, f.in)'
      <4>0. f \in Kind(s, "INPUT")
        BY <2>3
      <4>1. f.tick \in Nat /\ f \in Elems(s) /\ Mark(f) /\ Val(f) = f.tick
        BY <1>2, <4>0, ElemType DEF Kind, Mark
      <4>2. f.tick < Cap(0) /\ Right(0, f.tick, f.in)
        BY <2>0, <4>0, <4>1 DEF GuestQueue, Chain, GuestRight
      <4>3. f.tick < r
        BY <1>2, <1>r, <4>1, <4>2
      <4> QED
        BY <2>9, <4>1, <4>2, <4>3
    <3>3. \A m \in Nat : Pending(m)' => ImageRight(m)'
      BY <2>4, <2>11, <2>12
    <3>4. wm[1] < r + Delay /\ tick[1] <= wm[1] + 1 /\ wm[1] <= tick[1] + 2 * Delay + 1
      <4>1. tick[1] <= wm[1] + 1 /\ wm[1] <= tick[1] + 2 * Delay + 1
        BY <2>0 DEF GuestRight
      <4>2. wm[1] < r + Delay
        BY <1>2, <1>r, <2>5, SMTT(30)
      <4> QED
        BY <4>1, <4>2
    <3> QED
      BY <1>1, <3>1, <3>2, <3>3, <3>4 DEF GuestRight
  <2>14. GuestBound'
    <3>1. \A y : Beyond(y) => Beyond(y)'
      <4>0. Ahead' = Ahead + 1 /\ Ahead \in 0 .. 2
        BY <1>1, <1>2
      <4>1. Ahead' > 0
        BY <4>0
      <4> QED
        BY <1>1, <2>3, <4>1 DEF Beyond
    <3> QED
      BY <1>1, <1>5, <2>0, <3>1 DEF GuestBound
  <2> QED
    BY <2>8, <2>13, <2>14 DEF GuestSide
<1> QED
  BY <1>5, <1>11, <1>12, <1>13, <1>14 DEF Paced

-----------------------------------------------------------------------------
(* The invariant holds.                                                    *)

LEMMA LockstepInit == ASSUME Init PROVE Lockstep
<1>0. 0 \in Seats /\ 1 \in Seats /\ (\A c \in Seats : c = 0 \/ c = 1)
      /\ Delay \in Nat /\ Delay >= 1
  BY ConstantAssumption DEF Seats
<1>1. /\ tick[0] = 0 /\ tick[1] = 0 /\ wm[0] = Delay - 1 /\ wm[1] = Delay - 1
      /\ ~hold[0] /\ ~hold[1] /\ ~pend[0] /\ ~pend[1] /\ resume[0] = 0 /\ resume[1] = 0
      /\ ~dropped[0] /\ ~dropped[1] /\ rebases[0] = 0 /\ rebases[1] = 0
      /\ chan[0] = << >> /\ chan[1] = << >> /\ room
      /\ played[0] = {} /\ played[1] = {}
      /\ pc[0] = "seshold" /\ pc[1] = "seshold"
      /\ ring[0] = LS_RING_INIT /\ ring[1] = LS_RING_INIT /\ rec[0] = RS_CLR_CRC
  BY <1>0 DEF Init, RebaseWatermark
<1>2. \A c \in Seats : /\ chan[c] = << >> /\ played[c] = {} /\ ~dropped[c] /\ pc[c] = "seshold"
  BY <1>0, <1>1
<1>3. /\ Cap(0) = Delay /\ Cap(1) = Delay /\ Ahead = 0 /\ Mid = {} /\ Start = Delay - 1
      /\ NearTick = 2 * Delay + 1 /\ Late = 0
  BY <1>0, <1>1 DEF Cap, Ahead, Mid, Start, NearTick, Late
<1>4. /\ Elems(<< >>) = {} /\ (\A f, g : ~Before(<< >>, f, g))
      /\ \A type : Kind(<< >>, type) = {}
  BY NoneQ DEF Kind
<1>5. \A r : ~Pending(r)
  BY <1>1, <1>3, <1>4 DEF Pending
<1>6. \A x \in 0 .. LowMod - 1 : /\ ring[0][0][x] = Idle /\ ring[0][1][x] = Idle
                                 /\ ring[1][0][x] = Idle /\ ring[1][1][x] = Idle
  BY <1>0, <1>1 DEF LS_RING_INIT
<1>7. \A t \in Nat : /\ ring[0][0][RingSlot(t)] = Idle /\ ring[0][1][RingSlot(t)] = Idle
                     /\ ring[1][0][RingSlot(t)] = Idle /\ ring[1][1][RingSlot(t)] = Idle
  BY <1>6, SlotType
<1>8. Basic
  <2>1. 0 \in 0 .. 2 /\ 0 <= 0
    OBVIOUS
  <2> QED
    BY <1>1, <1>2, <1>3, <1>4, <2>1 DEF Basic
<1>9. Shared
  <2>1. 0 <= Delay + 0
    BY <1>0
  <2>2. Asked(<< >>, 0, 0, pend[0], pend[1])
    BY <1>4 DEF Asked
  <2> QED
    BY <1>1, <1>3, <1>4, <2>1, <2>2 DEF Shared
<1>10. Agree
  BY <1>1 DEF Agree
<1>11. \A t \in 0 .. Delay - 1 : t \in Nat
  BY <1>0
<1>12. GuestSide
  <2>1. Chain(<< >>, Delay - 1, Delay) /\ Full(<< >>, Delay - 1, Delay)
    BY <1>0, <1>4 DEF Chain, Full
  <2>2. Reports(<< >>, Delay - 1) /\ Spaced(<< >>, Delay - 1) /\ Near(<< >>, 2 * Delay + 1)
    BY <1>4 DEF Reports, Spaced, Near
  <2>3. Images(<< >>, {}, 0, 0)
    BY <1>4 DEF Images
  <2>4. GuestQueue
    BY <1>1, <1>3, <1>4, <2>1, <2>2, <2>3 DEF GuestQueue
  <2>5. Delay - 1 < Delay /\ 0 <= Delay - 1 + 1 /\ Delay - 1 <= 0 + 2 * Delay + 1
    BY <1>0
  <2>6. \A t \in 0 .. Delay - 1 : Right(0, t, ring[1][0][RingSlot(t)])
    BY <1>1, <1>7, <1>11 DEF Right, Owns
  <2>7. GuestRight
    BY <1>1, <1>3, <1>4, <1>5, <2>5, <2>6 DEF GuestRight
  <2>8. GuestBound
    BY <1>1 DEF GuestBound
  <2> QED
    BY <2>4, <2>7, <2>8 DEF GuestSide
<1>13. HostSide
  <2>1. HostQueue
    BY <1>1, <1>4 DEF HostQueue, Sorted, Lag
  <2>2. /\ 0 <= Delay - 1 + 1 /\ Delay - 1 <= 0 + 2 * Delay + 1 /\ 0 + Delay - 1 <= Delay - 1
        /\ Delay - 1 < Delay /\ ~(0 > 0)
    BY <1>0
  <2>3. \A x \in CrcSlots : rec[0][x].tick = TickMod - 1
    BY <1>1 DEF RS_CLR_CRC
  <2>4. HostClock
    BY <1>1, <1>3, <1>6, <2>2, <2>3 DEF HostClock
  <2>5. \A t \in 0 .. Delay - 1 : Right(1, t, ring[0][1][RingSlot(t)])
    BY <1>1, <1>7, <1>11 DEF Right, Owns
  <2>6. \A t \in Delay - 1 + 1 .. Delay - 1 : FALSE
    BY <1>0
  <2>7. HostRight
    BY <1>1, <1>3, <1>4, <2>5, <2>6 DEF HostRight
  <2>8. HostBound
    BY <1>1 DEF HostBound
  <2> QED
    BY <2>1, <2>4, <2>7, <2>8 DEF HostSide
<1> QED
  BY <1>8, <1>9, <1>10, <1>12, <1>13 DEF Lockstep, Paced

\* The frames a console never finds at the head of its queue.
LEMMA HeadKinds ==
  ASSUME TypeOK, Basic, NEW c \in Seats, chan[c] # << >>
  PROVE  /\ c = 0 => Head(chan[c]).type \in {"INPUT", "CRC", "RESYNC", "PEER_LEFT"}
         /\ c = 1 => Head(chan[c]).type # "RESYNC"
<1>1. Head(chan[c]) \in Elems(chan[c])
  BY Flat, TakeQ
<1> QED
  BY <1>1 DEF Basic

LEMMA LockstepStep ==
  ASSUME TypeOK, TypeOK', Sized, TornInv, Lockstep, [Next]_vars
  PROVE  Lockstep'
<1> SUFFICES ASSUME lost' = {} PROVE Paced'
  BY DEF Lockstep
<1>0. lost = {}
  BY LostKept
<1> USE DEF engine, recovery, history
<1>a. ImageUnbroken(1) /\ Paced /\ Basic
  BY <1>0, Flat DEF TornInv, Lockstep, Paced
<1>b. /\ pc \in [Seats -> {"seshold", "pass", "head", "gate", "stall", "hold",
                           "parked", "off"}]
      /\ 0 \in Seats /\ 1 \in Seats /\ (\A c \in Seats : c = 0 \/ c = 1)
      /\ \A c \in Seats : dropped[c] \in BOOLEAN
  BY Flat DEF TypeOK, ControlType
<1>1. ASSUME NEW c \in Seats, OnInput(c) PROVE Paced'
  BY <1>a, <1>b, <1>1, GuestInputStep, HostInputStep
<1>2. ASSUME NEW c \in Seats, OnCrc(c) PROVE Paced'
  BY <1>a, <1>b, <1>2, GuestCrcStep, HostCrcStep
<1>3. ASSUME NEW c \in Seats, OnResync(c) PROVE Paced'
  <2>1. chan[c] # << >> /\ Head(chan[c]).type = "RESYNC"
    BY <1>3 DEF OnResync, Receives
  <2>2. c = 0
    BY <1>a, <1>b, <2>1, HeadKinds
  <2> QED
    BY <1>a, <1>3, <2>2, HostResyncStep
<1>4. ASSUME NEW c \in Seats, OnBegin(c) PROVE Paced'
  <2>1. chan[c] # << >> /\ Head(chan[c]).type = "BEGIN"
    BY <1>4 DEF OnBegin, Receives
  <2>2. c = 1
    BY <1>a, <1>b, <2>1, HeadKinds
  <2> QED
    BY <1>a, <1>4, <2>2, GuestBeginStep
<1>5. ASSUME NEW c \in Seats, OnChunk(c) PROVE Paced'
  <2>1. chan[c] # << >> /\ Head(chan[c]).type = "CHUNK"
    BY <1>5 DEF OnChunk, Receives
  <2>2. c = 1
    BY <1>a, <1>b, <2>1, HeadKinds
  <2>3. ~Mark(Head(chan[1]))
    BY <2>1, <2>2 DEF Mark
  <2>4. /\ pc[1] \in Pumping /\ chan' = [chan EXCEPT ![1] = Tail(@)]
        /\ UNCHANGED <<pc, room, dropped, played, tick, ring, wm, rebases, hold, pend, resume, rec>>
    BY <1>5, <2>2 DEF OnChunk, Receives
  <2> QED
    BY <1>a, <2>1, <2>2, <2>3, <2>4, GuestSkipStep
<1>6. ASSUME NEW c \in Seats, OnEnd(c) PROVE Paced'
  <2>1. chan[c] # << >> /\ Head(chan[c]).type = "END"
    BY <1>6 DEF OnEnd, Receives
  <2>2. c = 1
    BY <1>a, <1>b, <2>1, HeadKinds
  <2>3. CASE hold[1]
    BY <1>a, <1>6, <2>2, <2>3, GuestEndStep
  <2>4. CASE ~hold[1]
    <3>1. ~Mark(Head(chan[1]))
      BY <2>1, <2>2 DEF Mark
    <3>2. /\ pc[1] \in Pumping /\ chan' = [chan EXCEPT ![1] = Tail(@)]
          /\ UNCHANGED <<pc, room, dropped, played, tick, ring, wm, rebases, hold, pend, resume, rec>>
      BY <1>6, <2>2, <2>4 DEF OnEnd, Receives
    <3> QED
      BY <1>a, <2>1, <2>2, <3>1, <3>2, GuestSkipStep
  <2> QED
    BY <2>3, <2>4
<1>7. ASSUME NEW c \in Seats, OnPeerLeft(c) PROVE Paced'
  <2>1. /\ chan[c] # << >> /\ Head(chan[c]).type = "PEER_LEFT" /\ chan' = [chan EXCEPT ![c] = Tail(@)]
        /\ NET_DROP(c) /\ UNCHANGED <<pc, tick, pend, resume, rec, rebases, room, played, hold>>
    BY <1>7 DEF OnPeerLeft, Receives
  <2>2. Cap(0)' = Cap(0) /\ Cap(1)' = Cap(1)
    BY <2>1 DEF Cap
  <2> QED
    BY <1>a, <2>1, <2>2, DropStep
<1>8. ASSUME NEW c \in Seats, SesPump(c) PROVE Paced'
  BY <1>a, <1>8, IdleStep DEF SesPump
<1>9. ASSUME NEW c \in Seats, SesDone(c) PROVE Paced'
  <2>1. /\ UNCHANGED <<tick, ring, wm, hold, pend, resume, rec, dropped, rebases, chan, room, played>>
        /\ pc[c] = "seshold" /\ pc'[c] = "pass" /\ \A d \in Seats : d # c => pc'[d] = pc[d]
    BY <1>b, <1>9 DEF SesDone
  <2> QED
    BY <1>a, <2>1, IdleStep DEF Pumping
<1>10. ASSUME NEW c \in Seats, PassBegin(c) PROVE Paced'
  <2>1. /\ UNCHANGED <<tick, ring, wm, hold, pend, resume, rec, dropped, rebases, chan, room, played>>
        /\ pc[c] = "pass" /\ \A d \in Seats : d # c => pc'[d] = pc[d]
        /\ pc'[c] \in {"parked", "hold", "head"} /\ (dropped[c] => pc'[c] = "parked")
    BY <1>b, <1>10 DEF PassBegin, PassTarget
  <2> QED
    BY <1>a, <2>1, IdleStep DEF Pumping
<1>11. ASSUME NEW c \in Seats, HoldRound(c) PROVE Paced'
  <2>1. /\ UNCHANGED <<tick, pend, resume, rec, rebases, chan, room, played>>
        /\ pc[c] = "hold" /\ pc'[c] = "pass" /\ \A d \in Seats : d # c => pc'[d] = pc[d]
    BY <1>b, <1>11 DEF HoldRound
  <2>2. CASE UNCHANGED <<dropped, ring, wm, hold>>
    BY <1>a, <2>1, <2>2, IdleStep DEF Pumping
  <2>3. CASE NET_DROP(c) /\ hold' = [hold EXCEPT ![c] = FALSE]
    <3>1. Cap(0)' = Cap(0) /\ Cap(1)' = Cap(1)
      BY <1>b, <2>1 DEF Cap
    <3> QED
      BY <1>a, <2>1, <2>3, <3>1, DropStep DEF Pumping
  <2> QED
    BY <1>11, <2>2, <2>3 DEF HoldRound
<1>12. ASSUME NEW c \in Seats, Capture(c) PROVE Paced'
  BY <1>a, <1>b, <1>12, GuestCaptureStep, HostCaptureStep
<1>13. ASSUME NEW c \in Seats, Stall(c) PROVE Paced'
  <2>1. /\ UNCHANGED <<tick, ring, wm, hold, pend, resume, rec, dropped, rebases, chan, room, played>>
        /\ pc[c] = "gate" /\ pc'[c] = "stall" /\ ~dropped[c] /\ \A d \in Seats : d # c => pc'[d] = pc[d]
    BY <1>b, <1>13 DEF Stall, GateOpen
  <2> QED
    BY <1>a, <2>1, IdleStep DEF Pumping
<1>14. ASSUME NEW c \in Seats, StallRound(c) PROVE Paced'
  <2>1. /\ UNCHANGED <<tick, pend, resume, rec, rebases, chan, room, played, hold>>
        /\ pc[c] = "stall" /\ pc'[c] = "gate" /\ \A d \in Seats : d # c => pc'[d] = pc[d]
    BY <1>b, <1>14 DEF StallRound
  <2>2. CASE UNCHANGED <<dropped, ring, wm>>
    BY <1>a, <2>1, <2>2, IdleStep DEF Pumping
  <2>3. CASE NET_DROP(c)
    <3>1. Cap(0)' = Cap(0) /\ Cap(1)' = Cap(1)
      BY <1>b, <2>1 DEF Cap
    <3> QED
      BY <1>a, <2>1, <2>3, <3>1, DropStep DEF Pumping
  <2> QED
    BY <1>14, <2>2, <2>3 DEF StallRound
<1>15. ASSUME NEW c \in Seats, RunTick(c) PROVE Paced'
  BY <1>a, <1>b, <1>15, GuestRunStep, HostRunStep
<1>16. ASSUME NEW c \in Seats, RunPush(c) PROVE Paced'
  <2>1. c = 0
    BY <1>16 DEF RunPush, PushNow, PushWanted, Host
  <2> QED
    BY <1>a, <1>16, <2>1, HostPushStep
<1>17. ASSUME NEW c \in Seats, NEW k \in Parts, Drift(c, k) PROVE Paced'
  BY <1>a, <1>17, IdleStep DEF Drift
<1>18. ASSUME NEW c \in Seats, NEW i \in 1 .. Len(chan[c]), LoseWrite(c, i) PROVE Paced'
  BY <1>18 DEF LoseWrite
<1>19. ASSUME NEW c \in Seats, Leave(c) PROVE Paced'
  BY <1>a, <1>19, LeaveStep
<1>20. CASE UNCHANGED vars
  BY <1>a, <1>20, IdleStep DEF vars
<1> QED
  BY <1>1, <1>2, <1>3, <1>4, <1>5, <1>6, <1>7, <1>8, <1>9, <1>10, <1>11, <1>12,
     <1>13, <1>14, <1>15, <1>16, <1>17, <1>18, <1>19, <1>20
     DEF Next, Console, OnFrame, Environment, Finished

\* The invariant of the two queues, the two clocks and the two rings.
THEOREM LockstepInvariant == ASSUME Sized PROVE Spec => []Lockstep
<1>1. Init => Lockstep
  BY LockstepInit
<1>2. TypeOK /\ TypeOK' /\ TornInv /\ Lockstep /\ [Next]_vars => Lockstep'
  BY LockstepStep
<1> QED
  BY <1>1, <1>2, TypeCorrect, TornInvariant, PTL DEF Spec

\* Whatever tick both consoles simulate while the match is on (GameTick after
\* @@ls_gate), they simulate with the same inputs of both seats: for every
\* delay, gap and ring of a sensible size, any number of divergences and
\* pushes, consoles that leave or time out, and ticks that wrap.
THEOREM InputsAgree == ASSUME Sized PROVE Spec => []InputAgreement
<1>1. Lockstep => InputAgreement
  BY DEF Lockstep, Paced, Agree, InputAgreement
<1> QED
  BY <1>1, LockstepInvariant, PTL

\* If both queues are empty and the room stands, each gate that is closed
\* says how far ahead the other console has captured: not both can be.
LEMMA StallExcluded ==
  ASSUME TypeOK, Sized, TornInv, Lockstep PROVE NoMutualStall
<1> SUFFICES ASSUME lost = {}, room,
                    \A c \in Seats : pc[c] \in {"gate", "stall"} /\ ~GateOpen(c) /\ chan[c] = << >>
             PROVE  FALSE
  BY DEF NoMutualStall
<1>0. 0 \in Seats /\ 1 \in Seats
  BY Flat
<1>1. /\ tick[0] \in Nat /\ tick[1] \in Nat /\ wm[0] \in Nat /\ wm[1] \in Nat /\ resume[0] \in Nat
      /\ Delay \in Nat /\ Delay >= 1
  BY <1>0, Flat
<1>2. ~dropped[0] /\ ~dropped[1] /\ Behind(wm[0], tick[0]) /\ Behind(wm[1], tick[1])
  BY <1>0 DEF GateOpen
<1>3. GuestQueue /\ GuestRight /\ HostClock /\ HostRight
  BY <1>2 DEF Lockstep, Paced, GuestSide, HostSide
<1>4. tick[1] = wm[1] + 1
  <2>1. tick[1] <= wm[1] + 1 /\ wm[1] <= tick[1] + 2 * Delay + 1
    BY <1>3 DEF GuestRight
  <2>2. wm[1] < tick[1] + 2 * Leap
    <3>1. Leap = ResumeGap + Delay + 1 /\ ResumeGap \in Nat
      BY Flat DEF Leap
    <3> QED
      BY <1>1, <2>1, <3>1, SMTT(30)
  <2>3. ~(tick[1] <= wm[1])
    BY <1>1, <1>2, <2>2, BehindExact
  <2> QED
    BY <1>1, <2>1, <2>3
<1>5. tick[0] = wm[0] + 1
  <2>1. tick[0] <= wm[0] + 1 /\ wm[0] <= tick[0] + 2 * Delay + 1
    BY <1>3 DEF HostClock
  <2>2. wm[0] < tick[0] + 2 * Leap
    <3>1. Leap = ResumeGap + Delay + 1 /\ ResumeGap \in Nat
      BY Flat DEF Leap
    <3> QED
      BY <1>1, <2>1, <3>1, SMTT(30)
  <2>3. ~(tick[0] <= wm[0])
    BY <1>1, <1>2, <2>2, BehindExact
  <2> QED
    BY <1>1, <2>1, <2>3
<1>6. Cap(0) = tick[0] + Delay + 1 /\ Cap(1) = tick[1] + Delay + 1
  BY <1>0, <1>1 DEF Cap
<1>7. chan[0] = << >> /\ chan[1] = << >> /\ Elems(<< >>) = {} /\ \A type : Kind(<< >>, type) = {}
  BY <1>0, NoneQ DEF Kind
<1>8. ~hold[1]
  <2>1. ImageUnbroken(1)
    BY <1>0 DEF TornInv
  <2> QED
    BY <1>2, <1>7, <2>1 DEF ImageUnbroken, StreamOK
<1>9. Ahead = 0
  <2>1. ~Pending(resume[0])
    BY <1>7, <1>8 DEF Pending, Mid
  <2>2. ~(Ahead > 0)
    BY <1>3, <2>1 DEF GuestQueue
  <2>3. Ahead \in 0 .. 2
    BY DEF Lockstep, Paced, Basic
  <2> QED
    BY <2>2, <2>3
<1>10. tick[1] = tick[0] + Delay + 1
  <2>1. Full(<< >>, wm[1], Cap(0))
    BY <1>3, <1>7, <1>8 DEF GuestQueue, Start
  <2>2. Cap(0) = wm[1] + 1
    BY <1>7, <2>1 DEF Full
  <2> QED
    BY <1>4, <1>6, <2>2
<1>11. \A t \in wm[0] + 1 .. Cap(1) - 1 : t = resume[0] + Delay
  BY <1>3, <1>7, <1>9 DEF HostRight
<1>12. tick[0] \in wm[0] + 1 .. Cap(1) - 1 /\ tick[0] + 1 \in wm[0] + 1 .. Cap(1) - 1
  <2>1. Cap(1) = tick[0] + Delay + 1 + Delay + 1
    BY <1>6, <1>10
  <2>2. tick[0] + 1 <= Cap(1) - 1 /\ Cap(1) - 1 \in Int
    BY <1>1, <2>1
  <2>3. wm[0] + 1 = tick[0]
    BY <1>5
  <2>4. ASSUME NEW a \in Nat, NEW b \in Int, a + 1 <= b PROVE a \in a .. b /\ a + 1 \in a .. b
    BY <2>4
  <2> QED
    BY <1>1, <2>2, <2>3, <2>4
<1>13. tick[0] = resume[0] + Delay /\ tick[0] + 1 = resume[0] + Delay
  BY <1>11, <1>12
<1> QED
  BY <1>1, <1>13

\* The consoles never wait for each other for ever: both stalled in @@ls_stall
\* with nothing under way cannot happen unless a frame was lost.
THEOREM StallFree == ASSUME Sized PROVE Spec => []NoMutualStall
<1>1. TypeOK /\ TornInv /\ Lockstep => NoMutualStall
  BY StallExcluded
<1> QED
  BY <1>1, TypeCorrect, TornInvariant, LockstepInvariant, PTL

-----------------------------------------------------------------------------
(* Netplay implements Match.                                               *)

\* What Match is not concerned with.
LEMMA MatchStays ==
  ASSUME UNCHANGED <<played, tick, rebases, dropped>>, resume'[0] = resume[0]
  PROVE  UNCHANGED OneLog!match
BY DEF OneLog!match

\* A console gives the match up, or had done so before.
LEMMA MatchDrops ==
  ASSUME TypeOK, NEW c \in Seats, NET_DROP(c), UNCHANGED <<played, tick, rebases>>, resume'[0] = resume[0]
  PROVE  OneLog!GiveUp(c)
BY DEF NET_DROP, OneLog!GiveUp

\* The inputs of a tick are those it was played on before, if it was.
LEMMA MatchReplays ==
  ASSUME TypeOK, TypeOK', Basic, Agree', NEW c \in Seats, GameTick(c), ~dropped[c]
  PROVE  OneLog!Replays(c)
<1> DEFINE o == Other(c)
           e == [tick |-> tick[c], in |-> Replay(c)]
<1>0. /\ o \in Seats /\ o # c /\ (\A d \in Seats : d = c \/ d = o) /\ DOMAIN played = Seats
      /\ 0 \in Seats /\ 1 \in Seats /\ tick[c] \in Nat
  <2>1. o \in Seats /\ o # c /\ (\A d \in Seats : d = c \/ d = o)
    BY DEF Seats, Other
  <2>2. DOMAIN played = Seats /\ 0 \in Seats /\ 1 \in Seats
    BY DEF Seats, TypeOK, SimType
  <2>3. tick[c] \in Nat
    BY Flat
  <2> QED
    BY <2>1, <2>2, <2>3
<1>1. Replay(c) \in [Seats -> Inputs]
  BY TickType, Flat
<1>2. /\ played'[c] = played[c] \cup {e} /\ played'[o] = played[o]
      /\ (played[0] \cup played[1])' = (played[0] \cup played[1]) \cup {e}
  <2>1. played'[c] = played[c] \cup {e} /\ played'[o] = played[o]
    BY <1>0 DEF GameTick
  <2>2. played[0] \cup played[1] = played[c] \cup played[o] /\ played'[0] \cup played'[1] = played'[c] \cup played'[o]
    BY <1>0
  <2> QED
    BY <2>1, <2>2
<1>3. ASSUME NEW d \in played[0] \cup played[1], d.tick = tick[c] PROVE d = e
  <2>1. d \in played[o]
    <3>1. d \notin played[c]
      <4>1. \A p \in played[c] : p.tick < tick[c] /\ p.tick \in Nat
        BY Flat DEF Basic
      <4> QED
        BY <1>0, <1>3, <4>1
    <3> QED
      BY <1>0, <1>3, <3>1
  <2>2. d.in = e.in
    <3>1. d \in played'[o] /\ e \in played'[c] /\ d.tick = e.tick
      BY <1>2, <1>3, <2>1
    <3> QED
      BY <1>0, <3>1 DEF Agree, Seats
  <2>3. d \in [tick : Nat, in : [Seats -> Inputs]]
    BY <1>0, <2>1, Flat DEF TypeOK, SimType
  <2> QED
    BY <1>3, <2>2, <2>3
<1>4. e \in OneLog!Events
  BY <1>0, <1>1 DEF OneLog!Events, OneLog!Sides, Seats
<1>5. e.tick = tick[c] /\ e \in (played[0] \cup played[1])'
  BY <1>2
<1> HIDE DEF e
<1> QED
  BY <1>2, <1>3, <1>4, <1>5 DEF OneLog!Replays

\* The host runs no further ahead than it has received inputs.
LEMMA MatchHostInStep ==
  ASSUME TypeOK, Sized, Paced, ~dropped[0], GateOpen(0)
  PROVE  OneLog!InStep(0)
<1>0. /\ 0 \in Seats /\ 1 \in Seats /\ tick[0] \in Nat /\ tick[1] \in Nat /\ wm[0] \in Nat /\ resume[0] \in Nat
      /\ rebases[0] \in Nat /\ rebases[1] \in Nat /\ Delay \in Nat /\ Ahead \in 0 .. 2
      /\ Cap(1) \in Nat /\ Cap(1) <= tick[1] + Delay + 1
  BY Flat DEF Paced, Basic
<1>1. HostClock
  BY DEF Paced, HostSide
<1>2. tick[0] <= wm[0]
  BY <1>0, <1>1, GateExact DEF HostClock
<1>3. CASE rebases[0] = rebases[1]
  <2>1. Ahead = 0
    BY <1>0, <1>3 DEF Ahead
  <2>2. wm[0] < Cap(1)
    BY <1>1, <2>1 DEF HostClock
  <2>3. tick[0] <= tick[1] + Delay
    BY <1>0, <1>2, <2>2
  <2> QED
    BY <1>3, <2>3 DEF OneLog!InStep
<1>4. CASE rebases[0] # rebases[1]
  <2>1. Ahead > 0
    BY <1>0, <1>4 DEF Ahead
  <2>2. wm[0] = resume[0] + Delay - 1
    BY <1>1, <2>1 DEF HostClock
  <2>3. tick[0] < resume[0] + Delay
    BY <1>0, <1>2, <2>2
  <2> QED
    BY <1>4, <2>3 DEF OneLog!InStep
<1> QED
  BY <1>3, <1>4

\* The guest runs no further ahead than the host has captured, and not into
\* the epoch of an image that it has still to take.
LEMMA MatchGuestInStep ==
  ASSUME TypeOK, TypeOK', Paced', RunTick(1), ~dropped[1]
  PROVE  OneLog!InStep(1)
<1>0. /\ 0 \in Seats /\ 1 \in Seats /\ tick[0] \in Nat /\ tick[1] \in Nat /\ resume[0] \in Nat
      /\ rebases[0] \in Nat /\ rebases[1] \in Nat /\ Delay \in Nat
      /\ Cap(0) \in Nat /\ Cap(0) <= tick[0] + Delay + 1
  BY Flat
<1>1. /\ tick'[0] = tick[0] /\ tick'[1] = tick[1] + 1 /\ resume' = resume /\ rebases' = rebases
      /\ dropped' = dropped /\ pc'[0] = pc[0]
  <2>1. GameTick(1) /\ tick' = [tick EXCEPT ![1] = @ + 1] /\ resume' = resume /\ rebases' = rebases
    BY DEF RunTick
  <2>2. dropped' = dropped /\ pc'[0] = pc[0]
    BY <1>0, <2>1, GamePlayed
  <2>3. DOMAIN tick = Seats
    BY DEF TypeOK, EngineType
  <2> QED
    BY <1>0, <2>1, <2>2, <2>3
<1>2. Late' = 0 /\ Cap(0)' = Cap(0) /\ Ahead' = Ahead /\ Ahead \in 0 .. 2
  BY <1>1 DEF Late, Cap, Ahead, Paced, Basic
<1>3. IF Ahead = 0 THEN tick[1] + 1 <= Cap(0) + 0 ELSE tick[1] + 1 < resume[0] + 0
  <2>1. Shared'
    BY DEF Paced
  <2> QED
    BY <1>1, <1>2, <2>1 DEF Shared
<1>4. CASE rebases[0] = rebases[1]
  <2>1. Ahead = 0
    BY <1>0, <1>4 DEF Ahead
  <2>2. tick[1] <= tick[0] + Delay
    BY <1>0, <1>3, <2>1
  <2> QED
    BY <1>4, <2>2 DEF OneLog!InStep
<1>5. CASE rebases[0] # rebases[1]
  <2>1. Ahead # 0
    BY <1>0, <1>5 DEF Ahead
  <2>2. tick[1] + 1 < resume[0]
    BY <1>0, <1>3, <2>1
  <2> QED
    BY <1>5, <2>2 DEF OneLog!InStep
<1> QED
  BY <1>4, <1>5

\* A tick without a push.
LEMMA MatchPlays ==
  ASSUME TypeOK, TypeOK', Sized, Paced, Paced', NEW c \in Seats, RunTick(c)
  PROVE  OneLog!Play(c)
<1>0. 0 \in Seats /\ 1 \in Seats /\ (\A d \in Seats : d = 0 \/ d = 1) /\ c \in OneLog!Sides
  BY DEF Seats, OneLog!Sides
<1>1. /\ GameTick(c) /\ tick' = [tick EXCEPT ![c] = @ + 1] /\ UNCHANGED <<rebases, resume>>
  BY DEF RunTick
<1>2. GateOpen(c) /\ UNCHANGED dropped
  BY <1>1, GamePlayed
<1>3. OneLog!Ticks(c)
  <2>1. CASE dropped[c]
    <3>1. played' = played
      BY <1>1, <2>1 DEF GameTick, TypeOK, SimType
    <3> QED
      BY <2>1, <3>1 DEF OneLog!Ticks
  <2>2. CASE ~dropped[c]
    <3>1. OneLog!Replays(c)
      BY <1>1, <2>2, MatchReplays DEF Paced
    <3>2. OneLog!InStep(c)
      BY <1>0, <1>2, <2>2, MatchHostInStep, MatchGuestInStep
    <3> QED
      BY <2>2, <3>1, <3>2 DEF OneLog!Ticks
  <2> QED
    BY <2>1, <2>2
<1> QED
  BY <1>1, <1>2, <1>3 DEF OneLog!Play

\* A tick with a push.
LEMMA MatchResyncs ==
  ASSUME TypeOK, TypeOK', Sized, Paced, Paced', RunPush(0)
  PROVE  OneLog!Resync
<1>0. /\ 0 \in Seats /\ 1 \in Seats /\ tick \in [Seats -> Nat] /\ resume \in [Seats -> Nat] /\ rebases \in [Seats -> Nat]
      /\ tick[0] \in Nat /\ ResumeGap \in Nat /\ rebases[0] \in Nat /\ rebases[1] \in Nat
  BY Flat DEF TypeOK, EngineType, RecoveryType
<1>1. /\ GameTick(0) /\ resume' = [resume EXCEPT ![0] = ResumeTick(0)]
      /\ tick' = [tick EXCEPT ![0] = ResumeTick(0)] /\ rebases' = [rebases EXCEPT ![0] = @ + 1]
  BY DEF RunPush, RS_REBASE
<1>2. ResumeTick(0) \in Nat /\ ResumeTick(0) > tick[0]
  BY <1>0 DEF ResumeTick
<1>3. /\ resume'[0] = ResumeTick(0) /\ tick'[0] = ResumeTick(0) /\ rebases'[0] = rebases[0] + 1 /\ rebases'[1] = rebases[1]
  BY <1>0, <1>1
<1>4. GateOpen(0) /\ UNCHANGED dropped
  BY <1>0, <1>1, GamePlayed
<1>5. OneLog!Ticks(0)
  <2>1. CASE dropped[0]
    <3>1. played' = played
      BY <1>1, <2>1 DEF GameTick, TypeOK, SimType
    <3> QED
      BY <2>1, <3>1 DEF OneLog!Ticks
  <2>2. CASE ~dropped[0]
    <3>1. OneLog!Replays(0)
      BY <1>0, <1>1, <2>2, MatchReplays DEF Paced
    <3>2. OneLog!InStep(0)
      BY <1>4, <2>2, MatchHostInStep
    <3> QED
      BY <2>2, <3>1, <3>2 DEF OneLog!Ticks
  <2> QED
    BY <2>1, <2>2
<1>6. rebases[0] <= rebases[1] + 1 /\ Ahead' > 0
  <2>1. Ahead \in 0 .. 2 /\ Ahead' \in 0 .. 2
    BY DEF Paced, Basic
  <2>2. rebases[0] - rebases[1] >= 0 /\ rebases[0] + 1 - rebases[1] <= 2
    BY <1>0, <1>3, <2>1 DEF Ahead
  <2>3. Ahead' = rebases[0] + 1 - rebases[1]
    BY <1>0, <1>3 DEF Ahead
  <2> QED
    BY <1>0, <2>2, <2>3
<1>7. ASSUME NEW e \in (played[0] \cup played[1])' PROVE e.tick < resume'[0]
  <2>1. \A p \in played'[0] : p.tick < tick'[0]
    BY <1>0 DEF Paced, Basic
  <2>2. \A q \in played'[1] : q.tick < resume'[0]
    BY <1>6 DEF Paced, Shared
  <2> QED
    BY <1>3, <1>7, <2>1, <2>2
<1> QED
  BY <1>1, <1>2, <1>3, <1>4, <1>5, <1>6, <1>7 DEF OneLog!Resync

\* The end of an image.
LEMMA MatchFollows ==
  ASSUME TypeOK, TypeOK', Sized, Paced, OnEnd(1), hold[1]
  PROVE  OneLog!Follow
<1>0. /\ 0 \in Seats /\ 1 \in Seats /\ tick \in [Seats -> Nat] /\ rebases \in [Seats -> Nat] /\ tick' \in [Seats -> Nat]
      /\ tick[1] \in Nat /\ wm[1] \in Nat /\ resume[0] \in Nat /\ resume[1] \in Nat
      /\ rebases[0] \in Nat /\ rebases[1] \in Nat /\ Delay \in Nat /\ ResumeGap \in Nat /\ ResumeGap > Delay
  BY Flat DEF TypeOK, EngineType, Sized
<1>1. /\ chan[1] # << >> /\ pc[1] \in Pumping
      /\ tick' = [tick EXCEPT ![1] = resume[1]] /\ rebases' = [rebases EXCEPT ![1] = @ + 1]
      /\ UNCHANGED <<played, resume, dropped>>
  BY DEF OnEnd, Receives, RS_REBASE
<1>2. ~dropped[1] /\ Ahead \in 0 .. 2
  BY <1>0, <1>1 DEF Paced, Basic
<1>3. GuestQueue /\ GuestRight
  BY <1>2 DEF Paced, GuestSide
<1>4. tick[1] < resume[1]
  <2>1. tick[1] <= wm[1] + 1 /\ wm[1] <= resume[1] - 1 - ResumeGap + Delay
    BY <1>3 DEF GuestQueue, GuestRight, Limit
  <2> QED
    BY <1>0, <2>1
<1>5. Mid = {resume[1]} /\ Images(chan[1], Mid, resume[0], Ahead)
  BY <1>3 DEF Mid, GuestQueue
<1>6. /\ Ahead = 1 => resume[1] = resume[0]
      /\ Ahead = 2 => resume[1] < resume[0]
      /\ Ahead # 0
  BY <1>5 DEF Images
<1>7. /\ rebases[1] < rebases[0]
      /\ IF rebases[1] + 1 = rebases[0] THEN resume[1] = resume[0] ELSE resume[1] < resume[0]
  BY <1>0, <1>2, <1>6 DEF Ahead
<1>8. tick'[0] = tick[0] /\ tick'[1] = resume[1] /\ OneLog!Sides = Seats
  BY <1>0, <1>1 DEF Seats, OneLog!Sides
<1>9. UNCHANGED <<played[0] \cup played[1], resume[0], dropped>>
  BY <1>1
<1> QED
  BY <1>0, <1>1, <1>2, <1>4, <1>7, <1>8, <1>9 DEF OneLog!Follow

LEMMA MatchStep ==
  ASSUME TypeOK, TypeOK', Sized, Lockstep, Lockstep', [Next]_vars, lost' = {}
  PROVE  [OneLog!MatchNext]_OneLog!match
<1> USE DEF engine, recovery, history
<1> DEFINE Kept == UNCHANGED <<played, tick, rebases, dropped>> /\ resume'[0] = resume[0]
<1>a. Paced /\ Paced' /\ Basic
  <2>1. lost = {}
    BY LostKept
  <2> QED
    BY <2>1 DEF Lockstep, Paced
<1>b. 0 \in Seats /\ 1 \in Seats /\ (\A c \in Seats : c = 0 \/ c = 1) /\ OneLog!Sides = Seats
  BY DEF Seats, OneLog!Sides
<1>1. ASSUME NEW c \in Seats, OnInput(c) \/ OnCrc(c) \/ OnResync(c) \/ OnChunk(c) PROVE Kept
  BY <1>1 DEF OnInput, OnCrc, OnResync, OnChunk, Receives
<1>2. ASSUME NEW c \in Seats, OnBegin(c) PROVE Kept
  <2>1. chan[c] # << >> /\ Head(chan[c]).type = "BEGIN"
    BY <1>2 DEF OnBegin, Receives
  <2>2. c = 1
    BY <1>a, <1>b, <2>1, HeadKinds
  <2>3. resume' = [resume EXCEPT ![1] = Head(chan[1]).tick] /\ DOMAIN resume = Seats
    BY <1>2, <2>2 DEF OnBegin, TypeOK, RecoveryType
  <2>4. resume'[0] = resume[0]
    BY <1>b, <2>3
  <2> QED
    BY <1>2, <2>4 DEF OnBegin, Receives
<1>3. ASSUME NEW c \in Seats, OnEnd(c) PROVE Kept \/ OneLog!Follow
  <2>1. chan[c] # << >> /\ Head(chan[c]).type = "END"
    BY <1>3 DEF OnEnd, Receives
  <2>2. c = 1
    BY <1>a, <1>b, <2>1, HeadKinds
  <2>3. CASE hold[1]
    BY <1>a, <1>3, <2>2, <2>3, MatchFollows
  <2>4. CASE ~hold[1]
    BY <1>3, <2>2, <2>4 DEF OnEnd, Receives
  <2> QED
    BY <2>3, <2>4
<1>4. ASSUME NEW c \in Seats, OnPeerLeft(c) \/ HoldRound(c) \/ StallRound(c)
      PROVE  Kept \/ OneLog!GiveUp(c)
  <2>1. UNCHANGED <<played, tick, rebases, resume>>
    BY <1>4 DEF OnPeerLeft, HoldRound, StallRound, Receives
  <2>2. NET_DROP(c) \/ UNCHANGED dropped
    BY <1>4 DEF OnPeerLeft, HoldRound, StallRound
  <2> QED
    BY <2>1, <2>2, MatchDrops
<1>5. ASSUME NEW c \in Seats, SesPump(c) \/ SesDone(c) \/ PassBegin(c) \/ Capture(c) \/ Stall(c) PROVE Kept
  BY <1>5 DEF SesPump, SesDone, PassBegin, Capture, Stall
<1>6. ASSUME NEW c \in Seats, RunTick(c) PROVE OneLog!Play(c)
  BY <1>a, <1>6, MatchPlays
<1>7. ASSUME NEW c \in Seats, RunPush(c) PROVE OneLog!Resync
  <2>1. c = 0
    BY <1>7 DEF RunPush, PushNow, PushWanted, Host
  <2> QED
    BY <1>a, <1>7, <2>1, MatchResyncs
<1>8. ASSUME Environment PROVE Kept
  BY <1>8 DEF Environment, Drift, LoseWrite, Leave
<1>9. Finished \/ UNCHANGED vars => Kept
  BY DEF Finished, vars
<1>10. Kept => UNCHANGED OneLog!match
  BY MatchStays
<1> HIDE DEF Kept
<1>11. \A c \in Seats : OneLog!Play(c) \/ OneLog!GiveUp(c) => OneLog!MatchNext
  BY <1>b DEF OneLog!MatchNext
<1>12. OneLog!Resync \/ OneLog!Follow => OneLog!MatchNext
  BY DEF OneLog!MatchNext
<1>13. ASSUME NEW c \in Seats, Console(c) PROVE Kept \/ OneLog!MatchNext
  <2>1. OnFrame(c) => Kept \/ OneLog!MatchNext
    BY <1>1, <1>2, <1>3, <1>4, <1>11, <1>12 DEF OnFrame
  <2>2. SesPump(c) \/ SesDone(c) \/ PassBegin(c) \/ HoldRound(c) \/ Capture(c) \/ Stall(c) \/ StallRound(c)
          => Kept \/ OneLog!MatchNext
    BY <1>4, <1>5, <1>11
  <2>3. RunTick(c) \/ RunPush(c) => OneLog!MatchNext
    BY <1>6, <1>7, <1>11, <1>12
  <2> QED
    BY <1>13, <2>1, <2>2, <2>3 DEF Console
<1> QED
  BY <1>8, <1>9, <1>10, <1>13 DEF Next

\* The protocol implements what the players are promised: while nothing is
\* lost, every step of Netplay is a step of Match or changes nothing in it.
\* GameTick is a tick of the one log, RS_PUSH and the END of its image
\* (RS_REBASE) are the two halves of a resync, and NET_DROP ends the promise.
THEOREM OneLogReplayed == ASSUME Sized PROVE Spec => ReplaysOneLog
<1>1. Init => OneLog!MatchInit
  BY DEF Init, OneLog!MatchInit, OneLog!Sides, Seats
<1>2. TypeOK /\ TypeOK' /\ Lockstep /\ Lockstep' /\ [Next]_vars
        => [lost' = {} => OneLog!MatchNext]_OneLog!match
  BY MatchStep
<1> QED
  BY <1>1, <1>2, TypeCorrect, LockstepInvariant, PTL DEF Spec, ReplaysOneLog
=============================================================================
