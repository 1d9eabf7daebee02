------------------------ MODULE NetplayEpochProofs ------------------------
(* What a resync costs and what it restores, while no frame is lost: nothing *)
(* is pushed that did not diverge, a divergence costs at most two pushes,    *)
(* and consoles at the same tick of an epoch without divergence are in the   *)
(* same state.                                                               *)
EXTENDS NetplayResyncProofs, FiniteSetTheorems

-----------------------------------------------------------------------------
(* Epochs.  bs[e] is the state epoch e began with, st[e] its first tick.   *)

\* The history of a console: b, and then the ticks s .. n - 1 out of pl.
Extends(h, b, s, n, pl) ==
  /\ s <= n /\ Len(h) = Len(b) + (n - s)
  /\ \A i \in 1 .. Len(b) : h[i] = b[i]
  /\ \A t \in s .. n - 1 :
       h[Len(b) + 1 + (t - s)] \in pl /\ h[Len(b) + 1 + (t - s)].tick = t

Clean(e) == e \notin dirty

\* The images under way lead to the epochs that follow the guest's.
Starts(st) ==
  /\ st[rebases[0]] = resume[0] /\ st[rebases[1]] <= tick[1]
  /\ \A e \in 0 .. rebases[0] : \A d \in 0 .. e - 1 : st[d] < st[e]
  /\ \A r \in Mid \cup {b.tick : b \in Kind(chan[1], "BEGIN")} :
       r = resume[0] \/ (Ahead = 2 /\ r = st[rebases[0] - 1])

\* What a console simulates, records and reports in an epoch follows from the
\* state the epoch began with.
HostTrace(bs) ==
  Clean(rebases[0]) =>
    \A k \in Parts : Extends(sim[0][k], bs[rebases[0]][k], resume[0], tick[0], played[0])

GuestTrace(bs, st) ==
  \A k \in Parts :
    /\ k \notin applied[1] /\ Clean(rebases[1]) =>
         Extends(sim[1][k], bs[rebases[1]][k], st[rebases[1]], tick[1], played[1])
    /\ k \in applied[1] /\ Clean(rebases[1] + 1) => sim[1][k] = bs[rebases[1] + 1][k]

RecordTrace(bs, st) ==
  \A c \in Seats, x \in CrcSlots :
    rec[c][x] # Blank =>
      /\ st[rebases[c]] <= rec[c][x].tick
      /\ Clean(rebases[c]) => \A k \in CrcParts :
           Extends(rec[c][x].crc[k], bs[rebases[c]][k], st[rebases[c]], rec[c][x].tick + 1, played[c])

ToHostTrace(bs) ==
  \A f \in Kind(chan[0], "CRC") :
    f.tick >= resume[0] /\ Clean(rebases[0]) =>
      \A k \in CrcParts : Extends(f.crc[k], bs[rebases[0]][k], resume[0], f.tick + 1, played[1])

ToGuestTrace(bs, st) ==
  \A f \in Kind(chan[1], "CRC"), e \in rebases[1] .. rebases[0] :
    /\ Clean(e) /\ st[e] <= f.tick
    /\ e < rebases[0] => f.tick < st[e + 1]
    => \A k \in CrcParts : Extends(f.crc[k], bs[e][k], st[e], f.tick + 1, played[0])

\* The image at position i: the one the guest is in the middle of, or the one
\* that begins at j.
Edge == {"BEGIN", "END"}
Front(s, i) == \A j \in 1 .. i - 1 : s[j].type \notin Edge
Within(s, j, i) == j < i /\ s[j].type = "BEGIN" /\ \A l \in j + 1 .. i - 1 : s[l].type \notin Edge

\* An image carries the state its epoch begins with, all of it.  (held: the
\* guest is in the middle of the image of epoch next; last is the host's epoch.)
Chunks(s, held, next, last, bs, st) ==
  \A i \in 1 .. Len(s) : s[i].type = "CHUNK" =>
    /\ held /\ Front(s, i) => s[i].data = bs[next][s[i].part]
    /\ \A j \in 1 .. Len(s), e \in next .. last :
         Within(s, j, i) /\ st[e] = s[j].tick => s[i].data = bs[e][s[i].part]

Has(s, j, m, k) == \E i \in j + 1 .. m - 1 : s[i].type = "CHUNK" /\ s[i].part = k
Whole(s, held, done) ==
  \A m \in 1 .. Len(s) : s[m].type = "END" =>
    /\ held /\ Front(s, m) => \A k \in Parts : k \in done \/ Has(s, 0, m, k)
    /\ \A j \in 1 .. Len(s) : Within(s, j, m) => \A k \in Parts : Has(s, j, m, k)

\* Every push, and every request for one, is owed to an epoch that diverged,
\* and no epoch to more than two pushes.
Owed(e) == e \in dirty \/ e - 1 \in dirty
Blame ==
  /\ pushes = rebases[0]
  /\ dirty \subseteq 0 .. rebases[0] /\ Cardinality(dirty) <= drifts
  /\ \A e \in 0 .. rebases[0] - 1 : Owed(e)
  /\ pend[0] => Owed(rebases[0])
  /\ pend[1] => rebases[1] \in dirty
  /\ \A f \in Kind(chan[0], "RESYNC") :
       IF f.tick < resume[0] THEN rebases[0] - 1 \in dirty ELSE rebases[0] \in dirty

Epochs(bs, st) ==
  /\ Starts(st) /\ HostTrace(bs) /\ GuestTrace(bs, st) /\ RecordTrace(bs, st)
  /\ ToHostTrace(bs) /\ ToGuestTrace(bs, st)
  /\ Chunks(chan[1], hold[1], rebases[1] + 1, rebases[0], bs, st)
  /\ Whole(chan[1], hold[1], applied[1]) /\ Blame

EpochInv ==
  Live => \E bs \in [Nat -> [Parts -> History]], st \in [Nat -> Nat] : Epochs(bs, st)

-----------------------------------------------------------------------------
(* Histories.                                                              *)

\* One more tick of an epoch.
LEMMA ExtendsMore ==
  ASSUME NEW h \in History, NEW b \in History, NEW s \in Nat, NEW n \in Nat, NEW pl, NEW pm,
         Extends(h, b, s, n, pl), pl \subseteq pm, NEW e \in Event, e \in pm, e.tick = n
  PROVE  Append(h, e) \in History /\ Extends(Append(h, e), b, s, n + 1, pm)
<1> DEFINE g == Append(h, e)
<1>1. /\ Len(h) \in Nat /\ Len(b) \in Nat /\ s <= n /\ Len(h) = Len(b) + (n - s)
      /\ \A i \in 1 .. Len(b) : h[i] = b[i]
      /\ \A t \in s .. n - 1 : h[Len(b) + 1 + (t - s)] \in pl /\ h[Len(b) + 1 + (t - s)].tick = t
  BY DEF Extends, History
<1>2. /\ g \in History /\ Len(g) = Len(h) + 1 /\ g[Len(h) + 1] = e
      /\ \A i \in 1 .. Len(h) : g[i] = h[i]
  BY DEF History
<1> HIDE DEF g
<1>3. \A i \in 1 .. Len(b) : g[i] = b[i]
  <2>1. \A i \in 1 .. Len(b) : i \in 1 .. Len(h)
    BY <1>1
  <2> QED
    BY <1>1, <1>2, <2>1
<1>4. ASSUME NEW t \in s .. n PROVE g[Len(b) + 1 + (t - s)] \in pm /\ g[Len(b) + 1 + (t - s)].tick = t
  <2>1. CASE t = n
    <3>1. Len(b) + 1 + (t - s) = Len(h) + 1
      BY <1>1, <2>1
    <3> QED
      BY <1>2, <2>1, <3>1
  <2>2. CASE t # n
    <3>1. t \in s .. n - 1 /\ Len(b) + 1 + (t - s) \in 1 .. Len(h)
      BY <1>1, <2>2
    <3> QED
      BY <1>1, <1>2, <3>1
  <2> QED
    BY <2>1, <2>2
<1>5. s <= n + 1 /\ Len(g) = Len(b) + ((n + 1) - s) /\ n + 1 - 1 = n
  BY <1>1, <1>2
<1>6. Extends(g, b, s, n + 1, pm)
  <2>1. \A t \in s .. (n + 1) - 1 : t \in s .. n
    BY <1>5
  <2>2. \A t \in s .. (n + 1) - 1 : g[Len(b) + 1 + (t - s)] \in pm /\ g[Len(b) + 1 + (t - s)].tick = t
    BY <1>4, <2>1
  <2>3. s <= n + 1 /\ Len(g) = Len(b) + ((n + 1) - s)
    BY <1>5
  <2> QED
    BY <1>3, <2>2, <2>3 DEF Extends
<1> QED
  BY <1>2, <1>6 DEF g

\* An epoch that has just begun.
LEMMA ExtendsNone ==
  ASSUME NEW b \in History, NEW s \in Nat, NEW pl
  PROVE  Extends(b, b, s, s, pl)
<1>1. Len(b) \in Nat /\ s .. s - 1 = {} /\ Len(b) = Len(b) + (s - s) /\ s <= s
  BY DEF History
<1> QED
  BY <1>1 DEF Extends

LEMMA ExtendsMono ==
  ASSUME NEW h, NEW b, NEW s, NEW n, NEW pl, NEW pm, pl \subseteq pm, Extends(h, b, s, n, pl)
  PROVE  Extends(h, b, s, n, pm)
BY DEF Extends

\* Consoles that agree on their inputs agree on their histories.
LEMMA ExtendsSame ==
  ASSUME TypeOK, Agree, NEW h \in History, NEW g \in History, NEW b \in History,
         NEW s \in Nat, NEW n \in Nat,
         Extends(h, b, s, n, played[0]), Extends(g, b, s, n, played[1])
  PROVE  h = g
<1>1. /\ Len(h) \in Nat /\ Len(g) \in Nat /\ Len(b) \in Nat
      /\ s <= n /\ Len(h) = Len(b) + (n - s) /\ Len(g) = Len(h)
      /\ \A i \in 1 .. Len(b) : h[i] = b[i] /\ g[i] = b[i]
      /\ \A t \in s .. n - 1 :
            /\ h[Len(b) + 1 + (t - s)] \in played[0] /\ h[Len(b) + 1 + (t - s)].tick = t
            /\ g[Len(b) + 1 + (t - s)] \in played[1] /\ g[Len(b) + 1 + (t - s)].tick = t
  BY DEF Extends, History
<1>2. ASSUME NEW p \in played[0], NEW q \in played[1], p.tick = q.tick PROVE p = q
  <2>1. p \in [tick : Nat, in : [Seats -> Inputs]] /\ q \in [tick : Nat, in : [Seats -> Inputs]]
    BY Flat DEF TypeOK, SimType
  <2>2. p.in = q.in
    BY <1>2 DEF Agree
  <2> QED
    BY <1>2, <2>1, <2>2
<1>3. ASSUME NEW i \in 1 .. Len(h) PROVE h[i] = g[i]
  <2>1. CASE i \in 1 .. Len(b)
    BY <1>1, <2>1
  <2>2. CASE i \notin 1 .. Len(b)
    <3> DEFINE t == s + (i - Len(b) - 1)
    <3>1. t \in s .. n - 1 /\ Len(b) + 1 + (t - s) = i
      BY <1>1, <2>2
    <3> HIDE DEF t
    <3>2. h[i] \in played[0] /\ h[i].tick = t /\ g[i] \in played[1] /\ g[i].tick = t
      BY <1>1, <3>1
    <3> QED
      BY <1>2, <3>2
  <2> QED
    BY <2>1, <2>2
<1>4. h \in Seq(Event) /\ g \in Seq(Event) /\ Len(h) = Len(g)
  BY <1>1 DEF History
<1> QED
  BY <1>3, <1>4, SeqEqual

-----------------------------------------------------------------------------
(* Images in a queue.                                                      *)

\* The first frame is taken.
Shifted(s, v) ==
  /\ v \in Seq(Frame) /\ Len(s) = Len(v) + 1 /\ Len(v) \in Nat
  /\ \A i \in 1 .. Len(v) : v[i] = s[i + 1] /\ i + 1 \in 1 .. Len(s)
  /\ \A j \in 1 .. Len(v), i \in 1 .. Len(v) : Within(v, j, i) => Within(s, j + 1, i + 1)
  /\ \A i \in 1 .. Len(v) :
       Front(v, i) => /\ s[1].type \notin Edge => Front(s, i + 1)
                      /\ s[1].type = "BEGIN" => Within(s, 1, i + 1)
  /\ \A j \in 0 .. Len(v), m \in 1 .. Len(v) : \A k : Has(s, j + 1, m + 1, k) => Has(v, j, m, k)

LEMMA TailShifted ==
  ASSUME NEW s \in Seq(Frame), s # << >>
  PROVE  Shifted(s, Tail(s)) /\ Head(s) = s[1] /\ 1 \in 1 .. Len(s) /\ Front(s, 1)
<1> DEFINE v == Tail(s)
<1>1. /\ v \in Seq(Frame) /\ Len(s) = Len(v) + 1 /\ Len(v) \in Nat /\ Head(s) = s[1]
      /\ \A i \in 1 .. Len(v) : v[i] = s[i + 1] /\ i + 1 \in 1 .. Len(s)
  OBVIOUS
<1> HIDE DEF v
<1>2. ASSUME NEW j \in 1 .. Len(v), NEW i \in 1 .. Len(v), Within(v, j, i) PROVE Within(s, j + 1, i + 1)
  <2>1. j + 1 < i + 1 /\ s[j + 1].type = "BEGIN"
    BY <1>1, <1>2 DEF Within
  <2>2. ASSUME NEW l \in (j + 1) + 1 .. (i + 1) - 1 PROVE s[l].type \notin Edge
    <3>1. l - 1 \in j + 1 .. i - 1 /\ l - 1 \in 1 .. Len(v) /\ (l - 1) + 1 = l
      BY <1>1
    <3>2. v[l - 1].type \notin Edge /\ v[l - 1] = s[(l - 1) + 1]
      BY <1>1, <1>2, <3>1 DEF Within
    <3> QED
      BY <3>1, <3>2
  <2> QED
    BY <2>1, <2>2 DEF Within
<1>3. ASSUME NEW i \in 1 .. Len(v), Front(v, i)
      PROVE  /\ s[1].type \notin Edge => Front(s, i + 1)
             /\ s[1].type = "BEGIN" => Within(s, 1, i + 1)
  <2>1. ASSUME NEW l \in 2 .. i PROVE s[l].type \notin Edge
    <3>1. l - 1 \in 1 .. i - 1 /\ l - 1 \in 1 .. Len(v) /\ (l - 1) + 1 = l
      BY <1>1
    <3>2. v[l - 1].type \notin Edge /\ v[l - 1] = s[(l - 1) + 1]
      BY <1>1, <1>3, <3>1 DEF Front
    <3> QED
      BY <3>1, <3>2
  <2>2. \A l \in 1 .. (i + 1) - 1 : l = 1 \/ l \in 2 .. i
    BY <1>1
  <2>3. \A l \in 1 + 1 .. (i + 1) - 1 : l \in 2 .. i
    BY <1>1
  <2>4. 1 < i + 1
    BY <1>1
  <2> QED
    BY <2>1, <2>2, <2>3, <2>4 DEF Front, Within
<1>4. ASSUME NEW j \in 0 .. Len(v), NEW m \in 1 .. Len(v), NEW k, Has(s, j + 1, m + 1, k)
      PROVE  Has(v, j, m, k)
  <2>1. PICK i \in (j + 1) + 1 .. (m + 1) - 1 : s[i].type = "CHUNK" /\ s[i].part = k
    BY <1>4 DEF Has
  <2>2. i - 1 \in j + 1 .. m - 1 /\ i - 1 \in 1 .. Len(v) /\ (i - 1) + 1 = i
    BY <1>1
  <2>3. v[i - 1] = s[i]
    BY <1>1, <2>2
  <2> QED
    BY <2>1, <2>2, <2>3 DEF Has
<1>5. 1 \in 1 .. Len(s) /\ Front(s, 1)
  BY <1>1 DEF Front
<1>6. Shifted(s, v)
  BY <1>1, <1>2, <1>3, <1>4 DEF Shifted
<1> QED
  BY <1>1, <1>5, <1>6 DEF v

\* What the chunks carry after the frame ...
LEMMA TakeChunks ==
  ASSUME NEW s \in Seq(Frame), s # << >>, NEW held \in BOOLEAN,
         NEW next \in Nat, NEW last \in Nat, NEW bs, NEW st,
         Chunks(s, held, next, last, bs, st)
  PROVE  /\ \A n2 \in Nat : n2 >= next => Chunks(Tail(s), FALSE, n2, last, bs, st)
         /\ Head(s).type \notin Edge => Chunks(Tail(s), held, next, last, bs, st)
         /\ Head(s).type = "BEGIN" /\ next <= last /\ st[next] = Head(s).tick =>
              Chunks(Tail(s), TRUE, next, last, bs, st)
         /\ Head(s).type = "CHUNK" /\ held => Head(s).data = bs[next][Head(s).part]
<1> DEFINE v == Tail(s)
<1>1. Shifted(s, v) /\ Head(s) = s[1] /\ 1 \in 1 .. Len(s) /\ Front(s, 1)
  BY TailShifted
<1> HIDE DEF v
<1>2. ASSUME NEW i \in 1 .. Len(v), v[i].type = "CHUNK", NEW n2 \in Nat, n2 >= next
      PROVE  \A j \in 1 .. Len(v), e \in n2 .. last :
                Within(v, j, i) /\ st[e] = v[j].tick => v[i].data = bs[e][v[i].part]
  <2> SUFFICES ASSUME NEW j \in 1 .. Len(v), NEW e \in n2 .. last, Within(v, j, i), st[e] = v[j].tick
               PROVE  v[i].data = bs[e][v[i].part]
    OBVIOUS
  <2>1. i + 1 \in 1 .. Len(s) /\ j + 1 \in 1 .. Len(s) /\ v[i] = s[i + 1] /\ v[j] = s[j + 1] /\ e \in next .. last
    <3>1. /\ i + 1 \in 1 .. Len(s) /\ v[i] = s[i + 1]
          /\ j + 1 \in 1 .. Len(s) /\ v[j] = s[j + 1]
      BY <1>1, <1>2, Zenon DEF Shifted
    <3>2. e \in next .. last
      BY <1>2
    <3> QED
      BY <3>1, <3>2, Zenon
  <2>2. Within(s, j + 1, i + 1)
    BY <1>1, <1>2 DEF Shifted
  <2> QED
    BY <1>2, <2>1, <2>2 DEF Chunks
<1>3. next \in Nat /\ next >= next
  OBVIOUS
<1>4. \A n2 \in Nat : n2 >= next => Chunks(v, FALSE, n2, last, bs, st)
  BY <1>2 DEF Chunks
<1>5. ASSUME s[1].type \notin Edge PROVE Chunks(v, held, next, last, bs, st)
  <2> SUFFICES ASSUME NEW i \in 1 .. Len(v), v[i].type = "CHUNK", held, Front(v, i)
               PROVE  v[i].data = bs[next][v[i].part]
    BY <1>2, <1>3 DEF Chunks
  <2>1. Front(s, i + 1) /\ v[i] = s[i + 1] /\ i + 1 \in 1 .. Len(s)
    BY <1>1, <1>5 DEF Shifted
  <2> QED
    BY <2>1 DEF Chunks
<1>6. ASSUME s[1].type = "BEGIN", next <= last, st[next] = s[1].tick
      PROVE  Chunks(v, TRUE, next, last, bs, st)
  <2>1. next \in next .. last
    BY <1>6
  <2> SUFFICES ASSUME NEW i \in 1 .. Len(v), v[i].type = "CHUNK", Front(v, i)
               PROVE  v[i].data = bs[next][v[i].part]
    BY <1>2, <1>3 DEF Chunks
  <2>2. Within(s, 1, i + 1) /\ v[i] = s[i + 1] /\ i + 1 \in 1 .. Len(s)
    BY <1>1, <1>6 DEF Shifted
  <2> QED
    BY <1>1, <1>6, <2>1, <2>2 DEF Chunks
<1>7. s[1].type = "CHUNK" /\ held => s[1].data = bs[next][s[1].part]
  BY <1>1 DEF Chunks
<1> QED
  BY <1>1, <1>4, <1>5, <1>6, <1>7 DEF v

\* The chunks before an END are all there: those of the frame, and ...
LEMMA WholeAfter ==
  ASSUME NEW s \in Seq(Frame), s # << >>, NEW held, NEW done, Whole(s, held, done), NEW d,
         Head(s).type \notin Edge, done \subseteq d, Head(s).type = "CHUNK" => Head(s).part \in d
  PROVE  Whole(Tail(s), held, d)
<1> DEFINE v == Tail(s)
<1>1. Shifted(s, v) /\ Head(s) = s[1] /\ 1 \in 1 .. Len(s) /\ Front(s, 1)
  BY TailShifted
<1> HIDE DEF v
<1>2. Len(v) \in Nat /\ 0 \in 0 .. Len(v)
  BY <1>1 DEF Shifted
<1>3. ASSUME NEW m \in 1 .. Len(v), v[m].type = "END", NEW j \in 1 .. Len(v), Within(v, j, m), NEW k \in Parts
      PROVE  Has(v, j, m, k)
  <2>1. m + 1 \in 1 .. Len(s) /\ j + 1 \in 1 .. Len(s) /\ v[m] = s[m + 1] /\ j \in 0 .. Len(v)
    BY <1>1 DEF Shifted
  <2>2. Within(s, j + 1, m + 1)
    BY <1>1, <1>3 DEF Shifted
  <2>3. Has(s, j + 1, m + 1, k)
    BY <1>3, <2>1, <2>2 DEF Whole
  <2> QED
    BY <1>1, <2>1, <2>3 DEF Shifted
<1>4. ASSUME NEW m \in 1 .. Len(v), v[m].type = "END", held, Front(v, m), NEW k \in Parts, k \notin d
      PROVE  Has(v, 0, m, k)
  <2>1. Front(s, m + 1) /\ v[m] = s[m + 1] /\ m + 1 \in 1 .. Len(s)
    BY <1>1, <1>4 DEF Shifted
  <2>2. Has(s, 0, m + 1, k)
    BY <1>4, <2>1 DEF Whole
  <2>3. PICK i \in 0 + 1 .. (m + 1) - 1 : s[i].type = "CHUNK" /\ s[i].part = k
    BY <2>2 DEF Has
  <2>4. i # 1
    BY <1>1, <1>4, <2>3
  <2>5. i \in (0 + 1) + 1 .. (m + 1) - 1
    BY <1>2, <2>4
  <2>6. Has(s, 0 + 1, m + 1, k)
    BY <2>3, <2>5 DEF Has
  <2> QED
    BY <1>1, <1>2, <2>6 DEF Shifted
<1>5. Whole(v, held, d)
  BY <1>3, <1>4 DEF Whole
<1> QED
  BY <1>5 DEF v

LEMMA FirstChunk ==
  ASSUME NEW s \in Seq(Frame), s # << >>, NEW next, NEW last, NEW bs, NEW st,
         Chunks(s, TRUE, next, last, bs, st), Head(s).type = "CHUNK"
  PROVE  Head(s).data = bs[next][Head(s).part]
BY TailShifted DEF Chunks

LEMMA LastChunk ==
  ASSUME NEW s \in Seq(Frame), s # << >>, NEW done, NEW held, held, Whole(s, held, done), Head(s).type = "END"
  PROVE  \A k \in Parts : k \in done
<1>1. \A k : ~Has(s, 0, 1, k)
  BY DEF Has
<1> QED
  BY <1>1, TailShifted DEF Whole

\* ... those of the images behind it.
LEMMA TakeWhole ==
  ASSUME NEW s \in Seq(Frame), s # << >>, NEW held \in BOOLEAN, NEW done, Whole(s, held, done)
  PROVE  /\ \A d : Whole(Tail(s), FALSE, d)
         /\ \A d : Head(s).type \notin Edge /\ done \subseteq d /\ (Head(s).type = "CHUNK" => Head(s).part \in d)
              => Whole(Tail(s), held, d)
         /\ Head(s).type = "BEGIN" => Whole(Tail(s), TRUE, {})
         /\ Head(s).type = "END" /\ held => \A k \in Parts : k \in done
<1> DEFINE v == Tail(s)
<1>1. Shifted(s, v) /\ Head(s) = s[1] /\ 1 \in 1 .. Len(s) /\ Front(s, 1)
  BY TailShifted
<1> HIDE DEF v
<1>2. ASSUME NEW m \in 1 .. Len(v), v[m].type = "END"
      PROVE  \A j \in 1 .. Len(v) : Within(v, j, m) => \A k \in Parts : Has(v, j, m, k)
  <2> SUFFICES ASSUME NEW j \in 1 .. Len(v), Within(v, j, m), NEW k \in Parts PROVE Has(v, j, m, k)
    OBVIOUS
  <2>1. m + 1 \in 1 .. Len(s) /\ j + 1 \in 1 .. Len(s) /\ v[m] = s[m + 1] /\ j \in 0 .. Len(v)
    BY <1>1 DEF Shifted
  <2>2. Has(s, j + 1, m + 1, k)
    BY <1>1, <1>2, <2>1 DEF Whole, Shifted
  <2> QED
    BY <1>1, <2>1, <2>2 DEF Shifted
<1>3. \A d : Whole(v, FALSE, d)
  BY <1>2 DEF Whole
<1>4. Len(v) \in Nat /\ 0 \in 0 .. Len(v)
  BY <1>1 DEF Shifted
<1>5. ASSUME NEW d, s[1].type \notin Edge, done \subseteq d, s[1].type = "CHUNK" => s[1].part \in d
      PROVE  Whole(v, held, d)
  BY <1>1, <1>5, WholeAfter DEF v
<1>6. ASSUME s[1].type = "BEGIN" PROVE Whole(v, TRUE, {})
  <2> SUFFICES ASSUME NEW m \in 1 .. Len(v), v[m].type = "END", Front(v, m), NEW k \in Parts
               PROVE  Has(v, 0, m, k)
    BY <1>2 DEF Whole
  <2>1. Within(s, 1, m + 1) /\ v[m] = s[m + 1] /\ m + 1 \in 1 .. Len(s)
    BY <1>1, <1>6 DEF Shifted
  <2>2. Has(s, 1, m + 1, k) /\ 0 + 1 = 1
    BY <1>1, <2>1 DEF Whole
  <2> QED
    BY <1>1, <1>4, <2>2 DEF Shifted
<1>7. s[1].type = "END" /\ held => \A k \in Parts : k \in done
  <2>1. \A k : ~Has(s, 0, 1, k)
    BY DEF Has
  <2> QED
    BY <1>1, <2>1 DEF Whole
<1> QED
  BY <1>1, <1>3, <1>5, <1>6, <1>7 DEF v

\* The queue is cut, and what is sent is no part of an image.
LEMMA SameImages ==
  ASSUME NEW s \in Seq(Frame), NEW u \in Seq(Frame), NEW n \in Nat, n <= Len(s), n <= Len(u),
         \A i \in 1 .. n : u[i] = s[i],
         \A i \in n + 1 .. Len(u) : u[i].type \notin {"CHUNK", "END"},
         NEW held, NEW next, NEW last, NEW bs, NEW st, NEW done,
         Chunks(s, held, next, last, bs, st), Whole(s, held, done)
  PROVE  Chunks(u, held, next, last, bs, st) /\ Whole(u, held, done)
<1>1. Len(s) \in Nat /\ Len(u) \in Nat
  OBVIOUS
<1>2. ASSUME NEW i \in 1 .. Len(u), u[i].type \in {"CHUNK", "END"}
      PROVE  /\ i \in 1 .. Len(s) /\ i <= n /\ u[i] = s[i]
             /\ Front(u, i) => Front(s, i)
             /\ \A j \in 1 .. Len(u) : Within(u, j, i) => Within(s, j, i) /\ j \in 1 .. Len(s) /\ u[j] = s[j]
             /\ \A j \in 0 .. Len(u) : \A k : Has(s, j, i, k) => Has(u, j, i, k)
  <2>1. i <= n
    <3>1. i \notin n + 1 .. Len(u)
      BY <1>2
    <3> QED
      BY <1>1, <3>1
  <2>2. \A l \in 1 .. i : l \in 1 .. n /\ u[l] = s[l]
    BY <2>1
  <2>3. i \in 1 .. Len(s) /\ i <= n /\ u[i] = s[i]
    BY <1>1, <2>1, <2>2
  <2>4. \A l \in 1 .. i - 1 : l \in 1 .. i
    OBVIOUS
  <2>5. Front(u, i) => Front(s, i)
    BY <2>2, <2>4 DEF Front
  <2>6. ASSUME NEW j \in 1 .. Len(u), Within(u, j, i) PROVE Within(s, j, i) /\ j \in 1 .. Len(s) /\ u[j] = s[j]
    <3>1. j < i /\ u[j].type = "BEGIN"
      BY <2>6 DEF Within
    <3>2. j \in 1 .. i /\ j \in 1 .. Len(s)
      BY <1>1, <2>1, <3>1
    <3>3. \A l \in j + 1 .. i - 1 : l \in 1 .. i
      BY <3>2
    <3> QED
      BY <2>2, <2>6, <3>1, <3>2, <3>3 DEF Within
  <2>7. ASSUME NEW j \in 0 .. Len(u), NEW k, Has(s, j, i, k) PROVE Has(u, j, i, k)
    <3>1. PICK l \in j + 1 .. i - 1 : s[l].type = "CHUNK" /\ s[l].part = k
      BY <2>7 DEF Has
    <3>2. l \in 1 .. i
      OBVIOUS
    <3> QED
      BY <2>2, <3>1, <3>2 DEF Has
  <2> QED
    BY <2>3, <2>5, <2>6, <2>7
<1>3. Chunks(u, held, next, last, bs, st)
  <2> SUFFICES ASSUME NEW i \in 1 .. Len(u), u[i].type = "CHUNK"
               PROVE  /\ held /\ Front(u, i) => u[i].data = bs[next][u[i].part]
                      /\ \A j \in 1 .. Len(u), e \in next .. last :
                            Within(u, j, i) /\ st[e] = u[j].tick => u[i].data = bs[e][u[i].part]
    BY DEF Chunks
  <2>1. /\ i \in 1 .. Len(s) /\ u[i] = s[i] /\ (Front(u, i) => Front(s, i))
        /\ \A j \in 1 .. Len(u) : Within(u, j, i) => Within(s, j, i) /\ j \in 1 .. Len(s) /\ u[j] = s[j]
    BY <1>2
  <2>2. /\ held /\ Front(s, i) => s[i].data = bs[next][s[i].part]
        /\ \A j \in 1 .. Len(s), e \in next .. last :
              Within(s, j, i) /\ st[e] = s[j].tick => s[i].data = bs[e][s[i].part]
    BY <2>1 DEF Chunks
  <2> QED
    BY <2>1, <2>2
<1>4. Whole(u, held, done)
  <2>1. 0 \in 0 .. Len(u) /\ \A j \in 1 .. Len(u) : j \in 0 .. Len(u)
    BY <1>1
  <2> QED
    BY <1>2, <2>1 DEF Whole
<1> QED
  BY <1>3, <1>4

\* What is sent is no part of an image.
LEMMA SendNoImage ==
  ASSUME NEW s \in Seq(Frame), NEW t \in Seq(Frame), \A f \in Elems(t) : f.type \notin {"CHUNK", "END"},
         NEW held, NEW next, NEW last, NEW bs, NEW st, NEW done,
         Chunks(s, held, next, last, bs, st), Whole(s, held, done)
  PROVE  Chunks(s \o t, held, next, last, bs, st) /\ Whole(s \o t, held, done)
<1> DEFINE u == s \o t
<1>1. /\ u \in Seq(Frame) /\ Len(s) \in Nat /\ Len(u) = Len(s) + Len(t) /\ Len(t) \in Nat
      /\ \A i \in 1 .. Len(s) : u[i] = s[i]
      /\ \A i \in Len(s) + 1 .. Len(u) : u[i] = t[i - Len(s)] /\ i - Len(s) \in 1 .. Len(t)
  OBVIOUS
<1> HIDE DEF u
<1>2. \A i \in Len(s) + 1 .. Len(u) : u[i].type \notin {"CHUNK", "END"}
  BY <1>1 DEF Elems
<1>3. Len(s) <= Len(s) /\ Len(s) <= Len(u)
  BY <1>1
<1> QED
  BY <1>1, <1>2, <1>3, SameImages DEF u

\* The queue is cut by a leave.
LEMMA CutImages ==
  ASSUME NEW s \in Seq(Frame), NEW n \in 0 .. Len(s),
         NEW held, NEW next, NEW last, NEW bs, NEW st, NEW done,
         Chunks(s, held, next, last, bs, st), Whole(s, held, done)
  PROVE  /\ Chunks(SubSeq(s, 1, n), held, next, last, bs, st) /\ Whole(SubSeq(s, 1, n), held, done)
         /\ Chunks(Append(SubSeq(s, 1, n), PeerLeftFrame), held, next, last, bs, st)
         /\ Whole(Append(SubSeq(s, 1, n), PeerLeftFrame), held, done)
         /\ Chunks(<< >>, held, next, last, bs, st) /\ Whole(<< >>, held, done)
<1> DEFINE p == SubSeq(s, 1, n)
<1>1. /\ p \in Seq(Frame) /\ Len(p) = n /\ n \in Nat /\ n <= Len(s) /\ Len(s) \in Nat
      /\ \A i \in 1 .. n : p[i] = s[i]
  OBVIOUS
<1>2. PeerLeftFrame \in Frame /\ PeerLeftFrame.type = "PEER_LEFT"
  BY FrameType DEF PeerLeftFrame
<1> HIDE DEF p
<1>3. Chunks(p, held, next, last, bs, st) /\ Whole(p, held, done)
  <2>1. n + 1 .. Len(p) = {}
    BY <1>1
  <2> QED
    BY <1>1, <2>1, SameImages
<1>4. Chunks(Append(p, PeerLeftFrame), held, next, last, bs, st) /\ Whole(Append(p, PeerLeftFrame), held, done)
  <2>1. <<PeerLeftFrame>> \in Seq(Frame) /\ \A f \in Elems(<<PeerLeftFrame>>) : f.type \notin {"CHUNK", "END"}
    BY <1>2, OneQ
  <2>2. Append(p, PeerLeftFrame) = p \o <<PeerLeftFrame>>
    BY <1>1, <1>2, AddQ
  <2>3. /\ Chunks(p \o <<PeerLeftFrame>>, held, next, last, bs, st)
        /\ Whole(p \o <<PeerLeftFrame>>, held, done)
    BY <1>1, <1>3, <2>1, SendNoImage
  <2> QED
    BY <2>2, <2>3
<1>5. Chunks(<< >>, held, next, last, bs, st) /\ Whole(<< >>, held, done)
  <2>1. 1 .. Len(<< >>) = {}
    OBVIOUS
  <2> QED
    BY <2>1 DEF Chunks, Whole
<1> QED
  BY <1>3, <1>4, <1>5 DEF p

\* Two queues joined, frame by frame.
LEMMA JoinQ ==
  ASSUME NEW s \in Seq(Frame), NEW t \in Seq(Frame)
  PROVE  /\ s \o t \in Seq(Frame) /\ Len(s) \in Nat /\ Len(t) \in Nat /\ Len(s \o t) = Len(s) + Len(t)
         /\ \A i \in 1 .. Len(s) : (s \o t)[i] = s[i]
         /\ \A i \in 1 .. Len(t) : (s \o t)[Len(s) + i] = t[i]
<1>1. /\ s \o t \in Seq(Frame) /\ Len(s) \in Nat /\ Len(t) \in Nat /\ Len(s \o t) = Len(s) + Len(t)
      /\ \A i \in 1 .. Len(s) : (s \o t)[i] = s[i]
      /\ \A i \in Len(s) + 1 .. Len(s) + Len(t) : (s \o t)[i] = t[i - Len(s)]
  OBVIOUS
<1>2. ASSUME NEW i \in 1 .. Len(t) PROVE (s \o t)[Len(s) + i] = t[i]
  <2>1. Len(s) + i \in Len(s) + 1 .. Len(s) + Len(t) /\ (Len(s) + i) - Len(s) = i
    BY <1>1
  <2> QED
    BY <1>1, <2>1
<1> QED
  BY <1>1, <1>2

\* An image, frame by frame.
LEMMA ImageShape ==
  ASSUME TypeOK, NEW r \in Nat
  PROVE  /\ Image(0, r) \in Seq(Frame) /\ Len(Image(0, r)) = NChunks + 2
         /\ Image(0, r)[1] = BeginFrame(r)
         /\ \A k \in Parts : Image(0, r)[k + 1] = ChunkFrame(k, Simulated(0)[k])
         /\ Image(0, r)[NChunks + 2] = EndFrame
<1> DEFINE b == <<BeginFrame(r)>>
           chunks == [k \in Parts |-> ChunkFrame(k, Simulated(0)[k])]
           e == <<EndFrame>>
<1>0. NChunks \in Nat \ {0} /\ Parts = 1 .. NChunks /\ 0 \in Seats
  BY ConstantAssumption DEF Parts, Seats
<1>1. chunks \in Seq(Frame) /\ Len(chunks) = NChunks /\ \A k \in Parts : chunks[k] = ChunkFrame(k, Simulated(0)[k])
  <2>1. \A k \in Parts : ChunkFrame(k, Simulated(0)[k]) \in Frame
    BY <1>0, TickType, FrameType
  <2> QED
    BY <1>0, <2>1
<1>2. b \in Seq(Frame) /\ e \in Seq(Frame) /\ Len(b) = 1 /\ Len(e) = 1 /\ b[1] = BeginFrame(r) /\ e[1] = EndFrame
  BY FrameType
<1>3. Image(0, r) = (b \o chunks) \o e
  BY DEF Image
<1> HIDE DEF b, chunks, e
<1> DEFINE c == b \o chunks
<1>4. /\ c \in Seq(Frame) /\ Len(c) = NChunks + 1 /\ c[1] = BeginFrame(r)
      /\ \A k \in Parts : c[k + 1] = chunks[k]
  <2>1. /\ c \in Seq(Frame) /\ Len(c) = 1 + NChunks
        /\ \A i \in 1 .. 1 : c[i] = b[i]
        /\ \A i \in 1 .. NChunks : c[1 + i] = chunks[i]
    <3>1. /\ b \o chunks \in Seq(Frame) /\ Len(b \o chunks) = Len(b) + Len(chunks)
          /\ \A i \in 1 .. Len(b) : (b \o chunks)[i] = b[i]
          /\ \A i \in 1 .. Len(chunks) : (b \o chunks)[Len(b) + i] = chunks[i]
      BY <1>1, <1>2, JoinQ
    <3> QED
      BY <1>1, <1>2, <3>1
  <2>2. \A k \in Parts : k \in 1 .. NChunks /\ 1 + k = k + 1
    BY <1>0
  <2>3. Len(c) = NChunks + 1 /\ 1 \in 1 .. 1
    BY <1>0, <2>1
  <2> QED
    BY <1>2, <2>1, <2>2, <2>3
<1>5. Image(0, r) = c \o e
  BY <1>3
<1> HIDE DEF c
<1>6. /\ c \o e \in Seq(Frame) /\ Len(c \o e) = NChunks + 2
      /\ \A i \in 1 .. NChunks + 1 : (c \o e)[i] = c[i]
      /\ (c \o e)[NChunks + 2] = EndFrame
  <2>1. /\ c \o e \in Seq(Frame) /\ Len(c \o e) = NChunks + 1 + 1
        /\ \A i \in 1 .. NChunks + 1 : (c \o e)[i] = c[i]
        /\ \A i \in 1 .. 1 : (c \o e)[NChunks + 1 + i] = e[i]
    <3>1. /\ c \o e \in Seq(Frame) /\ Len(c \o e) = Len(c) + Len(e)
          /\ \A i \in 1 .. Len(c) : (c \o e)[i] = c[i]
          /\ \A i \in 1 .. Len(e) : (c \o e)[Len(c) + i] = e[i]
      BY <1>2, <1>4, JoinQ
    <3> QED
      BY <1>2, <1>4, <3>1
  <2>2. NChunks + 1 + 1 = NChunks + 2 /\ 1 \in 1 .. 1
    BY <1>0
  <2> QED
    BY <1>2, <2>1, <2>2
<1>7. \A k \in Parts : k + 1 \in 1 .. NChunks + 1
  BY <1>0
<1>8. 1 \in 1 .. NChunks + 1
  BY <1>0
<1> QED
  BY <1>1, <1>4, <1>5, <1>6, <1>7, <1>8

\* A place inside an image is the place of a chunk.
LEMMA Inside ==
  \A n, m, i \in Int : n + 2 <= i /\ i <= n + m + 2 /\ i # n + m + 2 =>
    i - n - 1 \in 1 .. m /\ i = n + 1 + (i - n - 1)
OBVIOUS

\* What is pushed behind s at tick r, and the epochs it leads to: those of bs
\* and st, up to last, and one more.
Pushing(s, r, held, next, last, bs, st, bt, sv) ==
  /\ next \in Nat /\ last \in Nat /\ (held => next <= last) /\ next <= last + 1
  /\ \A e \in 0 .. last : bt[e] = bs[e] /\ sv[e] = st[e]
  /\ bt[last + 1] = Simulated(0) /\ sv[last + 1] = r
  /\ \A e \in 0 .. last : st[e] \in Nat /\ st[e] < r
  /\ \A b \in Kind(s, "BEGIN") : b.tick \in Nat /\ b.tick < r

\* A push: the image of the next epoch follows what is under way already.
LEMMA PushImages ==
  ASSUME TypeOK, NEW s \in Seq(Frame), NEW r \in Nat, NEW held \in BOOLEAN, NEW done,
         NEW next, NEW last, NEW bs, NEW st, NEW bt, NEW sv,
         Pushing(s, r, held, next, last, bs, st, bt, sv),
         Chunks(s, held, next, last, bs, st), Whole(s, held, done)
  PROVE  /\ Chunks(s, held, next, last + 1, bt, sv)
         /\ Chunks(s \o Image(0, r), held, next, last + 1, bt, sv)
         /\ Whole(s \o Image(0, r), held, done)
<1>p. /\ next \in Nat /\ last \in Nat /\ (held => next <= last) /\ next <= last + 1
      /\ \A e \in 0 .. last : bt[e] = bs[e] /\ sv[e] = st[e]
      /\ bt[last + 1] = Simulated(0) /\ sv[last + 1] = r
      /\ \A e \in 0 .. last : st[e] \in Nat /\ st[e] < r
      /\ \A b \in Kind(s, "BEGIN") : b.tick \in Nat /\ b.tick < r
  BY DEF Pushing
<1> USE <1>p
<1> DEFINE im == Image(0, r)
           u == s \o im
           n == Len(s)
<1>0. NChunks \in Nat \ {0} /\ Parts = 1 .. NChunks
  BY ConstantAssumption DEF Parts
<1>1. /\ im \in Seq(Frame) /\ Len(im) = NChunks + 2
      /\ im[1] = BeginFrame(r)
      /\ \A k \in Parts : im[k + 1] = ChunkFrame(k, Simulated(0)[k])
      /\ im[NChunks + 2] = EndFrame
  BY ImageShape
<1> HIDE DEF im
<1>2. /\ u \in Seq(Frame) /\ n \in Nat /\ Len(u) = n + NChunks + 2
      /\ \A i \in 1 .. n : u[i] = s[i]
      /\ \A i \in 1 .. NChunks + 2 : u[n + i] = im[i]
  <2>1. /\ u \in Seq(Frame) /\ n \in Nat /\ Len(u) = n + Len(im)
        /\ \A i \in 1 .. n : u[i] = s[i]
        /\ \A i \in 1 .. Len(im) : u[n + i] = im[i]
    BY <1>1, JoinQ
  <2>2. Len(u) = n + NChunks + 2
    BY <1>0, <1>1, <2>1
  <2> QED
    BY <1>1, <2>1, <2>2
<1> HIDE DEF u
<1>3. /\ u[n + 1] = BeginFrame(r) /\ u[n + 1].type = "BEGIN" /\ u[n + 1].tick = r
      /\ \A k \in Parts : LET f == u[n + 1 + k] IN f.type = "CHUNK" /\ f.part = k /\ f.data = Simulated(0)[k]
      /\ u[n + NChunks + 2].type = "END"
  <2>1. u[n + 1] = BeginFrame(r)
    BY <1>0, <1>1, <1>2
  <2>2. ASSUME NEW k \in Parts PROVE u[n + 1 + k] = ChunkFrame(k, Simulated(0)[k])
    <3>1. k + 1 \in 1 .. NChunks + 2 /\ n + (k + 1) = n + 1 + k
      BY <1>0, <1>2
    <3> QED
      BY <1>1, <1>2, <3>1
  <2>3. NChunks + 2 \in 1 .. NChunks + 2 /\ n + (NChunks + 2) = n + NChunks + 2
    BY <1>0, <1>2
  <2>4. u[n + NChunks + 2] = EndFrame
    BY <1>1, <1>2, <2>3
  <2>5. /\ BeginFrame(r).type = "BEGIN" /\ BeginFrame(r).tick = r /\ EndFrame.type = "END"
        /\ \A k, h : ChunkFrame(k, h).type = "CHUNK" /\ ChunkFrame(k, h).part = k /\ ChunkFrame(k, h).data = h
    BY DEF BeginFrame, ChunkFrame, EndFrame
  <2> QED
    BY <2>1, <2>2, <2>4, <2>5
<1>4. Chunks(s, held, next, last + 1, bt, sv)
  <2> SUFFICES ASSUME NEW i \in 1 .. Len(s), s[i].type = "CHUNK"
               PROVE  /\ held /\ Front(s, i) => s[i].data = bt[next][s[i].part]
                      /\ \A j \in 1 .. Len(s), e \in next .. last + 1 :
                            Within(s, j, i) /\ sv[e] = s[j].tick => s[i].data = bt[e][s[i].part]
    BY DEF Chunks
  <2>1. held => bt[next] = bs[next]
    OBVIOUS
  <2>2. ASSUME NEW j \in 1 .. Len(s), NEW e \in next .. last + 1, Within(s, j, i), sv[e] = s[j].tick
        PROVE  s[i].data = bt[e][s[i].part]
    <3>1. s[j] \in Kind(s, "BEGIN")
      BY <2>2 DEF Within, Kind, Elems
    <3>2. e # last + 1
      BY <2>2, <3>1
    <3>3. e \in next .. last /\ e \in 0 .. last
      BY <3>2
    <3> QED
      BY <2>2, <3>3 DEF Chunks
  <2> QED
    BY <2>1, <2>2 DEF Chunks
<1>5. ASSUME NEW i \in 1 .. n
      PROVE  /\ Front(u, i) => Front(s, i)
             /\ \A j \in 1 .. Len(u) : Within(u, j, i) => j \in 1 .. n /\ Within(s, j, i)
             /\ \A j \in 0 .. Len(u) : \A k : Has(s, j, i, k) => Has(u, j, i, k)
  <2>1. \A l \in 1 .. i : l \in 1 .. n /\ u[l] = s[l]
    BY <1>2
  <2>2. Front(u, i) => Front(s, i)
    <3>1. \A l \in 1 .. i - 1 : l \in 1 .. i
      OBVIOUS
    <3> QED
      BY <2>1, <3>1 DEF Front
  <2>3. ASSUME NEW j \in 1 .. Len(u), Within(u, j, i) PROVE j \in 1 .. n /\ Within(s, j, i)
    <3>1. j \in 1 .. i /\ \A l \in j + 1 .. i - 1 : l \in 1 .. i
      BY <1>2, <2>3 DEF Within
    <3> QED
      BY <2>1, <2>3, <3>1 DEF Within
  <2>4. ASSUME NEW j \in 0 .. Len(u), NEW k, Has(s, j, i, k) PROVE Has(u, j, i, k)
    <3>1. PICK l \in j + 1 .. i - 1 : s[l].type = "CHUNK" /\ s[l].part = k
      BY <2>4 DEF Has
    <3>2. l \in 1 .. i
      OBVIOUS
    <3> QED
      BY <2>1, <3>1, <3>2 DEF Has
  <2> QED
    BY <2>2, <2>3, <2>4
<1>6. ASSUME NEW i \in n + 2 .. Len(u) PROVE ~Front(u, i) /\ \A j \in 1 .. Len(u) : Within(u, j, i) => j = n + 1
  <2>1. n + 1 \in 1 .. i - 1 /\ "BEGIN" \in Edge
    BY <1>2 DEF Edge
  <2>2. ~Front(u, i)
    BY <1>3, <2>1 DEF Front
  <2>3. ASSUME NEW j \in 1 .. Len(u), Within(u, j, i) PROVE j = n + 1
    <3>1. n + 1 \notin j + 1 .. i - 1
      BY <1>3, <2>1, <2>3 DEF Within
    <3>2. j >= n + 1 /\ j < i
      BY <1>2, <2>1, <2>3, <3>1 DEF Within
    <3>3. CASE j = n + NChunks + 2
      BY <1>3, <2>3, <3>3 DEF Within
    <3>4. CASE j # n + 1 /\ j # n + NChunks + 2
      <4>1. PICK k \in Parts : j = n + 1 + k
        <5>1. j - n - 1 \in 1 .. NChunks /\ j = n + 1 + (j - n - 1)
          BY <1>0, <1>2, <3>2, <3>4
        <5> QED
          BY <1>0, <5>1
      <4> QED
        BY <1>3, <2>3, <4>1 DEF Within
    <3> QED
      BY <3>3, <3>4
  <2> QED
    BY <2>2, <2>3
<1>7. \A i \in 1 .. Len(u) : i \in 1 .. n \/ i = n + 1 \/ i \in n + 2 .. Len(u)
  <2> HIDE <1>p
  <2>1. n \in Nat /\ Len(u) \in Nat
    BY <1>0, <1>2
  <2> HIDE DEF n
  <2> QED
    BY <2>1
<1>c. ASSUME NEW i \in n + 2 .. Len(u), i # n + NChunks + 2 PROVE u[i].type = "CHUNK"
  <2>1. n \in Int /\ NChunks \in Int /\ i \in Int /\ n + 2 <= i /\ i <= n + NChunks + 2
    BY <1>0, <1>2
  <2>2. i < n + NChunks + 2
    BY <1>c, <2>1
  <2> DEFINE k == i - n - 1
  <2>3. k \in Parts /\ n + 1 + k = i
    BY <1>0, <2>1, <2>2
  <2> HIDE DEF k
  <2> QED
    BY <1>3, <2>3
<1>8. Chunks(u, held, next, last + 1, bt, sv)
  <2> SUFFICES ASSUME NEW i \in 1 .. Len(u), u[i].type = "CHUNK"
               PROVE  /\ held /\ Front(u, i) => u[i].data = bt[next][u[i].part]
                      /\ \A j \in 1 .. Len(u), e \in next .. last + 1 :
                            Within(u, j, i) /\ sv[e] = u[j].tick => u[i].data = bt[e][u[i].part]
    BY DEF Chunks
  <2>1. CASE i \in 1 .. n
    <3>1. u[i] = s[i] /\ \A j \in 1 .. n : u[j] = s[j]
      BY <1>2, <2>1
    <3> QED
      BY <1>4, <1>5, <2>1, <3>1 DEF Chunks
  <2>2. CASE i \in n + 2 .. Len(u)
    <3>1. PICK k \in Parts : i = n + 1 + k
      <4>1. i # n + NChunks + 2
        BY <1>3
      <4>2. i - n - 1 \in 1 .. NChunks /\ i = n + 1 + (i - n - 1)
        <5>1. /\ n \in Int /\ NChunks \in Int /\ i \in Int /\ n + 2 <= i /\ i <= n + NChunks + 2
              /\ i # n + NChunks + 2
          BY <1>0, <1>2, <2>2, <4>1
        <5> HIDE <1>p
        <5> HIDE DEF n
        <5> QED
          BY <5>1, Inside, Zenon
      <4> QED
        BY <1>0, <4>2
    <3>2. u[i].part = k /\ u[i].data = Simulated(0)[k]
      BY <1>3, <3>1
    <3>3. ASSUME NEW e \in next .. last + 1, sv[e] = r PROVE e = last + 1
      <4>1. ~(e \in 0 .. last)
        BY <3>3
      <4> QED
        BY <4>1
    <3>4. ASSUME NEW j \in 1 .. Len(u), NEW e \in next .. last + 1, Within(u, j, i), sv[e] = u[j].tick
          PROVE  e = last + 1
      <4>1. j = n + 1
        BY <1>6, <2>2, <3>4
      <4>2. sv[e] = r
        BY <1>3, <3>4, <4>1
      <4> QED
        BY <3>3, <4>2
    <3>5. ~Front(u, i) /\ u[i].data = bt[last + 1][u[i].part]
      BY <1>6, <2>2, <3>2
    <3> QED
      BY <3>4, <3>5
  <2> QED
    BY <1>3, <1>7, <2>1, <2>2
<1>9. Whole(u, held, done)
  <2> SUFFICES ASSUME NEW m \in 1 .. Len(u), u[m].type = "END"
               PROVE  /\ held /\ Front(u, m) => \A k \in Parts : k \in done \/ Has(u, 0, m, k)
                      /\ \A j \in 1 .. Len(u) : Within(u, j, m) => \A k \in Parts : Has(u, j, m, k)
    BY DEF Whole
  <2>0. 0 \in 0 .. Len(u) /\ \A j \in 1 .. Len(u) : j \in 0 .. Len(u)
    BY <1>2
  <2>1. CASE m \in 1 .. n
    <3>1. u[m] = s[m] /\ \A j \in 1 .. n : u[j] = s[j]
      BY <1>2, <2>1
    <3> QED
      BY <1>5, <2>0, <2>1, <3>1 DEF Whole
  <2>2. CASE m \in n + 2 .. Len(u)
    <3>1. m = n + NChunks + 2
      <4>1. u[m].type # "CHUNK"
        OBVIOUS
      <4> QED
        BY <1>c, <2>2, <4>1
    <3>2. ASSUME NEW k \in Parts PROVE Has(u, n + 1, m, k)
      <4>1. n + 1 + k \in (n + 1) + 1 .. m - 1
        BY <1>0, <1>2, <3>1
      <4> QED
        BY <1>3, <4>1 DEF Has
    <3> QED
      BY <1>6, <2>2, <3>2
  <2> QED
    BY <1>3, <1>7, <2>1, <2>2
<1> QED
  BY <1>4, <1>8, <1>9 DEF u, im

-----------------------------------------------------------------------------
(* The epochs, step by step.                                               *)

\* Where the two consoles are.
LEMMA Placed ==
  ASSUME TypeOK, TornInv, Paced, Live, NEW bs, NEW st \in [Nat -> Nat], Epochs(bs, st)
  PROVE  /\ rebases[0] \in Nat /\ rebases[1] \in Nat /\ rebases[1] <= rebases[0]
         /\ resume[0] \in Nat /\ resume[1] \in Nat /\ tick[0] \in Nat /\ tick[1] \in Nat
         /\ Ahead = rebases[0] - rebases[1] /\ Ahead \in 0 .. 2
         /\ applied[0] = {} /\ (applied[1] # {} => hold[1])
         /\ hold[1] => Ahead > 0 /\ st[rebases[1] + 1] = resume[1]
         /\ Ahead = 0 => rebases[1] = rebases[0] /\ st[rebases[1]] = resume[0]
         /\ Ahead > 0 => tick[1] < resume[0] /\ rebases[1] + 1 \in 0 .. rebases[0]
         /\ resume[0] <= tick[0] /\ st[rebases[0]] = resume[0]
         /\ \A e \in 0 .. rebases[0] : st[e] \in Nat /\ st[e] <= resume[0]
         /\ \A e \in 0 .. rebases[0] : e # rebases[0] => st[e + 1] <= resume[0]
<1>0. /\ 0 \in Seats /\ 1 \in Seats /\ rebases[0] \in Nat /\ rebases[1] \in Nat
      /\ resume[0] \in Nat /\ resume[1] \in Nat /\ tick[0] \in Nat /\ tick[1] \in Nat
  BY RecTypes
<1>1. Ahead = rebases[0] - rebases[1] /\ Ahead \in 0 .. 2 /\ resume[0] <= tick[0] /\ ~hold[0]
  BY DEF Ahead, Paced, Basic
<1>2. rebases[1] <= rebases[0]
  BY <1>0, <1>1
<1>3. applied[0] = {} /\ (applied[1] # {} => hold[1])
  BY <1>0, <1>1 DEF TornInv, TornSafe, Live
<1>4. Starts(st) /\ Images(chan[1], Mid, resume[0], Ahead) /\ Shared
  BY <1>0 DEF Epochs, Paced, Live, GuestSide, GuestQueue
<1>5. hold[1] => Ahead > 0 /\ st[rebases[1] + 1] = resume[1]
  <2> SUFFICES ASSUME hold[1] PROVE Ahead > 0 /\ st[rebases[1] + 1] = resume[1]
    OBVIOUS
  <2>1. resume[1] \in Mid
    BY DEF Mid
  <2>2. Ahead # 0
    BY <1>4, <2>1 DEF Images
  <2>3. CASE Ahead = 1
    <3>1. resume[1] = resume[0] /\ rebases[1] + 1 = rebases[0]
      BY <1>0, <1>1, <1>4, <2>1, <2>3 DEF Images
    <3> QED
      BY <1>4, <2>3, <3>1 DEF Starts
  <2>4. CASE Ahead = 2
    <3>1. resume[1] < resume[0] /\ rebases[1] + 1 = rebases[0] - 1
      <4>1. rebases[1] + 1 = rebases[0] - 1
        BY <1>0, <1>1, <2>4
      <4>2. resume[1] < resume[0]
        BY <1>4, <2>1, <2>4 DEF Images
      <4> QED
        BY <4>1, <4>2
    <3>2. resume[1] = resume[0] \/ resume[1] = st[rebases[0] - 1]
      BY <1>4, <2>1 DEF Starts
    <3> QED
      BY <1>0, <2>4, <3>1, <3>2
  <2> QED
    BY <1>1, <2>2, <2>3, <2>4
<1>6. Ahead = 0 => rebases[1] = rebases[0] /\ st[rebases[1]] = resume[0]
  BY <1>0, <1>1, <1>4 DEF Starts
<1>7. Ahead > 0 => tick[1] < resume[0] /\ rebases[1] + 1 \in 0 .. rebases[0]
  <2>1. Late = 0
    BY <1>0 DEF Live, Late
  <2> QED
    BY <1>0, <1>1, <1>4, <2>1 DEF Shared
<1>8. st[rebases[0]] = resume[0]
  BY <1>4 DEF Starts
<1>9. ASSUME NEW e \in 0 .. rebases[0] PROVE st[e] \in Nat /\ st[e] <= resume[0]
  <2>1. e \in Nat /\ rebases[0] \in 0 .. rebases[0]
    BY <1>0
  <2>2. CASE e = rebases[0]
    BY <1>0, <1>8, <2>1, <2>2
  <2>3. CASE e # rebases[0]
    <3>1. e \in 0 .. rebases[0] - 1
      BY <1>0, <2>3
    <3>2. st[e] < st[rebases[0]]
      BY <1>4, <2>1, <3>1 DEF Starts
    <3> QED
      BY <1>0, <1>8, <2>1, <3>2
  <2> QED
    BY <2>2, <2>3
<1>10. ASSUME NEW e \in 0 .. rebases[0], e # rebases[0] PROVE st[e + 1] <= resume[0]
  <2>1. e + 1 \in 0 .. rebases[0]
    BY <1>0, <1>10
  <2> QED
    BY <1>9, <2>1
<1> QED
  BY <1>0, <1>1, <1>2, <1>3, <1>5, <1>6, <1>7, <1>8, <1>9, <1>10

\* Frames come and go.
LEMMA EpochKept ==
  ASSUME TypeOK, NEW bs, NEW st, Epochs(bs, st),
         UNCHANGED <<tick, rec, rebases, resume, hold, applied, sim, dirty, played>>,
         \A c \in Seats : Kind(chan'[c], "CRC") \subseteq Kind(chan[c], "CRC"),
         Kind(chan'[1], "BEGIN") \subseteq Kind(chan[1], "BEGIN"),
         Chunks(chan'[1], hold[1], rebases[1] + 1, rebases[0], bs, st),
         Whole(chan'[1], hold[1], applied[1]),
         Blame'
  PROVE  Epochs(bs, st)'
<1>0. 0 \in Seats /\ 1 \in Seats
  BY DEF Seats
<1>1. Starts(st)'
  <2>1. Starts(st) /\ Mid' = Mid /\ Ahead' = Ahead
    BY DEF Epochs, Mid, Ahead
  <2>2. {b.tick : b \in Kind(chan'[1], "BEGIN")} \subseteq {b.tick : b \in Kind(chan[1], "BEGIN")}
    OBVIOUS
  <2> QED
    BY <2>1, <2>2 DEF Starts
<1>2. HostTrace(bs)' /\ GuestTrace(bs, st)' /\ RecordTrace(bs, st)'
  <2>1. HostTrace(bs)'
    BY DEF Epochs, HostTrace, Clean
  <2>2. GuestTrace(bs, st)'
    BY DEF Epochs, GuestTrace, Clean
  <2>3. RecordTrace(bs, st)'
    BY DEF Epochs, RecordTrace, Clean
  <2> QED
    BY <2>1, <2>2, <2>3
<1>3. ToHostTrace(bs)'
  BY <1>0 DEF Epochs, ToHostTrace, Clean
<1>4. ToGuestTrace(bs, st)'
  BY <1>0 DEF Epochs, ToGuestTrace, Clean
<1> QED
  BY <1>1, <1>2, <1>3, <1>4 DEF Epochs

LEMMA BlameKept ==
  ASSUME Blame, UNCHANGED <<pushes, rebases, dirty, drifts, pend, resume>>,
         Kind(chan'[0], "RESYNC") \subseteq Kind(chan[0], "RESYNC")
  PROVE  Blame'
BY DEF Blame, Owed

\* A frame is passed over.
LEMMA SkipEpochs ==
  ASSUME TypeOK, NEW bs, NEW st, Epochs(bs, st), NEW c \in Seats, chan[c] # << >>,
         chan' = [chan EXCEPT ![c] = Tail(@)],
         UNCHANGED <<tick, rec, rebases, resume, hold, applied, sim, dirty, played, pushes, drifts, pend>>,
         c = 1 => ~hold[1] \/ Head(chan[1]).type \notin {"BEGIN", "CHUNK", "END"}
  PROVE  Epochs(bs, st)'
<1>0. /\ chan \in [Seats -> Seq(Frame)] /\ 0 \in Seats /\ 1 \in Seats /\ (\A d \in Seats : d = 0 \/ d = 1)
      /\ rebases[0] \in Nat /\ rebases[1] + 1 \in Nat /\ hold[1] \in BOOLEAN
  <2>1. /\ chan \in [Seats -> Seq(Frame)] /\ 0 \in Seats /\ 1 \in Seats /\ (\A d \in Seats : d = 0 \/ d = 1)
        /\ rebases \in [Seats -> Nat] /\ hold \in [Seats -> BOOLEAN]
    BY RecTypes, Zenon
  <2>2. rebases[0] \in Nat /\ rebases[1] \in Nat /\ hold[1] \in BOOLEAN
    BY <2>1
  <2>3. rebases[1] + 1 \in Nat
    BY <2>2
  <2> QED
    BY <2>1, <2>2, <2>3, Zenon
<1>1. \A type : Kind(Tail(chan[c]), type) \subseteq Kind(chan[c], type)
  BY <1>0, TakeKinds
<1>2. \A d \in Seats : \A type : Kind(chan'[d], type) \subseteq Kind(chan[d], type)
  BY <1>0, <1>1
<1>3. /\ Chunks(chan[1], hold[1], rebases[1] + 1, rebases[0], bs, st)
      /\ Whole(chan[1], hold[1], applied[1])
  BY DEF Epochs
<1>4. /\ Chunks(chan'[1], hold[1], rebases[1] + 1, rebases[0], bs, st)
      /\ Whole(chan'[1], hold[1], applied[1])
  <2>1. CASE c = 0
    BY <1>0, <1>3, <2>1
  <2>2. CASE c = 1
    <3>1. chan'[1] = Tail(chan[1]) /\ chan[1] \in Seq(Frame)
      BY <1>0, <2>2
    <3>2. CASE ~hold[1]
      <4>1. hold[1] = FALSE
        BY <1>0, <3>2
      <4>2. /\ \A n2 \in Nat : n2 >= rebases[1] + 1 => Chunks(Tail(chan[1]), FALSE, n2, rebases[0], bs, st)
            /\ \A d : Whole(Tail(chan[1]), FALSE, d)
        BY <1>0, <1>3, <2>2, <3>1, TakeChunks, TakeWhole
      <4>3. rebases[1] + 1 \in Nat /\ rebases[1] + 1 >= rebases[1] + 1
        BY <1>0
      <4> QED
        BY <3>1, <4>1, <4>2, <4>3
    <3>3. CASE Head(chan[1]).type \notin {"BEGIN", "CHUNK", "END"}
      <4>1. Head(chan[1]).type \notin Edge
        BY <3>3 DEF Edge
      <4> QED
        BY <1>0, <1>3, <2>2, <3>1, <3>3, <4>1, TakeChunks, TakeWhole
    <3> QED
      BY <2>2, <3>2, <3>3
  <2> QED
    BY <1>0, <2>1, <2>2
<1>5. Blame'
  BY <1>0, <1>2, BlameKept DEF Epochs
<1> QED
  BY <1>0, <1>2, <1>4, <1>5, EpochKept

\* An image begins: the guest is in the middle of the one of its next epoch.
LEMMA BeginEpochs ==
  ASSUME TypeOK, TornInv, Paced, Live, NEW bs, NEW st \in [Nat -> Nat], Epochs(bs, st), OnBegin(1), SizedRecords
  PROVE  Epochs(bs, st)'
<1>0. /\ chan \in [Seats -> Seq(Frame)] /\ 0 \in Seats /\ 1 \in Seats /\ (\A d \in Seats : d = 0 \/ d = 1)
      /\ rebases[0] \in Nat /\ rebases[1] \in Nat /\ hold[1] \in BOOLEAN /\ resume[0] \in Nat
      /\ Delay \in Nat
  BY RecTypes, ConstantAssumption
<1>e. \A f \in Kind(chan[1], "BEGIN") : f.tick \in Nat /\ f.type = "BEGIN" /\ f \in Elems(chan[1])
  BY RecTypes DEF Kind
<1>n. rebases[0] \in Nat /\ rebases[1] \in Nat /\ resume[0] \in Nat /\ Delay \in Nat
  BY <1>0
<1>m. rebases[1] + 1 \in Nat
  BY <1>n
<1>q. chan[1] \in Seq(Frame)
  BY <1>0
<1>1. /\ UNCHANGED <<room, dropped, played, tick, wm, rebases, pend, sim, drifts, dirty, pushes>>
      /\ chan[1] # << >> /\ Head(chan[1]).type = "BEGIN"
      /\ chan'[1] = Tail(chan[1]) /\ chan'[0] = chan[0]
      /\ hold'[1] = TRUE /\ resume'[1] = Head(chan[1]).tick /\ resume'[0] = resume[0]
      /\ rec'[1] = RS_CLR_CRC /\ rec'[0] = rec[0] /\ applied'[1] = {}
  BY BeginTaken
<1> DEFINE b == Head(chan[1])
<1>2. ~hold[1] /\ applied[1] = {} /\ Mid = {}
  <2>1. ImageUnbroken(1) /\ Head(chan[1]) = chan[1][1] /\ ~dropped[1]
    BY <1>0, <1>1 DEF TornInv, Live
  <2>2. ~hold[1]
    BY <1>1, <2>1 DEF ImageUnbroken, StreamOK, FollowsMidImage
  <2> QED
    BY <2>2, Placed DEF Mid
<1>3. /\ Kind(chan[1], "BEGIN") = Kind(Tail(chan[1]), "BEGIN") \cup {b}
      /\ \A d \in Seats : Kind(chan'[d], "CRC") \subseteq Kind(chan[d], "CRC")
      /\ Kind(chan'[1], "BEGIN") \subseteq Kind(chan[1], "BEGIN")
      /\ b \in Kind(chan[1], "BEGIN") /\ b.tick \in Nat /\ b \in Elems(chan[1])
  <2>1. chan[1] \in Seq(Frame) /\ Elems(chan[1]) = {b} \cup Elems(Tail(chan[1]))
    BY <1>0, <1>1, TakeQ
  <2>2. Kind(chan[1], "BEGIN") = Kind(Tail(chan[1]), "BEGIN") \cup {b}
    BY <1>1, <2>1 DEF Kind
  <2>3. Kind(Tail(chan[1]), "CRC") \subseteq Kind(chan[1], "CRC")
    BY <2>1 DEF Kind
  <2>4. b \in Kind(chan[1], "BEGIN")
    BY <2>2
  <2> QED
    BY <1>0, <1>1, <1>e, <2>1, <2>2, <2>3, <2>4
<1>4. Starts(st) /\ Images(chan[1], Mid, resume[0], Ahead) /\ Chain(chan[1], Start, Cap(0))
  BY <1>0 DEF Epochs, Paced, Live, GuestSide, GuestQueue
<1>5. b.tick = resume[0] \/ (Ahead = 2 /\ b.tick = st[rebases[0] - 1])
  BY <1>3, <1>4 DEF Starts
<1>6. st[rebases[1] + 1] = b.tick /\ rebases[1] + 1 <= rebases[0]
  <2>1. Ahead \in 0 .. 2 /\ Ahead = rebases[0] - rebases[1] /\ st[rebases[0]] = resume[0]
    BY Placed
  <2>2. Ahead # 0
    BY <1>3, <1>4 DEF Images
  <2>3. CASE Ahead = 1
    <3>1. rebases[1] + 1 = rebases[0] /\ Ahead # 2
      BY <1>n, <2>1, <2>3
    <3> QED
      BY <1>n, <1>5, <2>1, <3>1
  <2>4. CASE Ahead = 2
    <3>1. b.tick # resume[0]
      <4> SUFFICES ASSUME b.tick = resume[0] PROVE FALSE
        OBVIOUS
      <4>1. PICK a \in Kind(chan[1], "BEGIN") : a.tick < resume[0]
        BY <1>2, <1>3, <1>4, <2>4 DEF Images
      <4>2. a \in Elems(chan[1]) /\ a.type = "BEGIN" /\ a.tick \in Nat /\ a # b
        <5>1. a.tick # b.tick
          BY <1>n, <1>e, <4>1
        <5> QED
          BY <1>e, <5>1
      <4>3. a \in Elems(Tail(chan[1])) /\ Before(chan[1], b, a)
        BY <1>q, <1>1, <4>2, TakeQ
      <4>4. Val(b) < Val(a)
        BY <1>1, <1>3, <1>4, <4>2, <4>3 DEF Chain, Mark
      <4>5. Val(b) = b.tick + Delay - 1 /\ Val(a) = a.tick + Delay - 1
        BY <1>1, <4>2 DEF Val
      <4> QED
        BY <1>n, <1>3, <4>1, <4>2, <4>4, <4>5
    <3>2. rebases[1] + 1 = rebases[0] - 1
      BY <1>n, <2>1, <2>4
    <3>3. rebases[1] + 1 <= rebases[0]
      BY <1>n, <3>2
    <3> QED
      BY <1>5, <3>1, <3>2, <3>3
  <2> QED
    BY <2>1, <2>2, <2>3, <2>4
<1>7. Starts(st)'
  <2>1. Mid' = {b.tick} /\ Ahead' = Ahead
    BY <1>1 DEF Mid, Ahead
  <2>2. \A r \in Mid' \cup {f.tick : f \in Kind(chan'[1], "BEGIN")} :
          r \in Mid \cup {f.tick : f \in Kind(chan[1], "BEGIN")}
    BY <1>3, <2>1
  <2> QED
    BY <1>1, <1>4, <2>1, <2>2 DEF Starts
<1>8. Chunks(Tail(chan[1]), TRUE, rebases[1] + 1, rebases[0], bs, st) /\ Whole(Tail(chan[1]), TRUE, {})
  <2>1. /\ Chunks(chan[1], hold[1], rebases[1] + 1, rebases[0], bs, st)
        /\ Whole(chan[1], hold[1], applied[1])
    BY DEF Epochs
  <2>2. hold[1] \in BOOLEAN /\ chan[1] # << >> /\ b.type = "BEGIN"
    BY <1>0, <1>1
  <2>3. Chunks(Tail(chan[1]), TRUE, rebases[1] + 1, rebases[0], bs, st)
    BY <1>n, <1>m, <1>q, <1>6, <2>1, <2>2, TakeChunks
  <2>4. Whole(Tail(chan[1]), TRUE, {})
    BY <1>q, <2>1, <2>2, TakeWhole
  <2> QED
    BY <2>3, <2>4
<1>9. HostTrace(bs)'
  BY <1>1 DEF Epochs, HostTrace, Clean
<1>10. GuestTrace(bs, st)'
  BY <1>1, <1>2 DEF Epochs, GuestTrace, Clean
<1>11. RecordTrace(bs, st)'
  <2>1. \A x \in CrcSlots : rec'[1][x] = Blank
    BY <1>1, BlankTick
  <2> QED
    BY <1>0, <1>1, <2>1 DEF Epochs, RecordTrace, Clean
<1>12. ToHostTrace(bs)' /\ ToGuestTrace(bs, st)'
  BY <1>0, <1>1, <1>3 DEF Epochs, ToHostTrace, ToGuestTrace, Clean
<1>13. Blame'
  <2>1. Blame
    BY DEF Epochs
  <2> QED
    BY <1>1, <2>1 DEF Blame, Owed
<1> QED
  BY <1>1, <1>7, <1>8, <1>9, <1>10, <1>11, <1>12, <1>13 DEF Epochs

\* The first frame is taken from the guest's queue.
LEMMA GuestTook ==
  ASSUME TypeOK, chan[1] # << >>, chan'[1] = Tail(chan[1]), chan'[0] = chan[0]
  PROVE  \A d \in Seats : \A type : Kind(chan'[d], type) \subseteq Kind(chan[d], type)
<1>1. chan[1] \in Seq(Frame) /\ \A d \in Seats : d = 0 \/ d = 1
  BY RecTypes
<1>2. \A type : Kind(Tail(chan[1]), type) \subseteq Kind(chan[1], type)
  BY <1>1, TakeKinds
<1> QED
  BY <1>1, <1>2

\* A chunk is applied in place (RS_ON_STATE).
LEMMA ChunkTaken ==
  ASSUME TypeOK, OnChunk(1), hold[1]
  PROVE  /\ UNCHANGED <<room, dropped, played, tick, wm, rebases, hold, resume, rec, pend, drifts, dirty, lost, pushes>>
         /\ chan[1] # << >> /\ Head(chan[1]).type = "CHUNK" /\ Head(chan[1]).part \in Parts
         /\ chan'[1] = Tail(chan[1]) /\ chan'[0] = chan[0]
         /\ sim'[0] = sim[0] /\ sim'[1] = [sim[1] EXCEPT ![Head(chan[1]).part] = Head(chan[1]).data]
         /\ applied'[0] = applied[0] /\ applied'[1] = applied[1] \cup {Head(chan[1]).part}
<1> USE DEF engine, recovery, history
<1>1. /\ chan \in [Seats -> Seq(Frame)] /\ DOMAIN sim = Seats /\ DOMAIN applied = Seats /\ 0 \in Seats /\ 1 \in Seats
  BY RecTypes DEF TypeOK, RecoveryType, SimType
<1>2. Receives(1, "CHUNK") /\ chan[1] # << >> /\ Head(chan[1]).type = "CHUNK"
  BY DEF OnChunk, Receives
<1>3. Head(chan[1]).part \in Parts
  <2>1. Head(chan[1]) \in Frame
    BY <1>1, <1>2, TakeQ
  <2> QED
    BY <1>2, <2>1 DEF Frame
<1>4. /\ sim' = [sim EXCEPT ![1][Head(chan[1]).part] = Head(chan[1]).data]
      /\ applied' = [applied EXCEPT ![1] = @ \cup {Head(chan[1]).part}]
  BY <1>3 DEF OnChunk, ChunkInImage
<1> QED
  BY <1>1, <1>2, <1>3, <1>4 DEF OnChunk, Receives

LEMMA ChunkEpochs ==
  ASSUME TypeOK, TornInv, Paced, Live, NEW bs, NEW st \in [Nat -> Nat], Epochs(bs, st), OnChunk(1)
  PROVE  Epochs(bs, st)'
<1>0. /\ chan[1] \in Seq(Frame) /\ 0 \in Seats /\ 1 \in Seats /\ (\A d \in Seats : d = 0 \/ d = 1)
      /\ sim[1] \in [Parts -> History]
  BY RecTypes DEF TypeOK, SimType
<1>n. rebases[0] \in Nat /\ rebases[1] + 1 \in Nat
  <2>1. rebases[0] \in Nat /\ rebases[1] \in Nat
    BY RecTypes
  <2> QED
    BY <2>1
<1>1. CASE ~hold[1]
  <2>1. /\ chan[1] # << >> /\ chan' = [chan EXCEPT ![1] = Tail(@)]
        /\ UNCHANGED <<tick, rec, rebases, resume, hold, applied, sim, dirty, played, pushes, drifts, pend>>
    BY <1>1 DEF OnChunk, Receives, engine, recovery, history
  <2> QED
    BY <1>0, <1>1, <2>1, SkipEpochs
<1>2. CASE hold[1]
  <2> DEFINE h == Head(chan[1])
  <2>1. /\ UNCHANGED <<played, tick, rebases, hold, resume, rec, pend, drifts, dirty, pushes>>
        /\ chan[1] # << >> /\ h.type = "CHUNK" /\ h.part \in Parts
        /\ chan'[1] = Tail(chan[1]) /\ chan'[0] = chan[0]
        /\ sim'[0] = sim[0] /\ sim'[1] = [sim[1] EXCEPT ![h.part] = h.data]
        /\ applied'[1] = applied[1] \cup {h.part}
    BY <1>2, ChunkTaken
  <2>2. \A d \in Seats : \A type : Kind(chan'[d], type) \subseteq Kind(chan[d], type)
    BY <2>1, GuestTook
  <2>3. h.type \notin Edge /\ hold[1] \in BOOLEAN
    BY <1>2, <2>1 DEF Edge
  <2>4. Chunks(chan[1], hold[1], rebases[1] + 1, rebases[0], bs, st) /\ Whole(chan[1], hold[1], applied[1])
    BY DEF Epochs
  <2>5. Chunks(Tail(chan[1]), hold[1], rebases[1] + 1, rebases[0], bs, st)
    BY <1>0, <1>n, <2>1, <2>3, <2>4, TakeChunks
  <2>6. h.data = bs[rebases[1] + 1][h.part]
    <3>1. hold[1] = TRUE
      BY <1>2, <2>3
    <3>2. Chunks(chan[1], TRUE, rebases[1] + 1, rebases[0], bs, st)
      BY <2>4, <3>1
    <3>3. chan[1] \in Seq(Frame) /\ chan[1] # << >> /\ h.type = "CHUNK"
      BY <1>0, <2>1
    <3> QED
      BY <3>2, <3>3, FirstChunk
  <2>7. Whole(Tail(chan[1]), hold[1], applied[1] \cup {h.part})
    <3>1. applied[1] \subseteq applied[1] \cup {h.part} /\ h.part \in applied[1] \cup {h.part}
      OBVIOUS
    <3> QED
      BY <1>0, <2>1, <2>3, <2>4, <3>1, WholeAfter
  <2> HIDE DEF h
  <2>8. Starts(st)'
    <3>1. Mid' = Mid /\ Ahead' = Ahead
      BY <2>1 DEF Mid, Ahead
    <3>2. {b.tick : b \in Kind(chan'[1], "BEGIN")} \subseteq {b.tick : b \in Kind(chan[1], "BEGIN")}
      BY <1>0, <2>2
    <3> QED
      BY <2>1, <3>1, <3>2 DEF Epochs, Starts
  <2>9. HostTrace(bs)'
    BY <2>1 DEF Epochs, HostTrace, Clean
  <2>10. GuestTrace(bs, st)'
    <3> SUFFICES ASSUME NEW k \in Parts
                 PROVE  /\ k \notin applied'[1] /\ Clean(rebases[1])' =>
                             Extends(sim'[1][k], bs[rebases[1]][k], st[rebases[1]], tick[1], played[1])
                        /\ k \in applied'[1] /\ Clean(rebases[1] + 1)' => sim'[1][k] = bs[rebases[1] + 1][k]
      BY <2>1 DEF GuestTrace
    <3>1. CASE k = h.part
      BY <1>0, <2>1, <2>6, <3>1
    <3>2. CASE k # h.part
      <4>1. sim'[1][k] = sim[1][k] /\ (k \in applied'[1] <=> k \in applied[1])
        BY <1>0, <2>1, <3>2
      <4> QED
        BY <2>1, <4>1 DEF Epochs, GuestTrace, Clean
    <3> QED
      BY <3>1, <3>2
  <2>11. RecordTrace(bs, st)'
    BY <2>1 DEF Epochs, RecordTrace, Clean
  <2>12. ToHostTrace(bs)'
    BY <1>0, <2>1, <2>2 DEF Epochs, ToHostTrace, Clean
  <2>13. ToGuestTrace(bs, st)'
    BY <1>0, <2>1, <2>2 DEF Epochs, ToGuestTrace, Clean
  <2>14. Blame'
    BY <1>0, <2>1, <2>2, BlameKept DEF Epochs
  <2> QED
    BY <2>1, <2>5, <2>7, <2>8, <2>9, <2>10, <2>11, <2>12, <2>13, <2>14 DEF Epochs
<1> QED
  BY <1>1, <1>2

\* An image ends: the guest begins its next epoch with the state it has been given.
LEMMA EndEpochs ==
  ASSUME TypeOK, TornInv, Paced, Live, NEW bs, NEW st \in [Nat -> Nat], Epochs(bs, st), OnEnd(1), SizedRecords
  PROVE  Epochs(bs, st)'
<1>0. /\ chan[1] \in Seq(Frame) /\ 0 \in Seats /\ 1 \in Seats /\ (\A d \in Seats : d = 0 \/ d = 1)
      /\ sim[1] \in [Parts -> History] /\ hold[1] \in BOOLEAN
  BY RecTypes DEF TypeOK, SimType
<1>n. /\ rebases[0] \in Nat /\ rebases[1] \in Nat /\ resume[0] \in Nat /\ resume[1] \in Nat
      /\ rebases[1] + 1 \in Nat /\ rebases[1] + 1 + 1 \in Nat /\ rebases[1] + 1 + 1 >= rebases[1] + 1
      /\ Ahead = rebases[0] - rebases[1] /\ Ahead \in 0 .. 2
  <2>1. /\ rebases[0] \in Nat /\ rebases[1] \in Nat /\ resume[0] \in Nat /\ resume[1] \in Nat
        /\ Ahead = rebases[0] - rebases[1] /\ Ahead \in 0 .. 2
    BY Placed
  <2> QED
    BY <2>1
<1>i. Chunks(chan[1], hold[1], rebases[1] + 1, rebases[0], bs, st) /\ Whole(chan[1], hold[1], applied[1])
  BY DEF Epochs
<1>1. CASE ~hold[1]
  <2>1. /\ chan[1] # << >> /\ chan' = [chan EXCEPT ![1] = Tail(@)]
        /\ UNCHANGED <<tick, rec, rebases, resume, hold, applied, sim, dirty, played, pushes, drifts, pend>>
    BY <1>1 DEF OnEnd, Receives, engine, recovery, history
  <2> QED
    BY <1>0, <1>1, <2>1, SkipEpochs
<1>2. CASE hold[1]
  <2>1. /\ UNCHANGED <<played, resume, sim, drifts, dirty, pushes>>
        /\ chan[1] # << >> /\ Head(chan[1]).type = "END"
        /\ chan'[1] = Tail(chan[1]) /\ chan'[0] = chan[0]
        /\ hold'[1] = FALSE /\ tick'[1] = resume[1] /\ tick'[0] = tick[0]
        /\ rec'[1] = RS_CLR_CRC /\ rec'[0] = rec[0]
        /\ pend'[1] = FALSE /\ pend'[0] = pend[0]
        /\ rebases'[1] = rebases[1] + 1 /\ rebases'[0] = rebases[0] /\ applied'[1] = {}
    BY <1>2, EndTaken
  <2>2. \A d \in Seats : \A type : Kind(chan'[d], type) \subseteq Kind(chan[d], type)
    BY <2>1, GuestTook
  <2>3. Ahead > 0 /\ st[rebases[1] + 1] = resume[1]
    BY <1>2, Placed
  <2>4. Chunks(Tail(chan[1]), FALSE, rebases[1] + 1 + 1, rebases[0], bs, st)
    BY <1>0, <1>n, <1>i, <2>1, TakeChunks
  <2>5. Whole(Tail(chan[1]), FALSE, {})
    BY <1>0, <1>i, <2>1, TakeWhole
  <2>6. \A k \in Parts : k \in applied[1]
    BY <1>0, <1>2, <1>i, <2>1, LastChunk
  <2>7. Starts(st)'
    <3>1. Starts(st) /\ Images(chan[1], Mid, resume[0], Ahead)
      BY <1>0 DEF Epochs, Paced, Live, GuestSide, GuestQueue
    <3>2. Mid = {resume[1]} /\ Mid' = {}
      BY <1>2, <2>1 DEF Mid
    <3>3. \A b \in Kind(chan[1], "BEGIN") : b.tick = resume[0]
      <4>1. Ahead = 1 \/ Ahead = 2
        BY <1>n, <2>3
      <4>2. Ahead = 1 => Kind(chan[1], "BEGIN") = {}
        BY <3>1, <3>2 DEF Images
      <4>3. Ahead = 2 => \A b \in Kind(chan[1], "BEGIN") : b.tick = resume[0]
        BY <3>1, <3>2 DEF Images
      <4> QED
        BY <4>1, <4>2, <4>3
    <3>4. Kind(chan'[1], "BEGIN") \subseteq Kind(chan[1], "BEGIN")
      BY <1>0, <2>2
    <3>5. \A r \in Mid' \cup {b.tick : b \in Kind(chan'[1], "BEGIN")} : r = resume'[0]
      BY <2>1, <3>2, <3>3, <3>4
    <3>6. st[rebases'[1]] <= tick'[1]
      <4>1. st[rebases[1] + 1] <= resume[1]
        BY <1>n, <2>3
      <4> QED
        BY <2>1, <4>1
    <3> QED
      BY <2>1, <3>1, <3>5, <3>6 DEF Starts
  <2>8. HostTrace(bs)'
    BY <2>1 DEF Epochs, HostTrace, Clean
  <2>9. GuestTrace(bs, st)'
    <3> SUFFICES ASSUME NEW k \in Parts, Clean(rebases[1] + 1)
                 PROVE  Extends(sim[1][k], bs[rebases[1] + 1][k], st[rebases[1] + 1], resume[1], played[1])
      BY <2>1 DEF GuestTrace, Clean
    <3>1. sim[1][k] = bs[rebases[1] + 1][k]
      BY <2>6 DEF Epochs, GuestTrace
    <3>2. sim[1][k] \in History
      BY <1>0
    <3>3. Extends(sim[1][k], sim[1][k], resume[1], resume[1], played[1])
      BY <1>n, <3>2, ExtendsNone
    <3> QED
      BY <2>3, <3>1, <3>3
  <2>10. RecordTrace(bs, st)'
    <3>1. \A x \in CrcSlots : rec'[1][x] = Blank
      BY <2>1, BlankTick
    <3>2. \A x \in CrcSlots : rec[0][x] # Blank =>
            /\ st[rebases[0]] <= rec[0][x].tick
            /\ Clean(rebases[0]) => \A k \in CrcParts :
                 Extends(rec[0][x].crc[k], bs[rebases[0]][k], st[rebases[0]], rec[0][x].tick + 1, played[0])
      BY <1>0 DEF Epochs, RecordTrace
    <3> QED
      BY <1>0, <2>1, <3>1, <3>2 DEF RecordTrace, Clean
  <2>11. ToHostTrace(bs)'
    BY <2>1 DEF Epochs, ToHostTrace, Clean
  <2>12. ToGuestTrace(bs, st)'
    <3>1. \A e \in rebases[1] + 1 .. rebases[0] : e \in rebases[1] .. rebases[0]
      BY <1>n
    <3>2. Kind(chan'[1], "CRC") \subseteq Kind(chan[1], "CRC")
      BY <1>0, <2>2
    <3> QED
      BY <2>1, <3>1, <3>2 DEF Epochs, ToGuestTrace, Clean
  <2>13. Blame'
    <3>1. Blame
      BY DEF Epochs
    <3> QED
      BY <2>1, <3>1 DEF Blame, Owed
  <2> QED
    BY <2>1, <2>4, <2>5, <2>7, <2>8, <2>9, <2>10, <2>11, <2>12, <2>13 DEF Epochs
<1> QED
  BY <1>1, <1>2

\* The host is asked for a push (RS_ON_REQ): the request is owed to its epoch, or to
\* the one before.
LEMMA RequestEpochs ==
  ASSUME TypeOK, TornInv, Paced, Live, NEW bs, NEW st \in [Nat -> Nat], Epochs(bs, st), OnResync(0)
  PROVE  Epochs(bs, st)'
<1> USE DEF engine, recovery, history
<1>0. /\ chan \in [Seats -> Seq(Frame)] /\ pend \in [Seats -> BOOLEAN]
      /\ 0 \in Seats /\ 1 \in Seats /\ (\A d \in Seats : d = 0 \/ d = 1) /\ Host = 0
  BY RecTypes
<1>1. /\ UNCHANGED <<tick, rec, rebases, resume, hold, applied, sim, dirty, played, pushes, drifts>>
      /\ chan[0] # << >> /\ Head(chan[0]).type = "RESYNC"
      /\ chan'[0] = Tail(chan[0]) /\ chan'[1] = chan[1] /\ pend'[1] = pend[1] /\ pend'[0] = TRUE
  <2>1. /\ UNCHANGED <<tick, rec, rebases, resume, hold, applied, sim, dirty, played, pushes, drifts>>
        /\ chan[0] # << >> /\ Head(chan[0]).type = "RESYNC"
        /\ chan'[0] = Tail(chan[0]) /\ chan'[1] = chan[1]
    BY <1>0 DEF OnResync, Receives
  <2>2. ~hold[0]
    BY DEF Paced, Basic
  <2>3. CASE pend[0]
    BY <1>0, <2>1, <2>3 DEF OnResync
  <2>4. CASE ~pend[0]
    BY <1>0, <2>1, <2>2, <2>4 DEF OnResync
  <2> QED
    BY <2>3, <2>4
<1>2. \A type : Kind(Tail(chan[0]), type) \subseteq Kind(chan[0], type)
  BY <1>0, <1>1, TakeKinds
<1>3. Head(chan[0]) \in Kind(chan[0], "RESYNC")
  BY <1>0, <1>1, TakeQ DEF Kind
<1>4. Owed(rebases[0])
  BY <1>3 DEF Epochs, Blame, Owed
<1>5. Blame'
  <2>1. Blame
    BY DEF Epochs
  <2> QED
    BY <1>1, <1>2, <1>4, <2>1 DEF Blame, Owed
<1>6. /\ Chunks(chan'[1], hold[1], rebases[1] + 1, rebases[0], bs, st)
      /\ Whole(chan'[1], hold[1], applied[1])
  BY <1>1 DEF Epochs
<1>7. \A c \in Seats : Kind(chan'[c], "CRC") \subseteq Kind(chan[c], "CRC")
  BY <1>0, <1>1, <1>2
<1> QED
  BY <1>1, <1>5, <1>6, <1>7, EpochKept

\* Steps that send and take nothing.
LEMMA IdleEpochs ==
  ASSUME TypeOK, NEW bs, NEW st, Epochs(bs, st),
         UNCHANGED <<tick, rec, rebases, resume, hold, applied, sim, dirty, played, pushes, drifts, pend, chan>>
  PROVE  Epochs(bs, st)'
<1>1. Blame'
  BY BlameKept DEF Epochs
<1>2. /\ Chunks(chan'[1], hold[1], rebases[1] + 1, rebases[0], bs, st)
      /\ Whole(chan'[1], hold[1], applied[1])
  BY DEF Epochs
<1> QED
  BY <1>1, <1>2, EpochKept

LEMMA CaptureEpochs ==
  ASSUME TypeOK, NEW bs, NEW st, Epochs(bs, st), NEW c \in Seats, Capture(c)
  PROVE  Epochs(bs, st)'
<1> USE DEF engine, recovery, history
<1> DEFINE o == Other(c)
<1>0. /\ chan \in [Seats -> Seq(Frame)] /\ 0 \in Seats /\ 1 \in Seats
      /\ o \in Seats /\ o # c /\ (\A d \in Seats : d = c \/ d = o)
  BY RecTypes DEF Seats, Other
<1>1. UNCHANGED <<tick, rec, rebases, resume, hold, applied, sim, dirty, played, pushes, drifts, pend>>
  BY DEF Capture
<1>2. PICK i \in Inputs : chan' = Relayed(c, <<InputFrame(tick[c] + Delay, i)>>)
  BY DEF Capture
<1> DEFINE x == InputFrame(tick[c] + Delay, i)
<1>3. x \in Frame /\ x.type = "INPUT"
  <2>1. tick[c] \in Nat /\ Delay \in Nat
    <3>1. tick \in [Seats -> Nat]
      BY RecTypes, Zenon
    <3> QED
      BY <3>1, ConstantAssumption
  <2>2. tick[c] + Delay \in Nat
    BY <2>1
  <2> QED
    BY <2>2 DEF InputFrame, Frame
<1>4. chan'[c] = chan[c] /\ (chan'[o] = chan[o] \o <<x>> \/ chan'[o] = chan[o])
  BY <1>0, <1>2 DEF Relayed
<1> HIDE DEF x, o
<1>5. <<x>> \in Seq(Frame) /\ \A f \in Elems(<<x>>) : f = x
  BY <1>3, OneQ
<1>6. \A type \in {"CRC", "BEGIN", "RESYNC"} : Kind(chan[o] \o <<x>>, type) = Kind(chan[o], type)
  <2>1. \A type : Kind(chan[o] \o <<x>>, type) = Kind(chan[o], type) \cup Kind(<<x>>, type)
    BY <1>0, <1>5, SendKinds
  <2>2. \A type \in {"CRC", "BEGIN", "RESYNC"} : Kind(<<x>>, type) = {}
    BY <1>3, <1>5 DEF Kind
  <2> QED
    BY <2>1, <2>2
<1>7. \A d \in Seats : \A type \in {"CRC", "BEGIN", "RESYNC"} : Kind(chan'[d], type) \subseteq Kind(chan[d], type)
  BY <1>0, <1>4, <1>6
<1>8. /\ Chunks(chan'[1], hold[1], rebases[1] + 1, rebases[0], bs, st)
      /\ Whole(chan'[1], hold[1], applied[1])
  <2>1. /\ Chunks(chan[1], hold[1], rebases[1] + 1, rebases[0], bs, st)
        /\ Whole(chan[1], hold[1], applied[1])
    BY DEF Epochs
  <2>2. \A f \in Elems(<<x>>) : f.type \notin {"CHUNK", "END"}
    BY <1>3, <1>5
  <2>3. chan[1] \in Seq(Frame)
    BY <1>0
  <2>4. /\ Chunks(chan[1] \o <<x>>, hold[1], rebases[1] + 1, rebases[0], bs, st)
        /\ Whole(chan[1] \o <<x>>, hold[1], applied[1])
    BY <1>5, <2>1, <2>2, <2>3, SendNoImage
  <2>5. chan'[1] = chan[1] \/ chan'[1] = chan[1] \o <<x>>
    BY <1>0, <1>4
  <2> QED
    BY <2>1, <2>4, <2>5
<1>9. Blame'
  BY <1>0, <1>1, <1>7, BlameKept DEF Epochs
<1> QED
  BY <1>0, <1>1, <1>7, <1>8, <1>9, EpochKept

\* The relay loses a console: the image under way may be cut off.
LEMMA LeaveEpochs ==
  ASSUME TypeOK, Paced, NEW bs, NEW st, Epochs(bs, st), NEW c \in Seats, Leave(c)
  PROVE  Epochs(bs, st)'
<1> USE DEF engine, recovery, history
<1> DEFINE o == Other(c)
<1>0. /\ chan \in [Seats -> Seq(Frame)] /\ 0 \in Seats /\ 1 \in Seats
      /\ o \in Seats /\ o # c /\ (\A d \in Seats : d = c \/ d = o)
  BY RecTypes DEF Seats, Other
<1>1. /\ UNCHANGED <<tick, rec, rebases, resume, hold, applied, sim, dirty, played, pushes, drifts, pend>>
      /\ room /\ room' = FALSE
  BY DEF Leave
<1>2. \A d \in Seats : Kind(chan[d], "PEER_LEFT") = {}
  BY <1>1 DEF Paced, Basic
<1>3. \E n \in 0 .. Len(chan[o]), m \in 0 .. Len(chan[c]), reset \in BOOLEAN :
        chan' = [chan EXCEPT ![o] = Append(SubSeq(@, 1, n), PeerLeftFrame),
                             ![c] = IF reset THEN << >> ELSE SubSeq(@, 1, m)]
  BY DEF Leave
<1> HIDE DEF o
<1>4. \A d \in Seats : \E n \in 0 .. Len(chan[d]) :
        \/ chan'[d] = Append(SubSeq(chan[d], 1, n), PeerLeftFrame)
        \/ chan'[d] = SubSeq(chan[d], 1, n) \/ chan'[d] = << >>
  <2>1. PICK n \in 0 .. Len(chan[o]) : \E m \in 0 .. Len(chan[c]), reset \in BOOLEAN :
        chan' = [chan EXCEPT ![o] = Append(SubSeq(@, 1, n), PeerLeftFrame),
                             ![c] = IF reset THEN << >> ELSE SubSeq(@, 1, m)]
    BY <1>3
  <2>2. PICK m \in 0 .. Len(chan[c]), reset \in BOOLEAN :
        chan' = [chan EXCEPT ![o] = Append(SubSeq(@, 1, n), PeerLeftFrame),
                             ![c] = IF reset THEN << >> ELSE SubSeq(@, 1, m)]
    BY <2>1
  <2>3. chan'[o] = Append(SubSeq(chan[o], 1, n), PeerLeftFrame)
        /\ (chan'[c] = << >> \/ chan'[c] = SubSeq(chan[c], 1, m))
    BY <1>0, <2>2
  <2> QED
    BY <1>0, <2>3
<1>5. \A d \in Seats : Cut(chan[d], chan'[d])
  <2> SUFFICES ASSUME NEW d \in Seats PROVE Cut(chan[d], chan'[d])
    OBVIOUS
  <2>1. PICK n \in 0 .. Len(chan[d]) :
          \/ chan'[d] = Append(SubSeq(chan[d], 1, n), PeerLeftFrame)
          \/ chan'[d] = SubSeq(chan[d], 1, n) \/ chan'[d] = << >>
    BY <1>4
  <2>2. chan[d] \in Seq(Frame)
    BY <1>0
  <2> QED
    BY <1>2, <2>1, <2>2, CutMade
<1>6. \A d \in Seats : \A type \in {"CRC", "BEGIN", "RESYNC"} : Kind(chan'[d], type) \subseteq Kind(chan[d], type)
  <2>1. \A d \in Seats : \A f \in Elems(chan'[d]) : f \in Elems(chan[d]) \/ f.type = "PEER_LEFT"
    BY <1>5 DEF Cut, PeerLeftFrame
  <2> QED
    BY <2>1 DEF Kind
<1>7. /\ Chunks(chan'[1], hold[1], rebases[1] + 1, rebases[0], bs, st)
      /\ Whole(chan'[1], hold[1], applied[1])
  <2>1. PICK n \in 0 .. Len(chan[1]) :
          \/ chan'[1] = Append(SubSeq(chan[1], 1, n), PeerLeftFrame)
          \/ chan'[1] = SubSeq(chan[1], 1, n) \/ chan'[1] = << >>
    BY <1>0, <1>4
  <2>2. chan[1] \in Seq(Frame)
    BY <1>0
  <2>3. /\ Chunks(chan[1], hold[1], rebases[1] + 1, rebases[0], bs, st)
        /\ Whole(chan[1], hold[1], applied[1])
    BY DEF Epochs
  <2>4. /\ Chunks(SubSeq(chan[1], 1, n), hold[1], rebases[1] + 1, rebases[0], bs, st)
        /\ Whole(SubSeq(chan[1], 1, n), hold[1], applied[1])
        /\ Chunks(Append(SubSeq(chan[1], 1, n), PeerLeftFrame), hold[1], rebases[1] + 1, rebases[0], bs, st)
        /\ Whole(Append(SubSeq(chan[1], 1, n), PeerLeftFrame), hold[1], applied[1])
        /\ Chunks(<< >>, hold[1], rebases[1] + 1, rebases[0], bs, st) /\ Whole(<< >>, hold[1], applied[1])
    BY <2>2, <2>3, CutImages
  <2> QED
    BY <2>1, <2>4
<1>8. Blame'
  BY <1>0, <1>1, <1>6, BlameKept DEF Epochs
<1> QED
  BY <1>0, <1>1, <1>6, <1>7, <1>8, EpochKept

\* Something changes the state of a console: the epoch it belongs to has diverged.
LEMMA DriftEpochs ==
  ASSUME TypeOK, TornInv, Paced, Live, NEW bs, NEW st \in [Nat -> Nat], Epochs(bs, st),
         NEW c \in Seats, NEW k \in Parts, Drift(c, k)
  PROVE  Epochs(bs, st)'
<1> USE DEF engine, recovery
<1> DEFINE e == IF k \in applied[c] THEN rebases[c] + 1 ELSE rebases[c]
           h == Append(sim[c][k], [drift |-> drifts + 1])
<1>0. /\ 0 \in Seats /\ 1 \in Seats /\ (\A d \in Seats : d = 0 \/ d = 1)
      /\ DOMAIN sim = Seats /\ (\A d \in Seats : DOMAIN sim[d] = Parts)
      /\ rebases[0] \in Nat /\ rebases[1] \in Nat /\ drifts \in Nat /\ dirty \subseteq Nat
  BY RecTypes DEF TypeOK, SimType, HistoryType
<1>1. /\ UNCHANGED <<tick, rec, rebases, resume, hold, applied, played, pushes, pend, chan>>
      /\ sim' = [sim EXCEPT ![c][k] = h] /\ drifts' = drifts + 1 /\ dirty' = dirty \cup {e}
  BY DEF Drift
<1>2. /\ rebases[1] <= rebases[0] /\ applied[0] = {}
      /\ applied[1] # {} => rebases[1] + 1 \in 0 .. rebases[0]
  <2>1. /\ rebases[1] <= rebases[0] /\ applied[0] = {} /\ (applied[1] # {} => hold[1])
        /\ hold[1] => Ahead > 0
        /\ Ahead > 0 => rebases[1] + 1 \in 0 .. rebases[0]
    BY Placed
  <2> QED
    BY <2>1
<1>3. /\ c = 0 => e = rebases[0]
      /\ c = 1 => e = IF k \in applied[1] THEN rebases[1] + 1 ELSE rebases[1]
      /\ e \in 0 .. rebases[0]
  <2>1. CASE c = 0
    <3>1. e = rebases[0]
      BY <1>2, <2>1
    <3> QED
      BY <1>0, <2>1, <3>1
  <2>2. CASE c = 1
    BY <1>0, <1>2, <2>2
  <2> QED
    BY <1>0, <2>1, <2>2
<1> HIDE DEF e, h
<1>4. /\ \A d \in Seats, j \in Parts : ~(d = c /\ j = k) => sim'[d][j] = sim[d][j]
      /\ \A x : x \notin dirty' => x \notin dirty /\ x # e
  BY <1>0, <1>1
<1>5. HostTrace(bs)'
  <2> SUFFICES ASSUME Clean(rebases[0])', NEW j \in Parts
               PROVE  Extends(sim'[0][j], bs[rebases[0]][j], resume[0], tick[0], played[0])
    BY <1>1 DEF HostTrace
  <2>1. c # 0 /\ Clean(rebases[0])
    BY <1>1, <1>3, <1>4 DEF Clean
  <2>2. sim'[0][j] = sim[0][j]
    BY <1>0, <1>4, <2>1
  <2> QED
    BY <2>1, <2>2 DEF Epochs, HostTrace
<1>6. GuestTrace(bs, st)'
  <2> SUFFICES ASSUME NEW j \in Parts
               PROVE  /\ j \notin applied[1] /\ Clean(rebases[1])' =>
                           Extends(sim'[1][j], bs[rebases[1]][j], st[rebases[1]], tick[1], played[1])
                      /\ j \in applied[1] /\ Clean(rebases[1] + 1)' => sim'[1][j] = bs[rebases[1] + 1][j]
    BY <1>1 DEF GuestTrace, Clean
  <2>1. GuestTrace(bs, st)
    BY DEF Epochs
  <2>2. CASE c = 1 /\ j = k
    BY <1>1, <1>3, <1>4, <2>2 DEF Clean
  <2>3. CASE ~(c = 1 /\ j = k)
    <3>1. sim'[1][j] = sim[1][j]
      BY <1>0, <1>4, <2>3
    <3> QED
      BY <1>1, <1>4, <2>1, <3>1 DEF GuestTrace, Clean
  <2> QED
    BY <2>2, <2>3
<1>7. RecordTrace(bs, st)'
  BY <1>1, <1>4 DEF Epochs, RecordTrace, Clean
<1>8. ToHostTrace(bs)' /\ ToGuestTrace(bs, st)'
  BY <1>1, <1>4 DEF Epochs, ToHostTrace, ToGuestTrace, Clean
<1>9. Starts(st)'
  BY <1>1 DEF Epochs, Starts, Mid, Ahead
<1>10. Blame'
  <2>1. Blame
    BY DEF Epochs
  <2>2. Cardinality(dirty') <= drifts'
    <3>1. IsFiniteSet(dirty)
      <4>1. IsFiniteSet(0 .. rebases[0])
        <5>1. 0 \in Int /\ rebases[0] \in Int
          BY <1>0
        <5> QED
          BY <5>1, FS_Interval
      <4>2. dirty \subseteq 0 .. rebases[0]
        BY <2>1 DEF Blame
      <4> QED
        BY <4>1, <4>2, FS_Subset
    <3>2. Cardinality(dirty) \in Nat /\ Cardinality(dirty) <= drifts
      BY <2>1, <3>1, FS_CardinalityType DEF Blame
    <3>3. Cardinality(dirty \cup {e}) = IF e \in dirty THEN Cardinality(dirty) ELSE Cardinality(dirty) + 1
      BY <3>1, FS_AddElement
    <3> QED
      BY <1>0, <1>1, <3>2, <3>3
  <2> QED
    BY <1>1, <1>3, <2>1, <2>2 DEF Blame, Owed
<1> QED
  BY <1>1, <1>5, <1>6, <1>7, <1>8, <1>9, <1>10 DEF Epochs

\* What a console simulates next.
LEMMA SimulatedMore ==
  ASSUME TypeOK, NEW c \in Seats, NEW k \in Parts, NEW b \in History, NEW s \in Nat, NEW pm,
         Extends(sim[c][k], b, s, tick[c], played[c]),
         pm = played[c] \cup {[tick |-> tick[c], in |-> Replay(c)]}
  PROVE  Extends(Simulated(c)[k], b, s, tick[c] + 1, pm)
<1> DEFINE ev == [tick |-> tick[c], in |-> Replay(c)]
<1>1. sim[c][k] \in History /\ tick[c] \in Nat
  BY RecTypes DEF TypeOK, SimType
<1>2. ev \in Event /\ ev.tick = tick[c]
  BY <1>1, TickType DEF Event
<1>3. Simulated(c)[k] = Append(sim[c][k], ev)
  BY DEF Simulated
<1>4. played[c] \subseteq pm /\ ev \in pm
  OBVIOUS
<1> HIDE DEF ev
<1>5. Extends(Append(sim[c][k], ev), b, s, tick[c] + 1, pm)
  BY <1>1, <1>2, <1>4, ExtendsMore
<1> QED
  BY <1>3, <1>5

\* What a tick records and reports.
LEMMA TickTraced ==
  ASSUME TypeOK, Live, NEW c \in Seats, RunTick(c)
  PROVE  /\ UNCHANGED <<wm, rebases, hold, pend, resume, applied, pushes, dropped, room, drifts, dirty>>
         /\ chan'[c] = chan[c]
         /\ chan'[Other(c)] = chan[Other(c)] \/ chan'[Other(c)] = chan[Other(c)] \o CrcReport(c)
         /\ CrcReport(c) \in Seq(Frame)
         /\ \A type : type # "CRC" => Kind(chan'[Other(c)], type) = Kind(chan[Other(c)], type)
         /\ \A f \in Kind(chan'[Other(c)], "CRC") :
              f \in Kind(chan[Other(c)], "CRC") \/ (f.tick = tick[c] /\ \A k \in CrcParts : f.crc[k] = Simulated(c)[k])
         /\ \A f \in Elems(CrcReport(c)) : f.type \notin {"CHUNK", "END"}
         /\ tick'[c] = tick[c] + 1 /\ sim'[c] = Simulated(c)
         /\ \A x \in CrcSlots : \/ rec'[c][x] = rec[c][x]
                                \/ rec'[c][x].tick = tick[c] /\ \A k \in CrcParts : rec'[c][x].crc[k] = Simulated(c)[k]
         /\ played'[c] = played[c] \cup {[tick |-> tick[c], in |-> Replay(c)]} /\ played[c] \subseteq played'[c]
         /\ \A d \in Seats : d # c =>
              tick'[d] = tick[d] /\ rec'[d] = rec[d] /\ sim'[d] = sim[d] /\ played'[d] = played[d]
<1> DEFINE o == Other(c)
           n == Report(c)
<1>0. /\ \A d \in Seats : chan[d] \in Seq(Frame)
      /\ rec \in [Seats -> [CrcSlots -> [tick : Nat, crc : Crc]]] /\ o \in Seats /\ ~dropped[c]
  BY RecTypes DEF Other, Seats, Live
<1>1. /\ UNCHANGED <<wm, rebases, hold, pend, resume, applied, pushes, dropped, room, drifts, dirty>>
      /\ chan'[c] = chan[c]
      /\ chan'[o] = IF room THEN chan[o] \o CrcReport(c) ELSE chan[o]
      /\ tick'[c] = tick[c] + 1 /\ rec'[c] = Recorded(c) /\ sim'[c] = Simulated(c)
      /\ played'[c] = played[c] \cup {[tick |-> tick[c], in |-> Replay(c)]}
      /\ \A d \in Seats : d # c =>
              tick'[d] = tick[d] /\ rec'[d] = rec[d] /\ sim'[d] = sim[d] /\ played'[d] = played[d]
  BY <1>0, TickMade
<1>2. /\ n.type = "CRC" /\ n.tick = tick[c] /\ n.crc = LS_CKSUM(Simulated(c)) /\ CrcReport(c) \in Seq(Frame)
      /\ Elems(CrcReport(c)) = IF CrcDue(tick[c]) THEN {n} ELSE {}
      /\ CrcDue(tick[c]) => Recorded(c) = [rec[c] EXCEPT ![CrcSlot(tick[c])] =
                                            [tick |-> tick[c], crc |-> LS_CKSUM(Simulated(c))]]
      /\ ~CrcDue(tick[c]) => Recorded(c) = rec[c]
  BY ReportIs
<1>3. \A k \in CrcParts : LS_CKSUM(Simulated(c))[k] = Simulated(c)[k]
  BY DEF LS_CKSUM
<1> HIDE DEF n, o
<1>4. \A type : Kind(chan[o] \o CrcReport(c), type) = Kind(chan[o], type) \cup Kind(CrcReport(c), type)
  BY <1>0, <1>2, SendKinds
<1>5. /\ \A type : type # "CRC" => Kind(CrcReport(c), type) = {}
      /\ \A f \in Kind(CrcReport(c), "CRC") : f = n
  BY <1>2 DEF Kind
<1>6. /\ \A type : type # "CRC" => Kind(chan'[o], type) = Kind(chan[o], type)
      /\ \A f \in Kind(chan'[o], "CRC") : f \in Kind(chan[o], "CRC") \/ f = n
  BY <1>1, <1>4, <1>5
<1>7. \A x \in CrcSlots : \/ rec'[c][x] = rec[c][x]
                          \/ rec'[c][x] = [tick |-> tick[c], crc |-> LS_CKSUM(Simulated(c))]
  BY <1>0, <1>1, <1>2
<1>8. \A x \in CrcSlots : \/ rec'[c][x] = rec[c][x]
                          \/ rec'[c][x].tick = tick[c] /\ \A k \in CrcParts : rec'[c][x].crc[k] = Simulated(c)[k]
  BY <1>3, <1>7
<1>9. \A f \in Elems(CrcReport(c)) : f.type \notin {"CHUNK", "END"}
  BY <1>2
<1>10. \A f \in Kind(chan'[o], "CRC") :
         f \in Kind(chan[o], "CRC") \/ (f.tick = tick[c] /\ \A k \in CrcParts : f.crc[k] = Simulated(c)[k])
  BY <1>2, <1>3, <1>6
<1> QED
  BY <1>1, <1>2, <1>6, <1>8, <1>9, <1>10 DEF o

\* A record stays in the epoch of its console, which has played on.
LEMMA RecordKept ==
  ASSUME NEW bs, NEW st, RecordTrace(bs, st), NEW c \in Seats,
         UNCHANGED <<rebases, dirty>>, NEW r, NEW x \in CrcSlots, r = rec[c][x], played[c] \subseteq played'[c]
  PROVE  r # Blank =>
           /\ st[rebases[c]] <= r.tick
           /\ Clean(rebases[c])' => \A k \in CrcParts :
                Extends(r.crc[k], bs[rebases[c]][k], st[rebases[c]], r.tick + 1, played'[c])
BY ExtendsMono DEF RecordTrace, Clean

\* The host plays a tick.
LEMMA HostTickEpochs ==
  ASSUME TypeOK, TornInv, Paced, Live, NEW bs \in [Nat -> [Parts -> History]], NEW st \in [Nat -> Nat],
         Epochs(bs, st), RunTick(0)
  PROVE  Epochs(bs, st)'
<1> DEFINE E0 == rebases[0]
<1>0. /\ 0 \in Seats /\ 1 \in Seats /\ (\A d \in Seats : d = 0 \/ d = 1) /\ Other(0) = 1 /\ Other(1) = 0
      /\ chan[1] \in Seq(Frame) /\ CrcParts \subseteq Parts
  BY RecTypes, ConstantAssumption
<1>1. /\ UNCHANGED <<rebases, hold, pend, resume, applied, pushes, drifts, dirty>>
      /\ chan'[0] = chan[0]
      /\ chan'[1] = chan[1] \/ chan'[1] = chan[1] \o CrcReport(0)
      /\ CrcReport(0) \in Seq(Frame)
      /\ \A type : type # "CRC" => Kind(chan'[1], type) = Kind(chan[1], type)
      /\ \A f \in Kind(chan'[1], "CRC") :
              f \in Kind(chan[1], "CRC") \/ (f.tick = tick[0] /\ \A k \in CrcParts : f.crc[k] = Simulated(0)[k])
      /\ \A f \in Elems(CrcReport(0)) : f.type \notin {"CHUNK", "END"}
      /\ tick'[0] = tick[0] + 1 /\ sim'[0] = Simulated(0)
      /\ \A x \in CrcSlots : \/ rec'[0][x] = rec[0][x]
                             \/ rec'[0][x].tick = tick[0] /\ \A k \in CrcParts : rec'[0][x].crc[k] = Simulated(0)[k]
      /\ played'[0] = played[0] \cup {[tick |-> tick[0], in |-> Replay(0)]} /\ played[0] \subseteq played'[0]
      /\ tick'[1] = tick[1] /\ rec'[1] = rec[1] /\ sim'[1] = sim[1] /\ played'[1] = played[1]
  <2>1. /\ UNCHANGED <<rebases, hold, pend, resume, applied, pushes, drifts, dirty>>
        /\ chan'[0] = chan[0]
        /\ CrcReport(0) \in Seq(Frame)
        /\ \A f \in Elems(CrcReport(0)) : f.type \notin {"CHUNK", "END"}
        /\ tick'[0] = tick[0] + 1 /\ sim'[0] = Simulated(0)
        /\ \A x \in CrcSlots : \/ rec'[0][x] = rec[0][x]
                               \/ rec'[0][x].tick = tick[0] /\ \A k \in CrcParts : rec'[0][x].crc[k] = Simulated(0)[k]
        /\ played'[0] = played[0] \cup {[tick |-> tick[0], in |-> Replay(0)]} /\ played[0] \subseteq played'[0]
    BY <1>0, TickTraced
  <2>2. tick'[1] = tick[1] /\ rec'[1] = rec[1] /\ sim'[1] = sim[1] /\ played'[1] = played[1]
    <3>1. 1 # 0
      OBVIOUS
    <3> QED
      BY <1>0, <3>1, TickTraced
  <2>3. ASSUME NEW o, o = Other(0)
        PROVE  /\ chan'[o] = chan[o] \/ chan'[o] = chan[o] \o CrcReport(0)
               /\ \A type : type # "CRC" => Kind(chan'[o], type) = Kind(chan[o], type)
               /\ \A f \in Kind(chan'[o], "CRC") :
                   f \in Kind(chan[o], "CRC") \/ (f.tick = tick[0] /\ \A k \in CrcParts : f.crc[k] = Simulated(0)[k])
    <3>1. 0 \in Seats
      BY <1>0
    <3>2. /\ chan'[Other(0)] = chan[Other(0)] \/ chan'[Other(0)] = chan[Other(0)] \o CrcReport(0)
          /\ \A type : type # "CRC" => Kind(chan'[Other(0)], type) = Kind(chan[Other(0)], type)
          /\ \A f \in Kind(chan'[Other(0)], "CRC") :
               f \in Kind(chan[Other(0)], "CRC") \/ (f.tick = tick[0] /\ \A k \in CrcParts : f.crc[k] = Simulated(0)[k])
      BY <3>1, TickTraced
    <3> QED
      BY <2>3, <3>2
  <2> QED
    BY <1>0, <2>1, <2>2, <2>3
<1>2. /\ E0 \in Nat /\ rebases[1] \in Nat /\ rebases[1] <= E0 /\ resume[0] \in Nat /\ tick[0] \in Nat
      /\ resume[0] <= tick[0] /\ st[E0] = resume[0]
      /\ \A e \in 0 .. E0 : e # E0 => st[e + 1] <= resume[0]
  BY Placed
<1>3. ASSUME Clean(E0), NEW k \in Parts
      PROVE  Extends(Simulated(0)[k], bs[E0][k], resume[0], tick[0] + 1, played'[0])
  <2>1. Extends(sim[0][k], bs[E0][k], resume[0], tick[0], played[0])
    BY <1>3 DEF Epochs, HostTrace
  <2>2. bs[E0][k] \in History
    BY <1>2
  <2> QED
    BY <1>0, <1>1, <1>2, <2>1, <2>2, SimulatedMore
<1>4. HostTrace(bs)'
  BY <1>1, <1>3 DEF HostTrace, Clean
<1>5. GuestTrace(bs, st)'
  BY <1>1 DEF Epochs, GuestTrace, Clean
<1>6. RecordTrace(bs, st)'
  <2> SUFFICES ASSUME NEW c \in Seats, NEW x \in CrcSlots, rec'[c][x] # Blank
               PROVE  /\ st[rebases[c]] <= rec'[c][x].tick
                      /\ Clean(rebases[c])' => \A k \in CrcParts :
                           Extends(rec'[c][x].crc[k], bs[rebases[c]][k], st[rebases[c]], rec'[c][x].tick + 1, played'[c])
    BY <1>1 DEF RecordTrace, Clean
  <2>1. CASE rec'[c][x] = rec[c][x]
    <3>1. RecordTrace(bs, st) /\ played[c] \subseteq played'[c]
      BY <1>0, <1>1 DEF Epochs
    <3>2. UNCHANGED <<rebases, dirty>>
      BY <1>1
    <3> QED
      BY <2>1, <3>1, <3>2, RecordKept
  <2>2. CASE c = 0 /\ rec'[0][x].tick = tick[0] /\ \A k \in CrcParts : rec'[0][x].crc[k] = Simulated(0)[k]
    BY <1>0, <1>1, <1>2, <1>3, <2>2 DEF Clean
  <2> QED
    BY <1>0, <1>1, <2>1, <2>2
<1>7. ToHostTrace(bs)'
  BY <1>1 DEF Epochs, ToHostTrace, Clean
<1>8. ToGuestTrace(bs, st)'
  <2> SUFFICES ASSUME NEW f \in Kind(chan'[1], "CRC"), NEW e \in rebases[1] .. E0, Clean(e), st[e] <= f.tick,
                      e < E0 => f.tick < st[e + 1], NEW k \in CrcParts
               PROVE  Extends(f.crc[k], bs[e][k], st[e], f.tick + 1, played'[0])
    BY <1>1 DEF ToGuestTrace, Clean
  <2>1. CASE f \in Kind(chan[1], "CRC")
    <3>1. Extends(f.crc[k], bs[e][k], st[e], f.tick + 1, played[0])
      BY <2>1 DEF Epochs, ToGuestTrace
    <3>2. played[0] \subseteq played'[0]
      BY <1>1
    <3> QED
      BY <3>1, <3>2, ExtendsMono
  <2>2. CASE f.tick = tick[0] /\ \A j \in CrcParts : f.crc[j] = Simulated(0)[j]
    <3>1. e = E0
      <4> SUFFICES ASSUME e # E0 PROVE FALSE
        OBVIOUS
      <4>1. e \in 0 .. E0 /\ e < E0 /\ e + 1 \in Nat
        <5>1. rebases[1] \in Nat /\ E0 \in Nat /\ e \in rebases[1] .. E0
          BY <1>2
        <5> HIDE DEF E0
        <5> QED
          BY <5>1
      <4>2. st[e + 1] <= resume[0] /\ tick[0] < st[e + 1] /\ st[e + 1] \in Nat
        BY <1>2, <2>2, <4>1
      <4> QED
        BY <1>2, <4>2
    <3> QED
      BY <1>0, <1>2, <1>3, <2>2, <3>1
  <2> QED
    BY <1>1, <2>1, <2>2
<1>9. /\ Chunks(chan'[1], hold[1], rebases[1] + 1, E0, bs, st)
      /\ Whole(chan'[1], hold[1], applied[1])
  <2>1. /\ Chunks(chan[1], hold[1], rebases[1] + 1, E0, bs, st)
        /\ Whole(chan[1], hold[1], applied[1])
    BY DEF Epochs
  <2>2. /\ Chunks(chan[1] \o CrcReport(0), hold[1], rebases[1] + 1, E0, bs, st)
        /\ Whole(chan[1] \o CrcReport(0), hold[1], applied[1])
    BY <1>0, <1>1, <2>1, SendNoImage
  <2> QED
    BY <1>1, <2>1, <2>2
<1>10. Starts(st)'
  <2>1. Kind(chan'[1], "BEGIN") = Kind(chan[1], "BEGIN")
    BY <1>1
  <2> QED
    BY <1>1, <2>1 DEF Epochs, Starts, Mid, Ahead
<1>11. Blame'
  BY <1>1 DEF Epochs, Blame, Owed
<1> QED
  BY <1>1, <1>4, <1>5, <1>6, <1>7, <1>8, <1>9, <1>10, <1>11 DEF Epochs

\* The guest plays a tick: never on a half-applied image.
LEMMA GuestTickEpochs ==
  ASSUME TypeOK, TornInv, Paced, Live, NEW bs \in [Nat -> [Parts -> History]], NEW st \in [Nat -> Nat],
         Epochs(bs, st), RunTick(1)
  PROVE  Epochs(bs, st)'
<1> DEFINE E1 == rebases[1]
<1>0. /\ 0 \in Seats /\ 1 \in Seats /\ (\A d \in Seats : d = 0 \/ d = 1) /\ Other(0) = 1 /\ Other(1) = 0
      /\ CrcParts \subseteq Parts
  BY RecTypes, ConstantAssumption
<1>1. /\ UNCHANGED <<rebases, hold, pend, resume, applied, pushes, drifts, dirty>>
      /\ chan'[1] = chan[1]
      /\ \A type : type # "CRC" => Kind(chan'[0], type) = Kind(chan[0], type)
      /\ \A f \in Kind(chan'[0], "CRC") :
              f \in Kind(chan[0], "CRC") \/ (f.tick = tick[1] /\ \A k \in CrcParts : f.crc[k] = Simulated(1)[k])
      /\ tick'[1] = tick[1] + 1 /\ sim'[1] = Simulated(1)
      /\ \A x \in CrcSlots : \/ rec'[1][x] = rec[1][x]
                             \/ rec'[1][x].tick = tick[1] /\ \A k \in CrcParts : rec'[1][x].crc[k] = Simulated(1)[k]
      /\ played'[1] = played[1] \cup {[tick |-> tick[1], in |-> Replay(1)]} /\ played[1] \subseteq played'[1]
      /\ tick'[0] = tick[0] /\ rec'[0] = rec[0] /\ sim'[0] = sim[0] /\ played'[0] = played[0]
  <2>1. /\ UNCHANGED <<rebases, hold, pend, resume, applied, pushes, drifts, dirty>>
        /\ chan'[1] = chan[1]
        /\ tick'[1] = tick[1] + 1 /\ sim'[1] = Simulated(1)
        /\ \A x \in CrcSlots : \/ rec'[1][x] = rec[1][x]
                               \/ rec'[1][x].tick = tick[1] /\ \A k \in CrcParts : rec'[1][x].crc[k] = Simulated(1)[k]
        /\ played'[1] = played[1] \cup {[tick |-> tick[1], in |-> Replay(1)]} /\ played[1] \subseteq played'[1]
    BY <1>0, TickTraced
  <2>2. tick'[0] = tick[0] /\ rec'[0] = rec[0] /\ sim'[0] = sim[0] /\ played'[0] = played[0]
    <3>1. 0 # 1
      OBVIOUS
    <3> QED
      BY <1>0, <3>1, TickTraced
  <2>3. ASSUME NEW o, o = Other(1)
        PROVE  /\ \A type : type # "CRC" => Kind(chan'[o], type) = Kind(chan[o], type)
               /\ \A f \in Kind(chan'[o], "CRC") :
                   f \in Kind(chan[o], "CRC") \/ (f.tick = tick[1] /\ \A k \in CrcParts : f.crc[k] = Simulated(1)[k])
    <3>1. 1 \in Seats
      BY <1>0
    <3>2. /\ \A type : type # "CRC" => Kind(chan'[Other(1)], type) = Kind(chan[Other(1)], type)
          /\ \A f \in Kind(chan'[Other(1)], "CRC") :
               f \in Kind(chan[Other(1)], "CRC") \/ (f.tick = tick[1] /\ \A k \in CrcParts : f.crc[k] = Simulated(1)[k])
      BY <3>1, TickTraced
    <3> QED
      BY <2>3, <3>2
  <2> QED
    BY <1>0, <2>1, <2>2, <2>3
<1>2. /\ E1 \in Nat /\ resume[0] \in Nat /\ tick[1] \in Nat /\ Ahead \in 0 .. 2 /\ Ahead = rebases[0] - E1
      /\ Ahead = 0 => E1 = rebases[0] /\ st[E1] = resume[0]
      /\ Ahead > 0 => tick[1] < resume[0]
      /\ st[E1] \in Nat /\ st[E1] <= tick[1]
  <2>1. /\ E1 \in Nat /\ resume[0] \in Nat /\ tick[1] \in Nat /\ Ahead \in 0 .. 2 /\ Ahead = rebases[0] - E1
        /\ Ahead = 0 => E1 = rebases[0] /\ st[E1] = resume[0]
        /\ Ahead > 0 => tick[1] < resume[0]
    BY Placed
  <2>2. st[E1] \in Nat /\ st[E1] <= tick[1]
    BY <2>1 DEF Epochs, Starts
  <2> QED
    BY <2>1, <2>2
<1>3. applied[1] = {}
  <2>1. pc[1] = "gate" /\ GateOpen(1) /\ ~dropped[1]
    BY <1>0, TickMade DEF Live
  <2>2. TornSafe(1)
    BY <1>0 DEF TornInv, Live
  <2> QED
    BY <2>1, <2>2 DEF TornSafe, GateOpen
<1>4. ASSUME Clean(E1), NEW k \in Parts
      PROVE  Extends(Simulated(1)[k], bs[E1][k], st[E1], tick[1] + 1, played'[1])
  <2>1. Extends(sim[1][k], bs[E1][k], st[E1], tick[1], played[1])
    BY <1>3, <1>4 DEF Epochs, GuestTrace
  <2>2. bs[E1][k] \in History
    BY <1>2
  <2> QED
    BY <1>0, <1>1, <1>2, <2>1, <2>2, SimulatedMore
<1>5. HostTrace(bs)'
  BY <1>1 DEF Epochs, HostTrace, Clean
<1>6. GuestTrace(bs, st)'
  BY <1>1, <1>3, <1>4 DEF GuestTrace, Clean
<1>7. RecordTrace(bs, st)'
  <2> SUFFICES ASSUME NEW c \in Seats, NEW x \in CrcSlots, rec'[c][x] # Blank
               PROVE  /\ st[rebases[c]] <= rec'[c][x].tick
                      /\ Clean(rebases[c])' => \A k \in CrcParts :
                           Extends(rec'[c][x].crc[k], bs[rebases[c]][k], st[rebases[c]], rec'[c][x].tick + 1, played'[c])
    BY <1>1 DEF RecordTrace, Clean
  <2>1. CASE rec'[c][x] = rec[c][x]
    <3>1. RecordTrace(bs, st) /\ played[c] \subseteq played'[c]
      BY <1>0, <1>1 DEF Epochs
    <3>2. UNCHANGED <<rebases, dirty>>
      BY <1>1
    <3> QED
      BY <2>1, <3>1, <3>2, RecordKept
  <2>2. CASE c = 1 /\ rec'[1][x].tick = tick[1] /\ \A k \in CrcParts : rec'[1][x].crc[k] = Simulated(1)[k]
    BY <1>0, <1>1, <1>2, <1>4, <2>2 DEF Clean
  <2> QED
    BY <1>0, <1>1, <2>1, <2>2
<1>8. ToHostTrace(bs)'
  <2> SUFFICES ASSUME NEW f \in Kind(chan'[0], "CRC"), f.tick >= resume[0], Clean(rebases[0]), NEW k \in CrcParts
               PROVE  Extends(f.crc[k], bs[rebases[0]][k], resume[0], f.tick + 1, played'[1])
    BY <1>1 DEF ToHostTrace, Clean
  <2>1. CASE f \in Kind(chan[0], "CRC")
    <3>1. Extends(f.crc[k], bs[rebases[0]][k], resume[0], f.tick + 1, played[1])
      BY <2>1 DEF Epochs, ToHostTrace
    <3>2. played[1] \subseteq played'[1]
      BY <1>1
    <3> QED
      BY <3>1, <3>2, ExtendsMono
  <2>2. CASE f.tick = tick[1] /\ \A j \in CrcParts : f.crc[j] = Simulated(1)[j]
    <3>1. Ahead = 0
      BY <1>2, <2>2
    <3> QED
      BY <1>0, <1>2, <1>4, <2>2, <3>1
  <2> QED
    BY <1>1, <2>1, <2>2
<1>9. ToGuestTrace(bs, st)'
  BY <1>1 DEF Epochs, ToGuestTrace, Clean
<1>10. /\ Chunks(chan'[1], hold[1], rebases[1] + 1, rebases[0], bs, st)
       /\ Whole(chan'[1], hold[1], applied[1])
  BY <1>1 DEF Epochs
<1>11. Starts(st)'
  <2>1. Starts(st) /\ st[E1] <= tick'[1]
    BY <1>1, <1>2 DEF Epochs
  <2> QED
    BY <1>1, <2>1 DEF Starts, Mid, Ahead
<1>12. Blame'
  <2>1. Kind(chan'[0], "RESYNC") = Kind(chan[0], "RESYNC")
    BY <1>1
  <2> QED
    BY <1>1, <2>1 DEF Epochs, Blame, Owed
<1> QED
  BY <1>1, <1>5, <1>6, <1>7, <1>8, <1>9, <1>10, <1>11, <1>12 DEF Epochs

\* A checksum of an epoch without divergence has one value.
LEMMA OneChecksum ==
  ASSUME TypeOK, Agree, NEW x \in Crc, NEW y \in Crc, NEW b \in [Parts -> History], NEW s \in Nat, NEW n \in Nat,
         \A k \in CrcParts : Extends(x[k], b[k], s, n, played[0]),
         \A k \in CrcParts : Extends(y[k], b[k], s, n, played[1])
  PROVE  x = y
<1>1. x \in [CrcParts -> History] /\ y \in [CrcParts -> History] /\ CrcParts \subseteq Parts
  BY ConstantAssumption DEF Crc
<1>2. ASSUME NEW k \in CrcParts PROVE x[k] = y[k]
  <2>1. x[k] \in History /\ y[k] \in History /\ b[k] \in History
    BY <1>1
  <2> QED
    BY <2>1, ExtendsSame
<1> QED
  BY <1>1, <1>2

\* The record a report is compared with is of the tick of the report.
LEMMA SameRecord ==
  ASSUME SizedRecords, NEW a \in Nat, NEW b \in Nat, SameTick(a, b), a <= b + 3 * Leap, b <= a + LowMod + Delay + 1
  PROVE  a = b
<1>1. /\ TickMod \in Nat \ {0} /\ LowMod \in Nat /\ Delay \in Nat /\ Delay >= 1 /\ Leap \in Nat /\ Leap >= 1
      /\ TickMod >= 2 * LowMod /\ LowMod >= 2 * Delay + 2 /\ TickMod >= 4 * Leap
  BY ConstantAssumption DEF SizedRecords, Sized, Leap
<1>2. -TickMod < a - b /\ a - b < TickMod
  BY <1>1
<1>3. a % TickMod = b % TickMod /\ a \in Int /\ b \in Int /\ TickMod \in Nat \ {0}
  BY <1>1 DEF SameTick
<1> QED
  BY <1>2, <1>3, ModDiff

\* The host finds a report of the guest to disagree: its epoch has diverged.
LEMMA HostDisagrees ==
  ASSUME TypeOK, TornInv, Paced, Live, SizedRecords, RecordsOK,
         NEW bs \in [Nat -> [Parts -> History]], NEW st \in [Nat -> Nat], Epochs(bs, st),
         NEW f \in Kind(chan[0], "CRC"), CrcDisagrees(0, f)
  PROVE  rebases[0] \in dirty
<1> DEFINE own == rec[0][CrcSlot(f.tick)]
           R == resume[0]
           b == f.tick
           a == own.tick
<1>0. /\ 0 \in Seats /\ 1 \in Seats /\ rec \in [Seats -> [CrcSlots -> [tick : Nat, crc : Crc]]]
      /\ tick[0] \in Nat /\ tick[1] \in Nat /\ wm[0] \in Nat /\ R \in Nat /\ f.crc \in Crc /\ b \in Nat
      /\ chan[0] \in Seq(Frame)
  BY RecTypes
<1>n. /\ Delay \in Nat /\ LowMod \in Nat /\ Leap \in Nat /\ Leap >= Delay + 2
  BY ConstantAssumption DEF SizedRecords, Sized, Leap
<1>1. CrcSlot(b) \in CrcSlots
  BY <1>0, SlotOfCrc
<1>2. own \in [tick : Nat, crc : Crc] /\ a \in Nat /\ own.crc \in Crc
  BY <1>0, <1>1
<1>3. SameTick(a, b) /\ own.crc # f.crc
  BY DEF CrcDisagrees
<1>4. b % CrcPeriod = 0 /\ b < tick[1] /\ HostClock /\ HostQueue /\ Shared /\ Agree
  BY <1>0 DEF Paced, Shared, HostSide, Live
<1>5. a # TickMod - 1 /\ own # Blank
  <2>1. ~SameTick(TickMod - 1, b)
    <3>1. Sized /\ b \in Nat /\ b % CrcPeriod = 0
      BY <1>0, <1>4 DEF SizedRecords
    <3> HIDE DEF b
    <3> QED
      BY <3>1, FillerNever
  <2>2. a # TickMod - 1
    BY <1>3, <2>1
  <2>3. Blank.tick = TickMod - 1
    BY DEF Blank
  <2> QED
    BY <2>2, <2>3
<1>6. R <= a /\ a < tick[0] /\ tick[0] <= a + LowMod
  BY <1>0, <1>1, <1>4, <1>5 DEF HostClock, RecordsOK, Records
<1>7. wm[0] <= b + Delay + 1 + 2 * Leap /\ tick[0] <= wm[0] + 1
  <2>1. f \in Elems(chan[0]) /\ Timed(f) /\ Due(f) = b + Delay + 1
    BY DEF Kind, Timed, Due
  <2> QED
    BY <1>4, <2>1 DEF HostQueue, Lag, HostClock
<1>8. b <= a + LowMod + Delay + 1
  <2>1. Late = 0
    BY <1>0 DEF Live, Late
  <2>2. CASE Ahead = 0
    <3>1. tick[1] <= Cap(0) /\ Cap(0) \in Nat /\ Cap(0) <= tick[0] + Delay + 1
      <4>1. tick[1] <= Cap(0) + 0
        BY <1>4, <2>1, <2>2 DEF Shared
      <4>2. Cap(0) \in Nat /\ Cap(0) <= tick[0] + Delay + 1
        BY <1>0, Flat
      <4>3. tick[1] \in Nat
        BY <1>0
      <4> HIDE DEF a, b, R
      <4> QED
        BY <4>1, <4>2, <4>3
    <3>2. b < tick[1] /\ tick[0] <= a + LowMod
      BY <1>4, <1>6
    <3>3. a \in Nat /\ b \in Nat /\ tick[0] \in Nat /\ tick[1] \in Nat /\ Delay \in Nat /\ LowMod \in Nat
      BY <1>0, <1>n, <1>2
    <3> HIDE DEF a, b
    <3>4. b < tick[0] + Delay + 1
      BY <3>1, <3>2, <3>3
    <3> QED
      BY <3>2, <3>3, <3>4
  <2>3. CASE Ahead # 0
    <3>1. tick[1] < R
      BY <1>0, <1>4, <2>1, <2>3 DEF Shared
    <3>2. b < tick[1] /\ R <= a
      BY <1>4, <1>6
    <3>3. a \in Nat /\ b \in Nat /\ R \in Nat /\ tick[1] \in Nat /\ Delay \in Nat /\ LowMod \in Nat
      BY <1>0, <1>n, <1>2
    <3> HIDE DEF a, b, R
    <3> QED
      BY <3>1, <3>2, <3>3
  <2> QED
    BY <2>2, <2>3
<1>9. a <= b + 3 * Leap
  <2>1. a < tick[0] /\ wm[0] <= b + Delay + 1 + 2 * Leap /\ tick[0] <= wm[0] + 1 /\ Leap >= Delay + 2
    BY <1>n, <1>6, <1>7
  <2>2. a \in Nat /\ b \in Nat /\ wm[0] \in Nat /\ tick[0] \in Nat /\ Delay \in Nat /\ Leap \in Nat
    BY <1>0, <1>n, <1>2
  <2> HIDE DEF a, b
  <2>3. a <= wm[0]
    BY <2>1, <2>2
  <2>4. a <= b + Delay + 1 + 2 * Leap
    BY <2>1, <2>2, <2>3
  <2> QED
    BY <2>1, <2>2, <2>4
<1>10. a = b
  <2> HIDE DEF a, b
  <2> QED
    BY <1>0, <1>2, <1>3, <1>8, <1>9, SameRecord
<1>11. CASE Clean(rebases[0])
  <2>1. rebases[0] \in Nat /\ st[rebases[0]] = R /\ bs[rebases[0]] \in [Parts -> History] /\ b + 1 \in Nat
    <3>1. rebases[0] \in Nat /\ st[rebases[0]] = resume[0]
      BY Placed
    <3>2. b + 1 \in Nat
      <4>1. b \in Nat
        BY <1>0
      <4> HIDE DEF b
      <4> QED
        BY <4>1
    <3> QED
      BY <3>1, <3>2
  <2>2. \A k \in CrcParts : Extends(own.crc[k], bs[rebases[0]][k], R, b + 1, played[0])
    BY <1>0, <1>1, <1>5, <1>10, <1>11, <2>1 DEF Epochs, RecordTrace
  <2>3. \A k \in CrcParts : Extends(f.crc[k], bs[rebases[0]][k], R, b + 1, played[1])
    <3>1. b >= R
      BY <1>6, <1>10
    <3> QED
      BY <1>11, <3>1 DEF Epochs, ToHostTrace
  <2> HIDE DEF own, b, R
  <2>4. own.crc = f.crc
    BY <1>0, <1>2, <1>4, <2>1, <2>2, <2>3, OneChecksum
  <2> QED
    BY <1>3, <2>4
<1> QED
  BY <1>11 DEF Clean

LEMMA HostCrcEpochs ==
  ASSUME TypeOK, TornInv, Paced, Live, SizedRecords, RecordsOK,
         NEW bs \in [Nat -> [Parts -> History]], NEW st \in [Nat -> Nat], Epochs(bs, st), OnCrc(0)
  PROVE  Epochs(bs, st)'
<1> DEFINE f == Head(chan[0])
<1>0. /\ 0 \in Seats /\ 1 \in Seats /\ (\A d \in Seats : d = 0 \/ d = 1) /\ chan[0] \in Seq(Frame)
  BY RecTypes
<1>1. /\ UNCHANGED <<tick, rec, rebases, resume, hold, applied, sim, dirty, played, pushes, drifts>>
      /\ chan[0] # << >> /\ f \in Kind(chan[0], "CRC") /\ chan'[0] = Tail(chan[0]) /\ chan'[1] = chan[1]
      /\ CrcDisagrees(0, f) => pend'[1] = pend[1]
      /\ ~CrcDisagrees(0, f) => pend' = pend
  <2>1. 1 # 0
    OBVIOUS
  <2> QED
    BY <1>0, <2>1, CrcTaken
<1>2. CrcDisagrees(0, f) => rebases[0] \in dirty
  BY <1>1, HostDisagrees
<1>3. \A type : Kind(chan'[0], type) \subseteq Kind(chan[0], type)
  BY <1>0, <1>1, TakeKinds
<1>4. Blame'
  <2>1. Blame
    BY DEF Epochs
  <2>2. pend'[0] => pend[0] \/ rebases[0] \in dirty
    BY <1>1, <1>2
  <2>3. pend'[1] = pend[1]
    BY <1>1
  <2>4. Kind(chan'[0], "RESYNC") \subseteq Kind(chan[0], "RESYNC")
    BY <1>3
  <2> QED
    BY <1>1, <2>1, <2>2, <2>3, <2>4 DEF Blame, Owed
<1>5. /\ \A c \in Seats : Kind(chan'[c], "CRC") \subseteq Kind(chan[c], "CRC")
      /\ Kind(chan'[1], "BEGIN") \subseteq Kind(chan[1], "BEGIN")
  BY <1>0, <1>1, <1>3
<1>6. /\ Chunks(chan'[1], hold[1], rebases[1] + 1, rebases[0], bs, st)
      /\ Whole(chan'[1], hold[1], applied[1])
  BY <1>1 DEF Epochs
<1> QED
  BY <1>1, <1>4, <1>5, <1>6, EpochKept

\* The guest finds a report of the host to disagree: its own epoch has
\* diverged, the one its request is for.
LEMMA GuestDisagrees ==
  ASSUME TypeOK, TornInv, Paced, Live, SizedRecords, RecordsOK,
         NEW bs \in [Nat -> [Parts -> History]], NEW st \in [Nat -> Nat], Epochs(bs, st),
         NEW f \in Kind(chan[1], "CRC"), \A v \in Kind(chan[1], "BEGIN") : Before(chan[1], f, v), CrcDisagrees(1, f)
  PROVE  /\ rebases[1] \in dirty
         /\ IF f.tick < resume[0] THEN rebases[0] - 1 \in dirty ELSE rebases[0] \in dirty
<1> DEFINE own == rec[1][CrcSlot(f.tick)]
           s == chan[1]
           b == f.tick
           a == own.tick
           E1 == rebases[1]
<1>f. chan[1] \in Seq(Frame) /\ f \in Kind(chan[1], "CRC")
  BY RecTypes
<1>0. /\ 0 \in Seats /\ 1 \in Seats /\ rec \in [Seats -> [CrcSlots -> [tick : Nat, crc : Crc]]]
      /\ f.crc \in Crc /\ Other(0) = 1
  BY <1>f, RecTypes
<1>b. b \in Nat /\ tick[1] \in Nat /\ wm[1] \in Nat
  BY <1>f, RecTypes
<1>n. /\ Delay \in Nat /\ LowMod \in Nat /\ Leap \in Nat /\ Leap >= Delay + 2
  BY ConstantAssumption DEF SizedRecords, Sized, Leap
<1>1. CrcSlot(b) \in CrcSlots
  BY <1>b, SlotOfCrc
<1>2. own \in [tick : Nat, crc : Crc] /\ a \in Nat /\ own.crc \in Crc
  BY <1>0, <1>1
<1>3. SameTick(a, b) /\ own.crc # f.crc /\ ~hold[1] /\ ~pend[1]
  BY DEF CrcDisagrees
<1>4. b % CrcPeriod = 0 /\ GuestQueue /\ GuestRight /\ Shared /\ Agree
  <2>1. b % CrcPeriod = 0
    BY <1>0, <1>f DEF RecordsOK, Reported
  <2> QED
    BY <1>0, <2>1 DEF Paced, GuestSide, Live
<1>5. own # Blank
  <2>1. ~SameTick(TickMod - 1, b)
    <3>1. Sized /\ b \in Nat /\ b % CrcPeriod = 0
      BY <1>b, <1>4 DEF SizedRecords
    <3> HIDE DEF b
    <3> QED
      BY <3>1, FillerNever
  <2>2. a # TickMod - 1
    BY <1>3, <2>1
  <2>3. Blank.tick = TickMod - 1
    BY DEF Blank
  <2> QED
    BY <2>2, <2>3
<1>6. a < tick[1] /\ tick[1] <= a + LowMod
  BY <1>0, <1>1, <1>5 DEF RecordsOK, Records
<1>7. wm[1] <= b + Delay /\ tick[1] <= wm[1] + 1 /\ wm[1] <= tick[1] + 2 * Delay + 1
  BY <1>f, <1>4 DEF RecordsOK, Follow, GuestRight
<1>8. b <= tick[1] + Delay + 1
  <2>1. b + Delay <= wm[1] \/ \E g \in Kind(s, "INPUT") : g.tick = b + Delay
    BY <1>f, <1>3, <1>4 DEF GuestQueue, Reports, Start
  <2>2. CASE b + Delay <= wm[1]
    <3>1. b + Delay <= wm[1] /\ wm[1] <= tick[1] + 2 * Delay + 1
      BY <1>7, <2>2
    <3>2. b \in Nat /\ tick[1] \in Nat /\ wm[1] \in Nat /\ Delay \in Nat
      BY <1>b, <1>n
    <3> HIDE DEF b
    <3> QED
      BY <3>1, <3>2
  <2>3. CASE \E g \in Kind(s, "INPUT") : g.tick = b + Delay
    <3>1. PICK g \in Kind(s, "INPUT") : g.tick = b + Delay
      BY <2>3
    <3>2. NearTick = tick[1] + 2 * Delay + 1
      BY <1>3 DEF NearTick
    <3>3. g.tick <= NearTick \/ \E v \in Kind(s, "BEGIN") : v.tick + Delay <= g.tick
      BY <1>4 DEF GuestQueue, Near
    <3>4. ASSUME NEW v \in Kind(s, "BEGIN"), v.tick + Delay <= g.tick PROVE FALSE
      <4>1. v \in Elems(s) /\ v.type = "BEGIN" /\ v # f
        BY DEF Kind
      <4>2. Before(s, f, v)
        OBVIOUS
      <4>3. v.tick \in Nat
        BY <1>0, <4>1, RecTypes
      <4>4. Val(v) = v.tick + Delay - 1 /\ Mark(v)
        BY <4>1 DEF Val, Mark
      <4>5. b + Delay < Val(v)
        BY <1>f, <1>4, <4>1, <4>2, <4>4 DEF GuestQueue, Reports
      <4>6. v.tick + Delay <= b + Delay /\ b + Delay < v.tick + Delay - 1
        BY <3>1, <3>4, <4>4, <4>5
      <4>7. b \in Nat /\ v.tick \in Nat /\ Delay \in Nat
        BY <1>b, <1>n, <4>3
      <4> HIDE DEF b
      <4> QED
        BY <4>6, <4>7
    <3>5. b + Delay <= tick[1] + 2 * Delay + 1
      BY <3>1, <3>2, <3>3, <3>4
    <3>6. b \in Nat /\ tick[1] \in Nat /\ Delay \in Nat
      BY <1>b, <1>n
    <3> HIDE DEF b
    <3> QED
      BY <3>5, <3>6
  <2> QED
    BY <2>1, <2>2, <2>3
<1>9. a = b
  <2>1. /\ a \in Nat /\ b \in Nat /\ tick[1] \in Nat /\ wm[1] \in Nat
        /\ Delay \in Nat /\ LowMod \in Nat /\ Leap \in Nat /\ Leap >= Delay + 2
    BY <1>b, <1>n, <1>2
  <2>2. SameTick(a, b)
    BY <1>3
  <2>6. /\ a < tick[1] /\ tick[1] <= a + LowMod /\ wm[1] <= b + Delay /\ tick[1] <= wm[1] + 1
        /\ b <= tick[1] + Delay + 1
    BY <1>6, <1>7, <1>8
  <2> HIDE DEF a, b
  <2>3. a <= b + Delay
    BY <2>1, <2>6
  <2>4. a <= b + 3 * Leap
    BY <2>1, <2>3
  <2>5. b <= a + LowMod + Delay + 1
    BY <2>1, <2>6
  <2> QED
    BY <2>1, <2>2, <2>4, <2>5, SameRecord
<1>10. /\ E1 \in Nat /\ rebases[0] \in Nat /\ resume[0] \in Nat /\ Ahead = rebases[0] - E1 /\ Ahead \in 0 .. 2
       /\ Ahead = 0 => E1 = rebases[0] /\ st[E1] = resume[0]
       /\ Ahead > 0 => tick[1] < resume[0]
       /\ st[rebases[0]] = resume[0]
  BY Placed
<1>11. Ahead = 0 \/ (Ahead = 1 /\ E1 = rebases[0] - 1 /\ b < resume[0])
  <2>1. Ahead # 2
    BY <1>3, <1>4 DEF Shared, Asked
  <2>2. CASE Ahead = 1
    <3>1. E1 = rebases[0] - 1
      BY <1>10, <2>2
    <3>2. tick[1] < resume[0] /\ b < tick[1]
      BY <1>6, <1>9, <1>10, <2>2
    <3>3. b \in Nat /\ tick[1] \in Nat /\ resume[0] \in Nat
      BY <1>b, <1>10
    <3> HIDE DEF b
    <3>4. b < resume[0]
      BY <3>2, <3>3
    <3> QED
      BY <2>2, <3>1, <3>4
  <2> QED
    BY <1>10, <2>1, <2>2
<1>12. st[E1] \in Nat /\ st[E1] <= b
  <2>1. st[E1] <= a
    BY <1>0, <1>1, <1>5 DEF Epochs, RecordTrace
  <2> QED
    BY <1>9, <1>10, <2>1
<1>13. E1 \in dirty
  <2> SUFFICES ASSUME Clean(E1) PROVE FALSE
    BY DEF Clean
  <2>1. bs[E1] \in [Parts -> History] /\ b + 1 \in Nat
    <3>1. b \in Nat
      BY <1>b
    <3> HIDE DEF b
    <3>2. b + 1 \in Nat
      BY <3>1
    <3> QED
      BY <1>10, <3>2
  <2>2. \A k \in CrcParts : Extends(own.crc[k], bs[E1][k], st[E1], b + 1, played[1])
    BY <1>0, <1>1, <1>5, <1>9 DEF Epochs, RecordTrace
  <2>3. \A k \in CrcParts : Extends(f.crc[k], bs[E1][k], st[E1], b + 1, played[0])
    <3>1. E1 \in E1 .. rebases[0]
      <4>1. E1 \in Nat /\ rebases[0] \in Nat /\ rebases[0] - E1 \in 0 .. 2
        BY <1>10
      <4> HIDE DEF E1
      <4> QED
        BY <4>1
    <3>2. E1 < rebases[0] => b < st[E1 + 1]
      <4>1. CASE Ahead = 0
        BY <1>10, <4>1
      <4>2. CASE Ahead # 0
        <5>1. E1 + 1 = rebases[0]
          BY <1>10, <1>11, <4>2
        <5> QED
          BY <1>10, <1>11, <4>2, <5>1
      <4> QED
        BY <4>1, <4>2
    <3> QED
      BY <1>f, <1>12, <3>1, <3>2 DEF Epochs, ToGuestTrace
  <2>4. Agree
    BY <1>4
  <2> HIDE DEF own, b
  <2>5. own.crc = f.crc
    BY <1>0, <1>2, <1>12, <2>1, <2>2, <2>3, <2>4, OneChecksum
  <2> QED
    BY <1>3, <2>5
<1>14. IF b < resume[0] THEN rebases[0] - 1 \in dirty ELSE rebases[0] \in dirty
  <2>1. CASE Ahead = 0
    <3>1. ~(b < resume[0])
      <4>1. resume[0] <= b
        BY <1>10, <1>12, <2>1
      <4>2. b \in Nat /\ resume[0] \in Nat
        BY <1>b, <1>10
      <4> HIDE DEF b
      <4> QED
        BY <4>1, <4>2
    <3> QED
      BY <1>10, <1>13, <2>1, <3>1
  <2>2. CASE Ahead # 0
    BY <1>11, <1>13, <2>2
  <2> QED
    BY <2>1, <2>2
<1> QED
  BY <1>13, <1>14

LEMMA GuestCrcEpochs ==
  ASSUME TypeOK, TornInv, Paced, Live, SizedRecords, RecordsOK,
         NEW bs \in [Nat -> [Parts -> History]], NEW st \in [Nat -> Nat], Epochs(bs, st), OnCrc(1)
  PROVE  Epochs(bs, st)'
<1> DEFINE f == Head(chan[1])
           q == ResyncFrame(f.tick)
<1>0. /\ 0 \in Seats /\ 1 \in Seats /\ (\A d \in Seats : d = 0 \/ d = 1)
      /\ chan[0] \in Seq(Frame) /\ chan[1] \in Seq(Frame) /\ hold[1] \in BOOLEAN
      /\ rebases[0] \in Nat /\ rebases[1] + 1 \in Nat
  <2>1. /\ 0 \in Seats /\ 1 \in Seats /\ (\A d \in Seats : d = 0 \/ d = 1)
        /\ chan[0] \in Seq(Frame) /\ chan[1] \in Seq(Frame) /\ hold[1] \in BOOLEAN
        /\ rebases[0] \in Nat /\ rebases[1] \in Nat
    BY RecTypes
  <2>2. rebases[1] + 1 \in Nat
    <3>1. rebases[1] \in Nat
      BY <2>1
    <3> HIDE DEF f, q
    <3> QED
      BY <3>1
  <2> QED
    BY <2>1, <2>2
<1>1. /\ UNCHANGED <<tick, rec, rebases, resume, hold, applied, sim, dirty, played, pushes, drifts>>
      /\ chan[1] # << >> /\ f \in Kind(chan[1], "CRC") /\ f.type = "CRC" /\ chan'[1] = Tail(chan[1])
      /\ CrcDisagrees(1, f) => pend'[0] = pend[0] /\ (chan'[0] = Append(chan[0], q) \/ chan'[0] = chan[0])
      /\ ~CrcDisagrees(1, f) => pend' = pend /\ chan'[0] = chan[0]
  <2>1. 1 # 0
    OBVIOUS
  <2> QED
    BY <1>0, <2>1, CrcTaken
<1>2. /\ CrcDisagrees(1, f) => rebases[1] \in dirty
      /\ CrcDisagrees(1, f) => IF f.tick < resume[0] THEN rebases[0] - 1 \in dirty ELSE rebases[0] \in dirty
  <2>1. ASSUME NEW v \in Kind(chan[1], "BEGIN") PROVE Before(chan[1], f, v)
    <3>1. v \in Elems(chan[1]) /\ v # f
      BY <1>1 DEF Kind
    <3> QED
      BY <1>0, <1>1, <3>1, TakeQ
  <2> HIDE DEF f
  <2> QED
    BY <1>1, <2>1, GuestDisagrees
<1>3. q \in Frame /\ q.type = "RESYNC" /\ q.tick = f.tick
  <2>1. f.tick \in Nat
    BY <1>0, <1>1, RecTypes
  <2> HIDE DEF f
  <2> QED
    BY <2>1, FrameType DEF ResyncFrame
<1> HIDE DEF f, q
<1>4. /\ Kind(chan'[0], "CRC") = Kind(chan[0], "CRC")
      /\ \A g \in Kind(chan'[0], "RESYNC") : g \in Kind(chan[0], "RESYNC") \/ (CrcDisagrees(1, f) /\ g = q)
  <2>1. CASE chan'[0] = chan[0]
    BY <2>1
  <2>2. CASE CrcDisagrees(1, f) /\ chan'[0] = Append(chan[0], q)
    <3>1. Elems(Append(chan[0], q)) = Elems(chan[0]) \cup {q}
      BY <1>0, <1>3, AddQ
    <3> QED
      BY <1>3, <2>2, <3>1 DEF Kind
  <2> QED
    BY <1>1, <2>1, <2>2
<1>5. \A type : Kind(chan'[1], type) \subseteq Kind(chan[1], type)
  BY <1>0, <1>1, TakeKinds
<1>6. Blame'
  <2>1. Blame
    BY DEF Epochs
  <2>2. pend'[1] => rebases[1] \in dirty
    BY <1>1, <1>2, <2>1 DEF Blame
  <2>3. pend'[0] = pend[0]
    BY <1>1
  <2>4. \A g \in Kind(chan'[0], "RESYNC") :
           IF g.tick < resume[0] THEN rebases[0] - 1 \in dirty ELSE rebases[0] \in dirty
    BY <1>2, <1>3, <1>4, <2>1 DEF Blame
  <2> QED
    BY <1>1, <2>1, <2>2, <2>3, <2>4 DEF Blame, Owed
<1>7. /\ Chunks(chan'[1], hold[1], rebases[1] + 1, rebases[0], bs, st)
      /\ Whole(chan'[1], hold[1], applied[1])
  <2>1. f.type \notin Edge /\ f.type # "CHUNK" /\ f = Head(chan[1])
    BY <1>1 DEF Edge, f
  <2>2. Chunks(chan[1], hold[1], rebases[1] + 1, rebases[0], bs, st) /\ Whole(chan[1], hold[1], applied[1])
    BY DEF Epochs
  <2>3. Chunks(Tail(chan[1]), hold[1], rebases[1] + 1, rebases[0], bs, st)
    BY <1>0, <1>1, <2>1, <2>2, TakeChunks
  <2>4. Whole(Tail(chan[1]), hold[1], applied[1])
    BY <1>0, <1>1, <2>1, <2>2, WholeAfter
  <2> QED
    BY <1>1, <2>3, <2>4
<1>8. /\ \A c \in Seats : Kind(chan'[c], "CRC") \subseteq Kind(chan[c], "CRC")
      /\ Kind(chan'[1], "BEGIN") \subseteq Kind(chan[1], "BEGIN")
  BY <1>0, <1>4, <1>5
<1> QED
  BY <1>1, <1>6, <1>7, <1>8, EpochKept

-----------------------------------------------------------------------------
(* A push begins the host's next epoch.                                    *)

LEMMA AssocQ ==
  ASSUME NEW s \in Seq(Frame), NEW t \in Seq(Frame), NEW u \in Seq(Frame)
  PROVE  s \o (t \o u) = (s \o t) \o u
BY SMTT(30)

LEMMA NatOrder ==
  /\ \A a, b \in Nat : a < b => a <= b /\ a # b /\ ~(b < a) /\ ~(b <= a)
  /\ \A a, b, c \in Nat : (a < b /\ b <= c => a < c) /\ (a <= b /\ b < c => a < c) /\ (a < b /\ b < c => a < c)
OBVIOUS

LEMMA LessIsLeq ==
  \A a, b \in Nat : a < b => a <= b
OBVIOUS

LEMMA NoLoop ==
  \A a, b, c \in Nat :
    /\ ~(a <= b /\ b <= c /\ c < a)
    /\ ~(a < b /\ b <= c /\ c <= a)
    /\ a <= b /\ b < c => a < c
OBVIOUS

\* The tick a match resumes from lies ahead of the tick it was pushed at.
LEMMA Gap ==
  \A t, d, g, r \in Nat : g > d /\ r <= t => t < t + 1 + g /\ r < t + 1 + g
OBVIOUS

\* The state the host pushes, and when the match resumes from it.
Pushed(bs, st, bt, sv) ==
  /\ \A e \in 0 .. rebases[0] : bt[e] = bs[e] /\ sv[e] = st[e]
  /\ bt[rebases[0] + 1] = Simulated(0) /\ sv[rebases[0] + 1] = tick[0] + 1 + ResumeGap

\* What is under way after a push.
LEMMA PushSent ==
  ASSUME TypeOK, TypeOK', SizedRecords, Paced, RunPush(0), NEW r \in Nat, r = tick[0] + 1 + ResumeGap
  PROVE  /\ \A f \in Kind(chan'[1], "BEGIN") : f \in Kind(chan[1], "BEGIN") \/ f.tick = r
         /\ \A f \in Kind(chan'[1], "CRC") :
              f \in Kind(chan[1], "CRC") \/ (f.tick = tick[0] /\ \A k \in CrcParts : f.crc[k] = Simulated(0)[k])
         /\ chan'[1] = chan[1] \/ chan'[1] = (chan[1] \o CrcReport(0)) \o Image(0, r)
         /\ CrcReport(0) \in Seq(Frame)
         /\ \A f \in Elems(CrcReport(0)) : f.type = "CRC"
<1>0. 0 \in Seats /\ chan[1] \in Seq(Frame)
  BY RecTypes
<1>1. chan'[1] = chan[1] \/ chan'[1] = chan[1] \o (CrcReport(0) \o Image(0, r))
  BY PushTaken DEF SizedRecords
<1> DEFINE s == chan[1]
           t == CrcReport(0)
           im == Image(0, r)
           b == BeginFrame(r)
<1>2. /\ t \in Seq(Frame) /\ Elems(t) \subseteq {Report(0)}
      /\ Report(0).type = "CRC" /\ Report(0).tick = tick[0] /\ Report(0).crc = LS_CKSUM(Simulated(0))
  <2>1. Elems(t) = IF CrcDue(tick[0]) THEN {Report(0)} ELSE {}
    BY <1>0, ReportIs
  <2> QED
    BY <1>0, <2>1, ReportIs
<1>3. /\ im \in Seq(Frame) /\ b.type = "BEGIN" /\ b.tick = r
      /\ \A f \in Elems(im) : f = b \/ f.type \in {"CHUNK", "END"}
  BY ImageMade
<1> HIDE DEF s, t, im, b
<1>4. t \o im \in Seq(Frame) /\ Elems(s \o (t \o im)) = Elems(s) \cup (Elems(t) \cup Elems(im))
  <2>1. t \o im \in Seq(Frame) /\ Elems(t \o im) = Elems(t) \cup Elems(im)
    BY <1>2, <1>3, SendQ
  <2>2. Elems(s \o (t \o im)) = Elems(s) \cup Elems(t \o im)
    BY <1>0, <2>1, SendQ DEF s
  <2> QED
    BY <2>1, <2>2
<1>5. s \o (t \o im) = (s \o t) \o im
  <2>1. s \in Seq(Frame) /\ t \in Seq(Frame) /\ im \in Seq(Frame)
    BY <1>0, <1>2, <1>3 DEF s
  <2> QED
    BY <2>1, AssocQ
<1>6. ASSUME NEW f \in Elems(chan'[1]) PROVE f \in Elems(s) \/ f = Report(0) \/ f = b \/ f.type \in {"CHUNK", "END"}
  BY <1>1, <1>2, <1>3, <1>4 DEF s, t, im
<1>7. \A f \in Kind(chan'[1], "BEGIN") : f \in Kind(s, "BEGIN") \/ f.tick = r
  BY <1>2, <1>3, <1>6 DEF Kind
<1>8. \A f \in Kind(chan'[1], "CRC") :
        f \in Kind(s, "CRC") \/ (f.tick = tick[0] /\ \A k \in CrcParts : f.crc[k] = Simulated(0)[k])
  <2>1. \A k \in CrcParts : Report(0).crc[k] = Simulated(0)[k]
    BY <1>2 DEF LS_CKSUM
  <2>2. ASSUME NEW f \in Kind(chan'[1], "CRC") PROVE f \in Kind(s, "CRC") \/ f = Report(0)
    BY <1>3, <1>6 DEF Kind
  <2> QED
    BY <1>2, <2>1, <2>2
<1>9. \A f \in Elems(t) : f.type = "CRC"
  BY <1>2
<1> QED
  BY <1>1, <1>2, <1>5, <1>7, <1>8, <1>9 DEF s, t, im

LEMMA PushEpochs ==
  ASSUME TypeOK, TypeOK', TornInv, Paced, Live, SizedRecords,
         NEW bs \in [Nat -> [Parts -> History]], NEW st \in [Nat -> Nat], Epochs(bs, st), RunPush(0),
         NEW bt \in [Nat -> [Parts -> History]], NEW sv \in [Nat -> Nat],
         Pushed(bs, st, bt, sv)
  PROVE  Epochs(bt, sv)'
<1> DEFINE E0 == rebases[0]
           E1 == rebases[1]
           R == tick[0] + 1 + ResumeGap
<1>0. /\ 0 \in Seats /\ 1 \in Seats /\ (\A d \in Seats : d = 0 \/ d = 1) /\ hold[1] \in BOOLEAN
      /\ chan[1] \in Seq(Frame) /\ Simulated(0) \in [Parts -> History] /\ CrcParts \subseteq Parts
  BY RecTypes, TickType, ConstantAssumption
<1>1. /\ E0 \in Nat /\ E1 \in Nat /\ Ahead \in 0 .. 2 /\ Ahead = E0 - E1 /\ tick[0] \in Nat /\ tick[1] \in Nat
      /\ resume[0] \in Nat /\ resume[0] <= tick[0] /\ st[E0] = resume[0]
      /\ Ahead = 0 => E1 = E0
      /\ Ahead > 0 => tick[1] < resume[0] /\ E1 + 1 \in 0 .. E0
      /\ applied[1] # {} => hold[1]
      /\ hold[1] => Ahead > 0
  BY Placed
<1>2. /\ \A e \in 0 .. E0 : st[e] \in Nat /\ st[e] <= resume[0]
      /\ \A e \in 0 .. E0 : e # E0 => st[e + 1] <= resume[0]
  BY Placed
<1>3. /\ UNCHANGED <<hold, dropped, dirty, drifts>> /\ pend[0]
      /\ tick'[0] = R /\ resume'[0] = R /\ R \in Nat
      /\ chan'[0] = chan[0] /\ tick'[1] = tick[1] /\ resume'[1] = resume[1]
      /\ rec'[0] = RS_CLR_CRC /\ rec'[1] = rec[1] /\ pend'[0] = FALSE /\ pend'[1] = pend[1]
      /\ rebases'[0] = E0 + 1 /\ rebases'[1] = E1
      /\ sim'[0] = Simulated(0) /\ sim'[1] = sim[1]
      /\ applied'[0] = {} /\ applied'[1] = applied[1] /\ pushes' = pushes + 1
      /\ played'[0] = played[0] \cup {[tick |-> tick[0], in |-> Replay(0)]} /\ played'[1] = played[1]
  <2>1. ~dropped[0] /\ Sized
    BY <1>0 DEF Live, SizedRecords
  <2> QED
    BY <2>1, PushTaken
<1>4. /\ \A f \in Kind(chan'[1], "BEGIN") : f \in Kind(chan[1], "BEGIN") \/ f.tick = R
      /\ \A f \in Kind(chan'[1], "CRC") :
           f \in Kind(chan[1], "CRC") \/ (f.tick = tick[0] /\ \A k \in CrcParts : f.crc[k] = Simulated(0)[k])
      /\ chan'[1] = chan[1] \/ chan'[1] = (chan[1] \o CrcReport(0)) \o Image(0, R)
      /\ CrcReport(0) \in Seq(Frame)
      /\ \A f \in Elems(CrcReport(0)) : f.type = "CRC"
  BY <1>3, PushSent
<1>g. Delay \in Nat /\ ResumeGap \in Nat /\ ResumeGap > Delay /\ tick[0] < R /\ resume[0] < R
  <2>1. Delay \in Nat /\ ResumeGap \in Nat /\ ResumeGap > Delay /\ tick[0] \in Nat /\ resume[0] \in Nat /\ resume[0] <= tick[0]
    BY <1>1, ConstantAssumption DEF SizedRecords, Sized
  <2> QED
    BY <2>1, Gap, Zenon
<1>5. Ahead = 0 \/ Ahead = 1
  <2>1. Ahead # 2
    BY <1>3 DEF Paced, Shared, Asked
  <2> QED
    BY <1>1, <2>1
<1>e. /\ E0 \in 0 .. E0 /\ E1 \in 0 .. E0 /\ E0 + 1 \in Nat /\ E1 + 1 \in Nat /\ E1 + 1 <= E0 + 1
      /\ \A e \in 0 .. E0 + 1 : e \in 0 .. E0 \/ e = E0 + 1
      /\ \A e \in 0 .. E0 : e # E0 => e + 1 \in 0 .. E0
  <2>1. E0 \in Nat /\ E1 \in Nat /\ E0 - E1 \in 0 .. 2
    BY <1>1
  <2> HIDE DEF E0, E1
  <2> QED
    BY <2>1
<1>6. \A e \in 0 .. E0 : bt[e] = bs[e] /\ sv[e] = st[e]
  BY DEF Pushed
<1>7. bt[E0 + 1] = Simulated(0) /\ sv[E0 + 1] = R
  BY DEF Pushed
<1>z. /\ E0 \in Nat /\ E1 \in Nat /\ R \in Nat /\ tick[0] \in Nat /\ tick[1] \in Nat /\ resume[0] \in Nat
      /\ resume[0] <= tick[0] /\ tick[0] < R /\ resume[0] < R
  BY <1>1, <1>3, <1>g
<1>w. Delay \in Nat /\ tick[0] + Delay + 1 < R /\ tick[0] + Delay + 1 \in Nat
  <2>1. Delay \in Nat /\ ResumeGap \in Nat /\ ResumeGap > Delay /\ tick[0] \in Nat
    BY <1>1, <1>g
  <2> HIDE DEF E0, E1
  <2>2. tick[0] + Delay + 1 < R
    BY <2>1
  <2> HIDE DEF R
  <2>3. tick[0] + Delay + 1 \in Nat
    BY <2>1
  <2> QED
    BY <2>1, <2>2, <2>3
<1>p. played[0] \subseteq played'[0]
  BY <1>3
<1>q. \A b \in Kind(chan[1], "BEGIN") : b.tick = resume[0]
  <2>1. Ahead # 2
    BY <1>5
  <2>2. Starts(st)
    BY DEF Epochs
  <2>3. ASSUME NEW b \in Kind(chan[1], "BEGIN") PROVE b.tick = resume[0]
    <3>1. b.tick \in Mid \cup {v.tick : v \in Kind(chan[1], "BEGIN")}
      BY Zenon
    <3> QED
      BY <2>1, <2>2, <3>1, Zenon DEF Starts
  <2> QED
    BY <2>3, Zenon
<1> HIDE DEF E0, E1, R
<1>8. Starts(sv)'
  <2>1. sv[E0 + 1] = R /\ sv[E1] <= tick[1]
    BY <1>e, <1>6, <1>7 DEF Epochs, Starts, E1
  <2>2. ASSUME NEW e \in 0 .. E0 + 1, NEW d \in 0 .. e - 1 PROVE sv[d] < sv[e]
    <3>1. CASE e \in 0 .. E0
      <4>1. d \in 0 .. E0
        BY <1>1, <3>1
      <4>2. st[d] < st[e]
        BY <3>1 DEF Epochs, Starts, E0
      <4> QED
        BY <1>6, <3>1, <4>1, <4>2
    <3>2. CASE e = E0 + 1
      <4>1. d \in 0 .. E0
        BY <1>1, <3>2
      <4>2. sv[d] = st[d] /\ st[d] \in Nat /\ st[d] <= resume[0]
        BY <1>2, <1>6, <4>1
      <4>3. resume[0] \in Nat /\ R \in Nat /\ resume[0] < R
        BY <1>z, Zenon
      <4> HIDE DEF R
      <4>4. st[d] < R
        BY <4>2, <4>3, NoLoop, Zenon
      <4>5. sv[e] = R
        BY <1>7, <3>2, Zenon
      <4> QED
        BY <4>2, <4>4, <4>5, Zenon
    <3> QED
      BY <1>e, <3>1, <3>2
  <2>3. ASSUME NEW v \in Mid' \cup {b.tick : b \in Kind(chan'[1], "BEGIN")}
        PROVE  v = R \/ (Ahead' = 2 /\ v = sv[E0])
    <3>1. Mid' = Mid
      BY <1>3 DEF Mid
    <3>2. v = R \/ v \in Mid \cup {b.tick : b \in Kind(chan[1], "BEGIN")}
      <4>1. CASE v \in Mid'
        BY <3>1, <4>1
      <4>2. CASE v \notin Mid'
        <5>1. PICK b \in Kind(chan'[1], "BEGIN") : v = b.tick
          BY <4>2
        <5>2. b \in Kind(chan[1], "BEGIN") \/ b.tick = R
          BY <1>4
        <5> QED
          BY <5>1, <5>2
      <4> QED
        BY <4>1, <4>2
    <3>3. CASE v \in Mid \cup {b.tick : b \in Kind(chan[1], "BEGIN")}
      <4>1. v = resume[0] /\ sv[E0] = resume[0]
        <5>1. Ahead # 2
          BY <1>5
        <5>2. Starts(st)
          BY DEF Epochs
        <5> QED
          BY <1>1, <1>e, <1>6, <3>3, <5>1, <5>2 DEF Starts
      <4>2. Ahead # 0
        BY <3>3, <1>0 DEF Paced, GuestSide, GuestQueue, Images, Live
      <4>3. Ahead' = 2
        <5>1. Ahead = 1 /\ Ahead = E0 - E1 /\ E0 \in Nat /\ E1 \in Nat
          BY <1>1, <1>5, <4>2
        <5>2. Ahead' = (E0 + 1) - E1
          BY <1>3 DEF Ahead
        <5> QED
          BY <5>1, <5>2
      <4> QED
        BY <4>1, <4>3
    <3> QED
      BY <3>2, <3>3
  <2>4. (E0 + 1) - 1 = E0
    BY <1>1
  <2>5. \A v \in Mid' \cup {b.tick : b \in Kind(chan'[1], "BEGIN")} : v = R \/ (Ahead' = 2 /\ v = sv[E0])
    BY <2>3
  <2> QED
    BY <1>3, <2>1, <2>2, <2>4, <2>5 DEF Starts
<1>9. HostTrace(bt)'
  <2> SUFFICES ASSUME NEW k \in Parts PROVE Extends(sim'[0][k], bt[E0 + 1][k], R, R, played'[0])
    BY <1>3 DEF HostTrace
  <2>1. Simulated(0)[k] \in History
    BY <1>0
  <2> QED
    BY <1>3, <1>7, <2>1, ExtendsNone
<1>10. GuestTrace(bt, sv)'
  <2> SUFFICES ASSUME NEW k \in Parts
               PROVE  /\ k \notin applied[1] /\ E1 \notin dirty =>
                           Extends(sim[1][k], bt[E1][k], sv[E1], tick[1], played[1])
                      /\ k \in applied[1] /\ E1 + 1 \notin dirty => sim[1][k] = bt[E1 + 1][k]
    BY <1>3 DEF GuestTrace, Clean
  <2>1. bt[E1] = bs[E1] /\ sv[E1] = st[E1]
    BY <1>e, <1>6
  <2>2. k \in applied[1] => bt[E1 + 1] = bs[E1 + 1]
    BY <1>1, <1>6
  <2>3. GuestTrace(bs, st)
    BY DEF Epochs
  <2> QED
    BY <2>1, <2>2, <2>3 DEF GuestTrace, Clean, E1
<1>11. RecordTrace(bt, sv)'
  <2> SUFFICES ASSUME NEW c \in Seats, NEW x \in CrcSlots, rec'[c][x] # Blank
               PROVE  /\ sv[rebases'[c]] <= rec'[c][x].tick
                      /\ rebases'[c] \notin dirty' => \A k \in CrcParts :
                           Extends(rec'[c][x].crc[k], bt[rebases'[c]][k], sv[rebases'[c]], rec'[c][x].tick + 1, played'[c])
    BY DEF RecordTrace, Clean
  <2>1. c = 1
    BY <1>0, <1>3, BlankTick
  <2>2. bt[E1] = bs[E1] /\ sv[E1] = st[E1]
    BY <1>e, <1>6
  <2>3. RecordTrace(bs, st)
    BY DEF Epochs
  <2>4. /\ rec'[1] = rec[1] /\ rebases'[1] = E1 /\ played'[1] = played[1] /\ dirty' = dirty
    BY <1>3
  <2>5. rec[1][x] # Blank
    BY <2>1, <2>4
  <2>6. /\ st[E1] <= rec[1][x].tick
        /\ E1 \notin dirty => \A k \in CrcParts :
              Extends(rec[1][x].crc[k], bs[E1][k], st[E1], rec[1][x].tick + 1, played[1])
    BY <1>0, <2>3, <2>5 DEF RecordTrace, Clean, E1
  <2> QED
    BY <2>1, <2>2, <2>4, <2>6
<1>12. ToHostTrace(bt)'
  <2> SUFFICES ASSUME NEW f \in Kind(chan[0], "CRC"), f.tick >= R PROVE FALSE
    BY <1>3 DEF ToHostTrace
  <2>1. f.tick < tick[1] /\ f.tick \in Nat
    BY <1>0, RecTypes DEF Paced, Shared
  <2>2. tick[1] < R
    <3>1. CASE Ahead = 0
      <4>1. Late = 0
        BY <1>0 DEF Live, Late
      <4>2. tick[1] <= Cap(0) + Late /\ Cap(0) \in Nat /\ Cap(0) <= tick[0] + Delay + 1
        BY <1>0, <3>1, Flat DEF Paced, Shared
      <4>3. tick[1] <= Cap(0)
        <5>1. tick[1] <= Cap(0) + 0 /\ Cap(0) \in Nat /\ tick[1] \in Nat
          BY <1>z, <4>1, <4>2
        <5> QED
          BY <5>1
      <4>5. Cap(0) < R
        <5>1. /\ Cap(0) \in Nat /\ tick[0] + Delay + 1 \in Nat /\ R \in Nat
              /\ Cap(0) <= tick[0] + Delay + 1 /\ tick[0] + Delay + 1 < R
          BY <1>z, <1>w, <4>2
        <5> HIDE DEF R
        <5> QED
          BY <5>1
      <4> QED
        BY <1>z, <4>2, <4>3, <4>5, NatOrder, Zenon
    <3>2. CASE Ahead = 1
      <4>1. tick[1] < resume[0]
        BY <1>1, <3>2
      <4> QED
        BY <1>z, <4>1
    <3> QED
      BY <1>5, <3>1, <3>2
  <2>3. f.tick \in Nat /\ tick[1] \in Nat /\ R \in Nat
    BY <1>1, <1>3, <2>1
  <2> HIDE DEF R
  <2> QED
    BY <2>1, <2>2, <2>3
<1>13. ToGuestTrace(bt, sv)'
  <2> SUFFICES ASSUME NEW f \in Kind(chan'[1], "CRC"), NEW e \in E1 .. E0 + 1, e \notin dirty, sv[e] <= f.tick,
                      e < E0 + 1 => f.tick < sv[e + 1], NEW k \in CrcParts
               PROVE  Extends(f.crc[k], bt[e][k], sv[e], f.tick + 1, played'[0])
    BY <1>3 DEF ToGuestTrace, Clean
  <2>1. f.tick \in Nat /\ f.tick <= tick[0]
    <3>1. CASE f \in Kind(chan[1], "CRC")
      <4>1. f.tick \in Nat
        BY <1>0, <3>1, RecTypes
      <4>2. f.tick < tick[0]
        BY <1>0, <3>1 DEF Paced, Basic
      <4>3. tick[0] \in Nat
        BY <1>z
      <4> QED
        BY <4>1, <4>2, <4>3, LessIsLeq, Zenon
    <3>2. CASE f.tick = tick[0]
      <4>1. tick[0] \in Nat
        BY <1>z
      <4> HIDE DEF R
      <4> QED
        BY <3>2, <4>1
    <3> QED
      BY <1>4, <3>1, <3>2
  <2>2. e \in 0 .. E0 /\ e < E0 + 1
    <3>1. ASSUME e = E0 + 1 PROVE FALSE
      <4>1. R <= f.tick
        BY <1>7, <3>1, Zenon
      <4>2. f.tick \in Nat /\ f.tick <= tick[0]
        BY <2>1, Zenon
      <4>3. R \in Nat /\ tick[0] \in Nat /\ tick[0] < R
        BY <1>z, Zenon
      <4> QED
        BY <4>1, <4>2, <4>3, NoLoop, Zenon
    <3>2. E0 \in Nat /\ E1 \in Nat
      BY <1>z, Zenon
    <3> QED
      BY <3>1, <3>2
  <2>3. bt[e] = bs[e] /\ sv[e] = st[e] /\ bs[e] \in [Parts -> History] /\ st[e] \in Nat
    BY <1>2, <1>6, <2>2
  <2>4. e # E0 => sv[e + 1] = st[e + 1] /\ st[e + 1] <= resume[0] /\ f.tick < st[e + 1] /\ st[e + 1] \in Nat
    BY <1>2, <1>6, <1>e, <2>2
  <2>5. CASE f \in Kind(chan[1], "CRC")
    <3>1. e \in E1 .. E0 /\ (e < E0 => e # E0)
      BY <1>1, <2>2
    <3>2. Extends(f.crc[k], bs[e][k], st[e], f.tick + 1, played[0])
      <4>1. ToGuestTrace(bs, st)
        BY DEF Epochs
      <4>2. e < E0 => f.tick < st[e + 1]
        BY <2>4, <3>1
      <4> QED
        BY <2>3, <2>5, <3>1, <4>1, <4>2 DEF ToGuestTrace, Clean, E0, E1
    <3> QED
      BY <1>p, <2>3, <3>2, ExtendsMono
  <2>6. CASE f.tick = tick[0] /\ \A j \in CrcParts : f.crc[j] = Simulated(0)[j]
    <3>1. e = E0
      <4>1. ASSUME e # E0 PROVE FALSE
        <5>1. f.tick < st[e + 1] /\ st[e + 1] <= resume[0] /\ st[e + 1] \in Nat
          BY <2>4, <4>1
        <5>2. resume[0] \in Nat /\ tick[0] \in Nat /\ resume[0] <= tick[0]
          BY <1>z
        <5>3. f.tick = tick[0]
          BY <2>6, Zenon
        <5> QED
          BY <5>1, <5>2, <5>3, NoLoop, Zenon
      <4> QED
        BY <4>1
    <3>2. Extends(sim[0][k], bs[E0][k], resume[0], tick[0], played[0])
      <4>1. HostTrace(bs) /\ k \in Parts
        BY <1>0 DEF Epochs
      <4> QED
        BY <3>1, <4>1 DEF HostTrace, Clean, E0
    <3>3. k \in Parts /\ bs[E0][k] \in History
      BY <1>0, <2>3, <3>1
    <3>4. Extends(Simulated(0)[k], bs[E0][k], resume[0], tick[0] + 1, played'[0])
      BY <1>0, <1>1, <1>3, <3>2, <3>3, SimulatedMore
    <3>5. sv[e] = resume[0] /\ bt[e] = bs[E0]
      BY <1>1, <2>3, <3>1
    <3> QED
      BY <2>6, <3>4, <3>5
  <2> QED
    BY <1>4, <2>5, <2>6
<1>14. /\ Chunks(chan'[1], hold[1], E1 + 1, E0 + 1, bt, sv)
       /\ Whole(chan'[1], hold[1], applied[1])
  <2>1. Chunks(chan[1], hold[1], E1 + 1, E0, bs, st) /\ Whole(chan[1], hold[1], applied[1])
    BY DEF Epochs, E0, E1
  <2>2. hold[1] => E1 + 1 <= E0
    BY <1>1
  <2>3. \A e \in 0 .. E0 : st[e] \in Nat /\ st[e] < R
    <3>1. resume[0] \in Nat /\ R \in Nat /\ resume[0] < R
      BY <1>z, Zenon
    <3> HIDE DEF R
    <3>2. ASSUME NEW e \in 0 .. E0 PROVE st[e] \in Nat /\ st[e] < R
      <4>1. st[e] \in Nat /\ st[e] <= resume[0]
        BY <1>2, Zenon
      <4> QED
        BY <3>1, <4>1
    <3> QED
      BY <3>2, Zenon
  <2>4. \A b \in Kind(chan[1], "BEGIN") : b.tick \in Nat /\ b.tick < R
    BY <1>1, <1>g, <1>q
  <2>h. /\ hold[1] \in BOOLEAN /\ chan[1] \in Seq(Frame) /\ E1 + 1 \in Nat /\ E0 \in Nat /\ R \in Nat
        /\ hold[1] => E1 + 1 <= E0
        /\ E1 + 1 <= E0 + 1
    BY <1>0, <1>z, <1>e, <2>2
  <2>5. CASE chan'[1] = chan[1]
    <3>1. Chunks(chan[1], hold[1], E1 + 1, E0 + 1, bt, sv)
      <4>1. Pushing(chan[1], R, hold[1], E1 + 1, E0, bs, st, bt, sv)
        BY <1>6, <1>7, <2>h, <2>3, <2>4 DEF Pushing
      <4>2. hold[1] \in BOOLEAN /\ chan[1] \in Seq(Frame) /\ R \in Nat
        BY <2>h
      <4> QED
        BY <2>1, <4>1, <4>2, PushImages
    <3> QED
      BY <2>1, <2>5, <3>1
  <2>6. CASE chan'[1] = (chan[1] \o CrcReport(0)) \o Image(0, R)
    <3> DEFINE u == chan[1] \o CrcReport(0)
    <3>1. u \in Seq(Frame)
      BY <1>0, <1>4, SendQ
    <3>2. Kind(u, "BEGIN") = Kind(chan[1], "BEGIN")
      <4>1. Elems(u) = Elems(chan[1]) \cup Elems(CrcReport(0))
        BY <1>0, <1>4, SendQ
      <4> QED
        BY <1>4, <4>1 DEF Kind
    <3>3. Chunks(u, hold[1], E1 + 1, E0, bs, st) /\ Whole(u, hold[1], applied[1])
      <4>1. \A f \in Elems(CrcReport(0)) : f.type \notin {"CHUNK", "END"}
        BY <1>4
      <4> QED
        BY <1>0, <1>4, <2>1, <4>1, SendNoImage
    <3> HIDE DEF u
    <3>4. \A b \in Kind(u, "BEGIN") : b.tick \in Nat /\ b.tick < R
      BY <2>4, <3>2
    <3>5. Chunks(u \o Image(0, R), hold[1], E1 + 1, E0 + 1, bt, sv) /\ Whole(u \o Image(0, R), hold[1], applied[1])
      <4>1. Pushing(u, R, hold[1], E1 + 1, E0, bs, st, bt, sv)
        BY <1>6, <1>7, <2>h, <2>3, <3>4 DEF Pushing
      <4>2. hold[1] \in BOOLEAN /\ R \in Nat
        BY <2>h
      <4> QED
        BY <3>1, <3>3, <4>1, <4>2, PushImages
    <3> QED
      BY <2>6, <3>5 DEF u
  <2> QED
    BY <1>4, <2>5, <2>6
<1>15. Blame'
  <2>b. Blame
    BY DEF Epochs
  <2>1. pushes' = E0 + 1
    BY <1>3, <2>b DEF Blame, E0
  <2>2. dirty \subseteq 0 .. E0 + 1 /\ Cardinality(dirty) <= drifts
    <3>1. dirty \subseteq 0 .. E0 /\ Cardinality(dirty) <= drifts
      BY <2>b DEF Blame, E0
    <3> QED
      BY <1>1, <3>1
  <2>3. \A e \in 0 .. (E0 + 1) - 1 : Owed(e)
    <3>1. Owed(E0) /\ \A e \in 0 .. E0 - 1 : Owed(e)
      BY <1>3, <2>b DEF Blame, E0
    <3>2. \A e \in 0 .. (E0 + 1) - 1 : e = E0 \/ e \in 0 .. E0 - 1
      BY <1>z
    <3> QED
      BY <3>1, <3>2
  <2>4. pend[1] => E1 \in dirty
    BY <2>b DEF Blame, E1
  <2>5. ASSUME NEW f \in Kind(chan[0], "RESYNC")
        PROVE  IF f.tick < R THEN (E0 + 1) - 1 \in dirty ELSE E0 + 1 \in dirty
    <3>1. f.tick \in Nat /\ f.tick < tick[0] /\ f.type = "RESYNC"
      BY <1>0, RecTypes DEF Paced, Basic, Kind
    <3>2. ~Old(f, resume[0])
      BY <1>3 DEF Paced, Shared, Asked
    <3>3. ~(f.tick < resume[0])
      BY <3>1, <3>2 DEF Old
    <3>4. E0 \in dirty
      BY <2>b, <3>3 DEF Blame, E0
    <3>5. f.tick < R /\ (E0 + 1) - 1 = E0
      BY <1>z, <3>1
    <3> QED
      BY <3>4, <3>5
  <2> QED
    BY <1>3, <2>1, <2>2, <2>3, <2>4, <2>5 DEF Blame, Owed
<1>16. /\ Chunks(chan[1], hold[1], rebases[1] + 1, rebases[0], bt, sv)'
       /\ Whole(chan[1], hold[1], applied[1])'
  <2>1. rebases'[1] = E1 /\ rebases'[0] = E0 + 1 /\ hold' = hold /\ applied'[1] = applied[1]
    BY <1>3
  <2> QED
    BY <1>14, <2>1
<1> QED
  BY <1>8, <1>9, <1>10, <1>11, <1>12, <1>13, <1>15, <1>16 DEF Epochs

-----------------------------------------------------------------------------
(* The invariant.                                                          *)

LEMMA EpochInit == ASSUME SizedRecords, Init PROVE EpochInv
<1> DEFINE bs == [n \in Nat |-> [k \in Parts |-> << >>]]
           st == [n \in Nat |-> 0]
<1>0. 0 \in Seats /\ 1 \in Seats /\ (\A c \in Seats : c = 0 \/ c = 1) /\ 0 \in Nat /\ 1 \in Nat /\ << >> \in History
  BY DEF Seats, History
<1>1. /\ \A c \in Seats : /\ chan[c] = << >> /\ \A x \in CrcSlots : rec[c][x] = Blank
                          /\ ~pend[c] /\ ~hold[c] /\ resume[c] = 0 /\ tick[c] = 0 /\ rebases[c] = 0
                          /\ applied[c] = {} /\ sim[c] = [k \in Parts |-> << >>]
      /\ dirty = {} /\ drifts = 0 /\ pushes = 0
  BY BlankTick DEF Init
<1>2. \A type : Kind(<< >>, type) = {}
  BY NoneQ DEF Kind
<1>3. /\ bs \in [Nat -> [Parts -> History]] /\ st \in [Nat -> Nat]
      /\ \A e \in Nat, k \in Parts : bs[e][k] = << >>
      /\ \A e \in Nat : st[e] = 0
  BY <1>0
<1> HIDE DEF bs, st
<1>4. Starts(st)
  <2>1. Mid = {} /\ Kind(chan[1], "BEGIN") = {}
    BY <1>0, <1>1, <1>2 DEF Mid
  <2>2. \A e \in 0 .. 0 : 0 .. e - 1 = {}
    OBVIOUS
  <2>3. st[0] = 0 /\ 0 <= 0
    BY <1>0, <1>3
  <2> QED
    BY <1>0, <1>1, <2>1, <2>2, <2>3 DEF Starts
<1>5. \A pl : Extends(<< >>, << >>, 0, 0, pl)
  BY <1>0, ExtendsNone
<1>6. HostTrace(bs) /\ GuestTrace(bs, st)
  <2>1. \A c \in Seats : \A k \in Parts : sim[c][k] = << >>
    BY <1>1
  <2> QED
    BY <1>0, <1>1, <1>3, <1>5, <2>1 DEF HostTrace, GuestTrace
<1>7. RecordTrace(bs, st)
  BY <1>1 DEF RecordTrace
<1>8. ToHostTrace(bs) /\ ToGuestTrace(bs, st)
  BY <1>0, <1>1, <1>2 DEF ToHostTrace, ToGuestTrace
<1>9. /\ Chunks(chan[1], hold[1], rebases[1] + 1, rebases[0], bs, st)
      /\ Whole(chan[1], hold[1], applied[1])
  <2>1. chan[1] = << >> /\ 1 .. Len(<< >>) = {}
    BY <1>0, <1>1
  <2> QED
    BY <2>1 DEF Chunks, Whole
<1>10. Blame
  <2>1. Cardinality({}) = 0 /\ 0 <= 0 /\ 0 .. 0 - 1 = {}
    BY FS_EmptySet
  <2> QED
    BY <1>0, <1>1, <1>2, <2>1 DEF Blame
<1>11. Epochs(bs, st)
  BY <1>4, <1>6, <1>7, <1>8, <1>9, <1>10 DEF Epochs
<1> QED
  BY <1>3, <1>11 DEF EpochInv

LEMMA PushBegins ==
  ASSUME TypeOK, NEW bs \in [Nat -> [Parts -> History]], NEW st \in [Nat -> Nat]
  PROVE  \E bt \in [Nat -> [Parts -> History]], sv \in [Nat -> Nat] : Pushed(bs, st, bt, sv)
<1> DEFINE bt == [bs EXCEPT ![rebases[0] + 1] = Simulated(0)]
           sv == [st EXCEPT ![rebases[0] + 1] = tick[0] + 1 + ResumeGap]
<1>1. /\ rebases[0] \in Nat /\ tick[0] + 1 + ResumeGap \in Nat /\ Simulated(0) \in [Parts -> History]
      /\ rebases[0] + 1 \in Nat /\ rebases[0] + 1 \notin 0 .. rebases[0]
  <2>1. rebases[0] \in Nat /\ tick[0] \in Nat /\ ResumeGap \in Nat /\ 0 \in Seats
    BY RecTypes, ConstantAssumption
  <2>2. tick[0] + 1 + ResumeGap \in Nat
    BY <2>1
  <2>3. rebases[0] + 1 \in Nat /\ rebases[0] + 1 \notin 0 .. rebases[0]
    BY <2>1
  <2> QED
    BY <2>1, <2>2, <2>3, TickType
<1>2. bt \in [Nat -> [Parts -> History]] /\ sv \in [Nat -> Nat]
  BY <1>1
<1>3. Pushed(bs, st, bt, sv)
  <2>1. bt[rebases[0] + 1] = Simulated(0) /\ sv[rebases[0] + 1] = tick[0] + 1 + ResumeGap
    BY <1>1
  <2>2. ASSUME NEW e \in 0 .. rebases[0] PROVE bt[e] = bs[e] /\ sv[e] = st[e]
    <3>1. e \in Nat /\ e # rebases[0] + 1
      BY <1>1
    <3> QED
      BY <3>1
  <2> HIDE DEF bt, sv
  <2> QED
    BY <2>1, <2>2 DEF Pushed
<1> HIDE DEF bt, sv
<1> QED
  BY <1>2, <1>3

\* A step that ends no tick in a push.
LEMMA OtherEpochs ==
  ASSUME TypeOK, SizedRecords, TornInv, Live, Paced, RecordsOK, [Next]_vars, Live', ~RunPush(0),
         NEW bs \in [Nat -> [Parts -> History]], NEW st \in [Nat -> Nat], Epochs(bs, st)
  PROVE  Epochs(bs, st)'
<1> USE DEF engine, recovery, history
<1>a. Basic
  BY DEF Paced
<1>b. /\ dropped \in [Seats -> BOOLEAN] /\ 0 \in Seats /\ 1 \in Seats /\ (\A c \in Seats : c = 0 \/ c = 1)
  BY RecTypes
<1>c. ASSUME NEW c \in Seats, NET_DROP(c) PROVE FALSE
  BY <1>b, <1>c DEF NET_DROP, Live
<1>d. ASSUME UNCHANGED <<tick, rec, rebases, resume, hold, applied, sim, dirty, played, pushes, drifts, pend, chan>>
      PROVE  Epochs(bs, st)'
  BY <1>d, IdleEpochs
<1>1. ASSUME NEW c \in Seats, OnInput(c) PROVE Epochs(bs, st)'
  <2>1. /\ chan[c] # << >> /\ Head(chan[c]).type = "INPUT" /\ chan' = [chan EXCEPT ![c] = Tail(@)]
        /\ UNCHANGED <<tick, rec, rebases, resume, hold, applied, sim, dirty, played, pushes, drifts, pend>>
    BY <1>1 DEF OnInput, Receives
  <2>2. c = 1 => ~hold[1] \/ Head(chan[1]).type \notin {"BEGIN", "CHUNK", "END"}
    BY <2>1
  <2> QED
    BY <2>1, <2>2, SkipEpochs
<1>2. ASSUME NEW c \in Seats, OnCrc(c) PROVE Epochs(bs, st)'
  <2>1. CASE c = 0
    BY <1>2, <2>1, HostCrcEpochs
  <2>2. CASE c = 1
    BY <1>2, <2>2, GuestCrcEpochs
  <2> QED
    BY <1>b, <2>1, <2>2
<1>3. ASSUME NEW c \in Seats, OnResync(c) PROVE Epochs(bs, st)'
  <2>1. chan[c] # << >> /\ Head(chan[c]).type = "RESYNC"
    BY <1>3 DEF OnResync, Receives
  <2>2. c = 0
    BY <1>a, <1>b, <2>1, HeadKinds
  <2> QED
    BY <1>3, <2>2, RequestEpochs
<1>4. ASSUME NEW c \in Seats, OnBegin(c) PROVE Epochs(bs, st)'
  <2>1. chan[c] # << >> /\ Head(chan[c]).type = "BEGIN"
    BY <1>4 DEF OnBegin, Receives
  <2>2. c = 1
    BY <1>a, <1>b, <2>1, HeadKinds
  <2> QED
    BY <1>4, <2>2, BeginEpochs
<1>5. ASSUME NEW c \in Seats, OnChunk(c) PROVE Epochs(bs, st)'
  <2>1. chan[c] # << >> /\ Head(chan[c]).type = "CHUNK"
    BY <1>5 DEF OnChunk, Receives
  <2>2. c = 1
    BY <1>a, <1>b, <2>1, HeadKinds
  <2> QED
    BY <1>5, <2>2, ChunkEpochs
<1>6. ASSUME NEW c \in Seats, OnEnd(c) PROVE Epochs(bs, st)'
  <2>1. chan[c] # << >> /\ Head(chan[c]).type = "END"
    BY <1>6 DEF OnEnd, Receives
  <2>2. c = 1
    BY <1>a, <1>b, <2>1, HeadKinds
  <2> QED
    BY <1>6, <2>2, EndEpochs
<1>7. ASSUME NEW c \in Seats, OnPeerLeft(c) PROVE Epochs(bs, st)'
  BY <1>7, <1>c DEF OnPeerLeft
<1>8. ASSUME NEW c \in Seats, SesPump(c) \/ SesDone(c) \/ PassBegin(c) \/ Stall(c) PROVE Epochs(bs, st)'
  BY <1>8, <1>d DEF SesPump, SesDone, PassBegin, Stall
<1>9. ASSUME NEW c \in Seats, HoldRound(c) PROVE Epochs(bs, st)'
  BY <1>9, <1>c, <1>d DEF HoldRound
<1>s. ASSUME NEW c \in Seats, StallRound(c) PROVE Epochs(bs, st)'
  BY <1>s, <1>c, <1>d DEF StallRound
<1>10. ASSUME NEW c \in Seats, Capture(c) PROVE Epochs(bs, st)'
  BY <1>10, CaptureEpochs
<1>11. ASSUME NEW c \in Seats, RunTick(c) PROVE Epochs(bs, st)'
  <2>1. CASE c = 0
    BY <1>11, <2>1, HostTickEpochs
  <2>2. CASE c = 1
    BY <1>11, <2>2, GuestTickEpochs
  <2> QED
    BY <1>b, <2>1, <2>2
<1>12. ASSUME NEW c \in Seats, RunPush(c) PROVE Epochs(bs, st)'
  <2>1. c = 0
    BY <1>12 DEF RunPush, PushNow, PushWanted, Host
  <2> QED
    BY <1>12, <2>1
<1>13. ASSUME NEW c \in Seats, NEW k \in Parts, Drift(c, k) PROVE Epochs(bs, st)'
  BY <1>13, DriftEpochs
<1>14. ASSUME NEW c \in Seats, NEW i \in 1 .. Len(chan[c]), LoseWrite(c, i) PROVE Epochs(bs, st)'
  BY <1>14 DEF LoseWrite, Live
<1>15. ASSUME NEW c \in Seats, Leave(c) PROVE Epochs(bs, st)'
  BY <1>15, LeaveEpochs
<1>16. CASE UNCHANGED vars
  BY <1>16, <1>d DEF vars
<1> QED
  BY <1>1, <1>2, <1>3, <1>4, <1>5, <1>6, <1>7, <1>8, <1>9, <1>s, <1>10, <1>11, <1>12,
     <1>13, <1>14, <1>15, <1>16
     DEF Next, Console, OnFrame, Environment, Finished

LEMMA EpochStep ==
  ASSUME TypeOK, TypeOK', SizedRecords, TornInv, Lockstep, RecordInv, EpochInv, [Next]_vars
  PROVE  EpochInv'
<1> SUFFICES ASSUME Live'
             PROVE  \E bt \in [Nat -> [Parts -> History]], sv \in [Nat -> Nat] : Epochs(bt, sv)'
  BY DEF EpochInv
<1>a. Live /\ RecordsOK /\ Paced
  <2>1. Live
    BY LiveBefore
  <2> QED
    BY <2>1 DEF RecordInv, Lockstep, Live
<1>p. PICK bs \in [Nat -> [Parts -> History]], st \in [Nat -> Nat] : Epochs(bs, st)
  BY <1>a DEF EpochInv
<1>1. CASE RunPush(0)
  <2>1. PICK bt \in [Nat -> [Parts -> History]], sv \in [Nat -> Nat] : Pushed(bs, st, bt, sv)
    BY PushBegins
  <2>2. Epochs(bt, sv)'
    BY <1>a, <1>p, <1>1, <2>1, PushEpochs
  <2> QED
    BY <2>2
<1>2. CASE ~RunPush(0)
  <2>1. Epochs(bs, st)'
    BY <1>a, <1>p, <1>2, OtherEpochs
  <2> QED
    BY <2>1
<1> QED
  BY <1>1, <1>2

\* The invariant of the epochs: as long as nothing was lost and neither console
\* has given the other up, what the consoles simulate, record, report and
\* push follows from the states the epochs began with.
THEOREM EpochInvariant == ASSUME SizedRecords PROVE Spec => []EpochInv
<1>1. Init => EpochInv
  BY EpochInit
<1>2. TypeOK /\ TypeOK' /\ TornInv /\ Lockstep /\ RecordInv /\ EpochInv /\ [Next]_vars => EpochInv'
  BY EpochStep
<1>3. Spec => []Lockstep
  BY LockstepInvariant DEF SizedRecords
<1> QED
  BY <1>1, <1>2, <1>3, TypeCorrect, TornInvariant, RecordInvariant, PTL DEF Spec

-----------------------------------------------------------------------------
(* What the epochs say of the match.                                       *)

LEMMA LiveEpochs ==
  ASSUME TypeOK, Lockstep, EpochInv, lost = {}, MatchOn
  PROVE  /\ Live /\ Paced
         /\ \E bs \in [Nat -> [Parts -> History]], st \in [Nat -> Nat] : Epochs(bs, st)
<1>1. Live
  BY DEF MatchOn, Live
<1> QED
  BY <1>1 DEF Lockstep, EpochInv

LEMMA DirtyFinite ==
  ASSUME TypeOK, Blame
  PROVE  IsFiniteSet(dirty) /\ Cardinality(dirty) \in Nat /\ Cardinality(dirty) <= drifts /\ dirty \subseteq Nat
<1>1. rebases[0] \in Nat /\ 0 \in Int /\ rebases[0] \in Int
  BY RecTypes
<1>2. IsFiniteSet(0 .. rebases[0])
  BY <1>1, FS_Interval
<1>3. dirty \in SUBSET (0 .. rebases[0]) /\ Cardinality(dirty) <= drifts
  BY DEF Blame
<1>4. IsFiniteSet(dirty)
  BY <1>2, <1>3, FS_Subset
<1>5. Cardinality(dirty) \in Nat
  BY <1>4, FS_CardinalityType
<1> QED
  BY <1>3, <1>4, <1>5

LEMMA NoneSpurious ==
  ASSUME TypeOK, Lockstep, EpochInv
  PROVE  NoSpuriousResync
<1> SUFFICES ASSUME drifts = 0, lost = {}, MatchOn PROVE pushes = 0 /\ \A c \in Seats : ~pend[c]
  BY DEF NoSpuriousResync
<1>1. Blame
  BY LiveEpochs DEF Epochs
<1>2. dirty = {}
  <2>1. IsFiniteSet(dirty) /\ Cardinality(dirty) \in Nat /\ Cardinality(dirty) <= 0
    BY <1>1, DirtyFinite
  <2>2. Cardinality(dirty) = 0
    BY <2>1
  <2> QED
    BY <2>1, <2>2, FS_EmptySet
<1>3. rebases[0] \in Nat /\ \A c \in Seats : c = 0 \/ c = 1
  BY RecTypes
<1>4. \A e : ~Owed(e)
  BY <1>2 DEF Owed
<1>5. rebases[0] = 0
  <2>1. 0 \notin 0 .. rebases[0] - 1
    BY <1>1, <1>4 DEF Blame
  <2> QED
    BY <1>3, <2>1
<1> QED
  BY <1>1, <1>2, <1>3, <1>4, <1>5 DEF Blame

\* Without a divergence nothing is pushed, and none is asked for: the record
\* that RS_ON_CRC compares a report with is always the one of the same tick of
\* the same epoch, and it is equal.
THEOREM ResyncJustified == ASSUME SizedRecords PROVE Spec => []NoSpuriousResync
<1>1. TypeOK /\ Lockstep /\ EpochInv => NoSpuriousResync
  BY NoneSpurious
<1>2. Spec => []Lockstep
  BY LockstepInvariant DEF SizedRecords
<1> QED
  BY <1>1, <1>2, EpochInvariant, TypeCorrect, PTL

LEMMA FewPushes ==
  ASSUME TypeOK, Lockstep, EpochInv, lost = {}
  PROVE  PushesBounded
<1> SUFFICES ASSUME MatchOn PROVE pushes <= 2 * (drifts + Cardinality(lost))
  BY DEF PushesBounded
<1>1. Blame
  BY LiveEpochs DEF Epochs
<1>2. IsFiniteSet(dirty) /\ Cardinality(dirty) \in Nat /\ Cardinality(dirty) <= drifts /\ dirty \subseteq Nat
  BY <1>1, DirtyFinite
<1> DEFINE next == {e + 1 : e \in dirty}
           f == [e \in dirty |-> e + 1]
<1>3. IsFiniteSet(next) /\ Cardinality(next) <= Cardinality(dirty)
  <2>1. f \in Surjection(dirty, next)
    BY DEF Surjection
  <2> HIDE DEF f, next
  <2> QED
    BY <1>2, <2>1, FS_Surjection
<1>4. 0 .. rebases[0] - 1 \subseteq dirty \cup next
  <2> SUFFICES ASSUME NEW e \in 0 .. rebases[0] - 1 PROVE e \in dirty \cup next
    OBVIOUS
  <2>1. e \in dirty \/ e - 1 \in dirty
    BY <1>1 DEF Blame, Owed
  <2>2. (e - 1) + 1 = e
    OBVIOUS
  <2>3. e - 1 \in dirty => (e - 1) + 1 \in next
    OBVIOUS
  <2> HIDE DEF next
  <2> QED
    BY <2>1, <2>2, <2>3
<1> HIDE DEF next, f
<1>5. /\ IsFiniteSet(dirty \cup next) /\ Cardinality(dirty \cup next) \in Nat
      /\ Cardinality(dirty \cup next) <= 2 * Cardinality(dirty)
  <2>1. /\ IsFiniteSet(dirty \cup next)
        /\ Cardinality(dirty \cup next) = Cardinality(dirty) + Cardinality(next) - Cardinality(dirty \cap next)
    BY <1>2, <1>3, FS_Union
  <2>2. dirty \cap next \in SUBSET dirty
    OBVIOUS
  <2>3. IsFiniteSet(dirty \cap next)
    BY <1>2, <2>2, FS_Subset
  <2>4. /\ Cardinality(dirty \cap next) \in Nat /\ Cardinality(next) \in Nat
        /\ Cardinality(dirty \cup next) \in Nat
    BY <1>3, <2>1, <2>3, FS_CardinalityType
  <2> QED
    BY <1>2, <1>3, <2>1, <2>4
<1>6. rebases[0] \in Nat /\ rebases[0] - 1 \in Int /\ 0 \in Int
  <2>1. rebases[0] \in Nat
    BY RecTypes
  <2> QED
    BY <2>1
<1>7. Cardinality(0 .. rebases[0] - 1) = rebases[0]
  <2>1. Cardinality(0 .. rebases[0] - 1) = IF 0 > rebases[0] - 1 THEN 0 ELSE (rebases[0] - 1) - 0 + 1
    BY <1>6, FS_Interval
  <2> QED
    BY <1>6, <2>1
<1>8. rebases[0] <= Cardinality(dirty \cup next)
  <2>1. 0 .. rebases[0] - 1 \in SUBSET (dirty \cup next)
    BY <1>4
  <2>2. Cardinality(0 .. rebases[0] - 1) <= Cardinality(dirty \cup next)
    BY <1>5, <2>1, FS_Subset
  <2> QED
    BY <1>7, <2>2
<1>9. pushes = rebases[0] /\ Cardinality(lost) = 0 /\ drifts \in Nat
  BY <1>1, FS_EmptySet DEF Blame, TypeOK, HistoryType
<1> QED
  BY <1>2, <1>5, <1>6, <1>8, <1>9

\* A divergence costs at most two pushes: the one for it, and one more for the
\* request of a guest that had not yet completed the first (RS_ON_REQ).
THEOREM PushesFew == ASSUME SizedRecords PROVE Spec => [](lost = {} => PushesBounded)
<1>1. TypeOK /\ Lockstep /\ EpochInv => (lost = {} => PushesBounded)
  BY FewPushes
<1>2. Spec => []Lockstep
  BY LockstepInvariant DEF SizedRecords
<1> QED
  BY <1>1, <1>2, EpochInvariant, TypeCorrect, PTL

LEMMA SameState ==
  ASSUME TypeOK, TornInv, Lockstep, EpochInv, lost = {}
  PROVE  StateAgreement
<1> SUFFICES ASSUME MatchOn, tick[0] = tick[1], rebases[0] = rebases[1], rebases[0] \notin dirty,
                    \A c \in Seats : pc[c] = "pass" /\ ~hold[c]
             PROVE  sim[0] = sim[1]
  BY DEF StateAgreement
<1>1. Live /\ Paced
  BY LiveEpochs
<1>2. PICK bs \in [Nat -> [Parts -> History]], st \in [Nat -> Nat] : Epochs(bs, st)
  BY LiveEpochs
<1>3. /\ rebases[0] \in Nat /\ resume[0] \in Nat /\ tick[0] \in Nat /\ st[rebases[0]] = resume[0]
      /\ applied[1] # {} => hold[1]
  BY <1>1, <1>2, Placed
<1>4. /\ 0 \in Seats /\ 1 \in Seats
      /\ sim[0] \in [Parts -> History] /\ sim[1] \in [Parts -> History]
  BY RecTypes DEF TypeOK, SimType
<1>5. ASSUME NEW k \in Parts PROVE sim[0][k] = sim[1][k]
  <2>1. Extends(sim[0][k], bs[rebases[0]][k], resume[0], tick[0], played[0])
    BY <1>2 DEF Epochs, HostTrace, Clean
  <2>2. Extends(sim[1][k], bs[rebases[0]][k], resume[0], tick[0], played[1])
    <3>1. k \notin applied[1]
      BY <1>3, <1>4
    <3>2. Extends(sim[1][k], bs[rebases[1]][k], st[rebases[1]], tick[1], played[1])
      BY <1>2, <3>1 DEF Epochs, GuestTrace, Clean
    <3> QED
      BY <1>3, <3>2
  <2>3. sim[0][k] \in History /\ sim[1][k] \in History /\ bs[rebases[0]][k] \in History
    BY <1>2, <1>3, <1>4
  <2>4. Agree /\ resume[0] \in Nat /\ tick[0] \in Nat
    BY <1>1, <1>3 DEF Paced
  <2> QED
    BY <2>1, <2>2, <2>3, <2>4, ExtendsSame
<1> QED
  BY <1>4, <1>5

\* Consoles at the same tick of an epoch in which nothing diverged are in the
\* same state in every chunk, however the epoch began: RS_PUSH sends all of the
\* state, RS_ON_STATE applies all of it, and both resume at the same tick.
THEOREM StatesAgree == ASSUME SizedRecords PROVE Spec => [](lost = {} => StateAgreement)
<1>1. TypeOK /\ TornInv /\ Lockstep /\ EpochInv => (lost = {} => StateAgreement)
  BY SameState
<1>2. Spec => []Lockstep
  BY LockstepInvariant DEF SizedRecords
<1> QED
  BY <1>1, <1>2, EpochInvariant, TornInvariant, TypeCorrect, PTL
=============================================================================
