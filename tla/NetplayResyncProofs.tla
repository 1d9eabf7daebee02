------------------------ MODULE NetplayResyncProofs -----------------------
(* Desync detection is complete: while no frame is lost, a divergence both *)
(* consoles have a record of is known to the host, or it is being told.    *)
EXTENDS NetplayInputProofs

\* How many records a console keeps: a slot comes round again with the very
\* next tick that is due for it, and well before the ticks repeat.
SizedRecords ==
  Sized /\ LowMod % CrcPeriod = 0 /\ TickMod >= 2 * LowMod

\* Neither console has given the other up.
Live == lost = {} /\ \A c \in Seats : ~dropped[c]

-----------------------------------------------------------------------------
(* The records and the reports.                                            *)

\* RS_CLR_CRC's record.
Blank == [tick |-> TickMod - 1, crc |-> [k \in CrcParts |-> <<[drift |-> 0]>>]]

\* A record is blank, or the latest one of its slot.
Records(c) ==
  \A x \in CrcSlots :
    \/ rec[c][x] = Blank
    \/ /\ rec[c][x].tick % CrcPeriod = 0 /\ CrcSlot(rec[c][x].tick) = x
       /\ rec[c][x].tick < tick[c] /\ tick[c] <= rec[c][x].tick + LowMod

\* What console c has reported is what it has a record of.
Reported(c) ==
  \A f \in Kind(chan[Other(c)], "CRC") :
    /\ f.tick < tick[c] /\ f.tick % CrcPeriod = 0
    /\ \A x \in CrcSlots : rec[c][x].tick = f.tick => rec[c][x].crc = f.crc

\* A report is no older than what the guest has received before it.
Follow ==
  \A f \in Kind(chan[1], "CRC") :
    /\ wm[1] <= f.tick + Delay
    /\ \A g \in Kind(chan[1], "INPUT") : Before(chan[1], g, f) => g.tick <= f.tick + Delay

\* The host knows of a divergence, or is being told.
Told == pend[0] \/ Kind(chan[0], "RESYNC") # {}

\* What the guest knows, the host knows, once the image has been completed.
Asking == room /\ Ahead = 0 /\ pend[1] => Told

\* Records that differ are known to differ, or a report is still under way.
Differ(a, b) == a.tick = b.tick /\ a.crc # b.crc
Settled ==
  room => \A x \in CrcSlots :
    Differ(rec[0][x], rec[1][x]) =>
      Told \/ \E c \in Seats : \E f \in Kind(chan[c], "CRC") : f.tick = rec[0][x].tick

RecordsOK ==
  /\ \A c \in Seats : Records(c) /\ Reported(c)
  /\ Follow /\ Asking /\ Settled

RecordInv == Live => RecordsOK

-----------------------------------------------------------------------------
(* Slots and ticks.                                                        *)

\* Remainders of sums and products.
LEMMA Remainder ==
  ASSUME NEW m \in Nat \ {0}
  PROVE  /\ \A q \in Int : (m * q) % m = 0
         /\ \A a \in Nat : (a + m) % m = a % m
<1>1. ASSUME NEW z \in Int, NEW y \in Int, y = m * z, -m < y, y < m PROVE y = 0
  <2>1. z = 0
    BY <1>1
  <2> QED
    BY <1>1, <2>1
<1>2. ASSUME NEW q \in Int PROVE (m * q) % m = 0
  <2>1. PICK a \in Int : a = m * q
    OBVIOUS
  <2>2. PICK d \in Int, y \in 0 .. m - 1 : a = m * d + y /\ a % m = y
    BY <2>1
  <2>3. y = m * (q - d) /\ q - d \in Int
    BY <2>1, <2>2
  <2> QED
    BY <1>1, <2>1, <2>2, <2>3
<1>3. ASSUME NEW a \in Nat PROVE (a + m) % m = a % m
  <2>1. PICK d \in Int, y \in 0 .. m - 1 : a = m * d + y /\ a % m = y
    OBVIOUS
  <2>2. PICK e \in Int, z \in 0 .. m - 1 : a + m = m * e + z /\ (a + m) % m = z
    OBVIOUS
  <2>3. y - z = m * (e - d - 1) /\ e - d - 1 \in Int
    BY <2>1, <2>2
  <2>4. y - z \in Int /\ -m < y - z /\ y - z < m
    BY <2>1, <2>2
  <2>5. y - z = 0
    BY <1>1, <2>3, <2>4
  <2> QED
    BY <2>1, <2>2, <2>5
<1> QED
  BY <1>2, <1>3

\* A slot comes round again LowMod ticks later.
LEMMA SlotAgain ==
  ASSUME SizedRecords, NEW r \in Nat, r % CrcPeriod = 0
  PROVE  (r + LowMod) % CrcPeriod = 0 /\ CrcSlot(r + LowMod) = CrcSlot(r)
<1>1. LowMod \in Nat \ {0} /\ CrcPeriod \in Nat \ {0} /\ LowMod % CrcPeriod = 0
  BY ConstantAssumption DEF SizedRecords
<1>2. (r + LowMod) % LowMod = r % LowMod
  BY <1>1, Remainder
<1>3. (r + LowMod) % CrcPeriod = 0
  <2>1. /\ r = CrcPeriod * (r \div CrcPeriod) /\ (r \div CrcPeriod) \in Int
        /\ LowMod = CrcPeriod * (LowMod \div CrcPeriod) /\ (LowMod \div CrcPeriod) \in Int
    BY <1>1
  <2> DEFINE q == (r \div CrcPeriod) + (LowMod \div CrcPeriod)
  <2>2. q \in Int /\ r + LowMod = CrcPeriod * q
    BY <1>1, <2>1
  <2> HIDE DEF q
  <2>3. (CrcPeriod * q) % CrcPeriod = 0
    BY <1>1, <2>2, Remainder
  <2> QED
    BY <2>2, <2>3
<1> QED
  BY <1>2, <1>3 DEF CrcSlot

\* A blank record is of no tick that is ever reported.
LEMMA BlankTick ==
  ASSUME SizedRecords
  PROVE  /\ Blank.tick \in Nat
         /\ \A t \in Nat : t % CrcPeriod = 0 => t # Blank.tick
         /\ \A x \in CrcSlots : RS_CLR_CRC[x] = Blank
<1>1. TickMod \in Nat \ {0} /\ Sized /\ Blank.tick = TickMod - 1
  BY ConstantAssumption DEF SizedRecords, Blank
<1>2. ASSUME NEW t \in Nat, t % CrcPeriod = 0 PROVE t # Blank.tick
  BY <1>1, <1>2, FillerNever DEF SameTick
<1> QED
  BY <1>1, <1>2 DEF RS_CLR_CRC, Blank

\* What the variables are.
LEMMA RecTypes ==
  ASSUME TypeOK
  PROVE  /\ rec \in [Seats -> [CrcSlots -> [tick : Nat, crc : Crc]]]
         /\ chan \in [Seats -> Seq(Frame)] /\ tick \in [Seats -> Nat] /\ wm \in [Seats -> Nat]
         /\ pend \in [Seats -> BOOLEAN] /\ hold \in [Seats -> BOOLEAN]
         /\ rebases \in [Seats -> Nat] /\ resume \in [Seats -> Nat]
         /\ room \in BOOLEAN /\ dropped \in [Seats -> BOOLEAN]
         /\ 0 \in Seats /\ 1 \in Seats /\ (\A c \in Seats : c = 0 \/ c = 1)
         /\ Other(0) = 1 /\ Other(1) = 0 /\ Host = 0
         /\ \A c \in Seats : \A f \in Kind(chan[c], "CRC") :
              f.tick \in Nat /\ f.crc \in Crc
         /\ \A c \in Seats : \A f \in Elems(chan[c]) :
              f.type \in {"INPUT", "CRC", "RESYNC", "BEGIN"} => f.tick \in Nat
<1>1. 0 \in Seats /\ 1 \in Seats /\ (\A c \in Seats : c = 0 \/ c = 1)
      /\ Other(0) = 1 /\ Other(1) = 0 /\ Host = 0
  BY DEF Seats, Other, Host
<1>2. chan \in [Seats -> Seq(Frame)]
  BY DEF TypeOK, ChanType
<1>3. ASSUME NEW c \in Seats, NEW f \in Elems(chan[c]) PROVE f \in Frame
  BY <1>2, <1>3, ElemType
<1>4. \A f \in Frame : (f.type = "CRC" => f.tick \in Nat /\ f.crc \in Crc)
        /\ (f.type \in {"INPUT", "CRC", "RESYNC", "BEGIN"} => f.tick \in Nat)
  BY DEF Frame
<1> QED
  BY <1>1, <1>2, <1>3, <1>4 DEF TypeOK, EngineType, RecoveryType, ControlType, Kind

-----------------------------------------------------------------------------
(* The records, step by step.                                              *)

LEMMA TakeKinds ==
  ASSUME NEW s \in Seq(Frame), s # << >>
  PROVE  \A type : Kind(s, type) =
           Kind(Tail(s), type) \cup (IF Head(s).type = type THEN {Head(s)} ELSE {})
<1>1. Elems(s) = {Head(s)} \cup Elems(Tail(s))
  BY TakeQ
<1> QED
  BY <1>1 DEF Kind

LEMMA SendKinds ==
  ASSUME NEW s \in Seq(Frame), NEW t \in Seq(Frame)
  PROVE  \A type : Kind(s \o t, type) = Kind(s, type) \cup Kind(t, type)
<1>1. Elems(s \o t) = Elems(s) \cup Elems(t)
  BY SendQ
<1> QED
  BY <1>1 DEF Kind

\* The guest takes a frame; an input may become its watermark.
LEMMA FollowTaken ==
  ASSUME TypeOK, Follow, chan[1] # << >>, chan'[1] = Tail(chan[1]),
         wm'[1] = wm[1] \/ (Head(chan[1]).type = "INPUT" /\ wm'[1] = Head(chan[1]).tick)
  PROVE  Follow'
<1> DEFINE s == chan[1]
<1>1. s \in Seq(Frame)
  BY RecTypes
<1>2. /\ Elems(s) = {Head(s)} \cup Elems(Tail(s))
      /\ \A g \in Elems(Tail(s)) : Before(s, Head(s), g)
      /\ \A f, g : Before(Tail(s), f, g) => Before(s, f, g)
  BY <1>1, TakeQ
<1> SUFFICES ASSUME NEW f \in Kind(Tail(s), "CRC")
             PROVE  /\ wm'[1] <= f.tick + Delay
                    /\ \A g \in Kind(Tail(s), "INPUT") : Before(Tail(s), g, f) => g.tick <= f.tick + Delay
  BY DEF Follow
<1>3. f \in Kind(s, "CRC") /\ Kind(Tail(s), "INPUT") \subseteq Kind(s, "INPUT")
  BY <1>2 DEF Kind
<1>4. wm'[1] <= f.tick + Delay
  <2>1. CASE wm'[1] = wm[1]
    BY <1>3, <2>1 DEF Follow
  <2>2. CASE Head(s).type = "INPUT" /\ wm'[1] = Head(s).tick
    <3>1. Head(s) \in Kind(s, "INPUT") /\ Before(s, Head(s), f)
      BY <1>2, <2>2 DEF Kind
    <3> QED
      BY <1>3, <2>2, <3>1 DEF Follow
  <2> QED
    BY <2>1, <2>2
<1> QED
  BY <1>2, <1>3, <1>4 DEF Follow

\* Steps that touch no record and no report: reports may be cut off by a leave.
LEMMA RecordsKept ==
  ASSUME RecordsOK, UNCHANGED <<tick, rec, pend, rebases>>, room' => room,
         \A c \in Seats : Kind(chan'[c], "CRC") \subseteq Kind(chan[c], "CRC"),
         room' => /\ \A c \in Seats : Kind(chan[c], "CRC") \subseteq Kind(chan'[c], "CRC")
                  /\ Kind(chan[0], "RESYNC") \subseteq Kind(chan'[0], "RESYNC"),
         Follow'
  PROVE  RecordsOK'
<1>1. \A c \in Seats : Other(c) \in Seats
  BY DEF Other, Seats
<1>2. \A c \in Seats : Records(c)'
  BY DEF RecordsOK, Records
<1>3. \A c \in Seats : Reported(c)'
  BY <1>1 DEF RecordsOK, Reported
<1>4. room' => (Told => Told')
  BY DEF Told
<1>5. Asking'
  BY <1>4 DEF RecordsOK, Asking, Ahead
<1>6. Settled'
  BY <1>4 DEF RecordsOK, Settled
<1> QED
  BY <1>2, <1>3, <1>5, <1>6 DEF RecordsOK

\* A report arrives (RS_ON_CRC).
LEMMA CrcTaken ==
  ASSUME TypeOK, NEW c \in Seats, OnCrc(c)
  PROVE  /\ UNCHANGED <<pc, tick, ring, wm, rebases, hold, resume, rec, applied, dropped, sim, room, played,
                        drifts, dirty, lost, pushes>>
         /\ pc[c] \in Pumping /\ chan[c] # << >> /\ Head(chan[c]).type = "CRC"
         /\ Head(chan[c]) \in Kind(chan[c], "CRC") /\ Tail(chan[c]) \in Seq(Frame)
         /\ c = 0 => chan'[0] = Tail(chan[0]) /\ chan'[1] = chan[1]
         /\ c = 1 => chan'[1] = Tail(chan[1])
         /\ CrcDisagrees(c, Head(chan[c])) =>
              /\ pend'[c] = TRUE /\ \A d \in Seats : d # c => pend'[d] = pend[d]
              /\ c = 1 => chan'[0] = IF room THEN Append(chan[0], ResyncFrame(Head(chan[1]).tick)) ELSE chan[0]
         /\ ~CrcDisagrees(c, Head(chan[c])) => pend' = pend /\ (c = 1 => chan'[0] = chan[0])
<1> USE DEF engine, history
<1> DEFINE f == Head(chan[c])
           rest == [chan EXCEPT ![c] = Tail(@)]
<1>0. /\ chan \in [Seats -> Seq(Frame)] /\ pend \in [Seats -> BOOLEAN] /\ 0 \in Seats /\ 1 \in Seats
      /\ (c = 0 \/ c = 1) /\ Host = 0
  BY RecTypes
<1>1. /\ UNCHANGED <<pc, tick, ring, wm, rebases, hold, resume, rec, applied, dropped, sim, room, played,
                     drifts, dirty, lost, pushes>>
      /\ pc[c] \in Pumping /\ chan[c] # << >> /\ f.type = "CRC"
  BY DEF OnCrc
<1>2. f \in Kind(chan[c], "CRC") /\ Tail(chan[c]) \in Seq(Frame)
  BY <1>0, <1>1, TakeQ DEF Kind
<1>3. CASE CrcDisagrees(c, f)
  <2>1. /\ pend' = [pend EXCEPT ![c] = TRUE]
        /\ chan' = IF c # Host /\ room THEN [rest EXCEPT ![Host] = Append(@, ResyncFrame(f.tick))] ELSE rest
    BY <1>3 DEF OnCrc
  <2> QED
    BY <1>0, <1>1, <1>2, <1>3, <2>1
<1>4. CASE ~CrcDisagrees(c, f)
  <2>1. chan' = rest /\ pend' = pend
    BY <1>4 DEF OnCrc
  <2> QED
    BY <1>0, <1>1, <1>2, <1>4, <2>1
<1> QED
  BY <1>3, <1>4

\* Consoles that have a record of the same tick are in the same epoch.
LEMMA SameEpoch ==
  ASSUME TypeOK, SizedRecords, Paced, Live, RecordsOK, NEW x \in CrcSlots,
         Differ(rec[0][x], rec[1][x])
  PROVE  /\ Ahead = 0 /\ ~hold[1]
         /\ \A c \in Seats : rec[c][x] # Blank /\ CrcSlot(rec[c][x].tick) = x
<1>0. 0 \in Seats /\ 1 \in Seats /\ (\A c \in Seats : c = 0 \/ c = 1)
      /\ rec[0][x].tick \in Nat /\ rec[1][x].tick \in Nat
      /\ tick[1] \in Nat /\ resume[0] \in Nat
  BY RecTypes
<1>1. \A c \in Seats : rec[c][x].tick % CrcPeriod = 0 \/ rec[c][x] = Blank
  BY DEF RecordsOK, Records
<1>2. \A c \in Seats : rec[c][x] # Blank
  <2>1. rec[0][x] = Blank <=> rec[1][x] = Blank
    BY <1>0, <1>1, BlankTick DEF Differ
  <2> QED
    BY <1>0, <2>1 DEF Differ
<1>3. \A c \in Seats : CrcSlot(rec[c][x].tick) = x /\ rec[c][x].tick < tick[c] /\ rec[c][x].tick % CrcPeriod = 0
  BY <1>2 DEF RecordsOK, Records
<1>4. HostClock /\ Images(chan[1], Mid, resume[0], Ahead) /\ Shared
  BY <1>0 DEF Live, Paced, HostSide, GuestSide, GuestQueue
<1>5. resume[0] <= rec[0][x].tick
  <2>1. rec[0][x].tick # TickMod - 1
    BY <1>0, <1>3, BlankTick DEF Blank
  <2> QED
    BY <1>4, <2>1 DEF HostClock
<1>6. Ahead = 0
  <2>1. Late = 0
    BY <1>0 DEF Live, Late
  <2>2. Ahead # 0 => tick[1] < resume[0]
    BY <1>0, <1>4, <2>1 DEF Shared
  <2>3. rec[1][x].tick < tick[1] /\ rec[0][x].tick = rec[1][x].tick
    BY <1>0, <1>3 DEF Differ
  <2> QED
    BY <1>0, <1>5, <2>2, <2>3
<1>7. ~hold[1]
  BY <1>4, <1>6 DEF Images, Mid
<1> QED
  BY <1>2, <1>3, <1>6, <1>7

LEMMA CrcRecords ==
  ASSUME TypeOK, SizedRecords, Paced, Live, RecordsOK, NEW c \in Seats, OnCrc(c)
  PROVE  RecordsOK'
<1> DEFINE f == Head(chan[c])
<1>0. /\ 0 \in Seats /\ 1 \in Seats /\ (\A d \in Seats : d = 0 \/ d = 1) /\ Other(0) = 1 /\ Other(1) = 0
      /\ \A d \in Seats : chan[d] \in Seq(Frame)
      /\ rec \in [Seats -> [CrcSlots -> [tick : Nat, crc : Crc]]] /\ f.tick \in Nat
  BY RecTypes, CrcTaken
<1>1. /\ UNCHANGED <<tick, wm, rebases, hold, rec, room>> /\ chan[c] # << >> /\ f.type = "CRC"
      /\ f \in Kind(chan[c], "CRC")
  BY CrcTaken
<1>2. /\ \A type : Kind(chan[c], type) = Kind(Tail(chan[c]), type) \cup (IF f.type = type THEN {f} ELSE {})
  BY <1>0, <1>1, TakeKinds
<1>3. /\ Kind(chan'[c], "CRC") = Kind(Tail(chan[c]), "CRC")
      /\ \A d \in Seats : d # c => Kind(chan'[d], "CRC") = Kind(chan[d], "CRC")
      /\ Kind(chan[0], "RESYNC") \subseteq Kind(chan'[0], "RESYNC")
      /\ c = 1 /\ room /\ CrcDisagrees(c, f) => Kind(chan'[0], "RESYNC") # {}
  <2>1. CASE c = 1 /\ room /\ CrcDisagrees(c, f)
    <3> DEFINE q == ResyncFrame(f.tick)
    <3>1. chan'[0] = Append(chan[0], q) /\ chan'[1] = Tail(chan[1])
      BY <2>1, CrcTaken
    <3>2. q \in Frame /\ q.type = "RESYNC"
      BY <1>0 DEF ResyncFrame, Frame
    <3>3. Elems(Append(chan[0], q)) = Elems(chan[0]) \cup {q}
      BY <1>0, <3>2, AddQ
    <3> QED
      BY <1>0, <2>1, <3>1, <3>2, <3>3 DEF Kind
  <2>2. CASE ~(c = 1 /\ room /\ CrcDisagrees(c, f))
    <3>1. chan'[c] = Tail(chan[c]) /\ \A d \in Seats : d # c => chan'[d] = chan[d]
      <4>1. CASE c = 0
        BY <1>0, <4>1, CrcTaken
      <4>2. CASE c = 1
        <5>1. chan'[0] = chan[0] /\ chan'[1] = Tail(chan[1])
          BY <2>2, <4>2, CrcTaken
        <5> QED
          BY <1>0, <4>2, <5>1
      <4> QED
        BY <1>0, <4>1, <4>2
    <3>2. c = 0 => Kind(Tail(chan[0]), "RESYNC") = Kind(chan[0], "RESYNC")
      BY <1>1, <1>2
    <3> QED
      BY <1>0, <2>2, <3>1, <3>2
  <2> QED
    BY <2>1, <2>2
<1>4. Told => Told'
  <2>1. pend[0] => pend'[0]
    BY <1>0, CrcTaken
  <2> QED
    BY <1>3, <2>1 DEF Told
<1>5. CrcDisagrees(c, f) /\ room => Told'
  BY <1>0, <1>3, CrcTaken DEF Told
<1>6. \A d \in Seats : Kind(chan'[d], "CRC") \subseteq Kind(chan[d], "CRC")
  BY <1>2, <1>3
<1>7. ASSUME NEW d \in Seats PROVE Records(d)' /\ Reported(d)'
  <2>1. Records(d)'
    BY <1>1 DEF RecordsOK, Records
  <2>2. Other(d) \in Seats
    BY <1>0
  <2>3. Reported(d)'
    BY <1>1, <1>6, <2>2 DEF RecordsOK, Reported
  <2> QED
    BY <2>1, <2>3
<1>8. Follow'
  <2>1. CASE c = 0
    BY <1>1, <2>1, CrcTaken DEF RecordsOK, Follow
  <2>2. CASE c = 1
    BY <1>1, <2>2, CrcTaken, FollowTaken DEF RecordsOK
  <2> QED
    BY <1>0, <2>1, <2>2
<1>9. Asking'
  <2> SUFFICES ASSUME room, Ahead = 0, pend'[1] PROVE Told'
    BY <1>1 DEF Asking, Ahead
  <2>1. CASE pend[1]
    BY <1>4, <2>1 DEF RecordsOK, Asking
  <2>2. CASE ~pend[1]
    <3>1. CrcDisagrees(c, f)
      BY <2>2, CrcTaken
    <3> QED
      BY <1>5, <3>1
  <2> QED
    BY <2>1, <2>2
<1>10. Settled'
  <2> SUFFICES ASSUME room, NEW x \in CrcSlots, Differ(rec[0][x], rec[1][x])
               PROVE  Told' \/ \E d \in Seats : \E g \in Kind(chan'[d], "CRC") : g.tick = rec[0][x].tick
    BY <1>1 DEF Settled, Differ
  <2>1. CASE Told
    BY <1>4, <2>1
  <2>2. CASE ~Told
    <3>0. PICK d \in Seats : \E g \in Kind(chan[d], "CRC") : g.tick = rec[0][x].tick
      BY <2>2 DEF RecordsOK, Settled
    <3>1. PICK g \in Kind(chan[d], "CRC") : g.tick = rec[0][x].tick
      BY <3>0
    <3>2. CASE d # c \/ g # f
      <4>1. g \in Kind(chan'[d], "CRC")
        BY <1>2, <1>3, <3>1, <3>2
      <4> QED
        BY <3>1, <4>1
    <3>3. CASE d = c /\ g = f
      <4>1. Ahead = 0 /\ ~hold[1] /\ CrcSlot(f.tick) = x
        BY <1>0, <3>1, <3>3, SameEpoch
      <4>2. f.tick = rec[c][x].tick /\ f.tick = rec[Other(c)][x].tick
        BY <1>0, <3>1, <3>3 DEF Differ
      <4>3. f.crc = rec[Other(c)][x].crc
        <5>1. Other(c) \in Seats /\ Other(Other(c)) = c
          BY <1>0
        <5> QED
          BY <1>1, <4>2, <5>1 DEF RecordsOK, Reported
      <4>4. f.crc # rec[c][x].crc
        BY <1>0, <4>3 DEF Differ
      <4>5. ~hold[c]
        BY <1>0, <4>1 DEF Paced, Basic
      <4>6. ~pend[c]
        BY <1>0, <2>2, <4>1 DEF Told, RecordsOK, Asking
      <4>7. CrcDisagrees(c, f)
        BY <4>1, <4>2, <4>4, <4>5, <4>6 DEF CrcDisagrees, SameTick
      <4> QED
        BY <1>5, <4>7
    <3> QED
      BY <3>2, <3>3
  <2> QED
    BY <2>1, <2>2
<1> QED
  BY <1>7, <1>8, <1>9, <1>10 DEF RecordsOK

\* An image begins (RS_ON_STATE, RS_ENTER_HOLD).
LEMMA BeginTaken ==
  ASSUME TypeOK, OnBegin(1)
  PROVE  /\ UNCHANGED <<pc, room, dropped, played, tick, ring, wm, rebases, pend, sim, drifts, dirty, lost, pushes>>
         /\ chan[1] # << >> /\ Head(chan[1]).type = "BEGIN"
         /\ chan'[1] = Tail(chan[1]) /\ chan'[0] = chan[0]
         /\ hold'[1] = TRUE /\ hold'[0] = hold[0]
         /\ resume'[1] = Head(chan[1]).tick /\ resume'[0] = resume[0]
         /\ rec'[1] = RS_CLR_CRC /\ rec'[0] = rec[0]
         /\ applied'[1] = {} /\ applied'[0] = applied[0]
<1> USE DEF engine, recovery, history
<1>1. /\ chan \in [Seats -> Seq(Frame)] /\ hold \in [Seats -> BOOLEAN] /\ DOMAIN resume = Seats
      /\ DOMAIN rec = Seats /\ DOMAIN applied = Seats /\ 0 \in Seats /\ 1 \in Seats
  BY RecTypes DEF TypeOK, RecoveryType
<1> QED
  BY <1>1 DEF OnBegin, Receives, RS_ENTER_HOLD

\* An image ends (RS_ON_STATE, RS_REBASE).
LEMMA EndTaken ==
  ASSUME TypeOK, OnEnd(1), hold[1]
  PROVE  /\ UNCHANGED <<pc, room, dropped, played, resume, sim, drifts, dirty, lost, pushes>>
         /\ chan[1] # << >> /\ Head(chan[1]).type = "END"
         /\ chan'[1] = Tail(chan[1]) /\ chan'[0] = chan[0]
         /\ hold'[1] = FALSE /\ hold'[0] = hold[0]
         /\ tick'[1] = resume[1] /\ tick'[0] = tick[0] /\ wm'[1] = resume[1] + Delay - 1
         /\ rec'[1] = RS_CLR_CRC /\ rec'[0] = rec[0]
         /\ pend'[1] = FALSE /\ pend'[0] = pend[0]
         /\ rebases'[1] = rebases[1] + 1 /\ rebases'[0] = rebases[0]
         /\ applied'[1] = {} /\ applied'[0] = applied[0]
<1> USE DEF engine, recovery, history
<1>1. /\ chan \in [Seats -> Seq(Frame)] /\ hold \in [Seats -> BOOLEAN] /\ pend \in [Seats -> BOOLEAN]
      /\ DOMAIN rec = Seats /\ DOMAIN applied = Seats /\ tick \in [Seats -> Nat] /\ wm \in [Seats -> Nat]
      /\ rebases \in [Seats -> Nat] /\ 0 \in Seats /\ 1 \in Seats
  BY RecTypes DEF TypeOK, RecoveryType
<1> QED
  BY <1>1 DEF OnEnd, Receives, RS_REBASE, RebaseWatermark

\* What a tick sends and records.
Report(c) == CrcFrame(tick[c], LS_CKSUM(Simulated(c)))

LEMMA ReportIs ==
  ASSUME TypeOK, NEW c \in Seats
  PROVE  /\ Report(c).type = "CRC" /\ Report(c).tick = tick[c] /\ Report(c).crc = LS_CKSUM(Simulated(c))
         /\ CrcReport(c) \in Seq(Frame)
         /\ \A f, g : ~Before(CrcReport(c), f, g)
         /\ Elems(CrcReport(c)) = IF CrcDue(tick[c]) THEN {Report(c)} ELSE {}
         /\ CrcDue(tick[c]) => Recorded(c) = [rec[c] EXCEPT ![CrcSlot(tick[c])] =
                                               [tick |-> tick[c], crc |-> LS_CKSUM(Simulated(c))]]
         /\ ~CrcDue(tick[c]) => Recorded(c) = rec[c]
<1>1. CASE CrcDue(tick[c])
  <2>1. Report(c) \in Frame
    BY TickType, FrameType DEF TypeOK, EngineType, Report
  <2>2. CrcReport(c) = <<Report(c)>>
    BY <1>1 DEF CrcReport, Report
  <2> QED
    BY <1>1, <2>1, <2>2, OneQ DEF Report, CrcFrame, Recorded
<1>2. CASE ~CrcDue(tick[c])
  <2>1. CrcReport(c) = << >>
    BY <1>2 DEF CrcReport
  <2> QED
    BY <1>2, <2>1, NoneQ DEF Report, CrcFrame, Recorded
<1> QED
  BY <1>1, <1>2

\* A tick without a push.
LEMMA TickMade ==
  ASSUME TypeOK, NEW c \in Seats, RunTick(c)
  PROVE  /\ UNCHANGED <<ring, wm, rebases, hold, pend, resume, applied, pushes, dropped, room, drifts, dirty, lost>>
         /\ pc[c] = "gate" /\ GateOpen(c)
         /\ chan'[c] = chan[c]
         /\ chan'[Other(c)] = IF room THEN chan[Other(c)] \o CrcReport(c) ELSE chan[Other(c)]
         /\ tick'[c] = tick[c] + 1 /\ rec'[c] = Recorded(c) /\ sim'[c] = Simulated(c)
         /\ ~dropped[c] => played'[c] = played[c] \cup {[tick |-> tick[c], in |-> Replay(c)]}
         /\ \A d \in Seats : d # c =>
              tick'[d] = tick[d] /\ rec'[d] = rec[d] /\ sim'[d] = sim[d] /\ played'[d] = played[d]
<1> USE DEF engine, recovery, history
<1>1. /\ chan \in [Seats -> Seq(Frame)] /\ tick \in [Seats -> Nat] /\ DOMAIN rec = Seats /\ DOMAIN sim = Seats
      /\ DOMAIN played = Seats /\ Other(c) \in Seats /\ Other(c) # c
  BY RecTypes DEF TypeOK, RecoveryType, SimType, Other, Seats
<1>2. /\ GameTick(c) /\ chan' = Relayed(c, CrcReport(c))
      /\ sim' = [sim EXCEPT ![c] = Simulated(c)] /\ rec' = [rec EXCEPT ![c] = Recorded(c)]
      /\ tick' = [tick EXCEPT ![c] = @ + 1]
      /\ UNCHANGED <<ring, wm, rebases, hold, pend, resume, applied, pushes>>
  BY DEF RunTick
<1>3. /\ chan'[c] = chan[c]
      /\ chan'[Other(c)] = IF room THEN chan[Other(c)] \o CrcReport(c) ELSE chan[Other(c)]
  BY <1>1, <1>2 DEF Relayed
<1>4. /\ pc[c] = "gate" /\ GateOpen(c) /\ UNCHANGED <<dropped, room, drifts, dirty, lost>>
      /\ played' = [played EXCEPT ![c] =
           IF dropped[c] THEN @ ELSE @ \cup {[tick |-> tick[c], in |-> Replay(c)]}]
  BY <1>2 DEF GameTick
<1> QED
  BY <1>1, <1>2, <1>3, <1>4

\* A tick with a push (RS_PUSH).
LEMMA PushTaken ==
  ASSUME TypeOK, TypeOK', Sized, Paced, RunPush(0)
  PROVE  /\ UNCHANGED <<hold, dropped, room, drifts, dirty, lost>>
         /\ pc[0] = "gate" /\ GateOpen(0) /\ pend[0]
         /\ \A r : r = tick[0] + 1 + ResumeGap =>
              /\ r \in Nat /\ tick'[0] = r /\ resume'[0] = r
              /\ chan'[1] = (IF room THEN chan[1] \o (CrcReport(0) \o Image(0, r)) ELSE chan[1])
         /\ chan'[0] = chan[0] /\ tick'[1] = tick[1] /\ resume'[1] = resume[1] /\ wm'[1] = wm[1]
         /\ rec'[0] = RS_CLR_CRC /\ rec'[1] = rec[1]
         /\ pend'[0] = FALSE /\ pend'[1] = pend[1]
         /\ rebases'[0] = rebases[0] + 1 /\ rebases'[1] = rebases[1]
         /\ sim'[0] = Simulated(0) /\ sim'[1] = sim[1]
         /\ applied'[0] = {} /\ applied'[1] = applied[1] /\ pushes' = pushes + 1
         /\ ~dropped[0] => played'[0] = played[0] \cup {[tick |-> tick[0], in |-> Replay(0)]}
         /\ played'[1] = played[1]
<1>1. /\ rec \in [Seats -> [CrcSlots -> [tick : Nat, crc : Crc]]] /\ rebases \in [Seats -> Nat]
      /\ DOMAIN sim = Seats /\ DOMAIN applied = Seats /\ DOMAIN played = Seats
      /\ 0 \in Seats /\ 1 \in Seats
  BY RecTypes DEF TypeOK, RecoveryType, SimType
<1>2. /\ GameTick(0) /\ sim' = [sim EXCEPT ![0] = Simulated(0)] /\ pushes' = pushes + 1
      /\ rec' = [rec EXCEPT ![0] = RS_CLR_CRC] /\ rebases' = [rebases EXCEPT ![0] = @ + 1]
      /\ applied' = [applied EXCEPT ![0] = {}]
  BY DEF RunPush, RS_REBASE
<1>3. /\ pc[0] = "gate" /\ GateOpen(0) /\ UNCHANGED <<dropped, room, drifts, dirty, lost>>
      /\ played' = [played EXCEPT ![0] =
           IF dropped[0] THEN @ ELSE @ \cup {[tick |-> tick[0], in |-> Replay(0)]}]
  BY <1>2 DEF GameTick, history
<1>4. /\ UNCHANGED hold /\ pend[0] /\ pend'[0] = FALSE /\ pend'[1] = pend[1]
      /\ \A r : r = tick[0] + 1 + ResumeGap =>
           /\ r \in Nat /\ tick'[0] = r /\ resume'[0] = r
           /\ chan'[1] = (IF room THEN chan[1] \o (CrcReport(0) \o Image(0, r)) ELSE chan[1])
      /\ chan'[0] = chan[0] /\ tick'[1] = tick[1] /\ resume'[1] = resume[1] /\ wm'[1] = wm[1]
  BY PushMade
<1> QED
  BY <1>1, <1>2, <1>3, <1>4

\* No record differs from a blank one.
LEMMA BlankAlike ==
  ASSUME SizedRecords, NEW a, a = Blank \/ (a.tick \in Nat /\ a.tick % CrcPeriod = 0)
  PROVE  ~Differ(a, Blank) /\ ~Differ(Blank, a)
BY BlankTick DEF Differ

\* A console that has just cleared its records has nothing to settle.
LEMMA ClearedRecords ==
  ASSUME TypeOK, SizedRecords, RecordsOK, NEW c \in Seats, rec'[c] = RS_CLR_CRC,
         \A d \in Seats : d # c => rec'[d] = rec[d] /\ tick'[d] = tick[d],
         \A d \in Seats : \A f \in Kind(chan'[d], "CRC") :
           f.tick < tick'[Other(d)] /\ f.tick % CrcPeriod = 0 /\ f.tick \in Nat /\ (d = c => f \in Kind(chan[d], "CRC"))
  PROVE  /\ Settled'
         /\ \A d \in Seats : Records(d)' /\ Reported(d)'
<1>0. /\ rec \in [Seats -> [CrcSlots -> [tick : Nat, crc : Crc]]]
      /\ 0 \in Seats /\ 1 \in Seats /\ (\A d \in Seats : d = 0 \/ d = 1) /\ Other(0) = 1 /\ Other(1) = 0
  BY RecTypes
<1>1. \A x \in CrcSlots : rec'[c][x] = Blank
  BY BlankTick
<1>2. ASSUME NEW d \in Seats PROVE Records(d)'
  BY <1>1 DEF RecordsOK, Records
<1>3. ASSUME NEW d \in Seats PROVE Reported(d)'
  <2>0. Other(d) \in Seats /\ Other(Other(d)) = d
    BY <1>0
  <2> SUFFICES ASSUME NEW f \in Kind(chan'[Other(d)], "CRC"), NEW x \in CrcSlots, rec'[d][x].tick = f.tick
               PROVE  rec'[d][x].crc = f.crc
    BY <2>0 DEF Reported
  <2>1. CASE d = c
    BY <1>1, <2>0, <2>1, BlankTick
  <2>2. CASE d # c
    <3>1. Other(d) = c /\ rec'[d] = rec[d]
      BY <1>0, <2>2
    <3>2. f \in Kind(chan[Other(d)], "CRC")
      BY <3>1
    <3> QED
      BY <3>1, <3>2 DEF RecordsOK, Reported
  <2> QED
    BY <2>1, <2>2
<1>4. Settled'
  <2> SUFFICES ASSUME NEW x \in CrcSlots PROVE ~Differ(rec'[0][x], rec'[1][x])
    BY DEF Settled
  <2>1. \A d \in Seats : d # c => rec'[d][x] = Blank \/ (rec'[d][x].tick \in Nat /\ rec'[d][x].tick % CrcPeriod = 0)
    BY <1>0 DEF RecordsOK, Records
  <2> QED
    BY <1>0, <1>1, <2>1, BlankAlike
<1> QED
  BY <1>2, <1>3, <1>4

LEMMA BeginRecords ==
  ASSUME TypeOK, SizedRecords, Paced, Live, RecordsOK, OnBegin(1)
  PROVE  RecordsOK'
<1>0. /\ 0 \in Seats /\ 1 \in Seats /\ (\A d \in Seats : d = 0 \/ d = 1) /\ Other(0) = 1 /\ Other(1) = 0
      /\ \A d \in Seats : chan[d] \in Seq(Frame)
      /\ \A c \in Seats : \A f \in Kind(chan[c], "CRC") : f.tick \in Nat
  BY RecTypes
<1>1. /\ UNCHANGED <<room, tick, wm, rebases, pend>>
      /\ chan[1] # << >> /\ Head(chan[1]).type = "BEGIN"
      /\ chan'[1] = Tail(chan[1]) /\ chan'[0] = chan[0]
      /\ rec'[1] = RS_CLR_CRC /\ rec'[0] = rec[0]
  BY BeginTaken
<1>2. \A d \in Seats : Kind(chan'[d], "CRC") \subseteq Kind(chan[d], "CRC")
  <2>1. \A type : Kind(Tail(chan[1]), type) \subseteq Kind(chan[1], type)
    BY <1>0, <1>1, TakeKinds
  <2> QED
    BY <1>0, <1>1, <2>1
<1>3. \A d \in Seats : \A f \in Kind(chan'[d], "CRC") :
        f.tick < tick'[Other(d)] /\ f.tick % CrcPeriod = 0 /\ f.tick \in Nat
  <2>1. \A d \in Seats : Other(d) \in Seats /\ Other(Other(d)) = d
    BY <1>0
  <2> QED
    BY <1>0, <1>1, <1>2, <2>1 DEF RecordsOK, Reported
<1>4. Settled' /\ \A d \in Seats : Records(d)' /\ Reported(d)'
  BY <1>0, <1>1, <1>2, <1>3, ClearedRecords
<1>5. Follow'
  BY <1>0, <1>1, FollowTaken DEF RecordsOK
<1>6. Asking'
  BY <1>1 DEF RecordsOK, Asking, Ahead, Told
<1> QED
  BY <1>4, <1>5, <1>6 DEF RecordsOK

LEMMA EndRecords ==
  ASSUME TypeOK, SizedRecords, Paced, Live, RecordsOK, OnEnd(1), hold[1]
  PROVE  RecordsOK'
<1>0. /\ 0 \in Seats /\ 1 \in Seats /\ (\A d \in Seats : d = 0 \/ d = 1) /\ Other(0) = 1 /\ Other(1) = 0
      /\ \A d \in Seats : chan[d] \in Seq(Frame)
      /\ \A c \in Seats : \A f \in Kind(chan[c], "CRC") : f.tick \in Nat
      /\ tick[1] \in Nat /\ resume[1] \in Nat /\ wm[1] \in Nat
      /\ Delay \in Nat /\ ResumeGap \in Nat /\ ResumeGap > Delay
  BY RecTypes, ConstantAssumption DEF SizedRecords, Sized
<1>1. /\ UNCHANGED room /\ chan[1] # << >> /\ Head(chan[1]).type = "END"
      /\ chan'[1] = Tail(chan[1]) /\ chan'[0] = chan[0]
      /\ tick'[1] = resume[1] /\ tick'[0] = tick[0] /\ wm'[1] = resume[1] + Delay - 1
      /\ rec'[1] = RS_CLR_CRC /\ rec'[0] = rec[0] /\ pend'[1] = FALSE
  BY EndTaken
<1>2. GuestQueue /\ GuestRight
  BY <1>0 DEF Live, Paced, GuestSide
<1>3. tick[1] <= resume[1] /\ \A f \in Kind(chan[1], "CRC") : f.tick >= resume[1]
  <2>1. wm[1] <= resume[1] - 1 - ResumeGap + Delay /\ tick[1] <= wm[1] + 1
    BY <1>2 DEF GuestQueue, GuestRight, Limit
  <2>2. \A f \in Kind(chan[1], "CRC") : f.tick >= resume[1]
    BY <1>2 DEF GuestQueue
  <2> QED
    BY <1>0, <2>1, <2>2
<1>4. \A type : Kind(Tail(chan[1]), type) \subseteq Kind(chan[1], type)
  BY <1>0, <1>1, TakeKinds
<1>5. \A d \in Seats : Kind(chan'[d], "CRC") \subseteq Kind(chan[d], "CRC")
  BY <1>0, <1>1, <1>4
<1>6. \A d \in Seats : \A f \in Kind(chan'[d], "CRC") :
        f.tick < tick'[Other(d)] /\ f.tick % CrcPeriod = 0 /\ f.tick \in Nat
  <2>1. \A d \in Seats : Other(d) \in Seats /\ Other(Other(d)) = d
    BY <1>0
  <2>2. \A d \in Seats : tick[d] \in Nat /\ tick'[d] \in Nat /\ tick[d] <= tick'[d]
    <3>1. tick[0] \in Nat /\ tick'[0] = tick[0]
      BY <1>0, <1>1, RecTypes
    <3>2. tick'[1] \in Nat /\ tick[1] <= tick'[1]
      BY <1>0, <1>1, <1>3
    <3>3. tick[0] <= tick'[0]
      BY <3>1
    <3> QED
      BY <1>0, <3>1, <3>2, <3>3
  <2>3. \A d \in Seats : \A f \in Kind(chan'[d], "CRC") : f.tick < tick[Other(d)] /\ f.tick % CrcPeriod = 0
    BY <1>5, <2>1 DEF RecordsOK, Reported
  <2>4. ASSUME NEW a \in Nat, NEW b \in Nat, NEW e \in Nat, a < b, b <= e PROVE a < e
    BY <2>4
  <2>5. \A d \in Seats : \A f \in Kind(chan'[d], "CRC") : f.tick \in Nat
    BY <1>0, <1>5
  <2> SUFFICES ASSUME NEW d \in Seats, NEW f \in Kind(chan'[d], "CRC")
               PROVE  f.tick < tick'[Other(d)] /\ f.tick % CrcPeriod = 0 /\ f.tick \in Nat
    OBVIOUS
  <2>6. /\ Other(d) \in Seats /\ f.tick \in Nat
        /\ f.tick < tick[Other(d)] /\ f.tick % CrcPeriod = 0
    BY <2>1, <2>3, <2>5
  <2>7. /\ tick[Other(d)] \in Nat /\ tick'[Other(d)] \in Nat
        /\ tick[Other(d)] <= tick'[Other(d)]
    BY <2>2, <2>6
  <2>8. f.tick < tick'[Other(d)]
    BY <2>4, <2>6, <2>7
  <2> QED
    BY <2>6, <2>8
<1>7. Settled' /\ \A d \in Seats : Records(d)' /\ Reported(d)'
  BY <1>0, <1>1, <1>5, <1>6, ClearedRecords
<1>8. Follow'
  <2>1. \A f, g : Before(Tail(chan[1]), f, g) => Before(chan[1], f, g)
    BY <1>0, <1>1, TakeQ
  <2>2. ASSUME NEW f \in Kind(chan'[1], "CRC") PROVE wm'[1] <= f.tick + Delay
    <3>1. f.tick \in Nat /\ f.tick >= resume[1]
      BY <1>0, <1>3, <1>5
    <3> QED
      BY <1>0, <1>1, <3>1
  <2>3. \A f \in Kind(chan'[1], "CRC") : \A g \in Kind(chan'[1], "INPUT") :
          Before(chan'[1], g, f) => g.tick <= f.tick + Delay
    BY <1>1, <1>4, <2>1 DEF RecordsOK, Follow
  <2> QED
    BY <2>2, <2>3 DEF Follow
<1>9. Asking'
  BY <1>1 DEF Asking
<1> QED
  BY <1>7, <1>8, <1>9 DEF RecordsOK

\* A tick is reported and recorded.
LEMMA TickRecords ==
  ASSUME TypeOK, SizedRecords, Paced, Live, RecordsOK, NEW c \in Seats, RunTick(c)
  PROVE  RecordsOK'
<1> DEFINE o == Other(c)
           n == Report(c)
<1>0. /\ 0 \in Seats /\ 1 \in Seats /\ (\A d \in Seats : d = 0 \/ d = 1) /\ Other(0) = 1 /\ Other(1) = 0
      /\ \A d \in Seats : chan[d] \in Seq(Frame) /\ tick[d] \in Nat /\ wm[d] \in Nat
      /\ rec \in [Seats -> [CrcSlots -> [tick : Nat, crc : Crc]]]
      /\ Delay \in Nat /\ CrcPeriod \in Nat \ {0} /\ LowMod \in Nat \ {0}
      /\ \A d \in Seats : \A f \in Kind(chan[d], "CRC") : f.tick \in Nat
      /\ \A d \in Seats : \A f \in Elems(chan[d]) :
              f.type \in {"INPUT", "CRC", "RESYNC", "BEGIN"} => f.tick \in Nat
  BY RecTypes, ConstantAssumption
<1>o. o \in Seats /\ o # c /\ Other(o) = c /\ (\A d \in Seats : d = c \/ d = o)
  BY DEF Seats, Other
<1>1. /\ UNCHANGED <<wm, rebases, pend, room>>
      /\ pc[c] = "gate" /\ chan'[c] = chan[c]
      /\ chan'[o] = IF room THEN chan[o] \o CrcReport(c) ELSE chan[o]
      /\ tick'[c] = tick[c] + 1 /\ rec'[c] = Recorded(c)
      /\ tick'[o] = tick[o] /\ rec'[o] = rec[o]
  BY <1>o, TickMade
<1>2. /\ n.type = "CRC" /\ n.tick = tick[c] /\ n.crc = LS_CKSUM(Simulated(c))
      /\ CrcReport(c) \in Seq(Frame)
      /\ \A f, g : ~Before(CrcReport(c), f, g)
      /\ Elems(CrcReport(c)) = IF CrcDue(tick[c]) THEN {n} ELSE {}
      /\ CrcDue(tick[c]) => Recorded(c) = [rec[c] EXCEPT ![CrcSlot(tick[c])] =
                                            [tick |-> tick[c], crc |-> n.crc]]
      /\ ~CrcDue(tick[c]) => Recorded(c) = rec[c]
  BY ReportIs
<1> HIDE DEF n, o
<1>3. /\ \A type : type # "CRC" => Kind(chan'[o], type) = Kind(chan[o], type)
      /\ Kind(chan[o], "CRC") \subseteq Kind(chan'[o], "CRC")
      /\ \A f \in Kind(chan'[o], "CRC") : f \in Kind(chan[o], "CRC") \/ (CrcDue(tick[c]) /\ f = n)
      /\ room /\ CrcDue(tick[c]) => n \in Kind(chan'[o], "CRC")
      /\ \A f, g : Before(chan'[o], f, g) => Before(chan[o], f, g) \/ g = n
  <2>1. CASE room
    <3>1. Elems(chan'[o]) = Elems(chan[o]) \cup Elems(CrcReport(c))
      BY <1>0, <1>o, <1>1, <1>2, <2>1, SendQ
    <3>2. \A f, g : Before(chan'[o], f, g) =>
              Before(chan[o], f, g) \/ Before(CrcReport(c), f, g) \/ (f \in Elems(chan[o]) /\ g \in Elems(CrcReport(c)))
      BY <1>0, <1>o, <1>1, <1>2, <2>1, SendQ
    <3>3. \A f, g : Before(chan'[o], f, g) => Before(chan[o], f, g) \/ g = n
      BY <1>2, <3>2
    <3> QED
      BY <1>2, <3>1, <3>3 DEF Kind
  <2>2. CASE ~room
    BY <1>1, <2>2 DEF Kind
  <2> QED
    BY <2>1, <2>2
<1>4. \A x \in CrcSlots : \/ rec'[c][x] = rec[c][x]
                          \/ CrcDue(tick[c]) /\ x = CrcSlot(tick[c]) /\ rec'[c][x] = [tick |-> tick[c], crc |-> n.crc]
  BY <1>0, <1>1, <1>2
<1>5. Records(c)'
  <2> SUFFICES ASSUME NEW x \in CrcSlots
               PROVE  \/ rec'[c][x] = Blank
                      \/ /\ rec'[c][x].tick % CrcPeriod = 0 /\ CrcSlot(rec'[c][x].tick) = x
                         /\ rec'[c][x].tick < tick'[c] /\ tick'[c] <= rec'[c][x].tick + LowMod
    BY DEF Records
  <2>1. CASE CrcDue(tick[c]) /\ x = CrcSlot(tick[c]) /\ rec'[c][x] = [tick |-> tick[c], crc |-> n.crc]
    <3>1. rec'[c][x].tick = tick[c]
      BY <2>1
    <3>2. tick[c] < tick[c] + 1 /\ tick[c] + 1 <= tick[c] + LowMod
      BY <1>0
    <3> QED
      BY <1>1, <2>1, <3>1, <3>2 DEF CrcDue
  <2>2. CASE rec'[c][x] = rec[c][x] /\ ~(CrcDue(tick[c]) /\ x = CrcSlot(tick[c]))
    <3>1. CASE rec[c][x] = Blank
      BY <2>2, <3>1
    <3>2. CASE rec[c][x] # Blank
      <4> DEFINE r == rec[c][x].tick
      <4>1. r \in Nat /\ r % CrcPeriod = 0 /\ CrcSlot(r) = x /\ r < tick[c] /\ tick[c] <= r + LowMod
        BY <1>0, <3>2 DEF RecordsOK, Records
      <4>2. tick[c] # r + LowMod
        <5> HIDE DEF r
        <5> SUFFICES ASSUME tick[c] = r + LowMod PROVE FALSE
          OBVIOUS
        <5>1. CrcDue(tick[c]) /\ CrcSlot(tick[c]) = x
          BY <4>1, SlotAgain DEF CrcDue
        <5> QED
          BY <2>2, <5>1
      <4>3. r < tick[c] + 1 /\ tick[c] + 1 <= r + LowMod
        <5>1. tick[c] \in Nat /\ LowMod \in Nat
          BY <1>0
        <5> HIDE DEF r
        <5> QED
          BY <4>1, <4>2, <5>1
      <4> QED
        BY <1>1, <2>2, <4>1, <4>3
    <3> QED
      BY <3>1, <3>2
  <2>3. rec'[c][x] = rec[c][x] /\ CrcDue(tick[c]) /\ x = CrcSlot(tick[c]) =>
           rec'[c][x] = [tick |-> tick[c], crc |-> n.crc]
    BY <1>0, <1>1, <1>2
  <2> QED
    BY <1>4, <2>1, <2>2, <2>3
<1>6. Records(o)'
  BY <1>o, <1>1 DEF RecordsOK, Records
<1>7. Reported(c)'
  <2> SUFFICES ASSUME NEW f \in Kind(chan'[o], "CRC")
               PROVE  /\ f.tick < tick'[c] /\ f.tick % CrcPeriod = 0
                      /\ \A x \in CrcSlots : rec'[c][x].tick = f.tick => rec'[c][x].crc = f.crc
    BY DEF Reported, o
  <2>1. CASE f \in Kind(chan[o], "CRC")
    <3>1. f.tick \in Nat /\ f.tick < tick[c] /\ f.tick % CrcPeriod = 0
          /\ \A x \in CrcSlots : rec[c][x].tick = f.tick => rec[c][x].crc = f.crc
      BY <1>0, <1>o, <2>1 DEF RecordsOK, Reported, o
    <3>2. f.tick < tick[c] + 1 /\ f.tick # tick[c]
      BY <1>0, <3>1
    <3>3. \A x \in CrcSlots : rec'[c][x].tick = f.tick => rec'[c][x] = rec[c][x]
      BY <1>4, <3>2
    <3> QED
      BY <1>1, <3>1, <3>2, <3>3
  <2>2. CASE CrcDue(tick[c]) /\ f = n
    <3>1. f.tick = tick[c] /\ tick[c] < tick[c] + 1 /\ f.tick % CrcPeriod = 0
      BY <1>0, <1>2, <2>2 DEF CrcDue
    <3>2. ASSUME NEW x \in CrcSlots, rec'[c][x].tick = f.tick PROVE rec'[c][x].crc = f.crc
      <4>1. CASE rec'[c][x] = [tick |-> tick[c], crc |-> n.crc]
        BY <2>2, <4>1
      <4>2. CASE rec'[c][x] = rec[c][x]
        <5>1. rec[c][x].tick = tick[c]
          BY <3>1, <3>2, <4>2
        <5>2. rec[c][x] # Blank
          BY <1>0, <3>1, <5>1, BlankTick
        <5>3. rec[c][x].tick < tick[c]
          BY <5>2 DEF RecordsOK, Records
        <5> QED
          BY <1>0, <5>1, <5>3
      <4> QED
        BY <1>4, <4>1, <4>2
    <3> QED
      BY <1>1, <3>1, <3>2
  <2> QED
    BY <1>3, <2>1, <2>2
<1>8. Reported(o)'
  BY <1>o, <1>1 DEF RecordsOK, Reported
<1>9. Follow'
  <2>1. CASE c = 1
    BY <1>1, <2>1 DEF RecordsOK, Follow
  <2>2. CASE c = 0
    <3>0. o = 1
      BY <1>0, <1>o, <2>2
    <3>1. Chain(chan[1], Start, Cap(0)) /\ wm[1] < Cap(0) /\ Cap(0) = tick[0] + Delay + 1
      <4>1. Cap(0) = tick[0] + Delay + 1
        BY <1>0, <1>1, <2>2 DEF Cap
      <4> QED
        BY <1>0, <4>1 DEF Live, Paced, GuestSide, GuestQueue, GuestRight
    <3>2. wm[1] <= tick[0] + Delay
      BY <1>0, <3>1
    <3>3. \A g \in Kind(chan[1], "INPUT") : g.tick <= tick[0] + Delay
      <4> SUFFICES ASSUME NEW g \in Kind(chan[1], "INPUT") PROVE g.tick <= tick[0] + Delay
        OBVIOUS
      <4>1. g.tick \in Nat /\ Mark(g) /\ Val(g) = g.tick /\ g \in Elems(chan[1])
        BY <1>0 DEF Kind, Mark, Val
      <4>2. g.tick < tick[0] + Delay + 1
        BY <3>1, <4>1 DEF Chain
      <4> QED
        BY <1>0, <4>1, <4>2
    <3>4. Kind(chan'[1], "INPUT") = Kind(chan[1], "INPUT")
      BY <1>3, <3>0
    <3>5. ASSUME NEW f \in Kind(chan'[1], "CRC")
          PROVE  /\ wm'[1] <= f.tick + Delay
                 /\ \A g \in Kind(chan'[1], "INPUT") : Before(chan'[1], g, f) => g.tick <= f.tick + Delay
      <4>1. CASE f = n
        BY <1>1, <1>2, <2>2, <3>2, <3>3, <3>4, <4>1
      <4>2. CASE f # n /\ f \in Kind(chan[1], "CRC")
        BY <1>1, <1>3, <3>0, <3>4, <4>2 DEF RecordsOK, Follow
      <4> QED
        BY <1>3, <3>0, <3>5, <4>1, <4>2
    <3> QED
      BY <3>5 DEF Follow
  <2> QED
    BY <1>0, <2>1, <2>2
<1>10. Told => Told'
  <2>1. Kind(chan'[0], "RESYNC") = Kind(chan[0], "RESYNC")
    BY <1>0, <1>o, <1>1, <1>3
  <2> QED
    BY <1>1, <2>1 DEF Told
<1>11. Asking'
  BY <1>1, <1>10 DEF RecordsOK, Asking, Ahead
<1>12. Settled'
  <2> SUFFICES ASSUME room, NEW x \in CrcSlots, Differ(rec'[0][x], rec'[1][x])
               PROVE  Told' \/ \E d \in Seats : \E f \in Kind(chan'[d], "CRC") : f.tick = rec'[0][x].tick
    BY <1>1 DEF Settled
  <2>1. rec'[0][x].tick = rec'[c][x].tick
    BY <1>0 DEF Differ
  <2>2. CASE rec'[c][x] = [tick |-> tick[c], crc |-> n.crc] /\ CrcDue(tick[c])
    <3>1. n \in Kind(chan'[o], "CRC") /\ n.tick = rec'[0][x].tick
      BY <1>2, <1>3, <2>1, <2>2
    <3> QED
      BY <1>o, <3>1
  <2>3. CASE rec'[c][x] = rec[c][x]
    <3>1. \A d \in Seats : rec'[d][x] = rec[d][x] /\ Kind(chan[d], "CRC") \subseteq Kind(chan'[d], "CRC")
      BY <1>o, <1>1, <1>3, <2>3
    <3>2. Differ(rec[0][x], rec[1][x]) /\ rec'[0][x] = rec[0][x]
      BY <1>0, <3>1
    <3>3. Told \/ \E d \in Seats : \E f \in Kind(chan[d], "CRC") : f.tick = rec[0][x].tick
      BY <3>2 DEF RecordsOK, Settled
    <3> QED
      BY <1>10, <3>1, <3>2, <3>3
  <2> QED
    BY <1>4, <2>2, <2>3
<1> QED
  BY <1>o, <1>5, <1>6, <1>7, <1>8, <1>9, <1>11, <1>12 DEF RecordsOK

\* A push clears the host's records; its last report goes ahead of the image.
LEMMA PushRecords ==
  ASSUME TypeOK, TypeOK', SizedRecords, Paced, Live, RecordsOK, RunPush(0)
  PROVE  RecordsOK'
<1> DEFINE r == tick[0] + 1 + ResumeGap
           n == Report(0)
           t == CrcReport(0) \o Image(0, r)
<1>0. /\ 0 \in Seats /\ 1 \in Seats /\ (\A d \in Seats : d = 0 \/ d = 1) /\ Other(0) = 1 /\ Other(1) = 0
      /\ \A d \in Seats : chan[d] \in Seq(Frame) /\ tick[d] \in Nat /\ wm[d] \in Nat
      /\ Delay \in Nat /\ ResumeGap \in Nat /\ rebases[0] \in Nat /\ rebases[1] \in Nat
      /\ \A d \in Seats : \A f \in Kind(chan[d], "CRC") : f.tick \in Nat
      /\ \A d \in Seats : \A f \in Elems(chan[d]) :
              f.type \in {"INPUT", "CRC", "RESYNC", "BEGIN"} => f.tick \in Nat
  BY RecTypes, ConstantAssumption
<1>1. /\ UNCHANGED room /\ pc[0] = "gate"
      /\ r \in Nat /\ tick'[0] = r
      /\ chan'[1] = (IF room THEN chan[1] \o t ELSE chan[1])
      /\ chan'[0] = chan[0] /\ tick'[1] = tick[1] /\ wm'[1] = wm[1]
      /\ rec'[0] = RS_CLR_CRC /\ rec'[1] = rec[1]
      /\ rebases'[0] = rebases[0] + 1 /\ rebases'[1] = rebases[1]
  BY PushTaken DEF SizedRecords
<1>2. /\ n.type = "CRC" /\ n.tick = tick[0] /\ CrcReport(0) \in Seq(Frame)
      /\ Elems(CrcReport(0)) = IF CrcDue(tick[0]) THEN {n} ELSE {}
  BY <1>0, ReportIs
<1>3. /\ Image(0, r) \in Seq(Frame)
      /\ \A f \in Elems(Image(0, r)) : f.type \in {"BEGIN", "CHUNK", "END"}
  BY <1>1, ImageMade
<1>4. t \in Seq(Frame) /\ \A f \in Elems(t) : f.type # "INPUT" /\ (f.type = "CRC" => f = n /\ CrcDue(tick[0]))
  <2>1. t \in Seq(Frame) /\ Elems(t) = Elems(CrcReport(0)) \cup Elems(Image(0, r))
    BY <1>2, <1>3, SendQ
  <2> QED
    BY <1>2, <1>3, <2>1
<1> HIDE DEF n, t
<1>5. /\ Kind(chan'[1], "INPUT") = Kind(chan[1], "INPUT")
      /\ \A f \in Kind(chan'[1], "CRC") : f \in Kind(chan[1], "CRC") \/ (CrcDue(tick[0]) /\ f = n)
      /\ \A f, g : g.type = "CRC" /\ Before(chan'[1], f, g) /\ f.type = "INPUT" => Before(chan[1], f, g) \/ g = n
  <2>1. CASE room
    <3>1. /\ Elems(chan'[1]) = Elems(chan[1]) \cup Elems(t)
          /\ \A f, g : Before(chan'[1], f, g) =>
              Before(chan[1], f, g) \/ Before(t, f, g) \/ (f \in Elems(chan[1]) /\ g \in Elems(t))
      BY <1>0, <1>1, <1>4, <2>1, SendQ
    <3>2. \A f, g : Before(t, f, g) => f \in Elems(t) /\ g \in Elems(t)
      BY DEF Before, Elems
    <3>3. \A f, g : g.type = "CRC" /\ Before(chan'[1], f, g) /\ f.type = "INPUT" => Before(chan[1], f, g) \/ g = n
      BY <1>4, <3>1, <3>2
    <3> QED
      BY <1>4, <3>1, <3>3 DEF Kind
  <2>2. CASE ~room
    BY <1>1, <2>2 DEF Kind
  <2> QED
    BY <2>1, <2>2
<1>6. \A d \in Seats : \A f \in Kind(chan'[d], "CRC") :
        f.tick < tick'[Other(d)] /\ f.tick % CrcPeriod = 0 /\ f.tick \in Nat /\ (d = 0 => f \in Kind(chan[d], "CRC"))
  <2>1. \A f \in Kind(chan[0], "CRC") : f.tick < tick[1] /\ f.tick % CrcPeriod = 0 /\ f.tick \in Nat
    BY <1>0 DEF RecordsOK, Reported
  <2>2. \A f \in Kind(chan[1], "CRC") : f.tick < tick[0] /\ f.tick % CrcPeriod = 0 /\ f.tick \in Nat
    BY <1>0 DEF RecordsOK, Reported
  <2>3. ASSUME NEW f \in Kind(chan'[1], "CRC") PROVE f.tick < r /\ f.tick % CrcPeriod = 0 /\ f.tick \in Nat
    <3>1. CASE f \in Kind(chan[1], "CRC")
      <4>1. f.tick < tick[0] /\ f.tick % CrcPeriod = 0 /\ f.tick \in Nat
        BY <2>2, <3>1
      <4> QED
        BY <1>0, <4>1
    <3>2. CASE CrcDue(tick[0]) /\ f = n
      <4>1. f.tick = tick[0] /\ f.tick % CrcPeriod = 0
        BY <1>2, <3>2 DEF CrcDue
      <4> QED
        BY <1>0, <4>1
    <3> QED
      BY <1>5, <3>1, <3>2
  <2> QED
    BY <1>0, <1>1, <2>1, <2>3
<1>7. Settled' /\ \A d \in Seats : Records(d)' /\ Reported(d)'
  BY <1>0, <1>1, <1>6, ClearedRecords
<1>8. Follow'
  <2>1. Chain(chan[1], Start, Cap(0)) /\ wm[1] < Cap(0) /\ Cap(0) = tick[0] + Delay + 1
    <3>1. Cap(0) = tick[0] + Delay + 1
      BY <1>0, <1>1 DEF Cap
    <3> QED
      BY <1>0, <3>1 DEF Live, Paced, GuestSide, GuestQueue, GuestRight
  <2>2. wm[1] <= tick[0] + Delay
    BY <1>0, <2>1
  <2>3. ASSUME NEW g \in Kind(chan[1], "INPUT") PROVE g.tick <= tick[0] + Delay /\ g.type = "INPUT"
    <3>1. g.tick \in Nat /\ Mark(g) /\ Val(g) = g.tick /\ g \in Elems(chan[1]) /\ g.type = "INPUT"
      BY <1>0 DEF Kind, Mark, Val
    <3>2. g.tick < tick[0] + Delay + 1
      BY <2>1, <3>1 DEF Chain
    <3> QED
      BY <1>0, <3>1, <3>2
  <2>4. ASSUME NEW f \in Kind(chan'[1], "CRC")
        PROVE  /\ wm'[1] <= f.tick + Delay
               /\ \A g \in Kind(chan'[1], "INPUT") : Before(chan'[1], g, f) => g.tick <= f.tick + Delay
    <3>0. f.type = "CRC"
      BY DEF Kind
    <3>1. CASE f = n
      BY <1>1, <1>2, <1>5, <2>2, <2>3, <3>1
    <3>2. CASE f # n /\ f \in Kind(chan[1], "CRC")
      <4>1. \A g \in Kind(chan'[1], "INPUT") : Before(chan'[1], g, f) => Before(chan[1], g, f)
        BY <1>5, <2>3, <3>0, <3>2
      <4> QED
        BY <1>1, <1>5, <3>2, <4>1 DEF RecordsOK, Follow
    <3> QED
      BY <1>5, <3>1, <3>2
  <2> QED
    BY <2>4 DEF Follow
<1>9. Asking'
  <2>1. Ahead' # 0
    BY <1>0, <1>1 DEF Ahead, Paced, Basic
  <2> QED
    BY <2>1 DEF Asking
<1> QED
  BY <1>7, <1>8, <1>9 DEF RecordsOK

\* Any frame but a report is taken: the records stay.
LEMMA SkipRecords ==
  ASSUME TypeOK, RecordsOK, NEW c \in Seats, chan[c] # << >>, Head(chan[c]).type \notin {"CRC", "RESYNC"},
         chan' = [chan EXCEPT ![c] = Tail(@)],
         UNCHANGED <<tick, rec, pend, rebases, room>>,
         wm'[1] = wm[1] \/ (c = 1 /\ Head(chan[1]).type = "INPUT" /\ wm'[1] = Head(chan[1]).tick)
  PROVE  RecordsOK'
<1>0. /\ chan \in [Seats -> Seq(Frame)] /\ 0 \in Seats /\ 1 \in Seats /\ (\A d \in Seats : d = 0 \/ d = 1)
  BY RecTypes
<1>1. ASSUME NEW type \in {"CRC", "RESYNC"}
      PROVE  Kind(Tail(chan[c]), type) = Kind(chan[c], type)
  <2> DEFINE s == chan[c]
  <2>1. s \in Seq(Frame) /\ s # << >> /\ Head(s).type # type
    BY <1>0
  <2> HIDE DEF s
  <2>2. Kind(s, type) = Kind(Tail(s), type) \cup (IF Head(s).type = type THEN {Head(s)} ELSE {})
    BY <2>1, TakeKinds
  <2>3. Kind(Tail(s), type) = Kind(s, type)
    BY <2>1, <2>2
  <2> QED
    BY <2>3 DEF s
<1>2. \A d \in Seats : \A type \in {"CRC", "RESYNC"} : Kind(chan'[d], type) = Kind(chan[d], type)
  BY <1>0, <1>1
<1>3. Follow'
  <2>1. CASE c = 1
    <3>1. chan'[1] = Tail(chan[1])
      BY <1>0, <2>1
    <3> QED
      BY <2>1, <3>1, FollowTaken DEF RecordsOK
  <2>2. CASE c = 0
    <3>1. chan'[1] = chan[1]
      BY <1>0, <2>2
    <3> QED
      BY <2>2, <3>1 DEF RecordsOK, Follow
  <2> QED
    BY <1>0, <2>1, <2>2
<1> QED
  BY <1>0, <1>2, <1>3, RecordsKept

\* The guest's request reaches the host (RS_ON_REQ).
LEMMA RequestRecords ==
  ASSUME TypeOK, Paced, RecordsOK, OnResync(0)
  PROVE  RecordsOK'
<1> USE DEF engine, recovery, history
<1>0. /\ chan \in [Seats -> Seq(Frame)] /\ pend \in [Seats -> BOOLEAN]
      /\ 0 \in Seats /\ 1 \in Seats /\ (\A d \in Seats : d = 0 \/ d = 1) /\ Host = 0
  BY RecTypes
<1>1. /\ UNCHANGED <<tick, wm, rec, rebases, room>> /\ chan[0] # << >> /\ Head(chan[0]).type = "RESYNC"
      /\ chan'[0] = Tail(chan[0]) /\ chan'[1] = chan[1] /\ pend'[1] = pend[1] /\ pend'[0] = TRUE
  <2>1. /\ UNCHANGED <<tick, wm, rec, rebases, room>> /\ chan[0] # << >> /\ Head(chan[0]).type = "RESYNC"
        /\ chan'[0] = Tail(chan[0]) /\ chan'[1] = chan[1]
    BY <1>0 DEF OnResync, Receives
  <2>2. ~hold[0]
    BY DEF Paced, Basic
  <2>3. CASE pend[0]
    BY <1>0, <2>1, <2>3 DEF OnResync
  <2>4. CASE ~pend[0]
    BY <1>0, <2>1, <2>2, <2>4 DEF OnResync
  <2> QED
    BY <2>3, <2>4
<1>2. Kind(Tail(chan[0]), "CRC") = Kind(chan[0], "CRC")
  <2>1. chan[0] \in Seq(Frame) /\ "RESYNC" # "CRC"
    BY <1>0
  <2>2. Kind(chan[0], "CRC") =
           Kind(Tail(chan[0]), "CRC") \cup (IF Head(chan[0]).type = "CRC" THEN {Head(chan[0])} ELSE {})
    BY <1>1, <2>1, TakeKinds
  <2>3. Head(chan[0]).type # "CRC"
    BY <1>1, <2>1
  <2>4. Kind(chan[0], "CRC") = Kind(Tail(chan[0]), "CRC") \cup {}
    BY <2>2, <2>3
  <2> QED
    BY <2>4
<1>3. \A d \in Seats : Other(d) \in Seats /\ Kind(chan'[d], "CRC") = Kind(chan[d], "CRC")
  <2>1. \A d \in Seats : Other(d) \in Seats
    BY DEF Other, Seats
  <2> QED
    BY <1>0, <1>1, <1>2, <2>1
<1>4. Told'
  BY <1>1 DEF Told
<1>5. ASSUME NEW d \in Seats PROVE Records(d)' /\ Reported(d)'
  BY <1>1, <1>3 DEF RecordsOK, Records, Reported
<1>6. Follow'
  BY <1>1 DEF RecordsOK, Follow
<1> QED
  BY <1>4, <1>5, <1>6 DEF RecordsOK, Asking, Settled

\* A captured input follows whatever has been reported.
LEMMA CaptureRecords ==
  ASSUME TypeOK, RecordsOK, NEW c \in Seats, Capture(c)
  PROVE  RecordsOK'
<1> USE DEF engine, recovery, history
<1> DEFINE o == Other(c)
<1>0. /\ chan \in [Seats -> Seq(Frame)] /\ 0 \in Seats /\ 1 \in Seats
      /\ o \in Seats /\ o # c /\ (\A d \in Seats : d = c \/ d = o)
  BY RecTypes DEF Seats, Other
<1>1. UNCHANGED <<tick, wm, rec, pend, rebases, room>>
  BY DEF Capture
<1>2. PICK i \in Inputs : chan' = Relayed(c, <<InputFrame(tick[c] + Delay, i)>>)
  BY DEF Capture
<1> DEFINE x == InputFrame(tick[c] + Delay, i)
<1>3. x \in Frame /\ x.type = "INPUT"
  <2>0. tick[c] \in Nat /\ Delay \in Nat
    <3>1. tick \in [Seats -> Nat]
      BY RecTypes
    <3> QED
      BY <3>1, ConstantAssumption
  <2>1. tick[c] + Delay \in Nat
    BY <2>0
  <2> QED
    BY <2>1 DEF InputFrame, Frame
<1>4. chan'[c] = chan[c] /\ chan'[o] = IF room THEN chan[o] \o <<x>> ELSE chan[o]
  BY <1>0, <1>2 DEF Relayed
<1> HIDE DEF x, o
<1>5. /\ \A type \in {"CRC", "RESYNC"} : Kind(chan'[o], type) = Kind(chan[o], type)
      /\ \A f \in Kind(chan'[o], "INPUT") : f \in Kind(chan[o], "INPUT") \/ f = x
      /\ \A f, g : Before(chan'[o], f, g) => Before(chan[o], f, g) \/ g = x
      /\ \A f, g : Before(chan'[o], f, g) /\ ~Before(chan[o], f, g) => f \in Elems(chan[o])
  <2>1. CASE room
    <3>1. chan[o] \o <<x>> = Append(chan[o], x)
      BY <1>0, <1>3, AddQ
    <3>2. /\ Elems(chan'[o]) = Elems(chan[o]) \cup {x}
          /\ \A f, g : Before(chan'[o], f, g) => Before(chan[o], f, g) \/ (f \in Elems(chan[o]) /\ g = x)
      <4>1. /\ Elems(Append(chan[o], x)) = Elems(chan[o]) \cup {x}
            /\ \A f, g : Before(Append(chan[o], x), f, g) =>
                 Before(chan[o], f, g) \/ (f \in Elems(chan[o]) /\ g = x)
        BY <1>0, <1>3, AddQ
      <4>2. chan'[o] = Append(chan[o], x)
        BY <1>4, <2>1, <3>1
      <4> QED
        BY <4>1, <4>2
    <3> QED
      BY <1>3, <3>2 DEF Kind
  <2>2. CASE ~room
    BY <1>4, <2>2
  <2> QED
    BY <2>1, <2>2
<1>6. \A d \in Seats : \A type \in {"CRC", "RESYNC"} : Kind(chan'[d], type) = Kind(chan[d], type)
  BY <1>0, <1>4, <1>5
<1>7. Follow'
  <2>1. CASE o = 1
    <3>1. ASSUME NEW f \in Kind(chan'[1], "CRC"), NEW g \in Kind(chan'[1], "INPUT"), Before(chan'[1], g, f)
          PROVE  g.tick <= f.tick + Delay
      <4>1. f.type = "CRC" /\ f \in Kind(chan[1], "CRC")
        BY <1>5, <2>1 DEF Kind
      <4>2. Before(chan[1], g, f)
        BY <1>3, <1>5, <2>1, <3>1, <4>1
      <4>3. g \in Kind(chan[1], "INPUT")
        BY <4>2 DEF Before, Kind, Elems
      <4> QED
        BY <4>1, <4>2, <4>3 DEF RecordsOK, Follow
    <3> QED
      BY <1>1, <1>5, <2>1, <3>1 DEF RecordsOK, Follow
  <2>2. CASE c = 1
    BY <1>1, <1>4, <2>2 DEF RecordsOK, Follow
  <2> QED
    BY <1>0, <2>1, <2>2
<1> QED
  BY <1>0, <1>1, <1>6, <1>7, RecordsKept

\* The relay loses a console: reports may be cut off.
LEMMA LeaveRecords ==
  ASSUME TypeOK, Paced, RecordsOK, NEW c \in Seats, Leave(c)
  PROVE  RecordsOK'
<1> USE DEF engine, recovery, history
<1> DEFINE o == Other(c)
<1>0. /\ chan \in [Seats -> Seq(Frame)] /\ 0 \in Seats /\ 1 \in Seats
      /\ o \in Seats /\ o # c /\ (\A d \in Seats : d = c \/ d = o)
  BY RecTypes DEF Seats, Other
<1>1. UNCHANGED <<tick, wm, rec, pend, rebases>> /\ room /\ room' = FALSE
  BY DEF Leave
<1>2. \A d \in Seats : Kind(chan[d], "PEER_LEFT") = {}
  BY <1>1 DEF Paced, Basic
<1>3. \E n \in 0 .. Len(chan[o]), m \in 0 .. Len(chan[c]), reset \in BOOLEAN :
        chan' = [chan EXCEPT ![o] = Append(SubSeq(@, 1, n), PeerLeftFrame),
                             ![c] = IF reset THEN << >> ELSE SubSeq(@, 1, m)]
  BY DEF Leave
<1> HIDE DEF o
<1>4. \A d \in Seats : Cut(chan[d], chan'[d])
  <2>1. PICK n \in 0 .. Len(chan[o]) : \E m \in 0 .. Len(chan[c]), reset \in BOOLEAN :
        chan' = [chan EXCEPT ![o] = Append(SubSeq(@, 1, n), PeerLeftFrame),
                             ![c] = IF reset THEN << >> ELSE SubSeq(@, 1, m)]
    BY <1>3
  <2>2. PICK m \in 0 .. Len(chan[c]), reset \in BOOLEAN :
        chan' = [chan EXCEPT ![o] = Append(SubSeq(@, 1, n), PeerLeftFrame),
                             ![c] = IF reset THEN << >> ELSE SubSeq(@, 1, m)]
    BY <2>1
  <2>3. chan'[o] = Append(SubSeq(chan[o], 1, n), PeerLeftFrame)
        /\ chan'[c] = IF reset THEN << >> ELSE SubSeq(chan[c], 1, m)
    BY <1>0, <2>2
  <2>4. Cut(chan[o], chan'[o])
    BY <1>0, <1>2, <2>3, CutMade
  <2>5. Cut(chan[c], chan'[c])
    BY <1>0, <1>2, <2>3, CutMade
  <2> QED
    BY <1>0, <2>4, <2>5
<1>5. \A d \in Seats : \A type \in {"INPUT", "CRC"} : Kind(chan'[d], type) \subseteq Kind(chan[d], type)
  BY <1>4, CutKinds
<1>6. Follow'
  <2>1. \A f, g : Before(chan'[1], f, g) => Before(chan[1], f, g) \/ g.type = "PEER_LEFT"
    BY <1>0, <1>4 DEF Cut, PeerLeftFrame
  <2>2. \A f \in Kind(chan'[1], "CRC") : f.type = "CRC"
    BY DEF Kind
  <2> QED
    BY <1>0, <1>1, <1>5, <2>1, <2>2 DEF RecordsOK, Follow
<1> QED
  BY <1>0, <1>1, <1>5, <1>6, RecordsKept

\* Who has given up, has given up for good.
LEMMA LiveBefore ==
  ASSUME TypeOK, [Next]_vars, Live'
  PROVE  Live
<1> USE DEF engine, recovery, history
<1>0. DOMAIN dropped = Seats
  BY RecTypes
<1>1. ASSUME NEW c \in Seats, NET_DROP(c) PROVE FALSE
  BY <1>0, <1>1 DEF NET_DROP, Live
<1>2. ASSUME NEW c \in Seats, OnFrame(c) PROVE dropped' = dropped
  <2>1. ~OnPeerLeft(c)
    BY <1>1 DEF OnPeerLeft
  <2>2. CASE OnInput(c) \/ OnCrc(c) \/ OnResync(c)
    BY <2>2 DEF OnInput, OnCrc, OnResync
  <2>3. CASE OnBegin(c) \/ OnChunk(c) \/ OnEnd(c)
    BY <2>3 DEF OnBegin, OnChunk, OnEnd
  <2> QED
    BY <1>2, <2>1, <2>2, <2>3 DEF OnFrame
<1>3. ASSUME NEW c \in Seats, Console(c) PROVE dropped' = dropped
  <2>1. CASE OnFrame(c)
    BY <1>2, <2>1
  <2>2. CASE HoldRound(c) \/ StallRound(c)
    BY <1>1, <2>2 DEF HoldRound, StallRound
  <2>3. CASE SesPump(c) \/ SesDone(c) \/ PassBegin(c) \/ Capture(c)
    BY <2>3 DEF SesPump, SesDone, PassBegin, Capture
  <2>4. CASE Stall(c) \/ RunTick(c) \/ RunPush(c)
    BY <2>4 DEF Stall, RunTick, RunPush, GameTick
  <2> QED
    BY <1>3, <2>1, <2>2, <2>3, <2>4 DEF Console
<1>4. Environment => dropped' = dropped
  BY DEF Environment, Drift, LoseWrite, Leave
<1>5. dropped' = dropped
  BY <1>3, <1>4 DEF Next, Finished, vars
<1>6. lost = {}
  BY LostKept DEF Live
<1> QED
  BY <1>5, <1>6 DEF Live

LEMMA RecordStep ==
  ASSUME TypeOK, TypeOK', SizedRecords, Lockstep, RecordInv, [Next]_vars
  PROVE  RecordInv'
<1> SUFFICES ASSUME Live' PROVE RecordsOK'
  BY DEF RecordInv
<1> USE DEF engine, recovery, history
<1>a. Live /\ RecordsOK /\ Paced /\ Basic
  <2>1. Live
    BY LiveBefore
  <2> QED
    BY <2>1 DEF RecordInv, Lockstep, Live, Paced
<1>b. /\ chan \in [Seats -> Seq(Frame)] /\ dropped \in [Seats -> BOOLEAN]
      /\ 0 \in Seats /\ 1 \in Seats /\ (\A c \in Seats : c = 0 \/ c = 1)
  BY RecTypes
<1>c. ASSUME NEW c \in Seats, NET_DROP(c) PROVE FALSE
  BY <1>b, <1>c DEF NET_DROP, Live
<1>d. ASSUME UNCHANGED <<tick, rec, pend, rebases, room, chan, wm>> PROVE RecordsOK'
  <2>1. Follow'
    BY <1>a, <1>d DEF RecordsOK, Follow
  <2> QED
    BY <1>a, <1>d, <2>1, RecordsKept
<1>e. ASSUME NEW c \in Seats, chan[c] # << >>, Head(chan[c]).type \in {"CHUNK", "END"},
             chan' = [chan EXCEPT ![c] = Tail(@)], UNCHANGED <<tick, rec, pend, rebases, room, wm>>
      PROVE  RecordsOK'
  BY <1>a, <1>e, SkipRecords
<1>1. ASSUME NEW c \in Seats, OnInput(c) PROVE RecordsOK'
  <2>1. /\ chan[c] # << >> /\ Head(chan[c]).type = "INPUT" /\ chan' = [chan EXCEPT ![c] = Tail(@)]
        /\ UNCHANGED <<tick, rec, pend, rebases, room>>
    BY <1>1 DEF OnInput, Receives
  <2>2. wm'[1] = wm[1] \/ (c = 1 /\ wm'[1] = Head(chan[1]).tick)
    <3>1. wm' = wm \/ wm' = [wm EXCEPT ![c] = Head(chan[c]).tick]
      BY <1>1 DEF OnInput
    <3> QED
      BY <1>b, <3>1, RecTypes
  <2> QED
    BY <1>a, <2>1, <2>2, SkipRecords
<1>2. ASSUME NEW c \in Seats, OnCrc(c) PROVE RecordsOK'
  BY <1>a, <1>2, CrcRecords
<1>3. ASSUME NEW c \in Seats, OnResync(c) PROVE RecordsOK'
  <2>1. chan[c] # << >> /\ Head(chan[c]).type = "RESYNC"
    BY <1>3 DEF OnResync, Receives
  <2>2. c = 0
    BY <1>a, <1>b, <2>1, HeadKinds
  <2> QED
    BY <1>a, <1>3, <2>2, RequestRecords
<1>4. ASSUME NEW c \in Seats, OnBegin(c) PROVE RecordsOK'
  <2>1. chan[c] # << >> /\ Head(chan[c]).type = "BEGIN"
    BY <1>4 DEF OnBegin, Receives
  <2>2. c = 1
    BY <1>a, <1>b, <2>1, HeadKinds
  <2> QED
    BY <1>a, <1>4, <2>2, BeginRecords
<1>5. ASSUME NEW c \in Seats, OnChunk(c) PROVE RecordsOK'
  <2>1. /\ chan[c] # << >> /\ Head(chan[c]).type = "CHUNK" /\ chan' = [chan EXCEPT ![c] = Tail(@)]
        /\ UNCHANGED <<tick, rec, pend, rebases, room, wm>>
    BY <1>5 DEF OnChunk, Receives
  <2> QED
    BY <1>e, <2>1
<1>6. ASSUME NEW c \in Seats, OnEnd(c) PROVE RecordsOK'
  <2>1. /\ chan[c] # << >> /\ Head(chan[c]).type = "END" /\ chan' = [chan EXCEPT ![c] = Tail(@)]
        /\ UNCHANGED room
    BY <1>6 DEF OnEnd, Receives
  <2>2. CASE hold[c]
    <3>1. c = 1
      BY <1>a, <1>b, <2>2 DEF Basic
    <3> QED
      BY <1>a, <1>6, <2>2, <3>1, EndRecords
  <2>3. CASE ~hold[c]
    <3>1. UNCHANGED <<tick, rec, pend, rebases, wm>>
      BY <1>6, <2>3 DEF OnEnd
    <3> QED
      BY <1>e, <2>1, <3>1
  <2> QED
    BY <2>2, <2>3
<1>7. ASSUME NEW c \in Seats, OnPeerLeft(c) PROVE RecordsOK'
  BY <1>7, <1>c DEF OnPeerLeft
<1>8. ASSUME NEW c \in Seats, SesPump(c) \/ SesDone(c) \/ PassBegin(c) \/ Stall(c) PROVE RecordsOK'
  BY <1>8, <1>d DEF SesPump, SesDone, PassBegin, Stall
<1>9. ASSUME NEW c \in Seats, HoldRound(c) \/ StallRound(c) PROVE RecordsOK'
  BY <1>9, <1>c, <1>d DEF HoldRound, StallRound
<1>10. ASSUME NEW c \in Seats, Capture(c) PROVE RecordsOK'
  BY <1>a, <1>10, CaptureRecords
<1>11. ASSUME NEW c \in Seats, RunTick(c) PROVE RecordsOK'
  BY <1>a, <1>11, TickRecords
<1>12. ASSUME NEW c \in Seats, RunPush(c) PROVE RecordsOK'
  <2>1. c = 0
    BY <1>12 DEF RunPush, PushNow, PushWanted, Host
  <2> QED
    BY <1>a, <1>12, <2>1, PushRecords
<1>13. ASSUME NEW c \in Seats, NEW k \in Parts, Drift(c, k) PROVE RecordsOK'
  BY <1>13, <1>d DEF Drift
<1>14. ASSUME NEW c \in Seats, NEW i \in 1 .. Len(chan[c]), LoseWrite(c, i) PROVE RecordsOK'
  BY <1>14 DEF LoseWrite, Live
<1>15. ASSUME NEW c \in Seats, Leave(c) PROVE RecordsOK'
  BY <1>a, <1>15, LeaveRecords
<1>16. CASE UNCHANGED vars
  BY <1>16, <1>d DEF vars
<1> QED
  BY <1>1, <1>2, <1>3, <1>4, <1>5, <1>6, <1>7, <1>8, <1>9, <1>10, <1>11, <1>12,
     <1>13, <1>14, <1>15, <1>16
     DEF Next, Console, OnFrame, Environment, Finished

LEMMA RecordInit == ASSUME SizedRecords, Init PROVE RecordInv
<1>0. 0 \in Seats /\ 1 \in Seats /\ (\A c \in Seats : c = 0 \/ c = 1)
  BY DEF Seats
<1>1. /\ \A c \in Seats : /\ chan[c] = << >> /\ \A x \in CrcSlots : rec[c][x] = Blank
      /\ ~pend[1] /\ \A type : Kind(<< >>, type) = {}
  BY <1>0, BlankTick, NoneQ DEF Init, Kind
<1>2. \A c \in Seats : Records(c) /\ Reported(c)
  BY <1>0, <1>1 DEF Records, Reported, Other
<1> QED
  BY <1>0, <1>1, <1>2 DEF RecordInv, RecordsOK, Follow, Asking, Settled, Differ

\* The invariant of the records and the reports under way.
THEOREM RecordInvariant == ASSUME SizedRecords PROVE Spec => []RecordInv
<1>1. Init => RecordInv
  BY RecordInit
<1>2. TypeOK /\ TypeOK' /\ Lockstep /\ RecordInv /\ [Next]_vars => RecordInv'
  BY RecordStep
<1>3. Spec => []Lockstep
  BY LockstepInvariant DEF SizedRecords
<1> QED
  BY <1>1, <1>2, <1>3, TypeCorrect, PTL DEF Spec

\* What both have a record of and is no longer under way, has been compared:
\* if the checksums differ, the host knows or is being told.
LEMMA Detected ==
  ASSUME TypeOK, RecordInv, lost = {}
  PROVE  DivergenceDetected
<1> SUFFICES ASSUME NEW x \in CrcSlots, MatchOn, room, Differ(rec[0][x], rec[1][x]),
                    \A c \in Seats : ~CrcInFlight(c, rec[0][x].tick)
             PROVE  pend[Host] \/ InFlight(Host, "RESYNC")
  BY DEF DivergenceDetected, Differ
<1>1. Live
  BY DEF MatchOn, Live
<1>2. ~\E c \in Seats : \E f \in Kind(chan[c], "CRC") : f.tick = rec[0][x].tick
  BY DEF CrcInFlight, Kind, Elems
<1>3. Told
  BY <1>1, <1>2 DEF RecordInv, RecordsOK, Settled
<1> QED
  BY <1>3 DEF Told, InFlight, Kind, Elems, Host

\* Detection is complete while no frame is lost: a report that comes before the
\* record it is to be compared with is dropped by RS_ON_CRC, but then the
\* report of the other console finds a record; and a disagreement that
\* RS_ON_CRC passes over is one the host knows of already.
THEOREM DetectionComplete ==
  ASSUME SizedRecords PROVE Spec => [](lost = {} => DivergenceDetected)
<1>1. TypeOK /\ RecordInv => (lost = {} => DivergenceDetected)
  BY Detected
<1> QED
  BY <1>1, TypeCorrect, RecordInvariant, PTL
=============================================================================
