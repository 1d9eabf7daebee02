---------------------------- MODULE RelayProofs ----------------------------
(* Theorems about Relay, for every set of clients and of names.            *)
EXTENDS Relay, FiniteSetTheorems, SequenceTheorems, TLAPS

Elems(s) == {s[i] : i \in 1 .. Len(s)}

Distinct(s) == \A i, j \in 1 .. Len(s) : s[i] = s[j] => i = j

-----------------------------------------------------------------------------
(* Sequences.                                                              *)

LEMMA ElemsType ==
  ASSUME NEW S, NEW s \in Seq(S)
  PROVE  Elems(s) \subseteq S
  BY DEF Elems

LEMMA ElemsEmpty == Elems(<< >>) = {}
  BY DEF Elems

LEMMA ElemsOne == \A a : Elems(<<a>>) = {a}
  BY DEF Elems

LEMMA ElemsConcat ==
  ASSUME NEW S, NEW s \in Seq(S), NEW t \in Seq(S)
  PROVE  Elems(s \o t) = Elems(s) \cup Elems(t)
<1>1. /\ Len(s \o t) = Len(s) + Len(t)
      /\ \A i \in 1 .. Len(s) + Len(t) :
           (s \o t)[i] = IF i <= Len(s) THEN s[i] ELSE t[i - Len(s)]
  BY ConcatProperties
<1>2. Len(s) \in Nat /\ Len(t) \in Nat
  OBVIOUS
<1>3. Elems(s \o t) \subseteq Elems(s) \cup Elems(t)
  BY <1>1, <1>2 DEF Elems
<1>4. Elems(s) \subseteq Elems(s \o t)
  BY <1>1, <1>2 DEF Elems
<1>5. ASSUME NEW i \in 1 .. Len(t) PROVE t[i] \in Elems(s \o t)
  <2>1. /\ i + Len(s) \in 1 .. Len(s \o t)
        /\ (s \o t)[i + Len(s)] = t[i]
    BY <1>1, <1>2
  <2> QED
    BY <2>1 DEF Elems
<1> QED
  BY <1>3, <1>4, <1>5 DEF Elems

LEMMA ElemsTwo ==
  ASSUME NEW S, NEW a \in S, NEW b \in S
  PROVE  /\ <<a>> \o <<b>> \in Seq(S) /\ Elems(<<a>> \o <<b>>) = {a, b}
         /\ Len(<<a>> \o <<b>>) = 2 /\ (<<a>> \o <<b>>)[1] = a
         /\ Head(<<a>> \o <<b>>) = a
<1> DEFINE s == <<a>>
           t == <<b>>
           w == s \o t
<1>0. Elems(s) = {a} /\ Elems(t) = {b}
  BY ElemsOne, Zenon
<1>1. s \in Seq(S) /\ Len(s) = 1 /\ s[1] = a /\ t \in Seq(S) /\ Len(t) = 1
  OBVIOUS
<1> HIDE DEF s, t
<1>2. Elems(w) = {a, b}
  <2>1. Elems(w) = Elems(s) \cup Elems(t)
    BY <1>1, ElemsConcat
  <2> QED
    BY <1>0, <2>1
<1>3. /\ w \in Seq(S) /\ Len(w) = Len(s) + Len(t)
      /\ \A i \in 1 .. Len(s) + Len(t) : w[i] = IF i <= Len(s) THEN s[i] ELSE t[i - Len(s)]
  BY <1>1, ConcatProperties
<1>4. Len(w) = 2 /\ w[1] = a
  BY <1>1, <1>3
<1> HIDE DEF w
<1>5. Head(w) = w[1]
  BY <1>3, <1>4
<1> QED
  BY <1>2, <1>3, <1>4, <1>5 DEF s, t, w

LEMMA ElemsEnd ==
  ASSUME NEW S, NEW s \in Seq(S), NEW e \in S
  PROVE  s \o <<e>> \in Seq(S) /\ Elems(s \o <<e>>) = Elems(s) \cup {e}
<1> DEFINE t == <<e>>
<1>1. t \in Seq(S) /\ Elems(t) = {e}
  BY ElemsOne
<1> HIDE DEF t
<1>2. Elems(s \o t) = Elems(s) \cup Elems(t)
  BY <1>1, ElemsConcat
<1>3. s \o t \in Seq(S)
  BY <1>1, ConcatProperties
<1> QED
  BY <1>1, <1>2, <1>3 DEF t

LEMMA ElemsTail ==
  ASSUME NEW S, NEW s \in Seq(S), s # << >>
  PROVE  /\ Elems(s) = {Head(s)} \cup Elems(Tail(s))
         /\ Head(s) = s[1] /\ Head(s) \in S /\ Tail(s) \in Seq(S)
<1>1. /\ Head(s) \in S /\ Tail(s) \in Seq(S) /\ Len(Tail(s)) = Len(s) - 1
      /\ \A i \in 1 .. Len(Tail(s)) : Tail(s)[i] = s[i + 1]
  BY HeadTailProperties
<1>2. Len(s) \in Nat \ {0} /\ Head(s) = s[1]
  BY EmptySeq
<1>3. \A i \in 1 .. Len(s) : i = 1 \/ s[i] = Tail(s)[i - 1]
  BY <1>1, <1>2
<1>4. Elems(s) \subseteq {Head(s)} \cup Elems(Tail(s))
  BY <1>1, <1>2, <1>3 DEF Elems
<1>5. Elems(Tail(s)) \subseteq Elems(s)
  BY <1>1, <1>2 DEF Elems
<1> QED
  BY <1>1, <1>2, <1>4, <1>5 DEF Elems

LEMMA UpTo == \A n \in Nat : IsFiniteSet(1 .. n) /\ Cardinality(1 .. n) = n
<1> SUFFICES ASSUME NEW n \in Nat
             PROVE  IsFiniteSet(1 .. n) /\ Cardinality(1 .. n) = n
  OBVIOUS
<1>1. 1 \in Int /\ n \in Int
  OBVIOUS
<1>2. /\ IsFiniteSet(1 .. n)
      /\ Cardinality(1 .. n) = IF 1 > n THEN 0 ELSE n - 1 + 1
  BY <1>1, FS_Interval
<1> QED
  BY <1>2

\* Pick keeps the entries at the positions it is given, once each and in
\* their order.
LEMMA PickFacts ==
  ASSUME NEW S, NEW list \in Seq(S), NEW kept \in SUBSET (1 .. Len(list))
  PROVE  /\ Pick(list, kept) \in Seq(S)
         /\ Len(Pick(list, kept)) = Cardinality(kept)
         /\ Cardinality(kept) \in 0 .. Len(list)
         /\ Elems(Pick(list, kept)) = {list[i] : i \in kept}
         /\ Distinct(list) => Distinct(Pick(list, kept))
<1> DEFINE upto(i) == {j \in kept : j <= i}
           rank == [i \in kept |-> Cardinality(upto(i))]
           pos(k) == CHOOSE i \in kept : Cardinality(upto(i)) = k
           N == Cardinality(kept)
<1>0. Len(list) \in Nat /\ \A i \in kept : i \in Nat
  OBVIOUS
<1>1. /\ IsFiniteSet(kept) /\ N \in Nat /\ N <= Len(list)
      /\ \A T \in SUBSET kept : /\ IsFiniteSet(T) /\ Cardinality(T) \in Nat
                                /\ Cardinality(T) <= N
  <2>1. IsFiniteSet(1 .. Len(list)) /\ Cardinality(1 .. Len(list)) = Len(list)
    BY <1>0, UpTo
  <2>2. IsFiniteSet(kept) /\ N <= Len(list)
    BY <2>1, FS_Subset
  <2> QED
    BY <2>2, FS_Subset, FS_CardinalityType
<1>r. \A i \in kept : rank[i] = Cardinality(upto(i))
  OBVIOUS
<1>2. \A i \in kept : rank[i] \in 1 .. N
  <2> SUFFICES ASSUME NEW i \in kept PROVE Cardinality(upto(i)) \in 1 .. N
    BY <1>r
  <2>1. i \in upto(i) /\ upto(i) \in SUBSET kept
    OBVIOUS
  <2>2. Cardinality(upto(i)) # 0
    BY <1>1, <2>1, FS_EmptySet
  <2> QED
    BY <1>1, <2>1, <2>2
<1>3. \A i, j \in kept : i < j => rank[i] < rank[j]
  <2> SUFFICES ASSUME NEW i \in kept, NEW j \in kept, i < j
               PROVE  Cardinality(upto(i)) < Cardinality(upto(j))
    BY <1>r
  <2>0. i \in Nat /\ j \in Nat /\ \A x \in kept : x \in Nat
    BY <1>0
  <2>1. upto(i) \in SUBSET upto(j) /\ j \in upto(j) /\ j \notin upto(i)
    <3>1. \A x \in kept : x <= i => x <= j
      BY <2>0
    <3>2. j <= j /\ ~(j <= i)
      BY <2>0
    <3> QED
      BY <3>1, <3>2
  <2>2. upto(i) \in SUBSET kept /\ upto(j) \in SUBSET kept
    OBVIOUS
  <2> HIDE DEF upto
  <2>3. /\ Cardinality(upto(i)) <= Cardinality(upto(j))
        /\ Cardinality(upto(j)) = Cardinality(upto(i)) => upto(j) = upto(i)
    BY <1>1, <2>1, <2>2, FS_Subset
  <2> QED
    BY <1>1, <2>1, <2>2, <2>3
<1>4. \A i, j \in kept : rank[i] = rank[j] => i = j
  <2> SUFFICES ASSUME NEW i \in kept, NEW j \in kept, rank[i] = rank[j], i # j
               PROVE  FALSE
    OBVIOUS
  <2>1. i < j \/ j < i
    OBVIOUS
  <2> HIDE DEF rank
  <2> QED
    BY <1>2, <1>3, <2>1
<1>5. \A k \in 1 .. N : \E i \in kept : rank[i] = k
  <2>1. rank \in Injection(kept, 1 .. N)
    <3>1. rank \in [kept -> 1 .. N]
      BY <1>2
    <3> HIDE DEF rank
    <3> QED
      BY <1>4, <3>1 DEF Injection, IsInjective
  <2>2. IsFiniteSet(1 .. N) /\ Cardinality(1 .. N) = N
    BY <1>1, FS_Interval
  <2>3. rank \in Surjection(kept, 1 .. N)
    BY <2>1, <2>2, FS_Injection
  <2> QED
    BY <2>3 DEF Surjection
<1>6. \A k \in 1 .. N : pos(k) \in kept /\ rank[pos(k)] = k
  BY <1>5
<1>7. \A i \in kept : pos(rank[i]) = i
  <2> HIDE DEF rank, pos
  <2> QED
    BY <1>2, <1>4, <1>6
<1>8. Pick(list, kept) = [k \in 1 .. N |-> list[pos(k)]]
  BY DEF Pick
<1> HIDE DEF upto, rank, pos
<1>9. \A i \in kept : i \in 1 .. Len(list) /\ list[i] \in S
  OBVIOUS
<1>10. Pick(list, kept) \in Seq(S) /\ Len(Pick(list, kept)) = N
  <2>1. \A k \in 1 .. N : list[pos(k)] \in S
    BY <1>6, <1>9
  <2> HIDE DEF N
  <2> QED
    BY <1>1, <1>8, <2>1
<1>11. Elems(Pick(list, kept)) = {list[i] : i \in kept}
  <2>1. \A k \in 1 .. N : Pick(list, kept)[k] = list[pos(k)]
    BY <1>8
  <2>2. \A i \in kept : Pick(list, kept)[rank[i]] = list[i]
    BY <1>2, <1>7, <2>1
  <2>3. Elems(Pick(list, kept)) = {Pick(list, kept)[k] : k \in 1 .. N}
    BY <1>10 DEF Elems
  <2>4. ASSUME NEW i \in kept PROVE list[i] \in {Pick(list, kept)[k] : k \in 1 .. N}
    BY <1>2, <2>2
  <2>5. ASSUME NEW k \in 1 .. N PROVE Pick(list, kept)[k] \in {list[i] : i \in kept}
    BY <1>6, <2>1
  <2> QED
    BY <2>3, <2>4, <2>5
<1>12. Distinct(list) => Distinct(Pick(list, kept))
  <2> SUFFICES ASSUME Distinct(list), NEW k \in 1 .. N, NEW l \in 1 .. N,
                      list[pos(k)] = list[pos(l)]
               PROVE  k = l
    BY <1>8, <1>10 DEF Distinct
  <2>1. pos(k) = pos(l)
    BY <1>6, <1>9 DEF Distinct
  <2> QED
    BY <1>6, <2>1
<1> QED
  BY <1>1, <1>10, <1>11, <1>12

\* Calls of kind o are only at the bottom of the stack w.
Bottom(w, o) == \A i \in 1 .. Len(w) : w[i].op = o => i = Len(w)

\* The stack after a call has returned and left the calls p behind.
LEMMA Stacked ==
  ASSUME NEW S, NEW w \in Seq(S), w # << >>, NEW p \in Seq(S)
  PROVE  /\ p \o Tail(w) \in Seq(S)
         /\ Elems(p \o Tail(w)) = Elems(p) \cup Elems(Tail(w))
         /\ Elems(p \o Tail(w)) \subseteq Elems(p) \cup Elems(w)
         /\ Elems(w) = {Head(w)} \cup Elems(Tail(w))
         /\ Tail(w) = << >> \o Tail(w)
<1>1. Tail(w) \in Seq(S) /\ Elems(w) = {Head(w)} \cup Elems(Tail(w))
  BY ElemsTail
<1>2. p \o Tail(w) \in Seq(S)
  BY <1>1, ConcatProperties
<1>3. Elems(p \o Tail(w)) = Elems(p) \cup Elems(Tail(w))
  <2>1. \A t \in Seq(S) : Elems(p \o t) = Elems(p) \cup Elems(t)
    BY ElemsConcat
  <2> QED
    BY <1>1, <2>1, Zenon
<1>4. Tail(w) = << >> \o Tail(w)
  BY <1>1, ConcatEmptySeq
<1> QED
  BY <1>1, <1>2, <1>3, <1>4

LEMMA BottomKept ==
  ASSUME NEW S, NEW w \in Seq(S), w # << >>, NEW p \in Seq(S), NEW o,
         Bottom(w, o), \A k \in Elems(p) : k.op # o
  PROVE  /\ Bottom(p \o Tail(w), o)
         /\ Head(w).op = o => Tail(w) = << >>
<1>1. /\ Head(w) = w[1] /\ Tail(w) \in Seq(S) /\ Len(Tail(w)) = Len(w) - 1
      /\ Len(w) \in Nat \ {0}
      /\ \A i \in 1 .. Len(Tail(w)) : Tail(w)[i] = w[i + 1]
  BY ElemsTail, HeadTailProperties, EmptySeq
<1>2. /\ Len(p \o Tail(w)) = Len(p) + Len(Tail(w))
      /\ \A i \in 1 .. Len(p) + Len(Tail(w)) : (p \o Tail(w))[i] =
           IF i <= Len(p) THEN p[i] ELSE Tail(w)[i - Len(p)]
  BY <1>1, ConcatProperties
<1>3. Head(w).op = o => Tail(w) = << >>
  <2>1. Head(w).op = o => 1 = Len(w)
    <3>1. 1 \in 1 .. Len(w)
      BY <1>1
    <3> QED
      BY <1>1, <3>1, Zenon DEF Bottom
  <2> QED
    BY <1>1, <2>1, EmptySeq
<1>4. ASSUME NEW i \in 1 .. Len(p \o Tail(w)), (p \o Tail(w))[i].op = o
      PROVE  i = Len(p \o Tail(w))
  <2>1. Len(p) \in Nat /\ Len(Tail(w)) \in Nat /\ i \in 1 .. Len(p) + Len(Tail(w))
    BY <1>1, <1>2
  <2>2. ~(i <= Len(p))
    <3>1. i <= Len(p) => p[i] \in Elems(p)
      BY <2>1 DEF Elems
    <3> QED
      BY <1>2, <1>4, <2>1, <3>1
  <2>3. i - Len(p) \in 1 .. Len(Tail(w)) /\ Tail(w)[i - Len(p)].op = o
    BY <1>2, <1>4, <2>1, <2>2
  <2>4. PICK j \in 1 .. Len(Tail(w)) : j = i - Len(p) /\ Tail(w)[j].op = o
    BY <2>3
  <2>5. j + 1 = Len(w)
    <3>1. j + 1 \in 1 .. Len(w) /\ Tail(w)[j] = w[j + 1]
      BY <1>1, <2>4
    <3> QED
      BY <2>4, <3>1, Zenon DEF Bottom
  <2> QED
    BY <1>1, <1>2, <2>1, <2>4, <2>5
<1> QED
  BY <1>3, <1>4 DEF Bottom

-----------------------------------------------------------------------------
(* The calls of a handler.                                                 *)

Frames ==
  [type : {"ROOM"}, members : Seq(Clients)]
    \cup [type : {"START"}, seat : 0 .. setup.seats, members : Seq(Clients)]
    \cup [type : {"PEER_LEFT"}, seat : Nat, who : Clients]
    \cup [type : {"PONG"}]
    \cup [type : {"MATCH"}, from : Clients, body : {None}]
    \cup [type : {"LOBBY"},
          entries : Seq([name : Names, status : [size : Nat, busy : BOOLEAN]])]

Sends == [op : {"send"}, to : Clients, frame : Frames]
Drops == [op : {"drop"}, client : Clients,
          why : {"closed", "replaced", "send error"}]
Loops == [op : {"loop"}, room : Rooms, at : Nat \ {0}, frames : Seq(Frames),
          skip : Clients \cup {None}]
Hellos == [op : {"hello"}, client : Clients, name : Names]
Rest == [op : {"lobby"}] \cup [op : {"autogo"}, room : Rooms]

\* Every call, and the ones that a handler leaves behind once it runs.
AllCalls == Sends \cup Drops \cup Loops \cup Hellos \cup Rest
Steps == Sends \cup Drops \cup Loops \cup Rest

\* The kind of a call says what it is.
LEMMA CallKinds ==
  ASSUME NEW k \in AllCalls
  PROVE  /\ k.op \in {"send", "drop", "loop", "hello", "lobby", "autogo"}
         /\ k.op = "send" => k.to \in Clients /\ k.frame \in Frames
         /\ k.op = "drop" => k.client \in Clients
         /\ k.op = "loop" => /\ k.room \in Rooms /\ k.at \in Nat \ {0}
                             /\ k.frames \in Seq(Frames)
                             /\ k.skip \in Clients \cup {None}
         /\ k.op = "hello" => k.client \in Clients /\ k.name \in Names
         /\ k.op = "autogo" => k.room \in Rooms
         /\ k.op # "hello" => k \in Steps
<1> HIDE DEF Frames, Rooms
<1>1. CASE k \in Sends
  BY <1>1 DEF Sends, Steps
<1>2. CASE k \in Drops
  BY <1>2 DEF Drops, Steps
<1>3. CASE k \in Loops
  BY <1>3 DEF Loops, Steps
<1>4. CASE k \in Hellos
  BY <1>4 DEF Hellos
<1>5. CASE k \in Rest
  BY <1>5 DEF Rest, Steps
<1> QED
  BY <1>1, <1>2, <1>3, <1>4, <1>5 DEF AllCalls

LEMMA StepKinds ==
  /\ Steps \subseteq AllCalls
  /\ \A k \in Steps : k.op # "hello"
  /\ Drops \subseteq Steps /\ Sends \subseteq Steps /\ Loops \subseteq Steps
  /\ LobbyUpdate \in Steps /\ \A r \in Rooms : TryAutoGo(r) \in Steps
  /\ \A c \in Clients, n \in Names : FinishHello(c, n) \in AllCalls
  BY DEF Steps, AllCalls, Sends, Drops, Loops, Hellos, Rest, LobbyUpdate,
         TryAutoGo, FinishHello

LEMMA FrameKinds ==
  /\ \A ms \in Seq(Clients) : RoomFrame(ms) \in Frames
  /\ \A ms \in Seq(Clients), i \in 0 .. setup.seats : StartFrame(i, ms) \in Frames
  /\ \A c \in Clients, i \in Nat : PeerLeftFrame(i, c) \in Frames
  /\ PongFrame \in Frames
  /\ \A c \in Clients : MatchFrame(c, None) \in Frames
  /\ \A c \in Clients, f \in Frames : Send(c, f) \in Sends
  BY DEF Frames, RoomFrame, StartFrame, PeerLeftFrame, PongFrame, MatchFrame,
         Send, Sends

-----------------------------------------------------------------------------
(* The inductive invariant.                                                *)

\* Every room is whole, in the middle of a handler too.
RoomsOK ==
  /\ \A r \in Rooms : members[r] # << >> =>
       /\ Len(members[r]) \in 2 .. setup.seats
       /\ Distinct(members[r])
       /\ \A c \in Elems(members[r]) : c \in open /\ name[c] # None /\ room[c] = r
  /\ \A c \in Clients : room[c] # 0 => c \in Elems(members[room[c]])

\* A loop has a frame for every member that is left of its room.
LoopsOK ==
  \A k \in Elems(work) : k.op = "loop" => Len(members[k.room]) <= Len(k.frames)

WorkOK == work \in Seq(AllCalls) /\ LoopsOK

\* Call k neither drops client c nor can come to it.
Spares(k, c) ==
  /\ ~(k.op = "drop" /\ k.client = c)
  /\ setup.maxFail = 0 \/ ~(k.op = "send" /\ k.to = c)

\* While the second half of an on_hello is pending its name is free, or its
\* holder is the next to be dropped; and in the Python relay, which does not
\* look again, the client that said HELLO lives.
HelloOK ==
  /\ Bottom(work, "hello")
  /\ \A k \in Elems(work) : k.op = "hello" =>
       /\ \/ byName[k.name] \in {None, k.client}
          \/ Head(work).op = "drop" /\ Head(work).client = byName[k.name]
       /\ setup.impl = "py" =>
            /\ k.client \in open
            /\ setup.maxFail = 0 \/ name[k.client] = None
            /\ \A j \in Elems(work) : Spares(j, k.client)

\* A change of the table of names has been published, or will be.
Counted ==
  \/ \E k \in Elems(work) : k.op = "lobby"
  \/ published = Cardinality({n \in Names : byName[n] # None})

Inv == TypeOK /\ WorkOK /\ RoomsOK /\ NamesLive /\ HelloOK /\ Counted

\* The relay does not at once run the Python code, see clients that repeat
\* HELLO, and fail to send: on_hello would then register a dead client.
NoGhost == \A s \in Setups : s.impl = "c" \/ ~s.rename \/ s.maxFail = 0

-----------------------------------------------------------------------------
(* Operators of the model.                                                 *)

LEMMA SetupFacts ==
  ASSUME TypeOK
  PROVE  /\ setup.impl \in {"py", "c"} /\ setup.seats \in Nat \ {0, 1}
         /\ setup.autoGo \in Nat /\ setup.maxFail \in Nat
         /\ setup.rename \in BOOLEAN
  BY RelayAssumption DEF TypeOK

LEMMA RoomsFacts ==
  /\ Cardinality(Clients) \in Nat
  /\ Rooms \subseteq Nat \ {0}
<1>1. Cardinality(Clients) \in Nat
  BY RelayAssumption, FS_CardinalityType
<1> QED
  BY <1>1 DEF Rooms

\* Where a member of a room sits.
LEMMA SeatFacts ==
  ASSUME TypeOK, RoomsOK, NEW c \in Clients, room[c] # 0
  PROVE  /\ room[c] \in Rooms /\ members[room[c]] \in Seq(Clients)
         /\ c \in Elems(members[room[c]]) /\ members[room[c]] # << >>
         /\ SeatOf(c) \in 1 .. Len(members[room[c]])
         /\ members[room[c]][SeatOf(c)] = c
<1>1. room[c] \in Rooms /\ members[room[c]] \in Seq(Clients)
  BY DEF TypeOK
<1>2. c \in Elems(members[room[c]])
  BY DEF RoomsOK
<1>3. \E i \in 1 .. Len(members[room[c]]) : members[room[c]][i] = c
  BY <1>2 DEF Elems
<1>4. members[room[c]] # << >>
  BY <1>2, ElemsEmpty
<1> QED
  BY <1>1, <1>2, <1>3, <1>4 DEF SeatOf

\* Survivors are the members but the one that leaves.
LEMMA SurvivorFacts ==
  ASSUME TypeOK, RoomsOK, NEW c \in Clients, room[c] # 0
  PROVE  /\ Survivors(c) \in Seq(Clients)
         /\ Elems(Survivors(c)) = Elems(members[room[c]]) \ {c}
         /\ Distinct(Survivors(c))
         /\ Len(Survivors(c)) < Len(members[room[c]])
<1> DEFINE ms == members[room[c]]
           kept == {i \in 1 .. Len(ms) : ms[i] # c}
<1>1. /\ ms \in Seq(Clients) /\ SeatOf(c) \in 1 .. Len(ms) /\ ms[SeatOf(c)] = c
      /\ room[c] \in Rooms /\ ms # << >>
  BY SeatFacts
<1>2. Distinct(ms)
  BY <1>1 DEF RoomsOK
<1>3. Survivors(c) = Pick(ms, kept)
  BY DEF Survivors
<1>4. kept \in SUBSET (1 .. Len(ms)) /\ SeatOf(c) \notin kept
  BY <1>1
<1>5. {ms[i] : i \in kept} = Elems(ms) \ {c}
  BY DEF Elems
<1>6. Cardinality(kept) < Len(ms)
  <2>1. Len(ms) \in Nat
    BY <1>1
  <2>2. IsFiniteSet(1 .. Len(ms)) /\ Cardinality(1 .. Len(ms)) = Len(ms)
    BY <2>1, UpTo
  <2> HIDE DEF kept, ms
  <2>3. Cardinality(kept) \in Nat
    BY <1>4, <2>2, FS_Subset, FS_CardinalityType
  <2>4. Cardinality(kept) <= Len(ms) /\ (Len(ms) = Cardinality(kept) => 1 .. Len(ms) = kept)
    BY <1>4, <2>2, FS_Subset
  <2> QED
    BY <1>1, <1>4, <2>1, <2>3, <2>4
<1> HIDE DEF kept, ms
<1>7. /\ Pick(ms, kept) \in Seq(Clients)
      /\ Len(Pick(ms, kept)) = Cardinality(kept)
      /\ Elems(Pick(ms, kept)) = {ms[i] : i \in kept}
      /\ Distinct(Pick(ms, kept))
  BY <1>1, <1>2, <1>4, PickFacts
<1> QED
  BY <1>3, <1>5, <1>6, <1>7 DEF ms

\* A fan-out is one send for each member that is meant, or a loop that does it.
LEMMA FanoutCalls ==
  ASSUME NEW r \in Rooms, NEW ms \in Seq(Clients), NEW fs \in Seq(Frames),
         Len(fs) = Len(ms), NEW skip \in Clients \cup {None}
  PROVE  /\ Fanout(r, ms, fs, skip) \in Seq(Sends \cup Loops)
         /\ setup.impl = "c" =>
              Elems(Fanout(r, ms, fs, skip)) =
                {Send(ms[i], fs[i]) : i \in {j \in 1 .. Len(ms) : ms[j] # skip}}
         /\ setup.impl # "c" =>
              Elems(Fanout(r, ms, fs, skip)) = {Loop(r, 1, fs, skip)}
<1> DEFINE all == [i \in 1 .. Len(ms) |-> Send(ms[i], fs[i])]
           kept == {j \in 1 .. Len(ms) : ms[j] # skip}
<1> HIDE DEF Frames
<1>1. CASE setup.impl = "c"
  <2>1. Fanout(r, ms, fs, skip) = Pick(all, kept)
    BY <1>1 DEF Fanout
  <2>2. \A i \in 1 .. Len(ms) : ms[i] \in Clients /\ fs[i] \in Frames
    OBVIOUS
  <2>3. \A i \in 1 .. Len(ms) : Send(ms[i], fs[i]) \in Sends
    BY <2>2, FrameKinds
  <2>4. all \in Seq(Sends) /\ Len(all) = Len(ms)
    <3>1. Len(ms) \in Nat
      OBVIOUS
    <3> HIDE DEF Sends
    <3> QED
      BY <2>3, <3>1
  <2>5. /\ Pick(all, kept) \in Seq(Sends)
        /\ Elems(Pick(all, kept)) = {all[i] : i \in kept}
    <3>1. kept \in SUBSET (1 .. Len(all))
      BY <2>4
    <3> HIDE DEF all, kept, Sends
    <3> QED
      BY <2>4, <3>1, PickFacts
  <2>6. {all[i] : i \in kept} = {Send(ms[i], fs[i]) : i \in kept}
    OBVIOUS
  <2>7. Pick(all, kept) \in Seq(Sends \cup Loops)
    <3> HIDE DEF all, kept, Sends, Loops
    <3> QED
      BY <2>5, SeqMonotonic
  <2> QED
    BY <1>1, <2>1, <2>5, <2>6, <2>7
<1>2. CASE setup.impl # "c"
  <2>1. Fanout(r, ms, fs, skip) = <<Loop(r, 1, fs, skip)>>
    BY <1>2 DEF Fanout
  <2>2. Loop(r, 1, fs, skip) \in Loops
    BY DEF Loop, Loops
  <2> QED
    BY <1>2, <2>1, <2>2, ElemsOne
<1> QED
  BY <1>1, <1>2

\* Call k is part of a fan-out to the members ms of room r.
Reaches(k, r, ms) ==
  \/ k.op = "send" /\ k.to \in Elems(ms)
  \/ k.op = "loop" /\ k.room = r /\ Len(k.frames) = Len(ms)

LEMMA FanoutReaches ==
  ASSUME NEW r \in Rooms, NEW ms \in Seq(Clients), NEW fs \in Seq(Frames),
         Len(fs) = Len(ms), NEW skip \in Clients \cup {None}
  PROVE  /\ Fanout(r, ms, fs, skip) \in Seq(Steps)
         /\ \A k \in Elems(Fanout(r, ms, fs, skip)) : Reaches(k, r, ms)
<1> HIDE DEF Frames
<1>1. Fanout(r, ms, fs, skip) \in Seq(Sends \cup Loops)
  BY FanoutCalls
<1>2. Fanout(r, ms, fs, skip) \in Seq(Steps)
  <2>1. Sends \cup Loops \subseteq Steps
    BY StepKinds
  <2> HIDE DEF Sends, Loops, Steps
  <2> QED
    BY <1>1, <2>1, SeqMonotonic
<1>3. CASE setup.impl = "c"
  <2>1. Elems(Fanout(r, ms, fs, skip)) =
          {Send(ms[i], fs[i]) : i \in {j \in 1 .. Len(ms) : ms[j] # skip}}
    BY <1>3, FanoutCalls
  <2>2. \A i \in 1 .. Len(ms) : Reaches(Send(ms[i], fs[i]), r, ms)
    BY DEF Reaches, Send, Elems
  <2> QED
    BY <1>2, <2>1, <2>2
<1>4. CASE setup.impl # "c"
  <2>1. Elems(Fanout(r, ms, fs, skip)) = {Loop(r, 1, fs, skip)}
    BY <1>4, FanoutCalls
  <2>2. Reaches(Loop(r, 1, fs, skip), r, ms)
    BY DEF Reaches, Loop
  <2> QED
    BY <1>2, <2>1, <2>2
<1> QED
  BY <1>3, <1>4

LEMMA RoomFrames ==
  ASSUME NEW ms \in Seq(Clients)
  PROVE  /\ [i \in 1 .. Len(ms) |-> RoomFrame(ms)] \in Seq(Frames)
         /\ Len([i \in 1 .. Len(ms) |-> RoomFrame(ms)]) = Len(ms)
<1>1. RoomFrame(ms) \in Frames /\ Len(ms) \in Nat
  BY FrameKinds
<1> HIDE DEF Frames
<1> QED
  BY <1>1

LEMMA BroadcastReaches ==
  ASSUME NEW r \in Rooms, NEW ms \in Seq(Clients)
  PROVE  /\ RoomBroadcast(r, ms) \in Seq(Steps)
         /\ \A k \in Elems(RoomBroadcast(r, ms)) : Reaches(k, r, ms)
  BY RoomFrames, FanoutReaches, Zenon DEF RoomBroadcast

LEMMA StartFrames ==
  ASSUME TypeOK, NEW ms \in Seq(Clients), Len(ms) <= setup.seats
  PROVE  /\ [i \in 1 .. Len(ms) |-> StartFrame(i, ms)] \in Seq(Frames)
         /\ Len([i \in 1 .. Len(ms) |-> StartFrame(i, ms)]) = Len(ms)
<1>1. Len(ms) \in Nat /\ \A i \in 1 .. Len(ms) : i \in 0 .. setup.seats
  BY SetupFacts
<1>2. \A i \in 1 .. Len(ms) : StartFrame(i, ms) \in Frames
  BY <1>1, FrameKinds
<1> HIDE DEF Frames
<1> QED
  BY <1>1, <1>2

LEMMA StartReaches ==
  ASSUME TypeOK, RoomsOK, NEW r \in Rooms
  PROVE  /\ StartSends(r) \in Seq(Steps)
         /\ \A k \in Elems(StartSends(r)) : Reaches(k, r, members[r])
<1>1. members[r] \in Seq(Clients) /\ Len(members[r]) <= setup.seats
  BY SetupFacts, EmptySeq DEF TypeOK, RoomsOK
<1>2. /\ [i \in 1 .. Len(members[r]) |-> StartFrame(i, members[r])] \in Seq(Frames)
      /\ Len([i \in 1 .. Len(members[r]) |-> StartFrame(i, members[r])]) =
           Len(members[r])
  BY <1>1, StartFrames
<1>3. None \in Clients \cup {None}
  OBVIOUS
<1> QED
  BY <1>1, <1>2, <1>3, FanoutReaches, Zenon DEF StartSends

LEMMA SendAllReaches ==
  ASSUME NEW r, NEW ms \in Seq(Clients), NEW f \in Frames
  PROVE  /\ SendAll(ms, f) \in Seq(Steps)
         /\ Elems(SendAll(ms, f)) = {Send(c, f) : c \in Elems(ms)}
         /\ \A k \in Elems(SendAll(ms, f)) : Reaches(k, r, ms)
<1> HIDE DEF Frames, Steps
<1>1. \A i \in 1 .. Len(ms) : Send(ms[i], f) \in Steps
  BY FrameKinds, StepKinds
<1>2. Len(ms) \in Nat
  OBVIOUS
<1>3. SendAll(ms, f) \in Seq(Steps) /\ Len(SendAll(ms, f)) = Len(ms)
  BY <1>1, <1>2 DEF SendAll
<1>4. Elems(SendAll(ms, f)) = {Send(c, f) : c \in Elems(ms)}
  BY <1>3 DEF SendAll, Elems
<1>5. \A c \in Elems(ms) : Reaches(Send(c, f), r, ms)
  BY DEF Reaches, Send
<1> QED
  BY <1>3, <1>4, <1>5

\* A list of the Lobby only has names of clients that are connected.
LEMMA LobbyFrameType ==
  ASSUME TypeOK, NamesLive, NEW c \in Clients
  PROVE  LobbyFrame(c) \in Frames
<1> DEFINE kept == {i \in 1 .. Len(order) : byName[order[i]] # c}
           others == Pick(order, kept)
           shown == IF Len(others) <= LobbyMax THEN others
                    ELSE SubSeq(others, 1, LobbyMax)
           Held == {n \in Names : byName[n] # None}
           Shown == [name : Names, status : [size : Nat, busy : BOOLEAN]]
           entries == [i \in 1 .. Len(shown) |->
                        [name |-> shown[i], status |-> Status(byName[shown[i]])]]
<1>1. order \in Seq(Held)
  <2>1. order \in Seq(Names) /\ {order[i] : i \in 1 .. Len(order)} = Held
    BY DEF TypeOK, NamesLive
  <2>2. \A i \in 1 .. Len(order) : order[i] \in Held
    BY <2>1
  <2> HIDE DEF Held
  <2> QED
    BY <2>1, <2>2
<1>2. others \in Seq(Held)
  <2>1. kept \in SUBSET (1 .. Len(order))
    OBVIOUS
  <2> HIDE DEF kept, Held
  <2> QED
    BY <1>1, <2>1, PickFacts
<1>3. shown \in Seq(Held)
  <2> HIDE DEF others, Held
  <2>1. CASE Len(others) <= LobbyMax
    BY <1>2, <2>1
  <2>2. CASE ~(Len(others) <= LobbyMax)
    <3>1. \A i \in 1 .. LobbyMax : others[i] \in Held
      BY <1>2, <2>2 DEF LobbyMax
    <3>2. SubSeq(others, 1, LobbyMax) \in Seq(Held)
      BY <3>1, SubSeqProperties DEF LobbyMax
    <3> QED
      BY <2>2, <3>2
  <2> QED
    BY <2>1, <2>2
<1>4. ASSUME NEW d \in Clients PROVE Status(d) \in [size : Nat, busy : BOOLEAN]
  BY SetupFacts DEF Status, TypeOK
<1>5. \A i \in 1 .. Len(shown) :
        [name |-> shown[i], status |-> Status(byName[shown[i]])] \in Shown
  <2> SUFFICES ASSUME NEW n \in Held
               PROVE  [name |-> n, status |-> Status(byName[n])] \in Shown
    <3> HIDE DEF Held, Shown, shown
    <3> QED
      BY <1>3
  <2>1. n \in Names /\ byName[n] \in Clients
    BY DEF TypeOK
  <2> QED
    BY <1>4, <2>1
<1>6. entries \in Seq(Shown)
  <2>1. Len(shown) \in Nat
    <3> HIDE DEF shown, Held
    <3> QED
      BY <1>3
  <2> HIDE DEF shown, Shown
  <2> QED
    BY <1>5, <2>1
<1>7. LobbyFrame(c) = [type |-> "LOBBY", entries |-> entries]
  BY DEF LobbyFrame
<1> HIDE DEF entries
<1> QED
  BY <1>6, <1>7 DEF Frames

-----------------------------------------------------------------------------
(* What a call leaves behind when it returns.                              *)

Harmless(k) ==
  /\ k.op = "loop" => Len(members'[k.room]) <= Len(k.frames)
  /\ k.op = "send" => name[k.to] # None
  /\ k.op = "drop" => /\ Head(work).op = "send" /\ k.client = Head(work).to
                      /\ setup.maxFail # 0

\* The head of the stack is replaced by the calls p: loops that fit their
\* room, sends to clients that have a name, a drop of the client that could
\* not be sent to, and a lobby_update if a name is gone.
Leaves(p) ==
  /\ work # << >> /\ work' = p \o Tail(work) /\ p \in Seq(Steps)
  /\ \A k \in Elems(p) : Harmless(k)
  /\ byName' = byName \/ \E k \in Elems(p) : k.op = "lobby"

LEMMA ReturnLeaves ==
  ASSUME work \in Seq(AllCalls), work # << >>, Return, byName' = byName
  PROVE  Leaves(<< >>)
<1>1. Tail(work) \in Seq(AllCalls)
  BY ElemsTail
<1>2. Tail(work) = << >> \o Tail(work)
  BY <1>1, ConcatEmptySeq
<1>3. << >> \in Seq(Steps)
  OBVIOUS
<1> QED
  BY <1>2, <1>3, ElemsEmpty DEF Leaves, Return

LEMMA SendFailsLeaves ==
  ASSUME TypeOK, WorkOK, SendFails
  PROVE  Leaves(<<Drop(Call.to, "send error")>>)
<1> DEFINE k == Drop(Call.to, "send error")
<1>1. work # << >> /\ Call \in AllCalls /\ Call.op = "send"
  BY ElemsTail DEF SendFails, Calls, Call, WorkOK
<1>2. k \in Drops /\ k.op = "drop" /\ k.client = Call.to
  BY <1>1, CallKinds DEF Drop, Drops
<1>3. setup.maxFail # 0
  <2>1. fails \in 0 .. setup.maxFail
    BY DEF TypeOK
  <2>2. fails < setup.maxFail
    BY Zenon DEF SendFails
  <2>3. setup.maxFail \in Nat
    BY SetupFacts
  <2> QED
    BY <2>1, <2>2, <2>3
<1>4. Harmless(k)
  BY <1>1, <1>2, <1>3 DEF Harmless, Call
<1>5. k \in Steps
  BY <1>2, StepKinds
<1> HIDE DEF k, Steps
<1>6. <<k>> \in Seq(Steps) /\ Elems(<<k>>) = {k}
  BY <1>5, ElemsOne
<1>7. work' = <<k>> \o Tail(work) /\ byName' = byName
  BY DEF SendFails, ThenReturn, tables, k
<1>8. Leaves(<<k>>)
  BY <1>1, <1>4, <1>6, <1>7, Zenon DEF Leaves
<1> QED
  BY <1>8 DEF k

LEMMA NextMemberLeaves ==
  ASSUME TypeOK, WorkOK, RoomsOK, NextMember
  PROVE  \E p : Leaves(p)
<1> DEFINE ms == members[Call.room]
           next == [Call EXCEPT !.at = @ + 1]
           said == Send(ms[Call.at], Call.frames[Call.at])
<1>1. work # << >> /\ Call \in AllCalls /\ Call \in Elems(work) /\ Call.op = "loop"
  BY ElemsTail DEF NextMember, Calls, Call, WorkOK
<1>2. /\ Call.room \in Rooms /\ Call.at \in Nat \ {0} /\ Call.frames \in Seq(Frames)
      /\ Call \in Loops
  <2>1. Call \in Loops
    BY <1>1 DEF AllCalls, Sends, Drops, Hellos, Rest, Loops
  <2> QED
    BY <1>1, <2>1, CallKinds
<1>3. ms \in Seq(Clients) /\ Len(ms) <= Len(Call.frames)
  BY <1>1, <1>2 DEF TypeOK, WorkOK, LoopsOK
<1>4. members' = members /\ byName' = byName
  BY DEF NextMember, tables
<1>5. CASE Call.at > Len(ms)
  <2>1. Return
    BY <1>5 DEF NextMember
  <2>2. Leaves(<< >>)
    BY <1>1, <1>4, <2>1, ReturnLeaves DEF WorkOK
  <2> QED
    BY <2>2
<1>6. CASE ~(Call.at > Len(ms))
  <2>1. Call.at \in 1 .. Len(ms)
    BY <1>2, <1>3, <1>6
  <2>2. /\ next \in Loops /\ next.op = "loop" /\ next.room = Call.room
        /\ next.frames = Call.frames
    <3> HIDE DEF Frames
    <3> QED
      BY <1>2 DEF Loops
  <2>3. ms[Call.at] \in Clients /\ ms[Call.at] \in Elems(ms)
    BY <1>3, <2>1 DEF Elems
  <2>4. Call.frames[Call.at] \in Frames
    <3> HIDE DEF Frames
    <3> QED
      BY <1>2, <1>3, <2>1
  <2>5. said \in Sends /\ said.op = "send" /\ said.to = ms[Call.at]
    BY <2>3, <2>4, FrameKinds DEF Send
  <2>6. name[ms[Call.at]] # None
    <3>1. ms # << >>
      BY <2>3, ElemsEmpty
    <3> QED
      BY <1>2, <2>3, <3>1 DEF RoomsOK
  <2>7. Harmless(next) /\ Harmless(said)
    BY <1>3, <1>4, <2>2, <2>5, <2>6 DEF Harmless
  <2>8. next \in Steps /\ said \in Steps
    BY <2>2, <2>5, StepKinds
  <2> DEFINE p == (IF ms[Call.at] = Call.skip THEN << >> ELSE <<said>>) \o <<next>>
  <2>9. work' = p \o Tail(work)
    BY <1>6 DEF NextMember, ThenReturn
  <2> HIDE DEF next, said, Steps
  <2>10. p \in Seq(Steps) /\ Elems(p) \subseteq {said, next}
    <3>1. CASE ms[Call.at] = Call.skip
      <4>1. p = <<next>>
        BY <3>1, <2>8, ConcatEmptySeq
      <4>2. <<next>> \in Seq(Steps)
        BY <2>8
      <4>3. Elems(<<next>>) \subseteq {said, next}
        BY ElemsOne
      <4> QED
        BY <4>1, <4>2, <4>3, Zenon
    <3>2. CASE ms[Call.at] # Call.skip
      <4>1. p = <<said>> \o <<next>>
        BY <3>2
      <4> QED
        <5>1. <<said>> \o <<next>> \in Seq(Steps) /\ Elems(<<said>> \o <<next>>) = {said, next}
          BY <2>8, ElemsTwo, Zenon
        <5> QED
          BY <4>1, <5>1, Zenon
    <3> QED
      BY <3>1, <3>2
  <2> HIDE DEF p
  <2>11. Leaves(p)
    BY <1>1, <1>4, <2>7, <2>9, <2>10, Zenon DEF Leaves
  <2> QED
    BY <2>11
<1> QED
  BY <1>5, <1>6

LEMMA LobbyHarmless ==
  /\ LobbyUpdate.op = "lobby" /\ Harmless(LobbyUpdate) /\ LobbyUpdate \in Steps
<1>1. LobbyUpdate.op = "lobby"
  BY DEF LobbyUpdate
<1> QED
  BY <1>1, StepKinds DEF Harmless

LEMMA ReachesHarmless ==
  ASSUME NEW r \in Rooms, NEW ms \in Seq(Clients), Len(members'[r]) <= Len(ms),
         \A d \in Elems(ms) : name[d] # None,
         NEW k, Reaches(k, r, ms)
  PROVE  Harmless(k)
  BY DEF Reaches, Harmless

LEMMA UpdateLobbyLeaves ==
  ASSUME TypeOK, WorkOK, UpdateLobby
  PROVE  Leaves(<< >>)
<1>1. work # << >> /\ Return /\ byName' = byName
  BY DEF UpdateLobby, Calls, tables
<1> QED
  BY <1>1, ReturnLeaves DEF WorkOK

LEMMA SendFrameLeaves ==
  ASSUME TypeOK, WorkOK, SendFrame
  PROVE  Leaves(<< >>)
<1>1. work # << >> /\ Return /\ byName' = byName
  BY DEF SendFrame, Calls, tables
<1> QED
  BY <1>1, ReturnLeaves DEF WorkOK

\* A fan-out to the members of a room, and then a lobby_update.
LEMMA FanoutLeaves ==
  ASSUME NEW u \in Seq(Steps), \A k \in Elems(u) : Harmless(k),
         NEW r \in Rooms, NEW ms \in Seq(Clients), Len(members'[r]) <= Len(ms),
         \A d \in Elems(ms) : name[d] # None,
         NEW q \in Seq(Steps), \A k \in Elems(q) : Reaches(k, r, ms),
         work # << >>, ThenReturn(u \o q \o <<LobbyUpdate>>)
  PROVE  Leaves(u \o q \o <<LobbyUpdate>>)
<1> DEFINE p == u \o q \o <<LobbyUpdate>>
<1>1. u \o q \in Seq(Steps) /\ Elems(u \o q) = Elems(u) \cup Elems(q)
  <2>1. u \o q \in Seq(Steps)
    BY ConcatProperties
  <2>2. Elems(u \o q) = Elems(u) \cup Elems(q)
    BY ElemsConcat
  <2> QED
    BY <2>1, <2>2
<1>2. p \in Seq(Steps) /\ Elems(p) = Elems(u \o q) \cup {LobbyUpdate}
  <2>1. LobbyUpdate \in Steps
    BY LobbyHarmless
  <2>2. \A t \in Seq(Steps) : /\ t \o <<LobbyUpdate>> \in Seq(Steps)
                              /\ Elems(t \o <<LobbyUpdate>>) = Elems(t) \cup {LobbyUpdate}
    BY <2>1, ElemsEnd
  <2> QED
    BY <1>1, <2>2, Zenon
<1>3. \A k \in Elems(q) : Harmless(k)
  BY ReachesHarmless
<1>4. work' = p \o Tail(work)
  BY Zenon DEF ThenReturn
<1> HIDE DEF p
<1>5. Leaves(p)
  <2>1. \A k \in Elems(p) : Harmless(k)
    BY <1>1, <1>2, <1>3, LobbyHarmless
  <2>2. \E k \in Elems(p) : k.op = "lobby"
    BY <1>2, LobbyHarmless
  <2> QED
    BY <1>2, <1>4, <2>1, <2>2, Zenon DEF Leaves
<1> QED
  BY <1>5 DEF p

LEMMA AutoStartLeaves ==
  ASSUME TypeOK, WorkOK, RoomsOK, AutoStart
  PROVE  \E p : Leaves(p)
<1> DEFINE r == Call.room
<1>1. work # << >> /\ Call.op = "autogo"
  BY DEF AutoStart, Calls
<1>2. r \in Rooms /\ members' = members /\ byName' = byName
  BY <1>1, ElemsTail, CallKinds DEF AutoStart, WorkOK, Call
<1>3. CASE setup.autoGo > 0 /\ Len(members[r]) >= setup.autoGo
  <2>1. members[r] \in Seq(Clients) /\ Len(members'[r]) <= Len(members[r])
    BY <1>2 DEF TypeOK
  <2>2. \A d \in Elems(members[r]) : name[d] # None
    BY <1>2, ElemsEmpty DEF RoomsOK
  <2>3. /\ StartSends(r) \in Seq(Steps)
        /\ \A k \in Elems(StartSends(r)) : Reaches(k, r, members[r])
    BY <1>2, StartReaches
  <2>4. << >> \in Seq(Steps) /\ \A k \in Elems(<< >>) : Harmless(k)
    BY ElemsEmpty
  <2>5. << >> \o StartSends(r) = StartSends(r)
    BY <2>3, ConcatEmptySeq
  <2>6. ThenReturn(<< >> \o StartSends(r) \o <<LobbyUpdate>>)
    BY <1>3, <2>5 DEF AutoStart
  <2> HIDE DEF r
  <2>7. Leaves(<< >> \o StartSends(r) \o <<LobbyUpdate>>)
    BY <1>1, <1>2, <2>1, <2>2, <2>3, <2>4, <2>6, FanoutLeaves
  <2> QED
    BY <2>7
<1>4. CASE ~(setup.autoGo > 0 /\ Len(members[r]) >= setup.autoGo)
  <2>1. Return
    BY <1>4 DEF AutoStart
  <2>2. Leaves(<< >>)
    BY <1>1, <1>2, <2>1, ReturnLeaves DEF WorkOK
  <2> QED
    BY <2>2
<1> QED
  BY <1>3, <1>4

LEMMA ForgetLeaves ==
  ASSUME TypeOK, NEW c \in Clients, Forget(c)
  PROVE  /\ UpdateIfNamed(c) \in Seq(Steps)
         /\ \A k \in Elems(UpdateIfNamed(c)) : Harmless(k)
         /\ byName' = byName \/ \E k \in Elems(UpdateIfNamed(c)) : k.op = "lobby"
<1>1. CASE \E n \in Names : byName[n] = c
  <2>1. UpdateIfNamed(c) = <<LobbyUpdate>>
    BY <1>1 DEF UpdateIfNamed
  <2>2. Elems(UpdateIfNamed(c)) = {LobbyUpdate}
    BY <2>1, ElemsOne
  <2>3. UpdateIfNamed(c) \in Seq(Steps)
    <3> HIDE DEF Steps, LobbyUpdate
    <3> QED
      BY <2>1, LobbyHarmless
  <2> QED
    BY <2>2, <2>3, LobbyHarmless, Zenon
<1>2. CASE ~\E n \in Names : byName[n] = c
  <2>1. UpdateIfNamed(c) = << >>
    BY <1>2 DEF UpdateIfNamed
  <2>2. byName' = byName
    BY <1>2 DEF Forget, TypeOK
  <2>3. << >> \in Seq(Steps)
    OBVIOUS
  <2> QED
    BY <2>1, <2>2, <2>3, ElemsEmpty
<1> QED
  BY <1>1, <1>2

\* The client that a drop is about.
LEMMA DropCall ==
  ASSUME TypeOK, WorkOK, Calls("drop")
  PROVE  work # << >> /\ Call.op = "drop" /\ Call.client \in Clients
<1>1. work # << >> /\ Call.op = "drop"
  BY DEF Calls
<1>2. Call \in AllCalls
  BY <1>1, ElemsTail DEF WorkOK, Call
<1> QED
  BY <1>1, <1>2, CallKinds

LEMMA DropSoloLeaves ==
  ASSUME TypeOK, WorkOK, DropSolo
  PROVE  \E p : Leaves(p)
<1> DEFINE c == Call.client
<1>1. work # << >> /\ Call.op = "drop" /\ c \in Clients
  BY DropCall DEF DropSolo
<1>2. CASE c \in open
  <2>1. Forget(c) /\ ThenReturn(UpdateIfNamed(c))
    BY <1>2 DEF DropSolo
  <2> HIDE DEF c
  <2>2. Leaves(UpdateIfNamed(c))
    BY <1>1, <2>1, ForgetLeaves, Zenon DEF Leaves, ThenReturn
  <2> QED
    BY <2>2
<1>3. CASE c \notin open
  <2>1. Return /\ byName' = byName
    BY <1>3 DEF DropSolo
  <2>2. Leaves(<< >>)
    BY <1>1, <2>1, ReturnLeaves DEF WorkOK
  <2> QED
    BY <2>2
<1> QED
  BY <1>2, <1>3

LEMMA DropMemberLeaves ==
  ASSUME TypeOK, WorkOK, RoomsOK, DropFromMatch \/ DropFromForming \/ DropReseats
  PROVE  \E p : Leaves(p)
<1> DEFINE c == Call.client
           r == room[c]
           ms == Survivors(c)
<1>1. work # << >> /\ Call.op = "drop" /\ c \in Clients /\ r # 0 /\ Forget(c)
  BY DropCall DEF DropFromMatch, DropFromForming, DropReseats
<1>2. /\ r \in Rooms /\ members[r] \in Seq(Clients) /\ members[r] # << >>
      /\ SeatOf(c) \in 1 .. Len(members[r])
  BY <1>1, SeatFacts
<1>3. ms \in Seq(Clients) /\ Elems(ms) \subseteq Elems(members[r])
  BY <1>1, SurvivorFacts
<1>4. \A d \in Elems(ms) : name[d] # None
  BY <1>2, <1>3 DEF RoomsOK
<1>5. /\ UpdateIfNamed(c) \in Seq(Steps)
      /\ \A k \in Elems(UpdateIfNamed(c)) : Harmless(k)
  BY <1>1, ForgetLeaves
<1>6. Len(<< >>) <= Len(ms)
  BY <1>3
<1> HIDE DEF c
<1>7. CASE DropFromMatch
  <2>1. PeerLeftFrame(SeatOf(c), c) \in Frames
    BY <1>1, <1>2, FrameKinds
  <2>2. /\ SendAll(ms, PeerLeftFrame(SeatOf(c), c)) \in Seq(Steps)
        /\ \A k \in Elems(SendAll(ms, PeerLeftFrame(SeatOf(c), c))) : Reaches(k, r, ms)
    BY <1>3, <2>1, SendAllReaches
  <2>3. /\ members'[r] = << >>
        /\ ThenReturn(UpdateIfNamed(c) \o SendAll(ms, PeerLeftFrame(SeatOf(c), c))
                        \o <<LobbyUpdate>>)
    BY <1>2, <1>7 DEF DropFromMatch, Dissolve, TypeOK, c
  <2>4. Len(members'[r]) <= Len(ms)
    BY <1>6, <2>3
  <2> HIDE DEF ms, r
  <2>5. Leaves(UpdateIfNamed(c) \o SendAll(ms, PeerLeftFrame(SeatOf(c), c))
                 \o <<LobbyUpdate>>)
    BY <1>1, <1>2, <1>3, <1>4, <1>5, <2>2, <2>3, <2>4, FanoutLeaves
  <2> QED
    BY <2>5
<1>8. CASE DropFromForming
  <2>1. RoomFrame(<< >>) \in Frames
    <3>1. << >> \in Seq(Clients)
      OBVIOUS
    <3> QED
      BY <3>1, FrameKinds
  <2>2. /\ SendAll(ms, RoomFrame(<< >>)) \in Seq(Steps)
        /\ \A k \in Elems(SendAll(ms, RoomFrame(<< >>))) : Reaches(k, r, ms)
    BY <1>3, <2>1, SendAllReaches
  <2>3. /\ members'[r] = << >>
        /\ ThenReturn(UpdateIfNamed(c) \o SendAll(ms, RoomFrame(<< >>))
                        \o <<LobbyUpdate>>)
    BY <1>2, <1>8 DEF DropFromForming, Dissolve, TypeOK, c
  <2>4. Len(members'[r]) <= Len(ms)
    BY <1>6, <2>3
  <2> HIDE DEF ms, r
  <2>5. Leaves(UpdateIfNamed(c) \o SendAll(ms, RoomFrame(<< >>)) \o <<LobbyUpdate>>)
    BY <1>1, <1>2, <1>3, <1>4, <1>5, <2>2, <2>3, <2>4, FanoutLeaves
  <2> QED
    BY <2>5
<1>9. CASE DropReseats
  <2>1. /\ RoomBroadcast(r, ms) \in Seq(Steps)
        /\ \A k \in Elems(RoomBroadcast(r, ms)) : Reaches(k, r, ms)
    BY <1>2, <1>3, BroadcastReaches
  <2>2. /\ members'[r] = ms
        /\ ThenReturn(UpdateIfNamed(c) \o RoomBroadcast(r, ms) \o <<LobbyUpdate>>)
    BY <1>2, <1>9 DEF DropReseats, TypeOK, c
  <2>3. Len(members'[r]) <= Len(ms)
    BY <1>3, <2>2
  <2> HIDE DEF ms, r
  <2>4. Leaves(UpdateIfNamed(c) \o RoomBroadcast(r, ms) \o <<LobbyUpdate>>)
    BY <1>1, <1>2, <1>3, <1>4, <1>5, <2>1, <2>2, <2>3, FanoutLeaves
  <2> QED
    BY <2>4
<1> QED
  BY <1>7, <1>8, <1>9

-----------------------------------------------------------------------------
(* How the parts of the invariant survive a call.                          *)

LEMMA StackType ==
  ASSUME TypeOK, setup' = setup, work' \in Seq(AllCalls)
  PROVE  /\ work' \in Seq(AllCalls')
         /\ \A i \in 1 .. Len(work') :
              work'[i].op \in {"send", "drop", "loop", "hello", "lobby", "autogo"}
<1>1. AllCalls' = AllCalls
  BY DEF AllCalls, Sends, Drops, Loops, Hellos, Rest, Frames
<1>2. \A i \in 1 .. Len(work') : work'[i] \in AllCalls
  <2> HIDE DEF AllCalls
  <2> QED
    OBVIOUS
<1> QED
  BY <1>1, <1>2, CallKinds

LEMMA HandlerWork ==
  ASSUME TypeOK, WorkOK, setup' = setup, NEW p, Leaves(p),
         \A r \in Rooms : /\ Len(members'[r]) \in Nat /\ Len(members[r]) \in Nat
                          /\ Len(members'[r]) <= Len(members[r])
  PROVE  /\ WorkOK'
         /\ \A i \in 1 .. Len(work') :
              work'[i].op \in {"send", "drop", "loop", "hello", "lobby", "autogo"}
<1>1. p \in Seq(AllCalls)
  <2> HIDE DEF Steps, AllCalls
  <2> QED
    BY StepKinds, SeqMonotonic DEF Leaves
<1>2. work \in Seq(AllCalls) /\ work # << >> /\ work' = p \o Tail(work)
  BY DEF WorkOK, Leaves
<1>3. work' \in Seq(AllCalls) /\ Elems(work') \subseteq Elems(p) \cup Elems(work)
  BY <1>1, <1>2, Stacked
<1>4. ASSUME NEW k \in Elems(work'), k.op = "loop"
      PROVE  Len(members'[k.room]) <= Len(k.frames)
  <2>1. CASE k \in Elems(p)
    BY <1>4, <2>1 DEF Leaves, Harmless
  <2>2. CASE k \in Elems(work)
    <3>1. k \in AllCalls
      BY <1>2, <2>2, ElemsType
    <3>2. /\ k.room \in Rooms /\ k.frames \in Seq(Frames)
          /\ Len(members[k.room]) <= Len(k.frames)
      BY <1>4, <2>2, <3>1, CallKinds DEF WorkOK, LoopsOK
    <3>3. Len(k.frames) \in Nat
      <4> HIDE DEF Frames
      <4> QED
        BY <3>2
    <3> QED
      BY <3>2, <3>3
  <2> QED
    BY <1>3, <2>1, <2>2
<1>5. LoopsOK'
  BY <1>4 DEF LoopsOK, Elems
<1> QED
  BY <1>3, <1>5, StackType DEF WorkOK

LEMMA HandlerHello ==
  ASSUME TypeOK, WorkOK, HelloOK, NEW p, Leaves(p),
         UNCHANGED <<setup, name>>, Call.op # "hello",
         \A n \in Names : byName'[n] \in {None, byName[n]},
         Call.op = "drop" => \A n \in Names : byName'[n] # Call.client,
         \/ open' = open
         \/ Call.op = "drop" /\ open' = open \ {Call.client}
  PROVE  HelloOK'
<1>1. p \in Seq(AllCalls) /\ \A k \in Elems(p) : k.op # "hello"
  <2>1. p \in Seq(Steps)
    BY DEF Leaves
  <2>2. Elems(p) \subseteq Steps
    BY <2>1, ElemsType
  <2>3. p \in Seq(AllCalls)
    <3> HIDE DEF Steps, AllCalls
    <3> QED
      BY <2>1, StepKinds, SeqMonotonic
  <2> QED
    BY <2>2, <2>3, StepKinds
<1>2. work \in Seq(AllCalls) /\ work # << >> /\ work' = p \o Tail(work)
  BY DEF WorkOK, Leaves
<1>3. /\ Elems(work') = Elems(p) \cup Elems(Tail(work))
      /\ Elems(work) = {Head(work)} \cup Elems(Tail(work))
  BY <1>1, <1>2, Stacked
<1>4. Bottom(work', "hello")
  <2>1. Bottom(work, "hello")
    BY DEF HelloOK
  <2>2. Bottom(p \o Tail(work), "hello")
    BY <1>1, <1>2, <2>1, BottomKept
  <2> QED
    BY <1>2, <2>2
<1>5. ASSUME NEW k \in Elems(work'), k.op = "hello"
      PROVE  /\ byName'[k.name] \in {None, k.client}
             /\ setup.impl = "py" =>
                  /\ k.client \in open'
                  /\ setup.maxFail = 0 \/ name[k.client] = None
                  /\ \A j \in Elems(work') : Spares(j, k.client)
  <2>1. k \in Elems(work)
    BY <1>1, <1>3, <1>5
  <2>2. k.name \in Names /\ k.client \in Clients
    <3>1. k \in AllCalls
      BY <1>2, <2>1, ElemsType
    <3> QED
      BY <1>5, <3>1, CallKinds
  <2>3. /\ \/ byName[k.name] \in {None, k.client}
           \/ Head(work).op = "drop" /\ Head(work).client = byName[k.name]
        /\ setup.impl = "py" =>
             /\ k.client \in open
             /\ setup.maxFail = 0 \/ name[k.client] = None
             /\ \A j \in Elems(work) : Spares(j, k.client)
    BY <1>5, <2>1 DEF HelloOK
  <2>4. byName'[k.name] \in {None, k.client}
    BY <2>2, <2>3 DEF Call
  <2>5. ASSUME setup.impl = "py" PROVE k.client \in open'
    BY <1>3, <2>3, <2>5 DEF Call, Spares
  <2>6. ASSUME setup.impl = "py", NEW j \in Elems(work')
        PROVE  Spares(j, k.client)
    <3>1. CASE j \in Elems(Tail(work))
      BY <1>3, <2>3, <2>6, <3>1
    <3>2. CASE j \in Elems(p)
      <4>1. Harmless(j)
        BY <3>2 DEF Leaves
      <4>2. Spares(Head(work), k.client)
        BY <1>3, <2>3, <2>6
      <4> QED
        BY <2>3, <2>6, <4>1, <4>2 DEF Harmless, Spares
    <3> QED
      BY <1>3, <3>1, <3>2
  <2> QED
    BY <2>3, <2>4, <2>5, <2>6
<1> QED
  BY <1>4, <1>5 DEF HelloOK, Spares, Elems

LEMMA HandlerCounted ==
  ASSUME WorkOK, Counted, NEW p, Leaves(p),
         \/ published' = published /\ Call.op # "lobby"
         \/ /\ published' = Cardinality({n \in Names : byName[n] # None})
            /\ byName' = byName
  PROVE  Counted'
<1>1. p \in Seq(AllCalls)
  <2> HIDE DEF Steps, AllCalls
  <2> QED
    BY StepKinds, SeqMonotonic DEF Leaves
<1>2. work \in Seq(AllCalls) /\ work # << >> /\ work' = p \o Tail(work)
  BY DEF WorkOK, Leaves
<1>3. /\ Elems(work') = Elems(p) \cup Elems(Tail(work))
      /\ Elems(work) = {Head(work)} \cup Elems(Tail(work))
  BY <1>1, <1>2, Stacked
<1>4. Elems(work)' = Elems(work')
  BY DEF Elems
<1>5. CASE \E k \in Elems(p) : k.op = "lobby"
  BY <1>3, <1>4, <1>5 DEF Counted
<1>6. CASE /\ published' = Cardinality({n \in Names : byName[n] # None})
           /\ byName' = byName
  BY <1>6 DEF Counted
<1>7. CASE byName' = byName /\ published' = published /\ Call.op # "lobby"
  BY <1>3, <1>4, <1>7 DEF Counted, Call
<1> QED
  BY <1>5, <1>6, <1>7 DEF Leaves

-----------------------------------------------------------------------------
(* The table of names.                                                     *)

Held == {n \in Names : byName[n] # None}

\* The names that order lists are finitely many.
LEMMA HeldFinite ==
  ASSUME TypeOK, NamesLive
  PROVE  Cardinality(Held) \in Nat
<1> DEFINE f == [i \in 1 .. Len(order) |-> order[i]]
<1>1. Len(order) \in Nat /\ {order[i] : i \in 1 .. Len(order)} = Held
  BY DEF TypeOK, NamesLive, Held
<1>2. f \in Surjection(1 .. Len(order), Held)
  BY <1>1 DEF Surjection
<1>3. IsFiniteSet(1 .. Len(order))
  BY <1>1, UpTo
<1>4. IsFiniteSet(Held)
  BY <1>2, <1>3, FS_Surjection
<1> QED
  BY <1>4, FS_CardinalityType

\* A drop takes the client's name out of by_name, and out of its order.
LEMMA ForgetNames ==
  ASSUME TypeOK, NamesLive, NEW c \in Clients, Forget(c), name' = name
  PROVE  /\ NamesLive'
         /\ byName' \in [Names -> Clients \cup {None}] /\ order' \in Seq(Names)
         /\ \A n \in Names : byName'[n] \in {None, byName[n]} /\ byName'[n] # c
<1> DEFINE kept == {i \in 1 .. Len(order) : byName[order[i]] # c}
<1>1. /\ open' = open \ {c} /\ order' = Pick(order, kept)
      /\ byName' = [n \in Names |-> IF byName[n] = c THEN None ELSE byName[n]]
  BY DEF Forget
<1>2. byName \in [Names -> Clients \cup {None}] /\ order \in Seq(Names)
  BY DEF TypeOK
<1>3. /\ byName' \in [Names -> Clients \cup {None}]
      /\ \A n \in Names : byName'[n] = IF byName[n] = c THEN None ELSE byName[n]
  BY <1>1, <1>2
<1>4. c # None
  BY RelayAssumption
<1>5. /\ order' \in Seq(Names) /\ Elems(order') = {order[i] : i \in kept}
      /\ Distinct(order')
  <2>1. Distinct(order)
    BY DEF NamesLive, Distinct
  <2>2. kept \in SUBSET (1 .. Len(order))
    OBVIOUS
  <2> HIDE DEF kept
  <2> QED
    BY <1>1, <1>2, <2>1, <2>2, PickFacts
<1>6. {order[i] : i \in kept} = {n \in Names : byName'[n] # None}
  <2>1. \A i \in 1 .. Len(order) : order[i] \in Names /\ byName[order[i]] # None
    BY DEF NamesLive
  <2>2. \A n \in Names : byName[n] # None => \E i \in 1 .. Len(order) : order[i] = n
    BY DEF NamesLive
  <2>3. ASSUME NEW n \in Names, byName'[n] # None
        PROVE  n \in {order[i] : i \in kept}
    BY <1>3, <2>2, <2>3
  <2> QED
    BY <1>3, <2>1, <2>3
<1>7. \A n \in Names : byName'[n] # None =>
        byName'[n] \in open' /\ name'[byName'[n]] = n
  BY <1>1, <1>3 DEF NamesLive
<1>8. \A d \in open' : name'[d] # None => byName'[name'[d]] = d
  <2> SUFFICES ASSUME NEW d \in open', name[d] # None PROVE byName'[name[d]] = d
    OBVIOUS
  <2>1. d \in open /\ d # c /\ name[d] \in Names /\ byName[name[d]] = d
    BY <1>1 DEF TypeOK, NamesLive
  <2> QED
    BY <1>3, <2>1
<1>9. {order'[i] : i \in 1 .. Len(order')} = {n \in Names : byName'[n] # None}
  BY <1>5, <1>6 DEF Elems
<1>10. \A i, j \in 1 .. Len(order') : order'[i] = order'[j] => i = j
  BY <1>5 DEF Distinct
<1> QED
  BY <1>3, <1>4, <1>5, <1>7, <1>8, <1>9, <1>10 DEF NamesLive

\* A HELLO whose name is free, or the client's own, registers a living client.
LEMMA RegisterNames ==
  ASSUME TypeOK, NamesLive, NEW c \in open, NEW n \in Names,
         byName[n] \in {None, c},
         open' = open, name' = [name EXCEPT ![c] = n],
         byName' = Registered(c, n), order' = Reordered(c, n)
  PROVE  /\ NamesLive'
         /\ byName' \in [Names -> Clients \cup {None}] /\ order' \in Seq(Names)
<1> DEFINE kept == {i \in 1 .. Len(order) :
                      order[i] = n \/ order[i] # name[c] \/ byName[order[i]] # c}
           list == Pick(order, kept)
<1>1. /\ c \in Clients /\ c # None /\ n # None /\ byName \in [Names -> Clients \cup {None}]
      /\ order \in Seq(Names) /\ name \in [Clients -> Names \cup {None}]
      /\ open \subseteq Clients
  BY RelayAssumption DEF TypeOK
<1>2. order' = IF byName[n] = None THEN Append(list, n) ELSE list
  BY DEF Reordered
<1>3. /\ byName' \in [Names -> Clients \cup {None}]
      /\ \A m \in Names : byName'[m] =
           IF m = n THEN c ELSE IF byName[m] = c /\ m = name[c] THEN None ELSE byName[m]
  BY <1>1 DEF Registered
<1>4. /\ \A m \in Names : byName[m] # None => byName[m] \in open /\ name[byName[m]] = m
      /\ \A d \in open : name[d] # None => byName[name[d]] = d
  BY DEF NamesLive
<1>5. \A m \in Names : byName'[m] = IF m = n THEN c
                                    ELSE IF byName[m] = c THEN None ELSE byName[m]
  BY <1>1, <1>3, <1>4
<1>6. list \in Seq(Names) /\ Elems(list) = {order[i] : i \in kept} /\ Distinct(list)
  <2>1. Distinct(order)
    BY DEF NamesLive, Distinct
  <2>2. kept \in SUBSET (1 .. Len(order))
    OBVIOUS
  <2> HIDE DEF kept
  <2> QED
    BY <1>1, <2>1, <2>2, PickFacts
<1>7. {order[i] : i \in kept} =
        {m \in Names : byName[m] # None /\ (m = n \/ byName[m] # c)}
  <2>1. \A i \in 1 .. Len(order) : order[i] \in Names /\ byName[order[i]] # None
    BY DEF NamesLive
  <2>2. \A m \in Names : byName[m] # None => \E i \in 1 .. Len(order) : order[i] = m
    BY DEF NamesLive
  <2>3. ASSUME NEW i \in kept
        PROVE  order[i] \in {m \in Names : byName[m] # None /\ (m = n \/ byName[m] # c)}
    BY <1>1, <1>4, <2>1, <2>3
  <2>4. ASSUME NEW m \in Names, byName[m] # None, m = n \/ byName[m] # c
        PROVE  m \in {order[i] : i \in kept}
    BY <2>2, <2>4
  <2> QED
    BY <2>3, <2>4
<1> HIDE DEF list, kept
<1>8. /\ order' \in Seq(Names) /\ Distinct(order')
      /\ Elems(order') = {m \in Names : byName'[m] # None}
  <2>1. CASE byName[n] = None
    <3>1. order' = Append(list, n) /\ n \notin Elems(list)
      BY <1>2, <1>6, <1>7, <2>1
    <3>2. /\ Append(list, n) \in Seq(Names) /\ Len(Append(list, n)) = Len(list) + 1
          /\ \A i \in 1 .. Len(list) : Append(list, n)[i] = list[i]
          /\ Append(list, n)[Len(list) + 1] = n
      BY <1>6, AppendProperties
    <3>3. Len(list) \in Nat
      BY <1>6
    <3>4. Distinct(order')
      BY <1>6, <3>1, <3>2, <3>3 DEF Distinct, Elems
    <3>5. Elems(order') = Elems(list) \cup {n}
      BY <3>1, <3>2, <3>3 DEF Elems
    <3> QED
      BY <1>1, <1>5, <1>6, <1>7, <2>1, <3>1, <3>2, <3>4, <3>5
  <2>2. CASE byName[n] = c
    <3>1. order' = list
      BY <1>1, <1>2, <2>2
    <3> QED
      BY <1>1, <1>5, <1>6, <1>7, <2>2, <3>1
  <2> QED
    BY <2>1, <2>2
<1>9. \A m \in Names : byName'[m] # None =>
        byName'[m] \in open' /\ name'[byName'[m]] = m
  BY <1>1, <1>4, <1>5
<1>10. \A d \in open' : name'[d] # None => byName'[name'[d]] = d
  <2> SUFFICES ASSUME NEW d \in open, name'[d] # None PROVE byName'[name'[d]] = d
    OBVIOUS
  <2>1. CASE d = c
    BY <1>1, <1>5, <2>1
  <2>2. CASE d # c
    <3>1. name'[d] = name[d] /\ name[d] \in Names /\ byName[name[d]] = d
      BY <1>1, <1>4, <2>2
    <3>2. d # None
      BY <1>1, RelayAssumption
    <3>3. name[d] # n /\ byName[name[d]] # c
      BY <2>2, <3>1, <3>2
    <3> QED
      BY <1>5, <3>1, <3>3
  <2> QED
    BY <2>1, <2>2
<1> QED
  BY <1>3, <1>8, <1>9, <1>10 DEF NamesLive, Elems, Distinct

LEMMA UnchangedNames ==
  ASSUME NamesLive, UNCHANGED <<open, name, byName, order>>
  PROVE  NamesLive'
  BY DEF NamesLive

-----------------------------------------------------------------------------
(* The rooms.                                                              *)

\* Two clients that are in no room leave a room slot free.
LEMMA RoomLeft ==
  ASSUME TypeOK, RoomsOK, NEW c \in Clients, NEW d \in Clients, c # d,
         room[c] = 0, room[d] = 0
  PROVE  \E r \in Rooms : members[r] = << >>
<1> SUFFICES ASSUME \A r \in Rooms : members[r] # << >> PROVE FALSE
  OBVIOUS
<1> DEFINE Seats == Rooms \X {1, 2}
           Others == (Clients \ {c}) \ {d}
           sits == [x \in Seats |-> members[x[1]][x[2]]]
           n == Cardinality(Clients)
<1>1. IsFiniteSet(Clients) /\ n \in Nat
  BY RelayAssumption, FS_CardinalityType
<1>2. IsFiniteSet(Others) /\ Cardinality(Others) = n - 2
  <2>1. IsFiniteSet(Clients \ {c}) /\ Cardinality(Clients \ {c}) = n - 1
    BY <1>1, FS_RemoveElement
  <2>2. /\ IsFiniteSet(Others)
        /\ Cardinality(Others) = Cardinality(Clients \ {c}) - 1
    BY <2>1, FS_RemoveElement
  <2> QED
    BY <1>1, <2>1, <2>2
<1>3. Cardinality(Seats) = (n \div 2) * 2
  <2>1. n \div 2 \in Nat
    BY <1>1
  <2>2. IsFiniteSet(Rooms) /\ Cardinality(Rooms) = n \div 2
    BY <2>1, UpTo DEF Rooms
  <2>3. IsFiniteSet({1, 2}) /\ Cardinality({1, 2}) = 2
    <3>1. IsFiniteSet(1 .. 2) /\ Cardinality(1 .. 2) = 2
      BY UpTo
    <3>2. 1 .. 2 = {1, 2}
      OBVIOUS
    <3> QED
      BY <3>1, <3>2
  <2> QED
    BY <2>2, <2>3, FS_Product
<1>4. ASSUME NEW r \in Rooms, NEW i \in {1, 2}
      PROVE  /\ i \in 1 .. Len(members[r])
             /\ members[r][i] \in Others /\ room[members[r][i]] = r
  <2>1. Len(members[r]) \in 2 .. setup.seats /\ members[r] \in Seq(Clients)
    BY DEF RoomsOK, TypeOK
  <2>2. i \in 1 .. Len(members[r])
    BY <2>1
  <2>3. members[r][i] \in Clients /\ room[members[r][i]] = r
    BY <2>1, <2>2 DEF RoomsOK, Elems
  <2>4. r # 0
    BY RoomsFacts
  <2> QED
    BY <2>2, <2>3, <2>4
<1>5. sits \in Injection(Seats, Others)
  <2>1. sits \in [Seats -> Others]
    BY <1>4
  <2>2. ASSUME NEW x \in Seats, NEW y \in Seats, sits[x] = sits[y]
        PROVE  x = y
    <3>1. PICK r \in Rooms, i \in {1, 2} : x = <<r, i>>
      OBVIOUS
    <3>2. PICK q \in Rooms, j \in {1, 2} : y = <<q, j>>
      OBVIOUS
    <3>3. members[r][i] = members[q][j]
      BY <2>2, <3>1, <3>2
    <3>4. r = q
      BY <1>4, <3>3
    <3>5. Distinct(members[r])
      BY DEF RoomsOK
    <3>6. i = j
      BY <1>4, <3>3, <3>4, <3>5 DEF Distinct
    <3> QED
      BY <3>1, <3>2, <3>4, <3>6
  <2> HIDE DEF sits, Seats, Others
  <2> QED
    BY <2>1, <2>2 DEF Injection, IsInjective
<1>6. Cardinality(Seats) <= Cardinality(Others)
  <2> HIDE DEF sits, Seats, Others
  <2> QED
    BY <1>2, <1>5, FS_Injection
<1> QED
  BY <1>1, <1>2, <1>3, <1>6

\* The end of a room: nobody is in it any more, and nobody else's changes.
LEMMA DissolveRooms ==
  ASSUME TypeOK, RoomsOK, NEW c \in Clients, room[c] # 0, Dissolve(room[c]),
         open' = open \ {c}, UNCHANGED <<setup, name>>
  PROVE  /\ RoomsOK'
         /\ room' \in [Clients -> Rooms \cup {0}] /\ members' \in [Rooms -> Seq(Clients)]
         /\ \A q \in Rooms : members'[q] \in {members[q], << >>}
<1> DEFINE r == room[c]
<1>1. /\ r \in Rooms /\ room \in [Clients -> Rooms \cup {0}]
      /\ members \in [Rooms -> Seq(Clients)]
  BY DEF TypeOK
<1>2. /\ room' = [d \in Clients |-> IF room[d] = r THEN 0 ELSE room[d]]
      /\ members' = [members EXCEPT ![r] = << >>]
  BY DEF Dissolve
<1> HIDE DEF r
<1>3. /\ room' \in [Clients -> Rooms \cup {0}] /\ members' \in [Rooms -> Seq(Clients)]
      /\ \A q \in Rooms : members'[q] = IF q = r THEN << >> ELSE members[q]
      /\ \A d \in Clients : room'[d] = IF room[d] = r THEN 0 ELSE room[d]
  BY <1>1, <1>2
<1>4. ASSUME NEW q \in Rooms, members'[q] # << >>
      PROVE  /\ Len(members'[q]) \in 2 .. setup'.seats /\ Distinct(members'[q])
             /\ \A d \in Elems(members'[q]) :
                  d \in open' /\ name'[d] # None /\ room'[d] = q
  <2>1. q # r /\ members'[q] = members[q]
    BY <1>3, <1>4
  <2>2. /\ Len(members[q]) \in 2 .. setup.seats /\ Distinct(members[q])
        /\ \A d \in Elems(members[q]) : d \in open /\ name[d] # None /\ room[d] = q
    BY <1>4, <2>1 DEF RoomsOK
  <2>3. \A d \in Elems(members[q]) : d \in Clients
    BY <1>1, ElemsType
  <2> QED
    BY <1>3, <2>1, <2>2, <2>3 DEF r
<1>5. ASSUME NEW d \in Clients, room'[d] # 0
      PROVE  d \in Elems(members'[room'[d]])
  <2>1. room'[d] = room[d] /\ room[d] # r /\ room[d] \in Rooms
    BY <1>1, <1>3, <1>5
  <2> QED
    BY <1>3, <1>5, <2>1 DEF RoomsOK
<1> QED
  BY <1>3, <1>4, <1>5 DEF RoomsOK, Elems, Distinct

\* The end of a guest's stay in a room that goes on.
LEMMA ReseatRooms ==
  ASSUME TypeOK, RoomsOK, NEW c \in Clients, room[c] # 0, ~FormingEnds(c),
         open' = open \ {c}, UNCHANGED <<setup, name>>,
         room' = [room EXCEPT ![c] = 0],
         members' = [members EXCEPT ![room[c]] = Survivors(c)]
  PROVE  /\ RoomsOK'
         /\ room' \in [Clients -> Rooms \cup {0}] /\ members' \in [Rooms -> Seq(Clients)]
<1> DEFINE r == room[c]
           ms == Survivors(c)
<1>1. /\ r \in Rooms /\ room \in [Clients -> Rooms \cup {0}]
      /\ members \in [Rooms -> Seq(Clients)]
  BY DEF TypeOK
<1>2. /\ ms \in Seq(Clients) /\ Elems(ms) = Elems(members[r]) \ {c} /\ Distinct(ms)
      /\ Len(ms) < Len(members[r])
  BY SurvivorFacts
<1>3. Len(ms) >= 2
  BY <1>2 DEF FormingEnds
<1>4. members[r] # << >>
  BY SeatFacts
<1> HIDE DEF r, ms
<1>5. /\ room' \in [Clients -> Rooms \cup {0}] /\ members' \in [Rooms -> Seq(Clients)]
      /\ \A q \in Rooms : members'[q] = IF q = r THEN ms ELSE members[q]
      /\ \A d \in Clients : room'[d] = IF d = c THEN 0 ELSE room[d]
  BY <1>1, <1>2 DEF r, ms
<1>6. ASSUME NEW q \in Rooms, members[q] # << >>
      PROVE  /\ Len(members[q]) \in 2 .. setup.seats /\ Distinct(members[q])
             /\ \A d \in Elems(members[q]) :
                  d \in open /\ name[d] # None /\ room[d] = q /\ d \in Clients
  BY <1>1, <1>6, ElemsType DEF RoomsOK
<1>7. ASSUME NEW q \in Rooms, members'[q] # << >>
      PROVE  /\ Len(members'[q]) \in 2 .. setup'.seats /\ Distinct(members'[q])
             /\ \A d \in Elems(members'[q]) :
                  d \in open' /\ name'[d] # None /\ room'[d] = q
  <2>1. CASE q = r
    <3>1. Len(ms) \in 2 .. setup.seats
      BY <1>1, <1>2, <1>3, <1>4, <1>6, SetupFacts
    <3> QED
      BY <1>1, <1>2, <1>4, <1>5, <1>6, <2>1, <3>1
  <2>2. CASE q # r
    BY <1>5, <1>6, <1>7, <2>2 DEF r
  <2> QED
    BY <2>1, <2>2
<1>8. ASSUME NEW d \in Clients, room'[d] # 0
      PROVE  d \in Elems(members'[room'[d]])
  <2>1. d # c /\ room'[d] = room[d] /\ room[d] \in Rooms
    BY <1>1, <1>5, <1>8
  <2>2. d \in Elems(members[room[d]])
    BY <1>8, <2>1 DEF RoomsOK
  <2> QED
    BY <1>2, <1>5, <2>1, <2>2
<1> QED
  BY <1>5, <1>7, <1>8 DEF RoomsOK, Elems, Distinct

\* The room that a JOIN of the holder of n leads to, and who is in it then.
JoinRoom(n) == IF room[byName[n]] = 0 THEN FreeRoom ELSE room[byName[n]]
Joined(c, n) == IF room[byName[n]] = 0 THEN <<byName[n], c>>
                ELSE Append(members[JoinRoom(n)], c)

LEMMA JoinFacts ==
  ASSUME TypeOK, RoomsOK, NamesLive, NEW c \in Clients, NEW n \in Names, Join(c, n)
  PROVE  /\ byName[n] \in open /\ byName[n] \in Clients /\ byName[n] # c
         /\ name[byName[n]] = n /\ room[byName[n]] \in {0, JoinRoom(n)}
         /\ JoinRoom(n) \in Rooms /\ Joined(c, n) \in Seq(Clients)
         /\ room[byName[n]] = 0 => members[JoinRoom(n)] = << >>
         /\ room[byName[n]] # 0 => ~started[JoinRoom(n)]
         /\ Elems(Joined(c, n)) = Elems(members[JoinRoom(n)]) \cup {byName[n], c}
         /\ Distinct(Joined(c, n)) /\ Len(Joined(c, n)) \in 2 .. setup.seats
<1> DEFINE t == byName[n]
           r == JoinRoom(n)
<1>1. c \in open /\ room[c] = 0 /\ Joinable(c, t)
  BY DEF Join
<1>2. t # c /\ t \in Clients /\ t \in open /\ name[t] = n
  BY <1>1 DEF Joinable, NamesLive, TypeOK
<1>3. CASE room[t] = 0
  <2>1. r \in Rooms /\ members[r] = << >>
    BY <1>1, <1>2, <1>3, RoomLeft DEF JoinRoom, FreeRoom
  <2>2. Joined(c, n) = <<t, c>>
    BY <1>3 DEF Joined
  <2>3. Joined(c, n) \in Seq(Clients) /\ Len(Joined(c, n)) = 2
    BY <1>2, <2>2
  <2>4. Distinct(Joined(c, n)) /\ Elems(Joined(c, n)) = {t, c}
    BY <1>2, <2>2 DEF Distinct, Elems
  <2>5. 2 \in 2 .. setup.seats
    BY SetupFacts
  <2> QED
    BY <1>2, <1>3, <2>1, <2>3, <2>4, <2>5, ElemsEmpty
<1>4. CASE room[t] # 0
  <2>1. /\ r = room[t] /\ r \in Rooms /\ members[r] \in Seq(Clients) /\ members[r] # << >>
        /\ t \in Elems(members[r])
    BY <1>2, <1>4, SeatFacts DEF JoinRoom
  <2>2. /\ Len(members[r]) \in 2 .. setup.seats /\ Distinct(members[r])
        /\ \A d \in Elems(members[r]) : room[d] = r
    BY <2>1 DEF RoomsOK
  <2>3. Len(members[r]) < setup.seats /\ ~started[r]
    BY <1>1, <1>4, <2>1 DEF Joinable
  <2>4. c \notin Elems(members[r])
    BY <1>1, <1>4, <2>1, <2>2
  <2>5. Joined(c, n) = Append(members[r], c)
    BY <1>4 DEF Joined
  <2> DEFINE ms == members[r]
  <2> HIDE DEF ms, r
  <2>6. /\ ms \in Seq(Clients) /\ Len(ms) \in 2 .. setup.seats /\ Distinct(ms)
        /\ Len(ms) < setup.seats /\ c \notin Elems(ms) /\ Joined(c, n) = Append(ms, c)
    BY <2>1, <2>2, <2>3, <2>4, <2>5 DEF ms
  <2>7. /\ Append(ms, c) \in Seq(Clients) /\ Len(Append(ms, c)) = Len(ms) + 1
        /\ \A i \in 1 .. Len(ms) : Append(ms, c)[i] = ms[i]
        /\ Append(ms, c)[Len(ms) + 1] = c
    BY <2>6, AppendProperties
  <2>8. Len(ms) \in Nat /\ setup.seats \in Nat
    BY <2>6, SetupFacts
  <2>9. Distinct(Append(ms, c))
    BY <2>6, <2>7, <2>8 DEF Distinct, Elems
  <2>10. Elems(Append(ms, c)) = Elems(ms) \cup {c}
    BY <2>7, <2>8 DEF Elems
  <2>11. Len(Append(ms, c)) \in 2 .. setup.seats
    BY <2>6, <2>7, <2>8
  <2> QED
    BY <1>2, <1>4, <2>1, <2>3, <2>6, <2>7, <2>9, <2>10, <2>11 DEF ms, r
<1> QED
  BY <1>3, <1>4

LEMMA JoinRooms ==
  ASSUME TypeOK, RoomsOK, NamesLive, NEW c \in Clients, NEW n \in Names, Join(c, n)
  PROVE  /\ RoomsOK'
         /\ room' \in [Clients -> Rooms \cup {0}] /\ members' \in [Rooms -> Seq(Clients)]
         /\ started' \in [Rooms -> BOOLEAN]
         /\ \A q \in Rooms : members'[q] = IF q = JoinRoom(n) THEN Joined(c, n)
                                            ELSE members[q]
         /\ \A d \in Clients : room'[d] = IF d \in {byName[n], c} THEN JoinRoom(n)
                                           ELSE room[d]
         /\ \A q \in Rooms : started'[q] =
              IF q = JoinRoom(n) THEN FALSE ELSE started[q]
<1> DEFINE t == byName[n]
           r == JoinRoom(n)
           ms == Joined(c, n)
<1>1. /\ t \in open /\ t \in Clients /\ t # c /\ name[t] = n /\ room[t] \in {0, r}
      /\ r \in Rooms /\ ms \in Seq(Clients)
      /\ Elems(ms) = Elems(members[r]) \cup {t, c}
      /\ Distinct(ms) /\ Len(ms) \in 2 .. setup.seats
      /\ room[t] = 0 \/ ~started[r]
  BY JoinFacts
<1>2. c \in open /\ room[c] = 0 /\ name[c] # None /\ n # None
  BY RelayAssumption DEF Join
<1>3. /\ members' = [members EXCEPT ![r] = ms]
      /\ started' = [started EXCEPT ![r] = @ /\ ~(room[t] = 0)]
      /\ room' = [room EXCEPT ![t] = r, ![c] = r]
      /\ UNCHANGED <<setup, open, name>>
  BY DEF Join, JoinRoom, Joined
<1>4. /\ members \in [Rooms -> Seq(Clients)] /\ room \in [Clients -> Rooms \cup {0}]
      /\ started \in [Rooms -> BOOLEAN]
  BY DEF TypeOK
<1> HIDE DEF t, r, ms
<1>5. /\ room' \in [Clients -> Rooms \cup {0}] /\ members' \in [Rooms -> Seq(Clients)]
      /\ \A q \in Rooms : members'[q] = IF q = r THEN ms ELSE members[q]
      /\ \A d \in Clients : room'[d] = IF d \in {t, c} THEN r ELSE room[d]
  BY <1>1, <1>3, <1>4
<1>6. /\ started' \in [Rooms -> BOOLEAN]
      /\ \A q \in Rooms : started'[q] = IF q = r THEN FALSE ELSE started[q]
  BY <1>1, <1>3, <1>4
<1>7. ASSUME NEW q \in Rooms, members[q] # << >>
      PROVE  /\ Len(members[q]) \in 2 .. setup.seats /\ Distinct(members[q])
             /\ \A d \in Elems(members[q]) :
                  d \in open /\ name[d] # None /\ room[d] = q /\ d \in Clients
  BY <1>4, <1>7, ElemsType DEF RoomsOK
<1>8. \A d \in Elems(members[r]) : members[r] # << >>
  BY ElemsEmpty
<1>9. ASSUME NEW q \in Rooms, members'[q] # << >>
      PROVE  /\ Len(members'[q]) \in 2 .. setup'.seats /\ Distinct(members'[q])
             /\ \A d \in Elems(members'[q]) :
                  d \in open' /\ name'[d] # None /\ room'[d] = q
  <2>1. CASE q = r
    BY <1>1, <1>2, <1>3, <1>5, <1>7, <1>8, <2>1
  <2>2. CASE q # r
    <3>1. members'[q] = members[q] /\ q # 0
      BY <1>5, <2>2, RoomsFacts
    <3>2. \A d \in Elems(members[q]) : d # t /\ d # c /\ d \in Clients
      BY <1>1, <1>2, <1>7, <1>9, <2>2, <3>1
    <3> QED
      BY <1>3, <1>5, <1>7, <1>9, <3>1, <3>2
  <2> QED
    BY <2>1, <2>2
<1>10. ASSUME NEW d \in Clients, room'[d] # 0
       PROVE  d \in Elems(members'[room'[d]])
  <2>1. CASE d \in {t, c}
    BY <1>1, <1>5, <2>1
  <2>2. CASE d \notin {t, c}
    <3>1. room'[d] = room[d] /\ room[d] \in Rooms /\ d \in Elems(members[room[d]])
      BY <1>4, <1>5, <1>10, <2>2 DEF RoomsOK
    <3> QED
      BY <1>1, <1>5, <3>1
  <2> QED
    BY <2>1, <2>2
<1> QED
  BY <1>5, <1>6, <1>9, <1>10 DEF RoomsOK, Elems, Distinct, t, r, ms

LEMMA UnchangedRooms ==
  ASSUME RoomsOK, UNCHANGED <<setup, open, name, room, members>>
  PROVE  RoomsOK'
  BY DEF RoomsOK, Elems, Distinct

-----------------------------------------------------------------------------
(* Every event keeps the invariant.                                        *)

\* The calls that a handler starts with.
Starts(p) ==
  /\ p \in Seq(Steps)
  /\ \A k \in Elems(p) : k.op = "loop" => Len(members'[k.room]) <= Len(k.frames)

LEMMA EventWork ==
  ASSUME TypeOK, setup' = setup, Starts(work')
  PROVE  /\ WorkOK' /\ HelloOK'
         /\ \A i \in 1 .. Len(work') :
              work'[i].op \in {"send", "drop", "loop", "hello", "lobby", "autogo"}
<1>1. work' \in Seq(Steps) /\ Elems(work') \subseteq Steps
  BY ElemsType DEF Starts
<1>2. work' \in Seq(AllCalls)
  <2> HIDE DEF Steps, AllCalls
  <2> QED
    BY <1>1, StepKinds, SeqMonotonic
<1>3. \A k \in Elems(work') : k.op # "hello"
  BY <1>1, StepKinds
<1>4. Bottom(work', "hello")
  BY <1>3 DEF Bottom, Elems
<1>5. HelloOK'
  BY <1>3, <1>4 DEF HelloOK, Elems
<1>6. LoopsOK'
  BY DEF LoopsOK, Starts, Elems
<1> QED
  BY <1>2, <1>5, <1>6, StackType DEF WorkOK

LEMMA IdleCounted ==
  ASSUME Counted, Idle, UNCHANGED <<byName, published>>
  PROVE  Counted'
  BY ElemsEmpty DEF Counted, Idle

LEMMA QuietStep ==
  ASSUME Inv, Idle, Starts(work'), UNCHANGED <<tables, view, published, fails>>
  PROVE  Inv'
<1>1. UNCHANGED <<setup, open, name, room, byName, order, members, started, view,
                  published, fails>>
  BY DEF tables
<1>2. /\ WorkOK' /\ HelloOK'
      /\ \A i \in 1 .. Len(work') :
           work'[i].op \in {"send", "drop", "loop", "hello", "lobby", "autogo"}
  BY <1>1, EventWork DEF Inv
<1>3. TypeOK'
  BY <1>1, <1>2 DEF TypeOK, Inv
<1>4. RoomsOK' /\ NamesLive' /\ Counted'
  BY <1>1, UnchangedRooms, UnchangedNames, IdleCounted DEF Inv
<1> QED
  BY <1>2, <1>3, <1>4 DEF Inv

LEMMA OneCall ==
  ASSUME NEW k \in Steps, k.op # "loop", work' = <<k>>
  PROVE  Starts(work')
<1>1. Elems(<<k>>) = {k}
  BY ElemsOne
<1>2. <<k>> \in Seq(Steps)
  <2> HIDE DEF Steps
  <2> QED
    OBVIOUS
<1> QED
  BY <1>1, <1>2 DEF Starts

LEMMA CloseStep ==
  ASSUME Inv, NEW c \in Clients, Close(c, "closed")
  PROVE  Inv'
<1>1. Drop(c, "closed") \in Steps /\ Drop(c, "closed").op # "loop"
  BY StepKinds DEF Drop, Drops
<1>2. Starts(work')
  BY <1>1, OneCall DEF Close
<1> QED
  BY <1>2, QuietStep DEF Close

LEMMA ListStep ==
  ASSUME Inv, NEW c \in Clients, NEW n, OnList(c) \/ JoinRefused(c, n)
  PROVE  Inv'
<1>1. LobbyFrame(c) \in Frames
  BY LobbyFrameType DEF Inv
<1>2. Send(c, LobbyFrame(c)) \in Steps
  BY <1>1, FrameKinds, StepKinds
<1>3. Send(c, LobbyFrame(c)).op # "loop"
  BY DEF Send
<1>4. work' = <<Send(c, LobbyFrame(c))>>
  BY DEF OnList, JoinRefused
<1>5. Starts(work')
  BY <1>2, <1>3, <1>4, OneCall
<1> QED
  BY <1>5, QuietStep DEF OnList, JoinRefused

LEMMA PingStep ==
  ASSUME Inv, NEW c \in Clients, OnPing(c)
  PROVE  Inv'
<1>1. Send(c, PongFrame) \in Steps
  BY FrameKinds, StepKinds
<1>2. Send(c, PongFrame).op # "loop"
  BY DEF Send
<1>3. Starts(work')
  BY <1>1, <1>2, OneCall DEF OnPing
<1> QED
  BY <1>3, QuietStep DEF OnPing

LEMMA MatchFrames ==
  ASSUME NEW c \in Clients, NEW ms \in Seq(Clients)
  PROVE  /\ [i \in 1 .. Len(ms) |-> MatchFrame(c, None)] \in Seq(Frames)
         /\ Len([i \in 1 .. Len(ms) |-> MatchFrame(c, None)]) = Len(ms)
<1>1. MatchFrame(c, None) \in Frames /\ Len(ms) \in Nat
  BY FrameKinds
<1> HIDE DEF Frames
<1> QED
  BY <1>1

LEMMA FanoutStarts ==
  ASSUME NEW r \in Rooms, NEW ms \in Seq(Clients), members'[r] = ms,
         NEW p \in Seq(Steps),
         \A k \in Elems(p) : Reaches(k, r, ms) \/ k.op \in {"lobby", "autogo"}
  PROVE  Starts(p)
  BY DEF Starts, Reaches

LEMMA MatchFrameStep ==
  ASSUME Inv, NEW c \in Clients, OnMatchFrame(c, None)
  PROVE  Inv'
<1> DEFINE ms == members[room[c]]
           fs == [i \in 1 .. Len(ms) |-> MatchFrame(c, None)]
<1>1. room[c] # 0 /\ Idle
  BY DEF OnMatchFrame, Relays
<1>2. room[c] \in Rooms /\ ms \in Seq(Clients)
  BY <1>1, SeatFacts DEF Inv
<1>3. fs \in Seq(Frames) /\ Len(fs) = Len(ms)
  BY <1>2, MatchFrames
<1>4. work' = Fanout(room[c], ms, fs, c) /\ members' = members
  BY DEF OnMatchFrame, tables
<1> HIDE DEF ms, fs
<1>5. /\ Fanout(room[c], ms, fs, c) \in Seq(Steps)
      /\ \A k \in Elems(Fanout(room[c], ms, fs, c)) : Reaches(k, room[c], ms)
  BY <1>2, <1>3, FanoutReaches
<1>6. members'[room[c]] = ms
  BY <1>4 DEF ms
<1>7. Starts(work')
  BY <1>2, <1>4, <1>5, <1>6, FanoutStarts
<1> QED
  BY <1>1, <1>7, QuietStep DEF OnMatchFrame

LEMMA AcceptStep ==
  ASSUME Inv, NEW c \in Clients, Accept(c)
  PROVE  Inv'
<1>1. /\ Idle /\ c \notin open /\ open' = open \cup {c}
      /\ name' = [name EXCEPT ![c] = None] /\ room' = [room EXCEPT ![c] = 0]
      /\ view' = [view EXCEPT ![c] = Solo]
      /\ UNCHANGED <<setup, byName, order, members, started, work, published, fails>>
  BY DEF Accept
<1>2. Solo \in [started : BOOLEAN, seat : 0 .. setup.seats, members : Seq(Clients)]
  BY SetupFacts DEF Inv, Solo
<1>3. TypeOK'
  BY <1>1, <1>2 DEF Inv, TypeOK
<1>4. WorkOK' /\ HelloOK'
  <2>1. Starts(work')
    BY <1>1, ElemsEmpty DEF Starts, Idle
  <2> QED
    BY <1>1, <2>1, EventWork DEF Inv
<1>5. Counted'
  BY <1>1, IdleCounted DEF Inv
<1>6. c # None /\ \A n \in Names : n # None
  BY RelayAssumption
<1>7. /\ name \in [Clients -> Names \cup {None}] /\ room \in [Clients -> Rooms \cup {0}]
      /\ open \subseteq Clients /\ members \in [Rooms -> Seq(Clients)]
      /\ byName \in [Names -> Clients \cup {None}]
  BY DEF Inv, TypeOK
<1>8. /\ \A d \in Clients : name'[d] = IF d = c THEN None ELSE name[d]
      /\ \A d \in Clients : room'[d] = IF d = c THEN 0 ELSE room[d]
  BY <1>1, <1>7
<1>9. NamesLive'
  <2>1. \A n \in Names : byName[n] # None =>
          byName[n] \in open' /\ name'[byName[n]] = n
    BY <1>1, <1>7, <1>8 DEF Inv, NamesLive
  <2>2. \A d \in open' : name'[d] # None => byName[name'[d]] = d
    BY <1>1, <1>7, <1>8 DEF Inv, NamesLive
  <2> QED
    BY <1>1, <2>1, <2>2 DEF Inv, NamesLive
<1>10. RoomsOK'
  <2>1. ASSUME NEW q \in Rooms, members[q] # << >>
        PROVE  /\ Len(members[q]) \in 2 .. setup.seats /\ Distinct(members[q])
               /\ \A d \in Elems(members[q]) :
                    d \in open' /\ name'[d] # None /\ room'[d] = q
    <3>1. /\ Len(members[q]) \in 2 .. setup.seats /\ Distinct(members[q])
          /\ \A d \in Elems(members[q]) : d \in open /\ name[d] # None /\ room[d] = q
      BY <2>1 DEF Inv, RoomsOK
    <3> QED
      BY <1>1, <1>7, <1>8, <3>1
  <2>2. ASSUME NEW d \in Clients, room'[d] # 0 PROVE d \in Elems(members[room'[d]])
    BY <1>8, <2>2 DEF Inv, RoomsOK
  <2> QED
    BY <1>1, <2>1, <2>2 DEF RoomsOK, Elems, Distinct
<1> QED
  BY <1>3, <1>4, <1>5, <1>9, <1>10 DEF Inv

LEMMA HelloStep ==
  ASSUME NoGhost, Inv, NEW c \in Clients, NEW n \in Names, OnHello(c, n)
  PROVE  Inv'
<1> DEFINE k == FinishHello(c, n)
           d == Drop(byName[n], "replaced")
<1>1. /\ Idle /\ c \in open /\ (name[c] = None \/ setup.rename)
      /\ work' = (IF byName[n] \in {None, c} THEN << >> ELSE <<d>>) \o <<k>>
      /\ UNCHANGED <<setup, open, name, room, byName, order, members, started, view,
                     published, fails>>
  BY DEF OnHello, tables
<1>2. /\ k \in AllCalls /\ k.op = "hello" /\ k.client = c /\ k.name = n
      /\ d.op = "drop" /\ d.client = byName[n]
  BY StepKinds DEF FinishHello, Drop
<1>3. byName[n] \notin {None, c} => d \in AllCalls
  BY StepKinds DEF Inv, TypeOK, Drop, Drops
<1>4. setup.impl = "py" => setup.maxFail = 0 \/ name[c] = None
  BY <1>1, SetupFacts DEF NoGhost, Inv, TypeOK
<1> HIDE DEF k, d
<1>5. /\ work' \in Seq(AllCalls) /\ Bottom(work', "hello")
      /\ \/ byName[n] \in {None, c} /\ Elems(work') = {k}
         \/ byName[n] \notin {None, c} /\ Elems(work') = {d, k} /\ Head(work') = d
  <2>1. CASE byName[n] \in {None, c}
    <3>1. work' = <<k>>
      <4> HIDE DEF AllCalls
      <4> QED
        BY <1>1, <1>2, <2>1, ConcatEmptySeq
    <3>2. <<k>> \in Seq(AllCalls) /\ Elems(<<k>>) = {k} /\ Bottom(<<k>>, "hello")
      <4> HIDE DEF AllCalls
      <4> QED
        BY <1>2, ElemsOne DEF Bottom
    <3> QED
      BY <2>1, <3>1, <3>2
  <2>2. CASE byName[n] \notin {None, c}
    <3>1. work' = <<d>> \o <<k>>
      BY <1>1, <2>2
    <3>2. <<d>> \o <<k>> \in Seq(AllCalls) /\ Elems(<<d>> \o <<k>>) = {d, k}
      BY <1>2, <1>3, <2>2, ElemsTwo
    <3>3. Head(<<d>> \o <<k>>) = d /\ Bottom(<<d>> \o <<k>>, "hello")
      <4> DEFINE w == <<d>> \o <<k>>
      <4>1. Len(w) = 2 /\ w[1] = d /\ Head(w) = d
        <5>1. d \in AllCalls /\ k \in AllCalls
          BY <1>2, <1>3, <2>2
        <5> QED
          BY <5>1, ElemsTwo, Zenon
      <4> HIDE DEF w
      <4>2. Bottom(w, "hello")
        BY <1>2, <4>1 DEF Bottom
      <4> QED
        BY <4>1, <4>2 DEF w
    <3> QED
      BY <2>2, <3>1, <3>2, <3>3
  <2> QED
    BY <2>1, <2>2
<1>6. \A j \in Elems(work') : j = k \/ (j = d /\ byName[n] \notin {None, c})
  <2>1. CASE byName[n] \in {None, c} /\ Elems(work') = {k}
    BY <2>1
  <2>2. CASE byName[n] \notin {None, c} /\ Elems(work') = {d, k}
    BY <2>2
  <2> QED
    BY <1>5, <2>1, <2>2
<1>7. WorkOK' /\ TypeOK'
  <2>1. /\ work' \in Seq(AllCalls')
        /\ \A i \in 1 .. Len(work') :
             work'[i].op \in {"send", "drop", "loop", "hello", "lobby", "autogo"}
    BY <1>1, <1>5, StackType DEF Inv
  <2>2. LoopsOK'
    BY <1>2, <1>6 DEF LoopsOK, Elems
  <2>3. TypeOK'
    BY <1>1, <2>1 DEF Inv, TypeOK
  <2> QED
    BY <2>1, <2>2, <2>3 DEF WorkOK
<1>8. HelloOK'
  <2>1. ASSUME NEW j \in Elems(work'), j.op = "hello"
        PROVE  /\ \/ byName[j.name] \in {None, j.client}
                  \/ Head(work').op = "drop" /\ Head(work').client = byName[j.name]
               /\ setup.impl = "py" =>
                    /\ j.client \in open
                    /\ setup.maxFail = 0 \/ name[j.client] = None
                    /\ \A i \in Elems(work') : Spares(i, j.client)
    <3>1. j = k
      BY <1>2, <1>6, <2>1
    <3>2. \/ byName[n] \in {None, c}
          \/ Head(work').op = "drop" /\ Head(work').client = byName[n]
      BY <1>2, <1>5
    <3>3. \A i \in Elems(work') : Spares(i, c)
      BY <1>2, <1>6 DEF Spares
    <3> QED
      BY <1>1, <1>2, <1>4, <3>1, <3>2, <3>3
  <2> QED
    BY <1>1, <1>5, <2>1 DEF HelloOK, Spares, Elems
<1>9. RoomsOK' /\ NamesLive' /\ Counted'
  BY <1>1, UnchangedRooms, UnchangedNames, IdleCounted DEF Inv
<1> QED
  BY <1>7, <1>8, <1>9 DEF Inv

LEMMA GoStep ==
  ASSUME Inv, NEW c \in Clients, OnGo(c)
  PROVE  Inv'
<1> DEFINE r == room[c]
           q == StartSends(r)
<1>1. /\ Idle /\ r # 0 /\ started' = [started EXCEPT ![r] = TRUE]
      /\ work' = q \o <<LobbyUpdate>>
      /\ UNCHANGED <<setup, open, name, room, byName, order, members, view, published,
                     fails>>
  BY DEF OnGo, MayGo
<1>2. r \in Rooms /\ members[r] \in Seq(Clients)
  BY <1>1, SeatFacts DEF Inv
<1>3. q \in Seq(Steps) /\ \A k \in Elems(q) : Reaches(k, r, members[r])
  BY <1>2, StartReaches DEF Inv
<1> HIDE DEF q, r
<1>4. /\ q \o <<LobbyUpdate>> \in Seq(Steps)
      /\ Elems(q \o <<LobbyUpdate>>) = Elems(q) \cup {LobbyUpdate}
  BY <1>3, LobbyHarmless, ElemsEnd
<1>5. Starts(work')
  <2>1. members'[r] = members[r]
    BY <1>1
  <2>2. \A k \in Elems(work') : Reaches(k, r, members[r]) \/ k.op \in {"lobby", "autogo"}
    BY <1>1, <1>3, <1>4, LobbyHarmless
  <2> QED
    BY <1>1, <1>2, <1>4, <2>1, <2>2, FanoutStarts
<1>6. /\ WorkOK' /\ HelloOK'
      /\ \A i \in 1 .. Len(work') :
           work'[i].op \in {"send", "drop", "loop", "hello", "lobby", "autogo"}
  BY <1>1, <1>5, EventWork DEF Inv
<1>7. TypeOK'
  BY <1>1, <1>2, <1>6 DEF Inv, TypeOK
<1>8. RoomsOK' /\ NamesLive' /\ Counted'
  BY <1>1, UnchangedRooms, UnchangedNames, IdleCounted DEF Inv
<1> QED
  BY <1>6, <1>7, <1>8 DEF Inv

LEMMA JoinStep ==
  ASSUME Inv, NEW c \in Clients, NEW n \in Names, Join(c, n)
  PROVE  Inv'
<1> DEFINE r == JoinRoom(n)
           ms == Joined(c, n)
           q == RoomBroadcast(r, ms)
           ends == <<LobbyUpdate, TryAutoGo(r)>>
<1>1. /\ Idle /\ work' = q \o ends
      /\ UNCHANGED <<setup, open, name, byName, order, view, published, fails>>
  BY DEF Join, JoinRoom, Joined
<1>2. /\ RoomsOK' /\ room' \in [Clients -> Rooms \cup {0}]
      /\ members' \in [Rooms -> Seq(Clients)] /\ started' \in [Rooms -> BOOLEAN]
  <2>1. TypeOK /\ RoomsOK /\ NamesLive
    BY DEF Inv
  <2>2. /\ RoomsOK'
        /\ room' \in [Clients -> Rooms \cup {0}] /\ members' \in [Rooms -> Seq(Clients)]
        /\ started' \in [Rooms -> BOOLEAN]
    BY <2>1, JoinRooms
  <2> QED
    BY <2>2
<1>3. r \in Rooms /\ ms \in Seq(Clients)
  BY JoinFacts DEF Inv
<1>4. q \in Seq(Steps) /\ \A k \in Elems(q) : Reaches(k, r, ms)
  BY <1>3, BroadcastReaches
<1>5. /\ ends \in Seq(Steps)
      /\ \A k \in Elems(ends) : k.op \in {"lobby", "autogo"}
  <2>1. LobbyUpdate \in Steps /\ TryAutoGo(r) \in Steps
    BY <1>3, StepKinds
  <2>2. Elems(ends) = {LobbyUpdate, TryAutoGo(r)}
    BY DEF Elems
  <2>3. TryAutoGo(r).op = "autogo" /\ LobbyUpdate.op = "lobby"
    BY DEF TryAutoGo, LobbyUpdate
  <2>4. ends \in Seq(Steps)
    <3> HIDE DEF Steps
    <3> QED
      BY <2>1
  <2> QED
    BY <2>2, <2>3, <2>4
<1> HIDE DEF q, ends, r, ms
<1>6. q \o ends \in Seq(Steps) /\ Elems(q \o ends) = Elems(q) \cup Elems(ends)
  <2>1. q \o ends \in Seq(Steps)
    BY <1>4, <1>5, ConcatProperties
  <2>2. Elems(q \o ends) = Elems(q) \cup Elems(ends)
    BY <1>4, <1>5, ElemsConcat
  <2> QED
    BY <2>1, <2>2
<1>7. Starts(work')
  <2>1. members'[r] = ms
    BY <1>3 DEF Join, JoinRoom, Joined, Inv, TypeOK, r, ms
  <2>2. \A k \in Elems(work') : Reaches(k, r, ms) \/ k.op \in {"lobby", "autogo"}
    BY <1>1, <1>4, <1>5, <1>6
  <2> QED
    BY <1>1, <1>3, <1>6, <2>1, <2>2, FanoutStarts
<1>8. /\ WorkOK' /\ HelloOK'
      /\ \A i \in 1 .. Len(work') :
           work'[i].op \in {"send", "drop", "loop", "hello", "lobby", "autogo"}
  BY <1>1, <1>7, EventWork DEF Inv
<1>9. TypeOK'
  BY <1>1, <1>2, <1>8 DEF Inv, TypeOK
<1>10. NamesLive' /\ Counted'
  BY <1>1, UnchangedNames, IdleCounted DEF Inv
<1> QED
  BY <1>2, <1>8, <1>9, <1>10 DEF Inv

-----------------------------------------------------------------------------
(* Every call keeps the invariant.                                         *)

LEMMA LenMembers ==
  ASSUME TypeOK
  PROVE  \A r \in Rooms : Len(members[r]) \in Nat
  BY DEF TypeOK

\* A call that only changes the stack, what a client was told, the count that
\* is published, or the number of failures.
LEMMA CallStep ==
  ASSUME Inv, NEW p, Leaves(p), UNCHANGED tables, Call.op \notin {"hello", "drop"},
         view' \in [Clients -> [started : BOOLEAN, seat : 0 .. setup.seats,
                               members : Seq(Clients)]],
         \/ published' = published /\ Call.op # "lobby"
         \/ published' = Cardinality({n \in Names : byName[n] # None}),
         fails' \in 0 .. setup.maxFail
  PROVE  Inv'
<1>1. UNCHANGED <<setup, open, name, room, byName, order, members, started>>
  BY DEF tables
<1>2. /\ WorkOK'
      /\ \A i \in 1 .. Len(work') :
           work'[i].op \in {"send", "drop", "loop", "hello", "lobby", "autogo"}
  BY <1>1, HandlerWork, LenMembers DEF Inv
<1>3. HelloOK'
  BY <1>1, HandlerHello DEF Inv
<1>4. Counted'
  BY <1>1, HandlerCounted DEF Inv
<1>5. published' \in Nat
  BY HeldFinite DEF Inv, TypeOK, Held
<1>6. TypeOK'
  BY <1>1, <1>2, <1>5 DEF Inv, TypeOK
<1>7. RoomsOK' /\ NamesLive'
  BY <1>1, UnchangedRooms, UnchangedNames DEF Inv
<1> QED
  BY <1>2, <1>3, <1>4, <1>6, <1>7 DEF Inv

Views == [started : BOOLEAN, seat : 0 .. setup.seats, members : Seq(Clients)]

LEMMA ToldType ==
  ASSUME setup.seats \in Nat, NEW v \in Views, NEW f \in Frames
  PROVE  Told(v, f) \in Views
<1>1. CASE f \in [type : {"ROOM"}, members : Seq(Clients)]
  <2>1. f.type = "ROOM" /\ f.members \in Seq(Clients)
    BY <1>1
  <2>2. Told(v, f) = [Solo EXCEPT !.members = f.members]
    BY <2>1 DEF Told
  <2>3. Solo \in Views
    BY DEF Solo, Views
  <2>4. \A s \in Views, ms \in Seq(Clients) : [s EXCEPT !.members = ms] \in Views
    BY DEF Views
  <2> QED
    BY <2>1, <2>2, <2>3, <2>4, Zenon
<1>2. CASE f \in [type : {"START"}, seat : 0 .. setup.seats, members : Seq(Clients)]
  BY <1>2 DEF Told, Views
<1>3. CASE f \in [type : {"PEER_LEFT"}, seat : Nat, who : Clients]
  BY <1>3 DEF Told, Solo, Views
<1>4. CASE f.type \in {"PONG", "MATCH", "LOBBY"}
  BY <1>4 DEF Told
<1> QED
  BY <1>1, <1>2, <1>3, <1>4 DEF Frames

LEMMA SendFrameStep ==
  ASSUME Inv, SendFrame
  PROVE  Inv'
<1>1. /\ work # << >> /\ Call.op = "send"
      /\ view' = IF Call.to \in open
                 THEN [view EXCEPT ![Call.to] = Told(@, Call.frame)] ELSE view
      /\ UNCHANGED <<tables, published, fails>>
  BY DEF SendFrame, Calls
<1>2. Call.to \in Clients /\ Call.frame \in Frames
  BY <1>1, ElemsTail, CallKinds DEF Inv, WorkOK, Call
<1>3. view \in [Clients -> Views] /\ fails \in 0 .. setup.maxFail
  BY DEF Inv, TypeOK, Views
<1>4. Told(view[Call.to], Call.frame) \in Views
  <2>1. setup.seats \in Nat /\ view[Call.to] \in Views
    BY <1>2, <1>3, SetupFacts DEF Inv
  <2> HIDE DEF Frames
  <2> QED
    BY <1>2, <2>1, ToldType
<1>5. view' \in [Clients -> Views]
  BY <1>1, <1>3, <1>4
<1>6. Leaves(<< >>)
  BY SendFrameLeaves DEF Inv
<1> QED
  BY <1>1, <1>3, <1>5, <1>6, CallStep DEF Views

LEMMA SendFailsStep ==
  ASSUME Inv, SendFails
  PROVE  Inv'
<1>1. Leaves(<<Drop(Call.to, "send error")>>)
  BY SendFailsLeaves DEF Inv
<1>2. /\ Call.op = "send" /\ fails < setup.maxFail /\ fails' = fails + 1
      /\ UNCHANGED <<tables, view, published>>
  BY DEF SendFails, Calls
<1>3. /\ view \in [Clients -> [started : BOOLEAN, seat : 0 .. setup.seats,
                               members : Seq(Clients)]]
      /\ fails \in 0 .. setup.maxFail
  BY DEF Inv, TypeOK
<1>4. fails' \in 0 .. setup.maxFail
  <2>1. setup.maxFail \in Nat
    BY SetupFacts DEF Inv
  <2> QED
    BY <1>2, <1>3, <2>1
<1>5. view' = view /\ published' = published /\ UNCHANGED tables
  BY <1>2
<1> QED
  BY <1>1, <1>2, <1>3, <1>4, <1>5, CallStep

LEMMA NextMemberStep ==
  ASSUME Inv, NextMember
  PROVE  Inv'
<1>1. PICK p : Leaves(p)
  BY NextMemberLeaves DEF Inv
<1>2. Call.op = "loop" /\ UNCHANGED <<tables, view, published, fails>>
  BY DEF NextMember, Calls
<1>3. /\ view \in [Clients -> [started : BOOLEAN, seat : 0 .. setup.seats,
                               members : Seq(Clients)]]
      /\ fails \in 0 .. setup.maxFail
  BY DEF Inv, TypeOK
<1> QED
  BY <1>1, <1>2, <1>3, CallStep

LEMMA UpdateLobbyStep ==
  ASSUME Inv, UpdateLobby
  PROVE  Inv'
<1>1. Leaves(<< >>)
  BY UpdateLobbyLeaves DEF Inv
<1>2. /\ Call.op = "lobby" /\ UNCHANGED <<tables, view, fails>>
      /\ published' = Cardinality({n \in Names : byName[n] # None})
  BY DEF UpdateLobby, Calls
<1>3. /\ view \in [Clients -> [started : BOOLEAN, seat : 0 .. setup.seats,
                               members : Seq(Clients)]]
      /\ fails \in 0 .. setup.maxFail
  BY DEF Inv, TypeOK
<1> QED
  BY <1>1, <1>2, <1>3, CallStep

LEMMA AutoStartStep ==
  ASSUME Inv, AutoStart
  PROVE  Inv'
<1>1. PICK p : Leaves(p)
  BY AutoStartLeaves DEF Inv
<1>2. /\ Call.op = "autogo"
      /\ UNCHANGED <<setup, open, name, room, byName, order, members, view, published,
                     fails>>
  BY DEF AutoStart, Calls
<1>3. started' \in [Rooms -> BOOLEAN]
  BY DEF AutoStart, Inv, TypeOK
<1>4. /\ WorkOK'
      /\ \A i \in 1 .. Len(work') :
           work'[i].op \in {"send", "drop", "loop", "hello", "lobby", "autogo"}
  BY <1>1, <1>2, HandlerWork, LenMembers DEF Inv
<1>5. HelloOK' /\ Counted'
  BY <1>1, <1>2, HandlerHello, HandlerCounted DEF Inv
<1>6. TypeOK'
  BY <1>2, <1>3, <1>4 DEF Inv, TypeOK
<1>7. RoomsOK' /\ NamesLive'
  BY <1>2, UnchangedRooms, UnchangedNames DEF Inv
<1> QED
  BY <1>4, <1>5, <1>6, <1>7 DEF Inv

LEMMA HelloDoneStep ==
  ASSUME Inv, HelloDone
  PROVE  Inv'
<1> DEFINE c == Call.client
           n == Call.name
<1>1. /\ work # << >> /\ Call.op = "hello"
      /\ UNCHANGED <<setup, open, room, members, started, view, published, fails>>
  BY DEF HelloDone, Calls
<1>2. work \in Seq(AllCalls) /\ Call \in AllCalls /\ Call \in Elems(work)
  BY <1>1, ElemsTail DEF Inv, WorkOK, Call
<1>3. c \in Clients /\ n \in Names
  BY <1>1, <1>2, CallKinds
<1>4. Tail(work) = << >>
  <2>1. Bottom(work, "hello")
    BY DEF Inv, HelloOK
  <2>2. << >> \in Seq(AllCalls) /\ \A k \in Elems(<< >>) : k.op # "hello"
    BY ElemsEmpty
  <2> QED
    BY <1>1, <1>2, <2>1, <2>2, BottomKept DEF Call
<1>5. /\ byName[n] \in {None, c}
      /\ setup.impl = "py" => c \in open
  BY <1>1, <1>2 DEF Inv, HelloOK, Call
<1>6. CASE setup.impl = "c" /\ c \notin open
  <2>1. work' = << >> /\ UNCHANGED <<name, byName, order>>
    BY <1>4, <1>6 DEF HelloDone, Return
  <2>2. Starts(work')
    BY <2>1, ElemsEmpty DEF Starts
  <2>3. /\ WorkOK' /\ HelloOK'
        /\ \A i \in 1 .. Len(work') :
             work'[i].op \in {"send", "drop", "loop", "hello", "lobby", "autogo"}
    BY <1>1, <2>2, EventWork DEF Inv
  <2>4. TypeOK' /\ RoomsOK' /\ NamesLive'
    BY <1>1, <2>1, <2>3, UnchangedRooms, UnchangedNames DEF Inv, TypeOK
  <2>5. Counted'
    <3>1. Elems(work) = {Call}
      BY <1>1, <1>2, <1>4, ElemsTail, ElemsEmpty DEF Call
    <3> QED
      BY <1>1, <2>1, <3>1 DEF Inv, Counted
  <2> QED
    BY <2>3, <2>4, <2>5 DEF Inv
<1>7. CASE ~(setup.impl = "c" /\ c \notin open)
  <2>1. c \in open
    BY <1>5, <1>7, SetupFacts DEF Inv
  <2>2. /\ name' = [name EXCEPT ![c] = n] /\ byName' = Registered(c, n)
        /\ order' = Reordered(c, n)
        /\ work' = <<LobbyUpdate, Send(c, LobbyFrame(c))>> \o Tail(work)
    BY <1>7 DEF HelloDone, ThenReturn
  <2>3. /\ LobbyUpdate \in Steps /\ Send(c, LobbyFrame(c)) \in Steps
        /\ LobbyUpdate.op = "lobby" /\ Send(c, LobbyFrame(c)).op = "send"
    <3>1. LobbyFrame(c) \in Frames
      BY <1>3, LobbyFrameType DEF Inv
    <3> QED
      BY <1>3, <3>1, LobbyHarmless, FrameKinds, StepKinds DEF Send
  <2> DEFINE s == Send(c, LobbyFrame(c))
             p == <<LobbyUpdate, s>>
  <2>4. p \in Seq(Steps) /\ Elems(p) = {LobbyUpdate, s}
    <3> HIDE DEF Steps, s
    <3>1. p \in Seq(Steps)
      BY <2>3 DEF s
    <3>2. Elems(p) = {LobbyUpdate, s}
      BY DEF Elems
    <3> QED
      BY <3>1, <3>2
  <2>5. work' = p
    BY <1>4, <2>2, <2>4, ConcatEmptySeq
  <2> HIDE DEF c, n, p
  <2>6. Starts(work')
    BY <2>3, <2>4, <2>5 DEF Starts
  <2>7. /\ WorkOK' /\ HelloOK'
        /\ \A i \in 1 .. Len(work') :
             work'[i].op \in {"send", "drop", "loop", "hello", "lobby", "autogo"}
    BY <1>1, <2>6, EventWork DEF Inv
  <2>8. /\ NamesLive'
        /\ byName' \in [Names -> Clients \cup {None}] /\ order' \in Seq(Names)
    BY <1>1, <1>3, <1>5, <2>1, <2>2, RegisterNames DEF Inv
  <2>9. name \in [Clients -> Names \cup {None}]
    BY DEF Inv, TypeOK
  <2>10. name' \in [Clients -> Names \cup {None}]
    BY <1>3, <2>2, <2>9
  <2>11. TypeOK'
    BY <1>1, <2>7, <2>8, <2>10 DEF Inv, TypeOK
  <2>12. RoomsOK'
    <3>1. \A d \in Clients : name[d] # None => name'[d] # None
      BY <1>3, <2>2, <2>9, RelayAssumption
    <3>2. \A q \in Rooms : Elems(members[q]) \subseteq Clients
      BY ElemsType DEF Inv, TypeOK
    <3> QED
      BY <1>1, <3>1, <3>2 DEF Inv, RoomsOK, Elems, Distinct
  <2>13. Counted'
    BY <2>3, <2>4, <2>5 DEF Counted, Elems
  <2> QED
    BY <2>7, <2>8, <2>11, <2>12, <2>13 DEF Inv
<1> QED
  BY <1>6, <1>7

LEMMA DropSoloStep ==
  ASSUME Inv, DropSolo
  PROVE  Inv'
<1> DEFINE c == Call.client
<1>1. work # << >> /\ Call.op = "drop" /\ c \in Clients
  BY DropCall DEF DropSolo, Inv
<1>2. room[c] = 0 /\ UNCHANGED <<setup, name, room, members, started, view, published, fails>>
  BY DEF DropSolo
<1>3. PICK p : Leaves(p)
  BY DropSoloLeaves DEF Inv
<1>4. \/ c \in open /\ Forget(c)
      \/ c \notin open /\ UNCHANGED <<open, byName, order>>
  BY DEF DropSolo
<1> HIDE DEF c
<1>5. /\ NamesLive'
      /\ byName' \in [Names -> Clients \cup {None}] /\ order' \in Seq(Names)
      /\ \A n \in Names : byName'[n] \in {None, byName[n]} /\ byName'[n] # c
      /\ open' = open \ {c}
  <2>1. CASE c \in open /\ Forget(c)
    <3>1. open' = open \ {c}
      BY <2>1 DEF Forget
    <3> QED
      BY <1>1, <1>2, <2>1, <3>1, ForgetNames DEF Inv
  <2>2. CASE c \notin open /\ UNCHANGED <<open, byName, order>>
    <3>1. NamesLive'
      BY <1>2, <2>2, UnchangedNames DEF Inv
    <3>2. /\ byName' \in [Names -> Clients \cup {None}] /\ order' \in Seq(Names)
          /\ \A n \in Names : byName'[n] = byName[n] /\ byName[n] # c
      BY <1>1, <2>2, RelayAssumption DEF Inv, TypeOK, NamesLive
    <3> QED
      BY <2>2, <3>1, <3>2
  <2> QED
    BY <1>4, <2>1, <2>2
<1>6. /\ WorkOK'
      /\ \A i \in 1 .. Len(work') :
           work'[i].op \in {"send", "drop", "loop", "hello", "lobby", "autogo"}
  BY <1>2, <1>3, HandlerWork, LenMembers DEF Inv
<1>7. HelloOK'
  BY <1>1, <1>2, <1>3, <1>5, HandlerHello DEF Inv, c
<1>8. Counted'
  BY <1>1, <1>2, <1>3, HandlerCounted DEF Inv
<1>9. TypeOK'
  BY <1>2, <1>5, <1>6 DEF Inv, TypeOK
<1>10. RoomsOK'
  <2>1. \A q \in Rooms : \A d \in Elems(members[q]) : members[q] # << >> /\ q # 0
    BY ElemsEmpty, RoomsFacts
  <2>2. \A q \in Rooms : \A d \in Elems(members[q]) : d # c
    BY <1>2, <2>1 DEF Inv, RoomsOK
  <2> QED
    BY <1>2, <1>5, <2>2 DEF Inv, RoomsOK, Elems, Distinct
<1> QED
  BY <1>5, <1>6, <1>7, <1>8, <1>9, <1>10 DEF Inv

LEMMA DropMemberStep ==
  ASSUME Inv, DropFromMatch \/ DropFromForming \/ DropReseats
  PROVE  Inv'
<1> DEFINE c == Call.client
<1>1. work # << >> /\ Call.op = "drop" /\ c \in Clients
  BY DropCall DEF DropFromMatch, DropFromForming, DropReseats, Inv
<1>2. /\ room[c] # 0 /\ Forget(c) /\ UNCHANGED <<setup, name, started, view, published, fails>>
  BY DEF DropFromMatch, DropFromForming, DropReseats
<1>3. PICK p : Leaves(p)
  BY DropMemberLeaves DEF Inv
<1>4. \/ Dissolve(room[c])
      \/ /\ ~FormingEnds(c) /\ room' = [room EXCEPT ![c] = 0]
         /\ members' = [members EXCEPT ![room[c]] = Survivors(c)]
  BY DEF DropFromMatch, DropFromForming, DropReseats
<1> HIDE DEF c
<1>5. open' = open \ {c}
  BY <1>2 DEF Forget
<1>6. /\ NamesLive'
      /\ byName' \in [Names -> Clients \cup {None}] /\ order' \in Seq(Names)
      /\ \A n \in Names : byName'[n] \in {None, byName[n]} /\ byName'[n] # c
  BY <1>1, <1>2, ForgetNames DEF Inv
<1>7. /\ RoomsOK'
      /\ room' \in [Clients -> Rooms \cup {0}] /\ members' \in [Rooms -> Seq(Clients)]
      /\ \A q \in Rooms : /\ Len(members'[q]) \in Nat /\ Len(members[q]) \in Nat
                           /\ Len(members'[q]) <= Len(members[q])
  <2>0. \A q \in Rooms : members[q] \in Seq(Clients)
    BY DEF Inv, TypeOK
  <2>1. CASE Dissolve(room[c])
    <3>1. /\ RoomsOK'
          /\ room' \in [Clients -> Rooms \cup {0}]
          /\ members' \in [Rooms -> Seq(Clients)]
          /\ \A q \in Rooms : members'[q] \in {members[q], << >>}
      BY <1>1, <1>2, <1>5, <2>1, DissolveRooms DEF Inv
    <3>2. ASSUME NEW q \in Rooms
          PROVE  /\ Len(members'[q]) \in Nat /\ Len(members[q]) \in Nat
                 /\ Len(members'[q]) <= Len(members[q])
      BY <2>0, <3>1
    <3> QED
      BY <3>1, <3>2
  <2>2. CASE /\ ~FormingEnds(c) /\ room' = [room EXCEPT ![c] = 0]
             /\ members' = [members EXCEPT ![room[c]] = Survivors(c)]
    <3>1. /\ RoomsOK'
          /\ room' \in [Clients -> Rooms \cup {0}]
          /\ members' \in [Rooms -> Seq(Clients)]
      BY <1>1, <1>2, <1>5, <2>2, ReseatRooms DEF Inv
    <3>2. Survivors(c) \in Seq(Clients) /\ Len(Survivors(c)) < Len(members[room[c]])
      BY <1>1, <1>2, SurvivorFacts DEF Inv
    <3>3. members \in [Rooms -> Seq(Clients)]
      BY DEF Inv, TypeOK
    <3>4. ASSUME NEW q \in Rooms
          PROVE  /\ Len(members'[q]) \in Nat /\ Len(members[q]) \in Nat
                 /\ Len(members'[q]) <= Len(members[q])
      <4>1. members'[q] = IF q = room[c] THEN Survivors(c) ELSE members[q]
        BY <2>2, <3>3
      <4> QED
        BY <2>0, <3>2, <4>1
    <3> QED
      BY <3>1, <3>4
  <2> QED
    BY <1>4, <2>1, <2>2
<1>8. /\ WorkOK'
      /\ \A i \in 1 .. Len(work') :
           work'[i].op \in {"send", "drop", "loop", "hello", "lobby", "autogo"}
  BY <1>2, <1>3, <1>7, HandlerWork DEF Inv
<1>9. HelloOK'
  BY <1>1, <1>2, <1>3, <1>5, <1>6, HandlerHello DEF Inv, c
<1>10. Counted'
  BY <1>1, <1>2, <1>3, HandlerCounted DEF Inv
<1>11. open' \subseteq Clients
  BY <1>5 DEF Inv, TypeOK
<1>12. TypeOK'
  BY <1>2, <1>6, <1>7, <1>8, <1>11 DEF Inv, TypeOK
<1> QED
  BY <1>6, <1>7, <1>8, <1>9, <1>10, <1>12 DEF Inv

-----------------------------------------------------------------------------
(* The theorems.                                                           *)

LEMMA InitInv == Init => Inv
<1> SUFFICES ASSUME Init PROVE Inv
  OBVIOUS
<1>1. /\ setup \in Setups /\ open = {} /\ name = [c \in Clients |-> None]
      /\ room = [c \in Clients |-> 0] /\ byName = [n \in Names |-> None]
      /\ order = << >> /\ members = [r \in Rooms |-> << >>]
      /\ started = [r \in Rooms |-> FALSE] /\ work = << >>
      /\ view = [c \in Clients |-> Solo] /\ published = 0 /\ fails = 0
  BY DEF Init, Boot
<1>2. setup.seats \in Nat /\ setup.maxFail \in Nat
  BY <1>1, RelayAssumption
<1>3. Solo \in [started : BOOLEAN, seat : 0 .. setup.seats, members : Seq(Clients)]
  BY <1>2 DEF Solo
<1>4. TypeOK
  BY <1>1, <1>2, <1>3 DEF TypeOK
<1>5. WorkOK /\ HelloOK
  BY <1>1, ElemsEmpty DEF WorkOK, LoopsOK, HelloOK, Bottom
<1>6. RoomsOK
  BY <1>1 DEF RoomsOK
<1>7. {n \in Names : byName[n] # None} = {}
  BY <1>1
<1>8. NamesLive
  BY <1>1, <1>7 DEF NamesLive
<1>9. Counted
  BY <1>1, <1>7, FS_EmptySet DEF Counted
<1> QED
  BY <1>4, <1>5, <1>6, <1>8, <1>9 DEF Inv

LEMMA NextInv == ASSUME NoGhost PROVE Inv /\ [Next]_vars => Inv'
<1> SUFFICES ASSUME Inv, [Next]_vars PROVE Inv'
  OBVIOUS
<1>1. CASE Event
  <2>1. PICK c \in Clients :
          \/ Accept(c) \/ Close(c, "closed") \/ OnList(c) \/ OnPing(c) \/ OnGo(c)
          \/ OnMatchFrame(c, None)
          \/ \E n \in Names : OnHello(c, n) \/ JoinRefused(c, n) \/ Join(c, n)
    BY <1>1 DEF Event
  <2> QED
    BY <2>1, AcceptStep, CloseStep, ListStep, PingStep, GoStep, MatchFrameStep,
       HelloStep, JoinStep, Zenon
<1>2. CASE Handler
  BY <1>2, SendFrameStep, SendFailsStep, NextMemberStep, HelloDoneStep,
     UpdateLobbyStep, AutoStartStep, DropSoloStep, DropMemberStep, Zenon DEF Handler
<1>3. CASE UNCHANGED vars
  <2>1. UNCHANGED <<setup, open, name, room, byName, order, members, started, work,
                    view, published, fails>>
    BY <1>3 DEF vars, tables
  <2>2. TypeOK'
    BY <2>1 DEF Inv, TypeOK
  <2>3. RoomsOK' /\ NamesLive'
    BY <2>1, UnchangedRooms, UnchangedNames DEF Inv
  <2>4. WorkOK'
    <3>1. LoopsOK'
      BY <2>1 DEF Inv, WorkOK, LoopsOK, Elems
    <3> QED
      BY <2>1, <3>1, StackType DEF Inv, WorkOK
  <2>5. Counted'
    BY <2>1 DEF Inv, Counted, Elems
  <2>6. HelloOK'
    BY <2>1 DEF Inv, HelloOK, Bottom, Spares, Elems
  <2> QED
    BY <2>2, <2>3, <2>4, <2>5, <2>6 DEF Inv
<1> QED
  BY <1>1, <1>2, <1>3 DEF Next

\* Along every run of the relay, of both implementations, the tables are
\* consistent, in the middle of a handler too.
THEOREM TablesSound == ASSUME NoGhost PROVE Spec => []Inv
<1>1. Init => Inv
  BY InitInv
<1>2. Inv /\ [Next]_vars => Inv'
  BY NextInv
<1> QED
  BY <1>1, <1>2, PTL DEF Spec

\* The relay's tables keep their types.
THEOREM TypeCorrect == ASSUME NoGhost PROVE Spec => []TypeOK
<1>1. Inv => TypeOK
  BY DEF Inv
<1> QED
  BY <1>1, TablesSound, PTL

\* Between two events every room is whole (on_join, drop, dissolve), whatever
\* sends failed.
THEOREM RoomsStayWhole == ASSUME NoGhost PROVE Spec => []RoomsWhole
<1>1. Inv => RoomsWhole
  <2> SUFFICES ASSUME Inv PROVE RoomsWhole
    OBVIOUS
  <2>1. ASSUME NEW r \in Rooms, members[r] # << >>
        PROVE  /\ Len(members[r]) \in 2 .. setup.seats
               /\ \A i, j \in 1 .. Len(members[r]) :
                    members[r][i] = members[r][j] => i = j
               /\ \A i \in 1 .. Len(members[r]) :
                    /\ members[r][i] \in open /\ name[members[r][i]] # None
                    /\ room[members[r][i]] = r
    BY <2>1 DEF Inv, RoomsOK, Elems, Distinct
  <2>2. ASSUME NEW c \in open, room[c] # 0
        PROVE  \E i \in 1 .. Len(members[room[c]]) : members[room[c]][i] = c
    <3>1. c \in Clients
      BY DEF Inv, TypeOK
    <3>2. c \in Elems(members[room[c]])
      BY <2>2, <3>1 DEF Inv, RoomsOK
    <3> QED
      BY <3>2 DEF Elems
  <2> QED
    BY <2>1, <2>2 DEF RoomsWhole
<1> QED
  BY <1>1, TablesSound, PTL

\* by_name holds exactly the connected clients that said HELLO (on_hello, drop).
THEOREM NamesStayLive == ASSUME NoGhost PROVE Spec => []NamesLive
<1>1. Inv => NamesLive
  BY DEF Inv
<1> QED
  BY <1>1, TablesSound, PTL

\* Between two events the count that was published last is the number of names
\* (lobby_update).
THEOREM CountIsPublished == ASSUME NoGhost PROVE Spec => []CountPublished
<1>1. Inv => CountPublished
  BY ElemsEmpty DEF Inv, Counted, CountPublished, Idle
<1> QED
  BY <1>1, TablesSound, PTL
=============================================================================
