---------------------------- MODULE LobbyProofs ----------------------------
(* Theorems about LobbyPublisher, for every value of its constants.        *)
EXTENDS LobbyPublisher, TLAPS

-----------------------------------------------------------------------------
(* Type correctness.                                                       *)

\* A POST, whatever comes of it, leaves a well-typed entry and counts at most
\* one failure.
LEMMA PostedType ==
  ASSUME TypeOK, NEW payload \in [count : Counts, online : BOOLEAN],
         NEW o \in Outcomes, Posted(payload, o)
  PROVE  entry' \in [count : Counts, online : BOOLEAN] /\ fails' \in 0 .. MaxFail
  BY PublisherAssumption DEF TypeOK, Posted, Outcomes

\* Every step keeps the types.
LEMMA TypeStep == TypeOK /\ [Next]_vars => TypeOK'
<1> SUFFICES ASSUME TypeOK, [Next]_vars PROVE TypeOK'
  OBVIOUS
<1> USE PublisherAssumption
<1>1. ASSUME NEW n \in Counts, Update(n) PROVE TypeOK'
  BY <1>1 DEF TypeOK, Update, Woken, Payload
<1>2. CASE Shutdown
  BY <1>2 DEF TypeOK, Shutdown, Woken, Payload, history
<1>3. CASE SetStopEvt
  BY <1>3 DEF TypeOK, SetStopEvt, Payload, history
<1>4. CASE Join
  BY <1>4 DEF TypeOK, Join, Payload, history, shared
<1>5. CASE FinalPost
  <2>1. Payload \in [count : Counts, online : BOOLEAN]
    BY DEF TypeOK
  <2>2. entry' \in [count : Counts, online : BOOLEAN] /\ fails' \in 0 .. MaxFail
    BY <1>5, <2>1, PostedType DEF FinalPost
  <2> QED
    BY <1>5, <2>2 DEF TypeOK, FinalPost, Payload, shared
<1>6. CASE Sleep
  BY <1>6 DEF TypeOK, Sleep, Payload, shared, history
<1>7. CASE Exit
  BY <1>7 DEF TypeOK, Exit, Payload, history
<1>8. CASE BeginPost
  <2>1. snapshot' \in [count : Counts, online : BOOLEAN]
    BY <1>8 DEF TypeOK, BeginPost
  <2>2. Payload' = Payload
    BY <1>8 DEF BeginPost, Payload
  <2>3. /\ elapsed' \in 0 .. Keepalive + JoinMax + Debounce
        /\ gap' \in 0 .. Debounce /\ age' \in 0 .. Debounce + 1
    BY <1>8 DEF BeginPost
  <2> QED
    BY <1>8, <2>1, <2>2, <2>3, Zenon DEF TypeOK, BeginPost
<1>9. CASE EndPost
  <2>1. snapshot \in [count : Counts, online : BOOLEAN]
    BY DEF TypeOK
  <2>2. entry' \in [count : Counts, online : BOOLEAN] /\ fails' \in 0 .. MaxFail
    BY <1>9, <2>1, PostedType DEF EndPost
  <2> QED
    BY <1>9, <2>2 DEF TypeOK, EndPost, DirtyAfterPost, Payload
<1>10. CASE EndPause
  BY <1>10 DEF TypeOK, EndPause, Payload, shared, history
<1>11. CASE Tick
  <2>1. Timer \in 0 .. Keepalive + JoinMax + Debounce
    BY DEF Timer
  <2>2. elapsed' \in 0 .. Keepalive + JoinMax + Debounce
    BY <1>11, <2>1 DEF TypeOK, Tick, Grows
  <2>3. joinc' \in 0 .. JoinMax
    BY <1>11 DEF TypeOK, Tick, Grows
  <2>4. gap' \in 0 .. Debounce /\ age' \in 0 .. Debounce + 1
    BY <1>11 DEF TypeOK, Tick, Grows
  <2> QED
    BY <1>11, <2>2, <2>3, <2>4 DEF TypeOK, Tick, Payload, shared
<1>12. CASE UNCHANGED vars
  BY <1>12 DEF TypeOK, vars, Payload, shared, history
<1> QED
  BY <1>1, <1>2, <1>3, <1>4, <1>5, <1>6, <1>7, <1>8, <1>9, <1>10, <1>11, <1>12
  DEF Next, Main, Worker, Ended

\* Every variable keeps its type, every timer its limit, and a failure is
\* counted once, in every behaviour of the publisher.
THEOREM TypeCorrect == Spec => []TypeOK
<1>1. ASSUME Init PROVE TypeOK
  <2>1. Payload \in [count : Counts, online : BOOLEAN]
    BY <1>1, PublisherAssumption DEF Init, Payload
  <2>2. entry \in [count : Counts, online : BOOLEAN]
    BY <1>1, PublisherAssumption DEF Init
  <2>3. /\ elapsed \in 0 .. Keepalive + JoinMax + Debounce
        /\ joinc \in 0 .. JoinMax
        /\ gap \in 0 .. Debounce /\ age \in 0 .. Debounce + 1
        /\ updates \in 0 .. MaxUpdates /\ fails \in 0 .. MaxFail
    BY <1>1, PublisherAssumption DEF Init
  <2> QED
    BY <1>1, <2>1, <2>2, <2>3, Zenon DEF Init, TypeOK
<1> QED
  BY <1>1, TypeStep, PTL DEF Spec

-----------------------------------------------------------------------------
(* The end of the process: what shutdown() waits for, and the last word.   *)

\* What the shutdown has done so far, and how the join's clock runs against
\* the clock of a POST it waits for: the POST is the older one, so one the join
\* gives up on has lasted as long as a join may.
StopInv ==
  /\ main = "serving" => ~stopping
  /\ main # "serving" => stopping /\ ~online
  /\ stopEvt => stopping
  /\ main \in {"serving", "stopping"} => joinc = 0
  /\ worker = "posting" /\ main = "joining" => joinc <= elapsed
  /\ worker = "posting" => elapsed <= JoinMax
  /\ worker = "posting" /\ main \in {"final", "done", "failed"} =>
       elapsed = JoinMax /\ outlived

\* Every step keeps it.
LEMMA StopStep ==
  ASSUME TypeOK, StopInv, [Next]_vars
  PROVE  StopInv'
<1> USE PublisherAssumption DEF StopInv
<1>1. ASSUME NEW n \in Counts, Update(n) PROVE StopInv'
  BY <1>1 DEF Update, Woken
<1>2. CASE Shutdown
  BY <1>2 DEF TypeOK, Shutdown, Woken, history
<1>3. CASE SetStopEvt
  BY <1>3 DEF TypeOK, SetStopEvt, history
<1>4. CASE Join
  <2>1. worker = "posting" /\ joinc = JoinMax => outlived'
    BY <1>4, Zenon DEF Join
  <2>2. worker = "posting" => joinc = JoinMax /\ elapsed = JoinMax
    BY <1>4 DEF TypeOK, Join, Joined
  <2> QED
    BY <1>4, <2>1, <2>2 DEF Join, shared
<1>5. CASE FinalPost
  BY <1>5 DEF FinalPost, shared
<1>6. CASE Sleep
  BY <1>6 DEF Sleep, shared, history
<1>7. CASE Exit
  BY <1>7 DEF Exit, history
<1>8. CASE BeginPost
  BY <1>8 DEF TypeOK, BeginPost
<1>9. CASE EndPost
  BY <1>9 DEF EndPost
<1>10. CASE EndPause
  BY <1>10 DEF EndPause, shared, history
<1>11. CASE Tick
  BY <1>11 DEF TypeOK, Tick, Urgent, Awake, Timer, Grows, shared
<1>12. CASE UNCHANGED vars
  BY <1>12 DEF vars, shared, history
<1> QED
  BY <1>1, <1>2, <1>3, <1>4, <1>5, <1>6, <1>7, <1>8, <1>9, <1>10, <1>11, <1>12
  DEF Next, Main, Worker, Ended

\* However long a POST takes, shutdown() leaves behind only one that has lasted
\* as long as a join may, and the worker begins none after it.
THEOREM RequestsApart == Spec => []OverlapsLate
<1>1. Init => StopInv
  BY PublisherAssumption DEF Init, StopInv
<1>2. StopInv => OverlapsLate
  BY DEF StopInv, OverlapsLate
<1>3. TypeOK /\ StopInv /\ [Next]_vars => StopInv'
  BY StopStep
<1> QED
  BY <1>1, <1>2, <1>3, TypeCorrect, PTL DEF Spec

\* However long a POST takes, and whichever fail, once the last one has taken
\* effect the Lobby shows the server offline for good, unless the join gave up
\* on a POST.
THEOREM OfflineStays == Spec => []OfflineKept
<1>1. Init => StopInv /\ OfflineKept
  BY PublisherAssumption DEF Init, StopInv, OfflineKept
<1>2. ASSUME TypeOK, StopInv, OfflineKept, [Next]_vars PROVE OfflineKept'
  <2>1. CASE FinalPost
    <3>1. PICK o \in Outcomes : /\ Posted(Payload, o)
                               /\ main' = IF o.stored THEN "done" ELSE "failed"
      BY <2>1 DEF FinalPost
    <3>2. main' = "done" => entry' = Payload
      BY <3>1 DEF Posted
    <3>3. ~online
      BY <1>2, <2>1 DEF StopInv, FinalPost
    <3> QED
      BY <3>2, <3>3 DEF OfflineKept, Payload
  <2>2. CASE EndPost
    <3>1. main' = main /\ outlived' = outlived /\ worker = "posting"
      BY <2>2 DEF EndPost
    <3>2. main = "done" => outlived
      BY <1>2, <3>1 DEF StopInv
    <3> QED
      BY <3>1, <3>2 DEF OfflineKept
  <2>3. CASE Join
    BY <2>3 DEF OfflineKept, Join
  <2>4. CASE ~FinalPost /\ ~EndPost /\ ~Join
    BY <1>2, <2>4
    DEF OfflineKept, Next, Main, Worker, Ended, Update, Shutdown, SetStopEvt,
        Sleep, Exit, BeginPost, EndPause, Tick, vars, history
  <2> QED
    BY <2>1, <2>2, <2>3, <2>4
<1>3. TypeOK /\ StopInv /\ [Next]_vars => StopInv'
  BY StopStep
<1> QED
  BY <1>1, <1>2, <1>3, TypeCorrect, PTL DEF Spec

-----------------------------------------------------------------------------
(* How long an update may wait.                                            *)

\* While the relay runs, what is owed is dirty, the worker is not asleep over
\* it, and it has waited only as long as the pause has lasted.
OwedInv ==
  /\ ~owed => age = 0
  /\ main = "serving" =>
       /\ ~stopping /\ worker # "gone"
       /\ owed => dirty /\ worker # "waiting" /\ age <= Debounce
  /\ worker = "posting" => age = 0
  /\ worker = "pause" =>
       elapsed <= Debounce /\ (main = "serving" => age <= elapsed)

\* Every step keeps it.
LEMMA OwedStep ==
  ASSUME TypeOK, OwedInv, [Next]_vars
  PROVE  OwedInv'
<1> USE PublisherAssumption DEF OwedInv
<1>1. ASSUME NEW n \in Counts, Update(n) PROVE OwedInv'
  BY <1>1 DEF TypeOK, Update, Woken
<1>2. CASE Shutdown
  BY <1>2 DEF TypeOK, Shutdown, Woken, history
<1>3. CASE SetStopEvt
  BY <1>3 DEF SetStopEvt, history
<1>4. CASE Join
  BY <1>4 DEF Join, shared, history
<1>5. CASE FinalPost
  BY <1>5 DEF FinalPost, shared
<1>6. CASE Sleep
  BY <1>6 DEF Sleep, shared, history
<1>7. CASE Exit
  BY <1>7 DEF Exit, Awake, history
<1>8. CASE BeginPost
  BY <1>8 DEF TypeOK, BeginPost
<1>9. CASE EndPost
  BY <1>9 DEF TypeOK, EndPost, DirtyAfterPost
<1>10. CASE EndPause
  BY <1>10 DEF TypeOK, EndPause, shared, history
<1>11. CASE Tick
  BY <1>11 DEF TypeOK, Tick, Urgent, Awake, PauseOver, KeepaliveDue, Timer,
               Grows, shared
<1>12. CASE UNCHANGED vars
  BY <1>12 DEF vars, shared, history
<1> QED
  BY <1>1, <1>2, <1>3, <1>4, <1>5, <1>6, <1>7, <1>8, <1>9, <1>10, <1>11, <1>12
  DEF Next, Main, Worker, Ended

\* No update() is overlooked while the relay runs, in either implementation: it
\* waits for the POST under way and one pause.
THEOREM UpdatesPrompt == Spec => []UpdatePrompt
<1>1. Init => OwedInv
  BY PublisherAssumption DEF Init, OwedInv
<1>2. TypeOK /\ OwedInv => UpdatePrompt
  BY PublisherAssumption DEF OwedInv, UpdatePrompt, TypeOK
<1>3. TypeOK /\ OwedInv /\ [Next]_vars => OwedInv'
  BY OwedStep
<1> QED
  BY <1>1, <1>2, <1>3, TypeCorrect, PTL DEF Spec

-----------------------------------------------------------------------------
(* The debounce.                                                           *)

\* Where the pause has an event of its own, a worker that may begin a POST has
\* let the debounce pass since the last one; in the pause it has waited as
\* long as the pause lasts.
SpacedInv ==
  /\ stopEvt \/ main # "serving" => stopping
  /\ worker \in {"top", "waiting"} => gap = Debounce \/ stopping
  /\ worker = "pause" => elapsed <= gap

\* Every step keeps it.
LEMMA SpacedStep ==
  ASSUME ~SharedCv, TypeOK, SpacedInv, [Next]_vars
  PROVE  SpacedInv'
<1> USE PublisherAssumption DEF SpacedInv
<1>1. ASSUME NEW n \in Counts, Update(n) PROVE SpacedInv'
  BY <1>1 DEF TypeOK, Update, Woken
<1>2. CASE Shutdown
  BY <1>2 DEF TypeOK, Shutdown, Woken, history
<1>3. CASE SetStopEvt
  BY <1>3 DEF SetStopEvt, history
<1>4. CASE Join
  BY <1>4 DEF Join, shared, history
<1>5. CASE FinalPost
  BY <1>5 DEF FinalPost, shared
<1>6. CASE Sleep
  BY <1>6 DEF Sleep, shared, history
<1>7. CASE Exit
  BY <1>7 DEF Exit, history
<1>8. CASE BeginPost
  BY <1>8 DEF TypeOK, BeginPost
<1>9. CASE EndPost
  BY <1>9 DEF TypeOK, EndPost
<1>10. CASE EndPause
  BY <1>10 DEF TypeOK, EndPause, PauseOver, shared, history
<1>11. CASE Tick
  BY <1>11 DEF TypeOK, Tick, Urgent, Awake, PauseOver, Timer, Grows, shared
<1>12. CASE UNCHANGED vars
  BY <1>12 DEF vars, shared, history
<1> QED
  BY <1>1, <1>2, <1>3, <1>4, <1>5, <1>6, <1>7, <1>8, <1>9, <1>10, <1>11, <1>12
  DEF Next, Main, Worker, Ended

\* The Python worker's POSTs begin at least the debounce apart, however often
\* update() is called.  (The C worker's do not: its pause ends early.)
THEOREM DebounceHolds ==
  ASSUME ~SharedCv
  PROVE  Spec => PostsSpaced
<1>1. Init => SpacedInv
  BY PublisherAssumption DEF Init, SpacedInv
<1>2. TypeOK /\ SpacedInv /\ [Next]_vars => SpacedInv'
  BY SpacedStep
<1>3. ASSUME SpacedInv, [Next]_vars, worker # "posting", worker' = "posting"
      PROVE  gap = Debounce
  BY <1>3 DEF SpacedInv, Next, Main, Worker, Ended, Update, Woken, Shutdown,
              SetStopEvt, Join, FinalPost, Sleep, Exit, BeginPost, Awake, EndPost,
              EndPause, Tick, vars
<1>4. SpacedInv /\ [Next]_vars
        => [worker # "posting" /\ worker' = "posting" => gap = Debounce]_vars
  BY <1>3
<1> QED
  BY <1>1, <1>2, <1>4, TypeCorrect, PTL DEF Spec, PostsSpaced
=============================================================================
