--------------------------- MODULE LobbyPublisher ---------------------------
(***************************************************************************)
(* The thread that keeps the relay's entry in the FujiNet Lobby up to date *)
(* (LobbyPublisher in server/intv_relay_server.py, server/c/src/lobby.c).  *)
(*                                                                         *)
(* Two threads share a mutex and a condition variable: the relay's event   *)
(* loop calls update() and shutdown(), the worker waits, renders and POSTs.*)
(* A critical section is one step; nothing is held across a POST or a wait.*)
(* Time passes in Tick, which lets no timer run past its deadline and no   *)
(* thread that can run stand still.  A POST may take any time: its timeouts*)
(* are per socket operation, and nothing bounds the lookup of the name.    *)
(***************************************************************************)
EXTENDS Naturals

CONSTANTS
  SharedCv,    \* the debounce waits on the condition variable update() signals
               \* (the C port), not on an event of its own (Python)
  Counts,      \* player counts
  Keepalive,   \* KEEPALIVE_SECS
  Debounce,    \* the pause after a POST
  JoinMax,     \* how long shutdown() waits for the worker
  MaxUpdates,  \* bound on the calls of update()
  MaxFail      \* bound on the POSTs that fail

ASSUME PublisherAssumption ==
  /\ SharedCv \in BOOLEAN /\ 0 \in Counts
  /\ Keepalive \in Nat \ {0} /\ Debounce \in Nat \ {0}
  /\ JoinMax \in Nat \ {0}
  /\ MaxUpdates \in Nat /\ MaxFail \in Nat

VARIABLES
  worker,    \* where the worker is
  main,      \* where the event loop's thread is
  count,     \* payload["curplayers"]
  online,    \* payload["status"]
  dirty,     \* _dirty
  stopping,  \* _stopping
  stopEvt,   \* _stop_evt
  snapshot,  \* what the worker is POSTing
  elapsed,   \* time since the worker began its wait, its POST (up to JoinMax)
             \* or its pause
  joinc,     \* how long shutdown() has been joining
  entry,     \* the Lobby's entry for this server
  gap,       \* history: time since the worker's last POST began, up to Debounce
  owed,      \* history: an update() no POST has carried yet
  age,       \* history: how long it has been owed with no POST under way
  outlived,  \* history: the join gave up on a POST
  updates,   \* history: calls of update()
  fails      \* history: POSTs that failed

shared == <<count, online, dirty, stopping, stopEvt>>
history == <<gap, owed, age, outlived, updates, fails>>
vars == <<worker, main, shared, snapshot, elapsed, joinc, entry, history>>

Payload == [count |-> count, online |-> online]

Init ==
  /\ worker = "top" /\ main = "serving"
  /\ count = 0 /\ online = TRUE
  /\ dirty = FALSE /\ stopping = FALSE /\ stopEvt = FALSE
  /\ snapshot = Payload
  /\ elapsed = 0 /\ joinc = 0
  /\ entry = [count |-> 0, online |-> FALSE]
  /\ gap = Debounce /\ owed = FALSE /\ age = 0 /\ outlived = FALSE
  /\ updates = 0 /\ fails = 0

-----------------------------------------------------------------------------
(* The event loop's thread.                                                *)

\* Who is woken by a notify: the worker in its wait, and, where they share the
\* condition variable, in its pause.
Woken ==
  IF worker = "waiting" \/ (SharedCv /\ worker = "pause") THEN "top" ELSE worker

Update(n) ==
  /\ main = "serving" /\ updates < MaxUpdates
  /\ count' = n
  /\ dirty' = TRUE
  /\ worker' = Woken
  /\ owed' = TRUE
  /\ updates' = updates + 1
  /\ UNCHANGED <<main, online, stopping, stopEvt, snapshot, elapsed, joinc,
                 entry, gap, age, outlived, fails>>

\* shutdown(), its critical section.  The C port sets the stop event in it.
Shutdown ==
  /\ main = "serving"
  /\ stopping' = TRUE
  /\ online' = FALSE
  /\ worker' = Woken
  /\ stopEvt' = SharedCv
  /\ main' = IF SharedCv THEN "joining" ELSE "stopping"
  /\ UNCHANGED <<count, dirty, snapshot, elapsed, joinc, entry, history>>

SetStopEvt ==
  /\ main = "stopping"
  /\ stopEvt' = TRUE
  /\ main' = "joining"
  /\ UNCHANGED <<worker, count, online, dirty, stopping, snapshot, elapsed,
                 joinc, entry, history>>

\* Slip: the worker is not waited for.
NoJoin_Joined == TRUE

\* join(timeout=12), pthread_timedjoin_np
Joined == worker = "gone" \/ joinc = JoinMax

Join ==
  /\ main = "joining" /\ Joined
  /\ main' = "final"
  /\ outlived' = (worker = "posting" /\ joinc = JoinMax)
  /\ UNCHANGED <<worker, shared, snapshot, elapsed, joinc, entry, gap, owed, age,
                 updates, fails>>

\* A POST either takes effect at the Lobby or not, and its caller may be told
\* of a failure in both cases.
Outcomes == {o \in [stored : BOOLEAN, ok : BOOLEAN] : o.ok => o.stored}

\* Slip: a failure is counted by the POST and by its caller.
Twice_Posted(payload, o) ==
  /\ o.ok \/ fails < MaxFail
  /\ entry' = IF o.stored THEN payload ELSE entry
  /\ fails' = IF o.ok THEN fails ELSE fails + 2

Posted(payload, o) ==
  /\ o.ok \/ fails < MaxFail
  /\ entry' = IF o.stored THEN payload ELSE entry
  /\ fails' = IF o.ok THEN fails ELSE fails + 1

\* The last POST, made by this thread.
FinalPost ==
  /\ main = "final"
  /\ \E o \in Outcomes :
       /\ Posted(Payload, o)
       /\ main' = IF o.stored THEN "done" ELSE "failed"
  /\ UNCHANGED <<worker, shared, snapshot, elapsed, joinc, gap, owed, age,
                 outlived, updates>>

-----------------------------------------------------------------------------
(* The worker.                                                             *)

Sleep ==
  /\ worker = "top" /\ ~dirty /\ ~stopping
  /\ worker' = "waiting"
  /\ elapsed' = 0
  /\ UNCHANGED <<main, shared, snapshot, joinc, entry, history>>

\* Slip: the keepalive never fires.
Never_KeepaliveDue == FALSE

KeepaliveDue == elapsed = Keepalive

\* The loop's condition fails, or its wait has timed out.
Awake ==
  \/ worker = "top" /\ (dirty \/ stopping)
  \/ worker = "waiting" /\ KeepaliveDue

Exit ==
  /\ Awake /\ stopping
  /\ worker' = "gone"
  /\ dirty' = FALSE
  /\ UNCHANGED <<main, count, online, stopping, stopEvt, snapshot, elapsed,
                 joinc, entry, history>>

\* Take the newest payload and begin to POST it.
BeginPost ==
  /\ Awake /\ ~stopping
  /\ worker' = "posting"
  /\ dirty' = FALSE
  /\ snapshot' = Payload
  /\ elapsed' = 0
  /\ gap' = 0 /\ owed' = FALSE /\ age' = 0
  /\ UNCHANGED <<main, count, online, stopping, stopEvt, joinc, entry,
                 outlived, updates, fails>>

\* Slip: what came in during the POST is forgotten.
Clears_DirtyAfterPost == FALSE

DirtyAfterPost == dirty

\* _post returns; the pause is skipped once the stop event is set.
EndPost ==
  /\ worker = "posting"
  /\ \E o \in Outcomes : Posted(snapshot, o)
  /\ worker' = IF stopEvt THEN "top" ELSE "pause"
  /\ dirty' = DirtyAfterPost
  /\ elapsed' = 0
  /\ UNCHANGED <<main, count, online, stopping, stopEvt, snapshot, joinc,
                 gap, owed, age, outlived, updates>>

\* Slip: no pause between two POSTs.
NoPause_PauseOver == TRUE

PauseOver == elapsed = Debounce \/ stopEvt

EndPause ==
  /\ worker = "pause" /\ PauseOver
  /\ worker' = "top"
  /\ UNCHANGED <<main, shared, snapshot, elapsed, joinc, entry, history>>

-----------------------------------------------------------------------------
(* Time.                                                                   *)

\* Some thread has a step to take before time can pass.
Urgent ==
  \/ worker = "top" \/ Awake
  \/ worker = "pause" /\ PauseOver
  \/ main = "stopping"
  \/ main = "joining" /\ Joined

Grows(t, max) == IF t < max THEN t + 1 ELSE t

Timer ==
  CASE worker = "waiting" -> Keepalive [] worker = "posting" -> JoinMax
    [] worker = "pause" -> Debounce [] OTHER -> 0

Tick ==
  /\ ~Urgent /\ main \notin {"done", "failed"}
  /\ elapsed' = Grows(elapsed, Timer)
  /\ joinc' = IF main = "joining" THEN Grows(joinc, JoinMax) ELSE joinc
  /\ gap' = Grows(gap, Debounce)
  /\ age' = IF owed /\ worker # "posting" THEN Grows(age, Debounce + 1) ELSE age
  /\ UNCHANGED <<worker, main, shared, snapshot, entry, owed, outlived, updates,
                 fails>>

-----------------------------------------------------------------------------

Main == Shutdown \/ SetStopEvt \/ Join \/ FinalPost

Worker == Sleep \/ Exit \/ BeginPost \/ EndPost \/ EndPause

\* The process has ended; a request that was sent may still take effect.
Ended == main \in {"done", "failed"} /\ UNCHANGED vars

Next == (\E n \in Counts : Update(n)) \/ Main \/ Worker \/ Tick \/ Ended

Spec == Init /\ [][Next]_vars

\* Threads that can run do run, POSTs end, and time passes.
FairSpec ==
  /\ Spec
  /\ WF_vars(Worker) /\ WF_vars(Tick)
  /\ WF_vars(SetStopEvt \/ Join \/ FinalPost)

-----------------------------------------------------------------------------
(* Properties.                                                             *)

\* Types, every timer within its limit, and the failures counted one by one.
TypeOK ==
  /\ worker \in {"top", "waiting", "posting", "pause", "gone"}
  /\ main \in {"serving", "stopping", "joining", "final", "done", "failed"}
  /\ Payload \in [count : Counts, online : BOOLEAN]
  /\ snapshot \in [count : Counts, online : BOOLEAN]
  /\ entry \in [count : Counts, online : BOOLEAN]
  /\ dirty \in BOOLEAN /\ stopping \in BOOLEAN /\ stopEvt \in BOOLEAN
  /\ elapsed \in 0 .. Keepalive + JoinMax + Debounce
  /\ joinc \in 0 .. JoinMax
  /\ gap \in 0 .. Debounce /\ owed \in BOOLEAN
  /\ age \in 0 .. Debounce + 1 /\ outlived \in BOOLEAN
  /\ updates \in 0 .. MaxUpdates /\ fails \in 0 .. MaxFail

\* "only the newest player count is published, at most once per second": the
\* worker's POSTs begin at least the debounce apart, however often update() is
\* called (_run, lobby_worker).
PostsSpaced ==
  [][worker # "posting" /\ worker' = "posting" => gap = Debounce]_vars

\* No update() is overlooked: while the relay runs, it waits for no more than the
\* POST that was under way when it came in, however long that takes, and one
\* pause, even if it comes in while the worker is between its locks (update,
\* _run, lobby_worker).
UpdatePrompt == main = "serving" => age <= Debounce

\* shutdown() leaves no request of the worker behind that it could have waited
\* for: one that is still under way once the join is over has lasted as long as
\* a join may, and none begins after it (shutdown: "let an in-flight POST
\* finish first").
OverlapsLate ==
  worker = "posting" /\ main \in {"final", "done", "failed"} => elapsed = JoinMax

\* The last POST is the last word: once it has reached the Lobby, the entry is
\* offline for good, unless the join gave up on a POST (shutdown).  Such a POST
\* can put the online entry back, against "a final status:"offline" POST on
\* shutdown" (tools/test_lobby_pub.py).
OfflineKept == main = "done" /\ entry.online => outlived

\* A POST that failed is made up for by the keepalive: while the relay runs
\* and after the last update(), the Lobby comes to show the true count.
EntryConverges == <>[](main # "serving" \/ entry = Payload)
=============================================================================
