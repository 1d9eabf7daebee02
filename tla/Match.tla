------------------------------- MODULE Match -------------------------------
(***************************************************************************)
(* What the players of a match are promised: two consoles replay one log   *)
(* of inputs, tick by tick and in lockstep.  A resync is one jump over     *)
(* ticks nobody plays, which the host decides on and the guest follows.    *)
(* There are no frames, rings, watermarks, records or timers here.         *)
(***************************************************************************)
EXTENDS Naturals

CONSTANTS
  Inputs,     \* what a controller can present in one tick
  Delay       \* how far a console may run ahead

Sides == {0, 1}       \* 0 is the host, 1 its guest

VARIABLES
  log,        \* the inputs of the ticks that were played, by either console
  at,         \* the tick each console plays next
  epoch,      \* how many resyncs each console has gone through
  start,      \* the tick the host's epoch began at
  left        \* whether a console has given its peer up

match == <<log, at, epoch, start, left>>

MatchInit ==
  /\ log = {} /\ start = 0
  /\ at = [c \in Sides |-> 0]
  /\ epoch = [c \in Sides |-> 0]
  /\ left = [c \in Sides |-> FALSE]

\* Within an epoch nobody runs further ahead than the delay covers.  After a
\* resync the host stops at the inputs it has not received yet, and the guest
\* before the first tick of the new epoch.
InStep(c) ==
  IF epoch[0] = epoch[1] THEN at[c] <= at[1 - c] + Delay
  ELSE IF c = 0 THEN at[0] < start + Delay ELSE at[1] + 1 < start

\* A tick that was played before is played on the same inputs.
Events == [tick : Nat, in : [Sides -> Inputs]]
Replays(c) ==
  \E e \in log' :
    /\ e \in Events /\ e.tick = at[c]
    /\ \A d \in log : d.tick = e.tick => d = e
    /\ log' = log \cup {e}

\* A console that has given up the match is on its own.
Ticks(c) == IF left[c] THEN log' = log ELSE InStep(c) /\ Replays(c)

Play(c) ==
  /\ Ticks(c)
  /\ at' = [at EXCEPT ![c] = @ + 1]
  /\ UNCHANGED <<epoch, start, left>>

\* The host's tick ends in a resync: the next epoch begins after every tick
\* that was played, and the guest is never more than two epochs behind.
Resync ==
  /\ Ticks(0)
  /\ epoch[0] <= epoch[1] + 1
  /\ start' \in Nat /\ start' > at[0]
  /\ \A e \in log' : e.tick < start'
  /\ at' = [at EXCEPT ![0] = start']
  /\ epoch' = [epoch EXCEPT ![0] = @ + 1]
  /\ UNCHANGED left

\* The guest follows, to the tick the host's epoch began at, or to the one
\* before.
Follow ==
  /\ ~left[1] /\ epoch[1] < epoch[0]
  /\ at' \in [Sides -> Nat] /\ at'[0] = at[0] /\ at[1] < at'[1]
  /\ IF epoch[1] + 1 = epoch[0] THEN at'[1] = start ELSE at'[1] < start
  /\ epoch' = [epoch EXCEPT ![1] = @ + 1]
  /\ UNCHANGED <<log, start, left>>

GiveUp(c) ==
  /\ left' = [left EXCEPT ![c] = TRUE]
  /\ UNCHANGED <<log, at, epoch, start>>

MatchNext == (\E c \in Sides : Play(c) \/ GiveUp(c)) \/ Resync \/ Follow

MatchSpec == MatchInit /\ [][MatchNext]_match
=============================================================================
