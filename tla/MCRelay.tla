------------------------------ MODULE MCRelay ------------------------------
(* Instances of Relay for TLC: clients and names are interchangeable.      *)
EXTENDS Relay, TLC

Setup(i, s, g, r, f) ==
  [impl |-> i, seats |-> s, autoGo |-> g, rename |-> r, maxFail |-> f]

\* The Python relay with sends that fail, and with clients that rename; the C
\* port with a third seat.
MCSetups ==
  {Setup("py", 2, 0, FALSE, 2), Setup("py", 2, 2, FALSE, 2),
   Setup("py", 2, 0, TRUE, 0),
   Setup("c", 3, 0, TRUE, 0), Setup("c", 3, 3, TRUE, 0)}

\* The C port when a send fails, and the Python relay with both.
PortFails == {Setup("c", 2, 0, FALSE, 1)}
RenameFails == {Setup("py", 2, 0, TRUE, 1)}

Symmetry == Permutations(Clients) \cup Permutations(Names)
=============================================================================
