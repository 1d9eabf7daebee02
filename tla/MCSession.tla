----------------------------- MODULE MCSession -----------------------------
(* Instances of Session for TLC.                                           *)
EXTENDS Session

MCClients == 1 .. 3

\* Players at the Python relay, and a test rig.
MCSetups ==
  [impl : {"py"}, seats : {2}, autoGo : {0, 2}, rename : {TRUE}, maxFail : {0}]
=============================================================================
