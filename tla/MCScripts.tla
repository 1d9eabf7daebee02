----------------------------- MODULE MCScripts -----------------------------
(* Instances of Scripts for TLC.                                           *)
EXTENDS Scripts

MCClients == 1 .. 9

MCNames ==
  {"ALICE", "BOB", "CAROL", "DAVE", "EVE", "FRANK", "GRACE", "HEIDI", "OLDGUY",
   "CAROL2", "GUESTA", "GUESTB", "GUESTC", "NOBODY"}

\* The Python relay has two seats; the C port has as many as it is told.
MCSetups ==
  {s \in [impl : {"py", "c"}, seats : 2 .. 4, autoGo : {0, 2, 3, 4},
          rename : {TRUE}, maxFail : {0}] : s.impl = "py" => s.seats = 2}
=============================================================================
