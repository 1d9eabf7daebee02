------------------------------- MODULE CrcLog -------------------------------
(***************************************************************************)
(* The relay's CRC log of a match: a table of ticks, each with the         *)
(* checksums reported for it so far (log_crc).  A tick is judged, and its  *)
(* row removed, when as many seats as the room has members have reported.  *)
(***************************************************************************)
EXTENDS Integers, FiniteSets

CONSTANT CrcRows   \* rows the table keeps

\* room.crc: a function from the ticks with a row to the reports of each, a
\* function from seats to checksums; and the verdict of the last report.
NoReports == [t \in {} |-> << >>]

Without(f, x) == [y \in DOMAIN f \ {x} |-> f[y]]

Evicted(rows) == CHOOSE t \in DOMAIN rows : \A u \in DOMAIN rows : t <= u

\* log_crc, in a room of n members: the rows, and what is said of the tick.
LogCrc(rows, n, seat, tick, crc) ==
  LET had == IF tick \in DOMAIN rows THEN rows[tick] ELSE << >>
      entry == [s \in DOMAIN had \cup {seat} |-> IF s = seat THEN crc ELSE had[s]]
      put == [t \in DOMAIN rows \cup {tick} |->
               IF t = tick THEN entry ELSE rows[t]]
      fit == IF Cardinality(DOMAIN put) > CrcRows
             THEN Without(put, Evicted(put)) ELSE put
      said == {entry[s] : s \in DOMAIN entry}
  IN IF Cardinality(DOMAIN entry) < n
     THEN [rows |-> fit, verdict |-> "none"]
     ELSE [rows |-> Without(fit, tick),
           verdict |-> IF Cardinality(said) = 1 THEN "ok" ELSE "mismatch"]
=============================================================================
