------------------------------- MODULE MCLink -------------------------------
(* An instance of Link for TLC.                                            *)
EXTENDS Link

\* A short frame of type 6, and a long one of type 8 whose payload looks like a
\* header, and like a length that no frame has.
MCFrames == {<<2, 6, 8>>, <<4, 8, 2, 6, 9>>}
MCJunk == {0, 7}
MCFlen == [t \in {6, 8} |-> IF t = 6 THEN {2} ELSE 2 .. 4]
=============================================================================
