--------------------------- MODULE MCSharedStream ---------------------------
(* Instance of SharedStream for TLC. *)
EXTENDS SharedStream

AllTypes == {"start", "stop", "speed", "subscribe", "feederEvent"}
MCSpeeds == {0, 2}
=============================================================================
