--------------------------- MODULE MCReplayState ---------------------------
(* Instance of ReplayState for TLC. *)
EXTENDS ReplayState

MCTimes == 1 .. 3
MCSpeeds == {-1, 1, 2}
MCSeekTimes == {-1, 0, 2}
=============================================================================
