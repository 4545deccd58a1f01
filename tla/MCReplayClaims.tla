--------------------------- MODULE MCReplayClaims --------------------------
(* Instance of ReplayClaims for TLC. *)
EXTENDS ReplayClaims

MCTimes == 1 .. 3
MCSpeeds == {-1, 1, 2}
MCSeekTimes == {-1, 0, 2}
=============================================================================
