------------------------- MODULE MCStreamLockClaims -------------------------
(* Instance of StreamLockClaims for TLC. *)
EXTENDS StreamLockClaims

Control == {"start", "stop", "timer_handler"}
=============================================================================
