----------------------------- MODULE MCEventDB -----------------------------
(* Instance of EventDBReference for TLC. *)
EXTENDS EventDBReference

MCTimes == 1 .. 4
MCQueryTimes == 0 .. 5
MCCounts == 0 .. 3
=============================================================================
