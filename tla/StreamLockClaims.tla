-------------------------- MODULE StreamLockClaims --------------------------
(***************************************************************************)
(* What a comment of the repository promises of a handler that, with the   *)
(* locks taken in two orders, may never return.                            *)
(***************************************************************************)
EXTENDS StreamLocks

Returns(h) ==
  \A t \in Threads :
    []<><<NewCalls>>_vars \/ (call[t] # NoCall /\ call[t].op = h ~> call[t] = NoCall)

(***************************************************************************)
(* sharedStream.cpp:127: a stop message is sent on, "relay to all          *)
(* subscribers".  stop() waits for the engine's lock with lock_ held;      *)
(* timer_handler() waits for lock_ with the engine's lock held.            *)
(***************************************************************************)
StopIsRelayed == Returns("stop")
=============================================================================
