--------------------------- MODULE MCStreamLocks ---------------------------
(* Instance of StreamLocks for TLC. *)
EXTENDS StreamLocks, TLC

\* Handlers that take their locks in one order: those of the connections
\* without the timer and the list, and these two without the handlers that
\* call a running engine or remove a stream.
WithoutTimer == Relayed \union Leaving \union {"seek", "firstControl"}
WithTimer == {"start", "description", "firstControl", "listStreams", "timer_handler"}

Symmetry == Permutations(Threads) \union Permutations(Streams)
=============================================================================
