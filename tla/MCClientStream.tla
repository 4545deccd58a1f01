--------------------------- MODULE MCClientStream ---------------------------
(* Instance of ClientStream for TLC. *)
EXTENDS ClientStream
=============================================================================
