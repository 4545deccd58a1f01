--------------------------- MODULE MCStreamControl ---------------------------
(* The instance of StreamControl for TLC: a single control and a hasty user. *)
EXTENDS StreamControl

MCRates == {-2, 0, 1, 2}
=============================================================================
