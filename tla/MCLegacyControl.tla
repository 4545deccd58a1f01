--------------------------- MODULE MCLegacyControl ---------------------------
(* The instance of LegacyControl for TLC. *)
EXTENDS LegacyControl

MCRates == {-1, 0}
=============================================================================
