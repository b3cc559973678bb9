--------------------------- MODULE MCRealTimeBars ---------------------------
(* Instances of RealTimeBars for TLC. *)
EXTENDS RealTimeBars
=============================================================================
