---------------------------- MODULE MCCorseTrader ----------------------------
(* CorseTrader on small instances for TLC.                                   *)
EXTENDS CorseTrader
==============================================================================
