--------------------------- MODULE MCAlarmServer ---------------------------
(* AlarmServer for TLC: its constants are model values. *)
EXTENDS AlarmServer
=============================================================================
