-------------------------- MODULE MCFeederIntervals --------------------------
(* FeederIntervals for TLC: two intervals, the outer one twice as long.     *)
EXTENDS FeederIntervals

TwoIntervals == <<[duration |-> 2, at |-> 2], [duration |-> 4, at |-> 2]>>
=============================================================================
