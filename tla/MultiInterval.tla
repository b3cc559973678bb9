---------------------------- MODULE MultiInterval ----------------------------
(***************************************************************************)
(* MultiIntervalFramework of multiinterval.py: intervals of growing        *)
(* duration, each with a composer, that are all fed the same bars, and     *)
(* functions that add a result to every interval (ii_values) once all have *)
(* seen the same time.  The last bar of an interval may be unfinished: the *)
(* next bar takes it, and the result of its time, off again.               *)
(***************************************************************************)
EXTENDS BarComposer

CONSTANT Intervals   \* a sequence of [duration, at], the innermost first

new_interval(def) ==
  [composer |-> composer(def.duration, def.at), bars |-> <<>>, at_end_of_period |-> TRUE,
   old_start_time |-> None, ii_values |-> 0]

-----------------------------------------------------------------------------
(* Interval.new_bar_for_intraday_bars                                      *)

remove_temp_results_KeepsValue(i) == [i EXCEPT !.bars = Front(@)]
remove_temp_results(i) ==
  [i EXCEPT !.bars = Front(@), !.ii_values = @ - 1]

SameDay(i, bar) == i.old_start_time # None /\ Day(i.old_start_time) = Day(bar.time)
NewDate(i, bar) == i.old_start_time # None /\ Day(i.old_start_time) # Day(bar.time)

prepared(i, bar) ==
  CASE ~i.at_end_of_period /\ SameDay(i, bar) -> remove_temp_results(i)
    [] NewDate(i, bar) -> [i EXCEPT !.composer = reset_composer(@), !.at_end_of_period = TRUE]
    [] OTHER -> i

(* The line that reports a skipped bar names a variable that is not there. *)
inserted(i, bar) ==
  LET p == prepared(i, bar)
  IN IF p.old_start_time # None /\ bar.time - p.old_start_time < bar.duration
     THEN Raise(p.composer, "NameError") ELSE insert_bar(p.composer, bar)

unfinished(c) == IF is_zero_bar(composing_bar(c)) THEN <<>> ELSE <<composing_bar(c)>>

(* The bars that are yielded, and the interval when all were.              *)
yields(i, bar) == complete_bars(inserted(i, bar)) \o unfinished(inserted(i, bar))
after_bar_NeverAtEnd(i, bar) ==
  [prepared(i, bar) EXCEPT
     !.composer = popped(inserted(i, bar)), !.bars = @ \o yields(i, bar),
     !.at_end_of_period = FALSE, !.old_start_time = bar.time]
after_bar(i, bar) ==
  [prepared(i, bar) EXCEPT
     !.composer = popped(inserted(i, bar)), !.bars = @ \o yields(i, bar),
     !.at_end_of_period = (unfinished(inserted(i, bar)) = <<>>), !.old_start_time = bar.time]

-----------------------------------------------------------------------------
(* use() of MultiIntervalFramework.new_bar, step by step: s.times are the  *)
(* end times the generators of the intervals still have to yield, s.loops  *)
(* the calls that are not finished, each a loop over the times of interval *)
(* n up to the time t (None at the top) that calls for the one below.  The *)
(* innermost loop does not stop at t: a later time raises.                 *)
use_step(s) ==
  LET n     == Last(s.loops).n
      t     == Last(s.loops).t
      time  == Head(s.times[n])
      outer == IF t = time THEN Front(s.loops) ELSE s.loops
  IN IF s.raised \/ s.loops = <<>> THEN s
     ELSE IF s.times[n] = <<>> THEN [s EXCEPT !.loops = Front(@)]
     ELSE IF t # None /\ t < time THEN [s EXCEPT !.raised = TRUE]
     ELSE IF n = 1 THEN [s EXCEPT !.times[n] = Tail(@), !.evaluations = @ + 1]
     ELSE [s EXCEPT !.times[n] = Tail(@), !.loops = Append(outer, [n |-> n - 1, t |-> time])]

use(s, steps) ==
  LET after[k \in Nat] == IF k = 0 THEN s ELSE use_step(after[k - 1])
  IN after[steps]

times(ivs, bar) == [n \in DOMAIN ivs |->
  [k \in DOMAIN yields(ivs[n], bar) |-> end_time(yields(ivs[n], bar)[k])]]

(* Every evaluation adds a value to every interval.  A step takes a time   *)
(* or ends a call, and a call is made where a time is taken.               *)
used_by(ivs, bar) ==
  LET yielded == UNION {{n} \X DOMAIN times(ivs, bar)[n] : n \in DOMAIN ivs}
  IN use([times |-> times(ivs, bar), loops |-> <<[n |-> Len(ivs), t |-> None]>>,
          evaluations |-> 0, raised |-> FALSE], 2 * Cardinality(yielded) + 1)

Raises(ivs, bar) ==
  \/ \E n \in DOMAIN ivs : inserted(ivs[n], bar).error # "none"
  \/ used_by(ivs, bar).raised

ii_evaluation(ivs, bar) ==
  [n \in DOMAIN ivs |->
     [after_bar(ivs[n], bar) EXCEPT !.ii_values = @ + used_by(ivs, bar).evaluations]]
=============================================================================
