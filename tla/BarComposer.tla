----------------------------- MODULE BarComposer -----------------------------
(***************************************************************************)
(* DataBarComposer of marketdata.py: bars of a chosen duration made of     *)
(* shorter ones.  A composer is a record; every method is an operator that *)
(* gives the composer after the call.  A bar is known by its time, its     *)
(* duration, its open and close, its hasgaps and the bars it is the sum of *)
(* (parts): high, low, volume, counts and averages follow from these.      *)
(* Times count from the first of January, a Monday.                        *)
(***************************************************************************)
EXTENDS Integers, SequencesExt

CONSTANTS
  DayLength,        \* times in a day
  OpenIsCloseLast,  \* the open mode: three flags
  OpenFromFuture,
  OpenFromFirstDataInBar

None == -1
Day(t) == t \div DayLength

-----------------------------------------------------------------------------
(* Bars.                                                                   *)

end_time(bar) == bar.time + bar.duration

(* A bar of no duration, where a composed bar begins.                      *)
zero_bar(t, price) ==
  [time |-> t, duration |-> 0, open |-> price, close |-> price, gaps |-> FALSE, parts |-> {}]

is_zero_bar(bar) == bar.duration = 0

(* bar + other: the sum has a gap when one has, or when there is one       *)
(* between them.                                                           *)
Sum(bar, other) ==
  [bar EXCEPT !.duration = end_time(other) - bar.time,
              !.close = other.close,
              !.gaps = bar.gaps \/ other.gaps \/ other.time # end_time(bar),
              !.parts = bar.parts \union other.parts]

-----------------------------------------------------------------------------
(* A composer.  start is the start time, None when it has none or only a   *)
(* time of the day: at; bars is the _work_list, the bar that is being      *)
(* composed last; error is what the last call raised.                      *)

composer(duration, at) ==
  [duration |-> duration, bars |-> <<>>, start |-> None, at |-> at, close |-> None, error |-> "none"]

running(c)       == c.bars # <<>>
composing_bar(c) == Last(c.bars)
composed_end(c)  == composing_bar(c).time + c.duration
has_start_time(c) == c.start # None \/ c.at # None

Raise(c, error) == [c EXCEPT !.error = error]

(* Time goes on to t, later than the end of the composing bar: it is       *)
(* extended, completed when t reaches its end, and followed by as many     *)
(* bars without data as there is time for; the last one may be a zero bar. *)
(* (_fill_gaps_until with gaps, _move_time_without_gaps_to without.)       *)
advance(c, t, gaps) ==
  LET b == composing_bar(c)
      piece(k) ==
        LET from == b.time + (k - 1) * c.duration
            length == Min({from + c.duration, t}) - from
        IN IF k = 1
           THEN [b EXCEPT !.duration = length, !.gaps = @ \/ gaps]
           ELSE [zero_bar(from, b.close) EXCEPT !.duration = length, !.gaps = gaps /\ length > 0]
  IN [c EXCEPT !.bars =
        Front(@) \o [k \in 1..((t - b.time) \div c.duration + 1) |-> piece(k)]]

move_time(c, t, gaps) ==
  IF ~running(c) THEN Raise(c, "not running")
  ELSE IF t <= end_time(composing_bar(c)) THEN Raise(c, "shorter")
  ELSE advance(c, t, gaps)

(* The open of the first bar of a composer that starts, for data at t.     *)
find_open(c, start, t, open) ==
  CASE start = t \/ OpenFromFirstDataInBar -> open
    [] OTHER -> IF c.close # None /\ OpenIsCloseLast THEN c.close
                ELSE IF OpenFromFuture THEN open ELSE None

(* A start time that was set is moved by whole durations, else the time is *)
(* normalised.                                                             *)
start_time_for(c, t) ==
  LET set == IF c.start # None THEN c.start ELSE Day(t) * DayLength + c.at
  IN IF ~has_start_time(c) THEN t - (t % c.duration)
     ELSE IF set > t THEN set
     ELSE t - ((t - set) % c.duration)

start_composer(c, t, open) ==
  LET start == start_time_for(c, t)
      c1 == [c EXCEPT !.start = start]
      c2 == [c1 EXCEPT !.bars = <<zero_bar(start, find_open(c, start, t, open))>>]
  IN IF start > t THEN Raise(c1, "data before start")
     ELSE IF find_open(c, start, t, open) = None THEN Raise(c1, "no open")
     ELSE IF start = t THEN c2
     ELSE move_time(c2, t, FALSE)

(* A bar at the end of the composing bar is added to it, and takes the     *)
(* place of a zero bar; a bar that is complete is followed by a zero bar.  *)
insert_adjacent_bar(c, bar) ==
  LET b   == composing_bar(c)
      sum == IF is_zero_bar(b) THEN bar ELSE Sum(b, bar)
  IN [c EXCEPT !.bars =
        Front(@) \o <<sum>> \o
          (IF end_time(sum) = composed_end(c) THEN <<zero_bar(end_time(sum), sum.close)>> ELSE <<>>)]

spans_two_composing_bars(c, bar) ==
  \E k \in 1..(end_time(bar) - composing_bar(c).time) :
    LET end == composing_bar(c).time + k * c.duration
    IN bar.time < end /\ end < end_time(bar)

insert_bar_in_running_composer(c, bar) ==
  IF end_time(composing_bar(c)) > bar.time THEN Raise(c, "starts in composing bar")
  ELSE IF spans_two_composing_bars(c, bar) THEN Raise(c, "spans two bars")
  ELSE IF end_time(composing_bar(c)) = bar.time THEN insert_adjacent_bar(c, bar)
  ELSE insert_adjacent_bar(advance(c, bar.time, TRUE), bar)

insert_bar(c, bar) ==
  LET c1 == IF running(c) THEN c ELSE start_composer(c, bar.time, bar.open)
  IN IF c1.error # "none" THEN c1 ELSE insert_bar_in_running_composer(c1, bar)

(* All the complete bars, popped one by one until there is none.           *)
complete_bars(c) == Front(c.bars)
popped(c) == [c EXCEPT !.bars = <<composing_bar(c)>>]

(* All bars but a zero bar, which only the last can be; the start time is *)
(* forgotten, or the time of the day again.                                *)
reset_answer(c)   == IF is_zero_bar(composing_bar(c)) THEN Front(c.bars) ELSE c.bars
reset_composer(c) == [c EXCEPT !.bars = <<>>, !.start = None]
=============================================================================
