--------------------------- MODULE FeederIntervals ---------------------------
(***************************************************************************)
(* A program that iterates over a ComposingDatabarFeeder and gives every   *)
(* finished bar to a MultiIntervalFramework (fixit_roce_fmm.py,            *)
(* fixittradingsystem.py): bars are composed twice, over days with holes   *)
(* and over the switch from the database to the live feed.                 *)
(***************************************************************************)
EXTENDS ComposingFeeder, MultiInterval

ASSUME FeederAssumption ==
  /\ {Duration, HistorySize, LiveSize, DayLength} \subseteq Nat \ {0}
  /\ Duration % HistorySize = 0 /\ Duration % LiveSize = 0 /\ DayLength % Duration = 0
  /\ MaxTime \in Nat
  /\ Intervals \in Seq([duration : Nat \ {0}, at : 0..DayLength - 1]) /\ Intervals # <<>>
  /\ \A n \in DOMAIN Intervals : Intervals[n].duration % Duration = 0
  /\ {OpenIsCloseLast, OpenFromFuture, OpenFromFirstDataInBar} \subseteq BOOLEAN

VARIABLES
  intervals,
  raised,      \* new_bar raised: the program has stopped
  delivered    \* history: the bars the framework was given

vars == <<sourceVars, feederVars, intervals, raised, delivered>>

Init ==
  /\ FeederInit
  /\ intervals = [n \in DOMAIN Intervals |-> new_interval(Intervals[n])]
  /\ raised = FALSE /\ delivered = <<>>

(* The next bar is handed out, and every interval sees it.                 *)
new_bar ==
  /\ unread_data # <<>> /\ ~raised
  /\ LET bar == Head(unread_data)
     IN /\ IF Raises(intervals, bar)
           THEN raised' = TRUE /\ UNCHANGED intervals
           ELSE intervals' = ii_evaluation(intervals, bar) /\ UNCHANGED raised
        /\ delivered' = Append(delivered, bar)
  /\ unread_data' = Tail(unread_data)
  /\ UNCHANGED <<sourceVars, old_start_time, own, used>>

(* The feeder goes on for as long as the program does.                     *)
iterate == ~raised /\ FeederNext /\ UNCHANGED <<intervals, raised, delivered>>

Next == new_bar \/ iterate

Spec == Init /\ [][Next]_vars

-----------------------------------------------------------------------------
(* What it means that the bars S are the bars B composed to the duration d.*)

Inputs(bar, B) == {b \in B : bar.time <= b.time /\ b.time < end_time(bar)}
Covered(t, B)  == \E b \in B : b.time <= t /\ t < end_time(b)
FirstOf(B)     == CHOOSE b \in B : \A c \in B : b.time <= c.time
LastOf(B)      == CHOOSE b \in B : \A c \in B : b.time >= c.time
OfDay(t, B)    == {b \in B : Day(b.time) = Day(t)}

(* In order, from one whole duration to the next; only the last bar of a   *)
(* day may be shorter, and only between days is there a hole.              *)
InStep(S, d, at) ==
  /\ \A s \in Range(S) : s.duration \in 1..d /\ ((s.time % DayLength) - at) % d = 0
  /\ \A i \in 1..Len(S) - 1 :
       IF Day(S[i].time) = Day(S[i + 1].time)
       THEN S[i].duration = d /\ S[i + 1].time = end_time(S[i])
       ELSE S[i + 1].time >= end_time(S[i])

(* Every input is in one bar, and nothing else is.                         *)
AllThere(S, B) ==
  /\ \A s \in Range(S) : s.parts = UNION {b.parts : b \in Inputs(s, B)}
  /\ \A b \in B : \E s \in Range(S) : b \in Inputs(s, B)

(* hasgaps tells that an input has a gap or that there is a hole between   *)
(* inputs; what is before the first input of a day is not told.            *)
GapsTold(S, B) == \A s \in Range(S) :
  s.gaps = \/ \E b \in Inputs(s, B) : b.gaps
           \/ \E t \in s.time..end_time(s) - 1 :
                ~Covered(t, B) /\ OfDay(t, B) # {} /\ t >= FirstOf(OfDay(t, B)).time

(* A bar opens where its first input does when that starts with it or is   *)
(* the first of the day, else where the bar before closed; it closes with  *)
(* its last input.                                                         *)
PricesFollow(S, B) == \A i \in DOMAIN S :
  LET s    == S[i]
      from == Inputs(s, B)
      opens == from # {} /\ FirstOf(from).time \in {s.time, FirstOf(OfDay(s.time, B)).time}
  IN /\ s.open  = IF opens THEN FirstOf(from).open ELSE S[i - 1].close
     /\ s.close = IF from # {} THEN LastOf(from).close ELSE s.open

Fits(S, B, d, at) == InStep(S, d, at) /\ AllThere(S, B) /\ GapsTold(S, B) /\ PricesFollow(S, B)

-----------------------------------------------------------------------------
AllBars == delivered \o unread_data \o
  (IF running(own) THEN reset_answer(own) ELSE <<>>)

(* A bar that was received waits, is used, or came after a later one.      *)
Waiting == Range(feeder) \union (IF history # None THEN {live_bar} ELSE {})
NothingDropped == \A t \in received \ ({b.time : b \in used} \union Waiting) : t < old_start_time

(* "Returns DataBars of the choosen duration from input" (docstring of     *)
(* DataBarComposer, marketdata.py:618): over reset days, holes and the     *)
(* switch from the database to a live feed that overlaps it, the feeder's  *)
(* bars are exactly what it was given, told once, with its gaps.           *)
FeederFits == own.error = "none" =>
  NothingDropped /\ Fits(AllBars, used, Duration, 0)

(* Every interval holds, after every bar, the bars composed of all the     *)
(* framework has seen, and one result for each of them (multiinterval.py:  *)
(* new_bar_for_intraday_bars, ii_evaluation, remove_temp_results): the     *)
(* intervals stay in step however days end.                                *)
IntervalsFit == ~raised => \A n \in DOMAIN Intervals :
  /\ Fits(intervals[n].bars, Range(delivered), Intervals[n].duration, Intervals[n].at)
  /\ intervals[n].ii_values = Len(intervals[n].bars)

(* The feeder's own composer never raises, and the framework raises at a   *)
(* bar that comes before the time of the day an interval starts at         *)
(* (start_composer, marketdata.py), then and at no other bar: not for a    *)
(* skipped bar (multiinterval.py:136-140), nor because the intervals       *)
(* yielded different times (new_bar of the framework).                     *)
Early(bar) == \E n \in DOMAIN Intervals :
  bar.time < Day(bar.time) * DayLength + Intervals[n].at
RaisesWhenEarly == own.error = "none" /\ (raised <=> \E bar \in Range(delivered) : Early(bar))

(* Bars are only added to an interval; of those it had, only the last one, *)
(* while it is unfinished, is replaced, by a bar that continues it         *)
(* (remove_temp_results_from_unfinished_bars, multiinterval.py:455-462).   *)
Continues(old, new) ==
  /\ new.time = old.time /\ new.open = old.open /\ old.parts \subseteq new.parts
  /\ new.duration > old.duration
HistoryKept == [][\A n \in DOMAIN Intervals :
  LET old == intervals[n].bars  new == intervals'[n].bars
  IN /\ Len(new) >= Len(old)
     /\ \A k \in DOMAIN old :
          \/ new[k] = old[k]
          \/ k = Len(old) /\ old[k].duration < Intervals[n].duration /\ Continues(old[k], new[k])
  ]_vars
=============================================================================
