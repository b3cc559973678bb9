--------------------------- MODULE ComposingFeeder ---------------------------
(***************************************************************************)
(* ComposingDatabarFeeder of marketdata.py: it reads the bars of a         *)
(* database, continues with a live feed that started before the database   *)
(* was read, and hands out composed bars, one at a time, to the program    *)
(* that iterates over it.                                                  *)
(***************************************************************************)
EXTENDS BarComposer

CONSTANTS
  Duration,                \* of the composed bars
  HistorySize, LiveSize,   \* durations of the bars of the two feeders
  MaxTime                  \* bound: no bar ends later

VARIABLES
  history,         \* end of the last bar of the database, None: all are read
  live_bar,        \* the last bar of the live feed, None before the first
  feeder,          \* the list of live bars
  reading,         \* in the inner loop, over the database or the list
  old_start_time,
  own,             \* the feeder's composer
  unread_data,
  received,        \* history: times of the bars of both feeders
  used             \* history: the bars that were inserted

sourceVars == <<history, live_bar, feeder, reading, received>>
feederVars == <<old_start_time, own, unread_data, used>>

(* A bar of a feeder: its prices are known by its time.                    *)
SourceBar(t, size) ==
  [time |-> t, duration |-> size, open |-> 2 * t, close |-> 2 * t + 1, gaps |-> FALSE, parts |-> {t}]

FeederInit ==
  /\ history = 0 /\ live_bar = None /\ feeder = <<>> /\ reading = FALSE
  /\ old_start_time = None /\ own = composer(Duration, None)
  /\ unread_data = <<>> /\ received = {} /\ used = {}

-----------------------------------------------------------------------------
(* The inner loop, for one bar.                                            *)

TooSoon_Never(bar) == FALSE
TooSoon(bar) == old_start_time # None /\ bar.time - old_start_time < bar.duration

NewDay(bar) ==
  \/ old_start_time = None
  \/ Day(bar.time) # Day(old_start_time) /\ bar.time - old_start_time > bar.duration

insert(bar) ==
  LET reset == NewDay(bar) /\ has_start_time(own)
      c     == insert_bar(IF reset THEN reset_composer(own) ELSE own, bar)
      left  == IF reset THEN reset_answer(own) ELSE <<>>
  IN IF c.error # "none"
     THEN own' = c /\ UNCHANGED <<old_start_time, unread_data, used>>
     ELSE /\ own' = popped(c) /\ unread_data' = left \o complete_bars(c)
          /\ old_start_time' = bar.time /\ used' = used \union {bar}

feed(bar) == IF TooSoon(bar) THEN UNCHANGED feederVars ELSE insert(bar)

-----------------------------------------------------------------------------
(* The loops go on when everything was handed out.                         *)

Resumes == unread_data = <<>> /\ own.error = "none"

first_live_bar(t) ==
  /\ live_bar = None /\ t % LiveSize = 0 /\ t + LiveSize <= MaxTime
  /\ live_bar' = t /\ received' = {t} /\ reading' = TRUE
  /\ UNCHANGED <<history, feeder, feederVars>>

history_bar(t) ==
  /\ Resumes /\ reading /\ history # None
  /\ t >= history /\ t % HistorySize = 0 /\ t + HistorySize <= MaxTime
  /\ feed(SourceBar(t, HistorySize)) /\ history' = t + HistorySize
  /\ received' = received \union {t}
  /\ UNCHANGED <<live_bar, feeder, reading>>

(* The live bar waits in the list until the next one comes.                *)
history_ends_Drops ==
  /\ Resumes /\ reading /\ history # None
  /\ history' = None /\ feeder' = <<>> /\ reading' = FALSE
  /\ UNCHANGED <<live_bar, received, feederVars>>
history_ends ==
  /\ Resumes /\ reading /\ history # None
  /\ history' = None /\ feeder' = <<live_bar>> /\ reading' = FALSE
  /\ UNCHANGED <<live_bar, received, feederVars>>

next_live_bar(t) ==
  /\ Resumes /\ ~reading /\ history = None
  /\ t >= live_bar + LiveSize /\ t % LiveSize = 0 /\ t + LiveSize <= MaxTime
  /\ live_bar' = t /\ feeder' = Append(feeder, t) /\ reading' = TRUE
  /\ received' = received \union {t}
  /\ UNCHANGED <<history, feederVars>>

list_bar ==
  /\ Resumes /\ reading /\ history = None
  /\ feed(SourceBar(Head(feeder), LiveSize))
  /\ feeder' = Tail(feeder) /\ reading' = (Len(feeder) > 1)
  /\ UNCHANGED <<history, live_bar, received>>

FeederNext ==
  \/ \E t \in 0..MaxTime : first_live_bar(t) \/ history_bar(t) \/ next_live_bar(t)
  \/ history_ends \/ list_bar
=============================================================================
