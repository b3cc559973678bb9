--------------------------- MODULE HistoricPacing ---------------------------
(***************************************************************************)
(* How a program paces its requests for historic data: before each one     *)
(* historical_data asks HistoricRequestLimitationsManager (tws.py), which  *)
(* sleeps or tells how long to wait; the sending is noted afterwards.      *)
(* Only differences of times matter: they count from the last request.     *)
(***************************************************************************)
EXTENDS Integers, Sequences

CONSTANTS
  Limit,    \* requests the broker allows within Window (60 in the code)
  Window,   \* 10 minutes
  Spacing,  \* time between two requests (2 seconds)
  Day,      \* what timedelta.seconds wraps at
  Patience, \* bound on the time the gateway, or a step of the program, takes
  Pause     \* bound on the time between two downloads

\* Assumed by HistoricDownload, which instantiates this module.
PacingAssumption ==
  /\ Limit \in Nat \ {0, 1} /\ Window \in Nat \ {0} /\ Spacing \in Nat /\ Day \in Nat \ {0}
  /\ Spacing < Window /\ Window < Day
  /\ Patience \in Nat \ {0} /\ Pause \in Nat

VARIABLES
  now,             \* the clock
  sended_requests, \* times of the requests the manager remembers
  pc,              \* "idle", "count", "sleep", "send" or "answer"
  wake,            \* when the sleep ends
  log              \* history: times of the last Limit + 1 requests

vars == <<now, sended_requests, pc, wake, log>>

Init == now = 0 /\ sended_requests = <<>> /\ pc = "idle" /\ wake = 0 /\ log = <<>>

tick(bound) == now < bound /\ now' = now + 1 /\ UNCHANGED <<sended_requests, pc, wake, log>>

(* The n oldest requests are more than a window old, the next is not.      *)
Outdated(n) ==
  /\ \A i \in 1..n : now - sended_requests[i] > Window
  /\ n < Len(sended_requests) => now - sended_requests[n + 1] <= Window

remove_outdated_data ==
  /\ pc = "idle" /\ pc' = "count"
  /\ \E n \in 0..Len(sended_requests) :
       /\ Outdated(n)
       /\ sended_requests' = SubSeq(sended_requests, n + 1, Len(sended_requests))
  /\ UNCHANGED <<now, wake, log>>

(* timedelta.seconds of a negative difference is taken from a day; the     *)
(* result of the ten minute rule is slept by the caller, who does not ask  *)
(* again.                                                                  *)
seconds(d) == d % Day
request_allowed ==
  /\ pc = "count" /\ pc' = "sleep"
  /\ LET n   == Len(sended_requests)
         gap == seconds(Spacing - (now - sended_requests[n]))
     IN wake' = now +
          (IF n = Limit - 1 THEN seconds(Window - (now - sended_requests[1]))
           ELSE IF n > 0 /\ gap < Spacing THEN gap ELSE 0)
  /\ UNCHANGED <<now, sended_requests, log>>

sleep ==
  /\ pc = "sleep" /\ now >= wake /\ pc' = "send"
  /\ UNCHANGED <<now, sended_requests, wake, log>>

(* The request is noted: it is the new origin of time.                     *)
noted(times) == Append([i \in DOMAIN times |-> times[i] - now], 0)
LastOf(s, n) == IF Len(s) <= n THEN s ELSE SubSeq(s, Len(s) - n + 1, Len(s))
request_sended ==
  /\ pc = "send" /\ pc' = "answer"
  /\ sended_requests' = noted(sended_requests) /\ log' = LastOf(noted(log), Limit + 1)
  /\ now' = 0 /\ wake' = 0

(* The answer is read in steps of a second: it takes some time.            *)
get_historical_request_data ==
  /\ pc = "answer" /\ now > 0 /\ pc' = "idle"
  /\ UNCHANGED <<now, sended_requests, wake, log>>

-----------------------------------------------------------------------------
Gap(i, n) == log[i + n] - log[i]

(* Type invariant; the manager remembers the last of the requests, in the  *)
(* order they were sent.                                                   *)
TypeOK ==
  /\ now \in Nat /\ wake \in Nat
  /\ pc \in {"idle", "count", "sleep", "send", "answer"}
  /\ log \in Seq(Int)
  /\ \A i \in 1..Len(log) - 1 : log[i] < log[i + 1]
  /\ sended_requests = LastOf(log, Len(sended_requests))

(* "no more than 60 requests in 10 minutes" (tws.py:450-451): any Limit    *)
(* requests and the next take a whole window, whenever they are asked for. *)
WindowLimit == \A i \in 1..Len(log) : i + Limit <= Len(log) => Gap(i, Limit) >= Window

(* The manager never remembers so many requests that the test for exactly  *)
(* Limit - 1 would be stepped over and the limit forgotten.                *)
LimitNotSkipped == Len(sended_requests) <= (IF pc \in {"answer", "idle"} THEN Limit ELSE Limit - 1)

-----------------------------------------------------------------------------
(* What the documentation says and the code does not do (see README.md).   *)

(* "waits for 2 seconds between 2 consecutive requests" (tws.py:449-450).  *)
SpacingKept == \A i \in 1..Len(log) : i + 1 <= Len(log) => Gap(i, 1) >= Spacing
=============================================================================
