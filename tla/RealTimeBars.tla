---------------------------- MODULE RealTimeBars ----------------------------
(***************************************************************************)
(* One real-time bar request of TWSClient.py.  The program requests, reads *)
(* (real_bar_from) and stops the bars; the gateway (external) sends a bar  *)
(* every five seconds until it has seen the cancel, and may send an error; *)
(* the listener process queues what comes in and the dispatcher process    *)
(* (TWSClientServerMessages.dispatch) puts it in req_data and req_info,    *)
(* which the program reads without a lock around the two.                  *)
(***************************************************************************)
EXTENDS Naturals, Sequences

CONSTANTS
  MaxBars,    \* bound on the bars the gateway sends
  MayStop,    \* the program calls stop_real_time_bars
  MayFail     \* the gateway sends an error for the request

ASSUME BarsAssumption == MaxBars \in Nat /\ MayStop \in BOOLEAN /\ MayFail \in BOOLEAN

VARIABLES
  status,     \* RequestStatus.status of the request
  data,       \* req_data[req_id]: bars not yet read
  inbox,      \* server_messages: what the listener has queued
  sent,       \* bars the gateway has sent
  gateway,    \* the gateway: off, on, or failed (it has sent an error)
  dispatcher, \* where the dispatcher process is
  message,    \* the message it works on
  reader,     \* where the program is in real_bar_from
  held,       \* real_bar: the bar popped and not yet returned
  got,        \* history: bars real_bar_from has returned
  outcome     \* what the last call returned or raised

gatewayVars == <<inbox, sent, gateway>>
readerVars  == <<reader, held, got, outcome>>
vars == <<status, data, gatewayVars, dispatcher, message, readerVars>>

(* The statuses of the code; a blank in a name is written "_".             *)
Statuses == {"None", "SENDED", "DATA_AVAILABLE", "NO_DATA_AVAILABLE", "FINISHED", "ERROR"}
NoBar == 0
Error == MaxBars + 1     \* the message Error(req_id, ...)

Init ==
  /\ status = "None" /\ data = <<>>
  /\ inbox = <<>> /\ sent = 0 /\ gateway = "off"
  /\ dispatcher = "get" /\ message = NoBar
  /\ reader = "idle" /\ held = NoBar /\ got = <<>> /\ outcome = "none"

(* The status setter: the statuses from which it accepts the new one;      *)
(* setting the status it has does nothing.                                 *)
From(new) ==
  CASE new = "DATA_AVAILABLE"    -> {"SENDED", "NO_DATA_AVAILABLE"}
    [] new = "NO_DATA_AVAILABLE" -> {"DATA_AVAILABLE"}
    [] new = "FINISHED"          -> {"SENDED", "DATA_AVAILABLE", "NO_DATA_AVAILABLE"}
Accepts(new)   == status = new \/ status \in From(new)
SetStatus(new) == Accepts(new) /\ status' = new

-----------------------------------------------------------------------------
(* The gateway and the listener (external, from how the client uses them). *)

send_bar ==
  /\ gateway = "on" /\ sent < MaxBars
  /\ sent' = sent + 1
  /\ inbox' = Append(inbox, sent + 1)
  /\ UNCHANGED <<status, data, gateway, dispatcher, message, readerVars>>

send_error ==
  /\ MayFail /\ gateway = "on"
  /\ gateway' = "failed"
  /\ inbox' = Append(inbox, Error)
  /\ UNCHANGED <<status, data, sent, dispatcher, message, readerVars>>

(* The cancel has arrived; until then bars keep coming.                    *)
cancelled ==
  /\ gateway = "on" /\ status = "FINISHED"
  /\ gateway' = "off"
  /\ UNCHANGED <<status, data, inbox, sent, dispatcher, message, readerVars>>

-----------------------------------------------------------------------------
(* The dispatcher process: any exception but KeyError ends it.             *)

get_message ==
  /\ dispatcher = "get" /\ inbox # <<>>
  /\ message' = Head(inbox) /\ inbox' = Tail(inbox)
  /\ dispatcher' = IF Head(inbox) = Error THEN "error" ELSE "append"
  /\ UNCHANGED <<status, data, sent, gateway, readerVars>>

append_bar ==
  /\ dispatcher = "append"
  /\ data' = Append(data, message)
  /\ dispatcher' = "check"
  /\ UNCHANGED <<status, gatewayVars, message, readerVars>>

Handled == dispatcher' = "get" /\ message' = NoBar

check_status_First ==
  /\ dispatcher = "check"
  /\ IF status # "SENDED" THEN Handled
     ELSE dispatcher' = "set" /\ UNCHANGED message
  /\ UNCHANGED <<status, data, gatewayVars, readerVars>>
check_status ==
  /\ dispatcher = "check"
  /\ IF status = "DATA_AVAILABLE" THEN Handled
     ELSE dispatcher' = "set" /\ UNCHANGED message
  /\ UNCHANGED <<status, data, gatewayVars, readerVars>>

set_available ==
  /\ dispatcher = "set"
  /\ IF Accepts("DATA_AVAILABLE")
       THEN SetStatus("DATA_AVAILABLE") /\ Handled
       ELSE dispatcher' = "dead" /\ UNCHANGED <<status, message>>
  /\ UNCHANGED <<data, gatewayVars, readerVars>>

handle_error ==
  /\ dispatcher = "error"
  /\ status' = "ERROR" /\ Handled
  /\ UNCHANGED <<data, gatewayVars, readerVars>>

Dispatcher == get_message \/ append_bar \/ check_status \/ set_available \/ handle_error

-----------------------------------------------------------------------------
(* The program, one call at a time.                                        *)

ProgramIdle == reader = "idle"

req_real_time_bars ==
  /\ ProgramIdle /\ status = "None"
  /\ status' = "SENDED" /\ data' = <<>> /\ gateway' = "on"
  /\ UNCHANGED <<inbox, sent, dispatcher, message, readerVars>>

Ends(how) == reader' = "idle" /\ outcome' = how

(* A status 'ERROR' is reported by an exception; so is a failed setter.    *)
stop_real_time_bars ==
  /\ MayStop /\ ProgramIdle /\ status \notin {"None", "FINISHED"}
  /\ IF Accepts("FINISHED")
       THEN SetStatus("FINISHED") /\ Ends("stopped")
       ELSE Ends("error") /\ UNCHANGED status
  /\ UNCHANGED <<data, gatewayVars, dispatcher, message, held, got>>

real_bar_from ==
  /\ ProgramIdle /\ status # "None"
  /\ IF status = "ERROR" THEN Ends("error") ELSE reader' = "loop" /\ outcome' = "none"
  /\ UNCHANGED <<status, data, gatewayVars, dispatcher, message, held, got>>

(* The while loop looks at the status; without data it sleeps half a       *)
(* second, until the time is up.                                           *)
look ==
  /\ reader = "loop"
  /\ \/ status = "DATA_AVAILABLE" /\ reader' = "pop"
     \/ status = "FINISHED" /\ reader' = IF data = <<>> THEN "after" ELSE "drain"
  /\ UNCHANGED <<status, data, gatewayVars, dispatcher, message, held, got, outcome>>

time_is_up ==
  /\ reader = "loop" /\ status \notin {"DATA_AVAILABLE", "FINISHED"}
  /\ reader' = "after"
  /\ UNCHANGED <<status, data, gatewayVars, dispatcher, message, held, got, outcome>>

(* real_bar is None after the loop: the status says why, or it is not too  *)
(* late after all.                                                         *)
after_Late ==
  /\ reader = "after"
  /\ CASE status = "DATA_AVAILABLE"    -> reader' = "pop" /\ UNCHANGED outcome
       [] status = "SENDED"            -> Ends("RequestSended")
       [] status \in {"NO_DATA_AVAILABLE", "FINISHED"} -> Ends("TimeOut")
       [] OTHER                        -> Ends("error")
  /\ UNCHANGED <<status, data, gatewayVars, dispatcher, message, held, got>>
after ==
  /\ reader = "after"
  /\ CASE status = "DATA_AVAILABLE"    -> reader' = "pop" /\ UNCHANGED outcome
       [] status = "FINISHED"          -> Ends("RequestStopped")
       [] status = "SENDED"            -> Ends("RequestSended")
       [] status = "NO_DATA_AVAILABLE" -> Ends("TimeOut")
       [] OTHER                        -> Ends("error")
  /\ UNCHANGED <<status, data, gatewayVars, dispatcher, message, held, got>>

Pop == held' = Head(data) /\ data' = Tail(data)

pop_Last ==
  /\ reader = "pop" /\ data # <<>>
  /\ held' = data[Len(data)] /\ data' = SubSeq(data, 1, Len(data) - 1) /\ reader' = "len"
  /\ UNCHANGED <<status, gatewayVars, dispatcher, message, got, outcome>>
pop ==
  /\ reader = "pop" /\ data # <<>>
  /\ Pop /\ reader' = "len"
  /\ UNCHANGED <<status, gatewayVars, dispatcher, message, got, outcome>>

(* work_list.pop(0) of an empty list.                                      *)
pop_empty ==
  /\ reader = "pop" /\ data = <<>>
  /\ Ends("IndexError")
  /\ UNCHANGED <<status, data, gatewayVars, dispatcher, message, held, got>>

drain ==
  /\ reader = "drain"
  /\ Pop /\ reader' = "return"
  /\ UNCHANGED <<status, gatewayVars, dispatcher, message, got, outcome>>

look_at_length ==
  /\ reader = "len"
  /\ reader' = IF data = <<>> THEN "mark" ELSE "return"
  /\ UNCHANGED <<status, data, gatewayVars, dispatcher, message, held, got, outcome>>

(* A status that refuses 'NO DATA AVAILABLE' raises: the bar is gone.      *)
mark_empty ==
  /\ reader = "mark"
  /\ IF Accepts("NO_DATA_AVAILABLE")
       THEN SetStatus("NO_DATA_AVAILABLE") /\ reader' = "return" /\ UNCHANGED <<held, outcome>>
       ELSE Ends("error") /\ held' = NoBar /\ UNCHANGED status
  /\ UNCHANGED <<data, gatewayVars, dispatcher, message, got>>

return_bar ==
  /\ reader = "return"
  /\ got' = Append(got, held) /\ held' = NoBar /\ Ends("bar")
  /\ UNCHANGED <<status, data, gatewayVars, dispatcher, message>>

Reader ==
  \/ look \/ time_is_up \/ after \/ pop \/ pop_empty \/ drain
  \/ look_at_length \/ mark_empty \/ return_bar

Program == req_real_time_bars \/ stop_real_time_bars \/ real_bar_from \/ Reader

Next == send_bar \/ send_error \/ cancelled \/ Dispatcher \/ Program

(* The processes run; a program that has asked for bars reads them again   *)
(* and again (the loop of the feed server), it need not stop them.         *)
Fairness ==
  WF_vars(Dispatcher) /\ WF_vars(Reader) /\ WF_vars(real_bar_from) /\ WF_vars(cancelled)

Spec == Init /\ [][Next]_vars
FairSpec == Spec /\ Fairness

-----------------------------------------------------------------------------
(* Type invariant *)
TypeOK ==
  /\ status \in Statuses
  /\ sent \in 0..MaxBars /\ gateway \in {"off", "on", "failed"}
  /\ data \in Seq(1..MaxBars) /\ got \in Seq(1..MaxBars)
  /\ inbox \in Seq(1..Error)
  /\ dispatcher \in {"get", "append", "check", "set", "error", "dead"}
  /\ message \in 0..Error /\ held \in 0..MaxBars
  /\ reader \in {"idle", "loop", "after", "pop", "drain", "len", "mark", "return"}

(* What an error leaves of a queue of messages: it is the last one of a    *)
(* stream, never in between (ErrorIsLast).                                 *)
Bar(b)   == IF b = NoBar THEN <<>> ELSE <<b>>
BarsIn(s) == IF s # <<>> /\ s[Len(s)] = Error THEN Len(s) - 1 ELSE Len(s)
Bars(s)  == [i \in 1..BarsIn(s) |-> s[i]]
Waiting  == IF dispatcher = "append" THEN Bar(message) ELSE <<>>

(* Every bar the gateway sends is returned by real_bar_from once, in the   *)
(* order it was sent, or is still on its way: the unlocked hand-over from  *)
(* dispatcher to reader (req_data, req_info) loses and reorders nothing,   *)
(* unless the stream fails: then the reader may drop the bar it holds, and *)
(* that call is the last one to read.                                      *)
Stream    == got \o Bar(held) \o data \o Waiting \o Bars(inbox)
NoBarLost == status # "ERROR" \/ reader # "idle" => Stream = [i \in 1..sent |-> i]

(* Also in a stream that fails, the program has read the first bars the    *)
(* gateway sent, in order and without a gap (real_bar_from).               *)
ReadInOrder == \A i \in 1..Len(got) : got[i] = i

(* Bars that arrived between the reader's look at the length and its       *)
(* setting of the status hide behind 'NO DATA AVAILABLE'; the next bar     *)
(* brings them out, they never stay hidden for good in a stream that works.*)
InData(b) == b \in {data[i] : i \in DOMAIN data}
HiddenBarSurfaces == \A b \in 1..MaxBars :
  (status = "NO_DATA_AVAILABLE" /\ dispatcher = "get" /\ InData(b) /\ inbox # <<>>)
    ~> (~InData(b) \/ status = "ERROR")

(* After stop_real_time_bars the program reads what had arrived and is     *)
(* then told that the bars have stopped.                                   *)
StopIsTold == (status = "FINISHED") ~> (outcome = "RequestStopped" \/ status = "ERROR")

(* The dispatcher, which serves every request of the program, does not end *)
(* on a bar of a stream that was neither stopped nor failed: each status   *)
(* the reader leaves behind is one the dispatcher can go on from.          *)
LiveStreamKeepsDispatcher == dispatcher = "dead" => status \in {"FINISHED", "ERROR"}

(* A request that was not made has no bars; a failed one gets no more.     *)
NothingBefore == status = "None" =>
  gateway = "off" /\ inbox = <<>> /\ data = <<>> /\ dispatcher = "get" /\ reader = "idle"
ErrorIsLast ==
  /\ \A i \in 1..Len(inbox) : inbox[i] = Error => i = Len(inbox) /\ gateway = "failed"
  /\ dispatcher = "append" => message \in 1..MaxBars
  /\ dispatcher = "error" \/ status = "ERROR" => gateway = "failed" /\ inbox = <<>>
  /\ status = "ERROR" => dispatcher = "get"

(* Where the reader is says what it holds and what it may pop.             *)
ReaderHolds ==
  /\ reader \in {"len", "mark", "return"} <=> held # NoBar
  /\ reader = "drain" => data # <<>>
  /\ reader \in {"pop", "len", "mark"} => status \in {"DATA_AVAILABLE", "ERROR"}

(* The safety invariant of a stream: no bar is lost or handed out out of   *)
(* order, and reader and dispatcher leave each other states they can go on *)
(* from (real_bar_from against the loop of dispatch).                      *)
StreamInv ==
  /\ TypeOK /\ NoBarLost /\ ReadInOrder /\ LiveStreamKeepsDispatcher
  /\ NothingBefore /\ ErrorIsLast /\ ReaderHolds

-----------------------------------------------------------------------------
(* What the documentation says and the code does not do (see README.md).   *)

(* TWSClient.py:569, TimeOut('no data available'): no data is available,   *)
(* or the dispatcher is only just handing it over.                         *)
TimeOutMeansNoData ==
  [][outcome' = "TimeOut" /\ outcome # "TimeOut" => data = <<>> \/ dispatcher # "get"]_vars

(* The docstring of req_real_time_bars: "Data can be read with the         *)
(* real_bar_from method"; 'DATA AVAILABLE' means there is a bar to pop.    *)
AvailableMeansData == outcome # "IndexError"

(* dispatch() stores messages it does not expect in std_list and goes on   *)
(* (TWSClientServerMessages.py:473-477); it does not end.                  *)
DispatcherSurvives == dispatcher # "dead"
=============================================================================
