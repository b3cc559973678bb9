---------------------------- MODULE AlarmServer ----------------------------
(***************************************************************************)
(* The alarm server (alarm_server_gscLib.py) on the generic threaded       *)
(* server: one handler thread per request works on the shared dict         *)
(* alarm_times; clients make one request at a time, and a buzzer client    *)
(* keeps its connection open and rings the bell.  The time of an alarm is  *)
(* abstracted to whether now has passed it.                                *)
(***************************************************************************)
EXTENDS Naturals, Sequences

CONSTANTS
  Clients,   \* programs that make requests
  Alarms,    \* alarm names
  Ops,       \* requests the clients make
  Nobody     \* holder of the free atomic_action lock

AllOps == {"set", "change", "remove", "active", "buzzer"}
ASSUME AlarmAssumption ==
  /\ Nobody \notin Clients
  /\ Ops \subseteq AllOps /\ Ops # {} /\ Alarms # {}

VARIABLES
  alarm_times,  \* namespace.alarm_times: unset, later or due (now has passed it)
  atomic,       \* who holds namespace.atomic_action
  handler,      \* where the handler thread of the request is
  program,      \* where the client program is in its request
  request,      \* the request: operation, alarm name, alarm time
  to_server,    \* messages on the connection, oldest first
  to_client,
  result,       \* what the last request returned or raised
  live,         \* history: alarms set and not since removed
  stale         \* history: rings since the alarm was last due

serverVars == <<alarm_times, atomic, live>>
linkVars   == <<handler, to_server, to_client>>
clientVars == <<program, request, result>>
vars       == <<serverVars, linkVars, clientVars, stale>>

Times    == {"later", "due"}
Requests == [op : Ops, alarm : Alarms, time : Times]
Answers  == {"set", "removed", "stopped", "on", "off", "error", "uncaught"}
Results  == Answers \union {"none", "lost"}

Target(c)  == request[c].alarm
IsSet(a)   == alarm_times[a] # "unset"
Connected(c) == program[c] # "idle"

Init ==
  /\ alarm_times = [a \in Alarms |-> "unset"]
  /\ atomic = Nobody
  /\ handler = [c \in Clients |-> "none"]
  /\ program = [c \in Clients |-> "idle"]
  /\ request = [c \in Clients |-> CHOOSE r \in Requests : TRUE]
  /\ to_server = [c \in Clients |-> <<>>]
  /\ to_client = [c \in Clients |-> <<>>]
  /\ result = [c \in Clients |-> "none"]
  /\ live = {}
  /\ stale = [c \in Clients |-> 0]

-----------------------------------------------------------------------------
(* Handler threads                                                         *)

(* A message to a closed connection is lost.                               *)
Send(c, message) ==
  to_client' = IF Connected(c) THEN [to_client EXCEPT ![c] = Append(@, message)] ELSE to_client

Goto(c, place) == handler' = [handler EXCEPT ![c] = place]

(* server_request_answer, or the request handler for an exception nobody   *)
(* caught; then the handler ends and the server's end is closed.           *)
Reply(c, message) == Send(c, message) /\ Goto(c, "none")

At(c, place, op) == handler[c] = place /\ request[c].op = op

set_alarm_check_Unlocked(c) ==
  /\ At(c, "clear", "set")
  /\ IF IsSet(Target(c)) THEN Reply(c, "error") ELSE Goto(c, "write") /\ UNCHANGED to_client
  /\ UNCHANGED <<serverVars, to_server, clientVars>>
set_alarm_check(c) ==
  /\ At(c, "clear", "set") /\ atomic = Nobody
  /\ IF IsSet(Target(c))
       THEN Reply(c, "error") /\ UNCHANGED atomic
       ELSE Goto(c, "write") /\ atomic' = c /\ UNCHANGED to_client
  /\ UNCHANGED <<alarm_times, live, to_server, clientVars>>

set_alarm_write(c) ==
  /\ At(c, "write", "set")
  /\ alarm_times' = [alarm_times EXCEPT ![Target(c)] = request[c].time]
  /\ live' = live \union {Target(c)}
  /\ atomic' = Nobody
  /\ Reply(c, "set")
  /\ UNCHANGED <<to_server, clientVars>>

(* clear() of the other requests.  change and remove name a succes_text    *)
(* that they only assign on success: with an error of clear() they raise   *)
(* UnboundLocalError instead of sending it.                                *)
AfterRefusal(op) == IF op \in {"change", "remove"} THEN "uncaught" ELSE "error"
clear(c) ==
  /\ handler[c] = "clear" /\ request[c].op # "set"
  /\ IF IsSet(Target(c))
       THEN Goto(c, IF request[c].op = "buzzer" THEN "loop_1" ELSE "write") /\ UNCHANGED to_client
       ELSE Reply(c, AfterRefusal(request[c].op))
  /\ UNCHANGED <<serverVars, to_server, clientVars>>

change_alarm_write(c) ==
  /\ At(c, "write", "change")
  /\ alarm_times' = [alarm_times EXCEPT ![Target(c)] = request[c].time]
  /\ Reply(c, "set")
  /\ UNCHANGED <<atomic, live, to_server, clientVars>>

remove_alarm_del(c) ==
  /\ At(c, "write", "remove")
  /\ alarm_times' = [alarm_times EXCEPT ![Target(c)] = "unset"]
  /\ live' = live \ {Target(c)}
  /\ Reply(c, IF IsSet(Target(c)) THEN "removed" ELSE "uncaught")
  /\ UNCHANGED <<atomic, to_server, clientVars>>

(* alarm_times[name] < datetime.now(), a KeyError when it is gone.         *)
State(a) == IF ~IsSet(a) THEN "uncaught" ELSE IF alarm_times[a] = "due" THEN "on" ELSE "off"

alarm_active_read(c) ==
  /\ At(c, "write", "active")
  /\ Reply(c, State(Target(c)))
  /\ UNCHANGED <<serverVars, to_server, clientVars>>

(* The while loop of system_bell_buzzer; loop_1 is its first test, before  *)
(* next_request is bound.                                                  *)
buzzer_test(c) ==
  /\ handler[c] \in {"loop_1", "loop"}
  /\ IF IsSet(Target(c))
       THEN Goto(c, "ring") /\ UNCHANGED to_client
       ELSE Reply(c, IF handler[c] = "loop" THEN "removed" ELSE "uncaught")
  /\ UNCHANGED <<serverVars, to_server, clientVars>>

buzzer_send_Ahead(c) ==
  /\ handler[c] = "ring"
  /\ IF IsSet(Target(c)) THEN Send(c, State(Target(c))) /\ Goto(c, "loop") ELSE Reply(c, "uncaught")
  /\ UNCHANGED <<serverVars, to_server, clientVars>>
buzzer_send(c) ==
  /\ handler[c] = "ring"
  /\ IF IsSet(Target(c))
       THEN Send(c, State(Target(c))) /\ Goto(c, "listen")
       ELSE Reply(c, "uncaught")
  /\ UNCHANGED <<serverVars, to_server, clientVars>>

buzzer_receive(c) ==
  /\ handler[c] = "listen" /\ to_server[c] # <<>>
  /\ to_server' = [to_server EXCEPT ![c] = Tail(@)]
  /\ IF Head(to_server[c]) = "stop"
       THEN Reply(c, "stopped")
       ELSE Goto(c, "loop") /\ UNCHANGED to_client
  /\ UNCHANGED <<serverVars, clientVars>>

(* receive() raises once the client's end is closed.                       *)
buzzer_hangup(c) ==
  /\ handler[c] = "listen" /\ to_server[c] = <<>> /\ ~Connected(c)
  /\ Goto(c, "none")
  /\ UNCHANGED <<serverVars, to_server, to_client, clientVars>>

HandlerStep(c) ==
  \/ set_alarm_check(c) \/ set_alarm_write(c) \/ clear(c) \/ change_alarm_write(c)
  \/ remove_alarm_del(c) \/ alarm_active_read(c)
  \/ buzzer_test(c) \/ buzzer_send(c) \/ buzzer_receive(c) \/ buzzer_hangup(c)

-----------------------------------------------------------------------------
(* Client programs                                                         *)

call(c, r) ==
  /\ ~Connected(c) /\ handler[c] = "none"
  /\ request' = [request EXCEPT ![c] = r]
  /\ program' = [program EXCEPT ![c] = IF r.op = "buzzer" THEN "first" ELSE "wait"]
  /\ result' = [result EXCEPT ![c] = "none"]
  /\ Goto(c, "clear")
  /\ to_server' = [to_server EXCEPT ![c] = <<>>]
  /\ to_client' = [to_client EXCEPT ![c] = <<>>]
  /\ UNCHANGED serverVars

(* The request returns or raises; the connection is closed with what is    *)
(* still on it.                                                            *)
Return(c, value) ==
  /\ program' = [program EXCEPT ![c] = "idle"]
  /\ result' = [result EXCEPT ![c] = value]
  /\ UNCHANGED <<serverVars, linkVars, request>>

(* The standard client function, and receive() after a 'stop'.             *)
receive_answer(c) ==
  /\ program[c] \in {"wait", "stopping"} /\ to_client[c] # <<>>
  /\ Return(c, Head(to_client[c]))

Receives(c) == program[c] \in {"first", "receive"}

(* Everything but 'removed' keeps the buzzer's client going: True rings,   *)
(* False, an error and an exception do not.                                *)
buzz(c) ==
  /\ Receives(c) /\ to_client[c] # <<>> /\ Head(to_client[c]) # "removed"
  /\ to_client' = [to_client EXCEPT ![c] = Tail(@)]
  /\ program' = [program EXCEPT ![c] = "nap"]
  /\ UNCHANGED <<serverVars, handler, to_server, request, result>>

buzzer_removed(c) ==
  /\ Receives(c) /\ to_client[c] # <<>> /\ Head(to_client[c]) = "removed"
  /\ Return(c, "removed")

(* A message to a server end that is closed goes nowhere.                  *)
Say(c, message) ==
  to_server' = IF handler[c] = "none" THEN to_server ELSE [to_server EXCEPT ![c] = Append(@, message)]

wake_Silent(c) ==
  /\ program[c] = "nap"
  /\ program' = [program EXCEPT ![c] = "receive"]
  /\ UNCHANGED <<serverVars, linkVars, request, result>>
wake(c) ==
  /\ program[c] = "nap"
  /\ Say(c, "foo")
  /\ program' = [program EXCEPT ![c] = "receive"]
  /\ UNCHANGED <<serverVars, handler, to_client, request, result>>

(* receive() on a connection the server has closed: LostServerConnection.  *)
lost_connection_Retries(c) ==
  /\ program[c] \in {"first", "receive", "stopping"}
  /\ to_client[c] = <<>> /\ handler[c] = "none"
  /\ program' = [program EXCEPT ![c] = "nap"]
  /\ UNCHANGED <<serverVars, linkVars, request, result>>
lost_connection(c) ==
  /\ program[c] \in {"first", "receive", "stopping"}
  /\ to_client[c] = <<>> /\ handler[c] = "none"
  /\ Return(c, "lost")

(* Control-C in the buzzer's client.                                       *)
interrupt(c) ==
  \/ program[c] = "first" /\ Return(c, "stopped")
  \/ /\ program[c] \in {"receive", "nap"}
     /\ Say(c, "stop")
     /\ program' = [program EXCEPT ![c] = "stopping"]
     /\ UNCHANGED <<serverVars, handler, to_client, request, result>>

ClientStep(c) == receive_answer(c) \/ buzz(c) \/ buzzer_removed(c) \/ wake(c) \/ lost_connection(c)

time_passes(a) ==
  /\ alarm_times[a] = "later"
  /\ alarm_times' = [alarm_times EXCEPT ![a] = "due"]
  /\ UNCHANGED <<atomic, live, linkVars, clientVars>>

Ringing(c) == Receives(c) /\ to_client[c] # <<>> /\ Head(to_client[c]) = "on"
Rings(c)   == Ringing(c) /\ program'[c] = "nap"

CountStale == stale' = [c \in Clients |->
  IF alarm_times'[request'[c].alarm] = "due" \/ program'[c] = "idle" THEN 0
  ELSE IF Rings(c) /\ stale[c] < 2 THEN stale[c] + 1 ELSE stale[c]]

Next ==
  /\ \/ \E c \in Clients : HandlerStep(c) \/ ClientStep(c) \/ interrupt(c)
     \/ \E c \in Clients, r \in Requests : call(c, r)
     \/ \E a \in Alarms : time_passes(a)
  /\ CountStale

(* Threads that can run do run; nothing says which of several waiting      *)
(* handlers gets the lock, and no client need interrupt or call.           *)
Fairness == \A c \in Clients :
  WF_vars(HandlerStep(c) /\ CountStale) /\ WF_vars(ClientStep(c) /\ CountStale)

Spec == Init /\ [][Next]_vars
FairSpec == Spec /\ Fairness

-----------------------------------------------------------------------------
(* Type invariant.  The two ends of a connection take turns: the server is *)
(* at most two messages behind ('foo' and 'stop').                         *)
Behind == {<<>>, <<"foo">>, <<"stop">>, <<"foo", "stop">>}
TypeOK ==
  /\ alarm_times \in [Alarms -> Times \union {"unset"}]
  /\ atomic \in Clients \union {Nobody}
  /\ handler \in [Clients -> {"none", "clear", "write", "loop_1", "loop", "ring", "listen"}]
  /\ program \in [Clients -> {"idle", "wait", "first", "receive", "nap", "stopping"}]
  /\ request \in [Clients -> Requests]
  /\ to_server \in [Clients -> Behind]
  /\ to_client \in [Clients -> Seq(Answers)] /\ \A c \in Clients : Len(to_client[c]) <= 2
  /\ result \in [Clients -> Results]
  /\ live \subseteq Alarms
  /\ stale \in [Clients -> 0..2]

(* The lock is held by the set_alarm that has found its name free, and the *)
(* name is still free.                                                     *)
SetGuarded ==
  /\ \A a \in live : IsSet(a)
  /\ \A c \in Clients :
       /\ At(c, "write", "set") <=> atomic = c
       /\ At(c, "write", "set") => Target(c) \notin live

(* The handler speaks, then listens: while it works its client has read    *)
(* everything, and no ring goes out before the last one was answered.      *)
Works(c) == handler[c] \notin {"none", "listen"}
Turns(c) ==
  /\ Works(c) => to_client[c] = <<>> /\ to_server[c] \in {<<>>, <<"stop">>}
  /\ handler[c] = "listen" /\ to_server[c] \notin {<<>>, <<"stop">>} => to_client[c] = <<>>
  /\ handler[c] = "listen" \/ program[c] # "stopping" => Len(to_client[c]) <= 1
  /\ program[c] = "wait" => to_server[c] = <<>>
  /\ program[c] = "first" => to_server[c] = <<>>
  /\ program[c] = "receive" /\ handler[c] # "none" => to_server[c] \in {<<>>, <<"foo">>}
  /\ program[c] = "nap" =>
       to_client[c] = <<>> /\ (handler[c] # "none" => handler[c] = "listen" /\ to_server[c] = <<>>)

InTurns == \A c \in Clients : Connected(c) => Turns(c)

(* A ring not yet heard was sent after the alarm was last due.             *)
RingsAreFresh == \A c \in Clients : Ringing(c) => stale[c] = 0

(* A second set_alarm of a name is answered 'set' only when the alarm was  *)
(* removed in between, whatever the other requests do: set_alarm looks and *)
(* writes under atomic_action.                                             *)
SetOnce == [][\A c \in Clients : set_alarm_write(c) => Target(c) \notin live]_vars

(* After an alarm is put off (change_alarm_time to a later time) a buzzer  *)
(* rings at most once more: the server looks at the time anew for every    *)
(* ring of system_bell_buzzer.                                             *)
AtMostOneStaleRing == \A c \in Clients : stale[c] <= 1

(* The safety invariant of the alarm server.                               *)
AlarmInv == TypeOK /\ SetGuarded /\ InTurns /\ RingsAreFresh /\ AtMostOneStaleRing

(* A buzzer of an alarm that stays removed comes to an end.                *)
RemovedAlarmFallsSilent == \A c \in Clients, a \in Alarms :
  <>[](alarm_times[a] = "unset") => []<>(program[c] \in {"idle", "wait"} \/ Target(c) # a)

(* While an alarm stays due its buzzer rings again and again: the          *)
(* lock-step of system_bell_buzzer does not get stuck.                     *)
DueAlarmKeepsRinging == \A c \in Clients, a \in Alarms :
  <>[](alarm_times[a] = "due" /\ Target(c) = a /\ (Receives(c) \/ program[c] = "nap"))
    => []<>Ringing(c)

(* A request that waits forever does so only because other set_alarm       *)
(* requests keep taking the atomic_action lock: nobody keeps it.           *)
RequestsAreAnswered == \A c \in Clients :
  <>[](program[c] = "wait") => []<>(atomic \notin {c, Nobody}) /\ []<>(atomic = Nobody)

-----------------------------------------------------------------------------
(* What the documentation says and the code does not do (see README.md).   *)

(* Docstring of remove_alarm: "removed -- alarm is removed"; an alarm that *)
(* is there has been set since its last removal.                           *)
RemovedStaysRemoved == \A a \in Alarms : IsSet(a) => a \in live

(* Docstring of change_alarm_time and remove_alarm: an AlarmError when the *)
(* alarm doesn't exist, never another exception.                           *)
MissingAlarmIsAlarmError == \A c \in Clients :
  request[c].op \in {"change", "remove"} => result[c] # "uncaught"

(* Docstring of system_bell_buzzer: it returns removed or stopped, or an   *)
(* AlarmError.                                                             *)
BuzzerReturnsAsDocumented == \A c \in Clients :
  request[c].op = "buzzer" => result[c] \in {"none", "removed", "stopped", "error"}

=============================================================================
