----------------------------- MODULE ServerProofs -----------------------------
(***************************************************************************)
(* The servers on the generic threaded server of generic_server_client:    *)
(* their handlers share tables, under locks, or one connection, without.   *)
(*                                                                         *)
(* AlarmInv is inductive: the lock covers what set_alarm found, and the    *)
(* two ends of a buzzer's connection take turns.  LockInv is inductive, it *)
(* implies mutual exclusion, and every step of the lock server is a step   *)
(* of Mutex or leaves the owners alone.  ConnectionInv is inductive.       *)
(***************************************************************************)
EXTENDS AlarmServer, LockServer, ConnectionServer, SequenceTheorems, TLAPS

(* What is said on a line that has at most 'foo' and 'stop' on it. *)
LEMMA Lines ==
  /\ Append(<<>>, "foo") = <<"foo">> /\ Append(<<>>, "stop") = <<"stop">>
  /\ Append(<<"foo">>, "stop") = <<"foo", "stop">>
  /\ Tail(<<"foo">>) = <<>> /\ Tail(<<"stop">>) = <<>> /\ Tail(<<"foo", "stop">>) = <<"stop">>
  /\ Head(<<"foo">>) = "foo" /\ Head(<<"stop">>) = "stop" /\ Head(<<"foo", "stop">>) = "foo"
<1>1. Append(<<>>, "foo") = <<"foo">> /\ Append(<<>>, "stop") = <<"stop">>
  OBVIOUS
<1>2. Append(<<"foo">>, "stop") = <<"foo", "stop">>
  <2> DEFINE s == Append(<<"foo">>, "stop")
             t == <<"foo", "stop">>
  <2>1. /\ s \in Seq({"foo", "stop"}) /\ Len(s) = 2 /\ s[1] = "foo" /\ s[2] = "stop"
        /\ t \in Seq({"foo", "stop"}) /\ Len(t) = 2 /\ t[1] = "foo" /\ t[2] = "stop"
    OBVIOUS
  <2> HIDE DEF s, t
  <2>2. \A i \in 1..Len(s) : s[i] = t[i]
    BY <2>1
  <2>3. s = t
    BY <2>1, <2>2, SeqEqual
  <2>4. QED
    BY <2>3 DEF s, t
<1>3. Tail(<<"foo">>) = <<>> /\ Tail(<<"stop">>) = <<>>
  <2>1. ASSUME NEW S, NEW s \in Seq(S), Len(s) = 1 PROVE Tail(s) = <<>>
    <3>1. Tail(s) \in Seq(S) /\ Len(Tail(s)) = 0
      BY <2>1
    <3>2. ASSUME NEW t \in Seq(S), Len(t) = 0 PROVE t = <<>>
      BY <3>2
    <3>3. QED
      BY <3>1, <3>2
  <2>2. /\ <<"foo">> \in Seq({"foo", "stop"}) /\ Len(<<"foo">>) = 1
        /\ <<"stop">> \in Seq({"foo", "stop"}) /\ Len(<<"stop">>) = 1
    OBVIOUS
  <2>3. QED
    BY <2>1, <2>2
<1>4. Tail(<<"foo", "stop">>) = <<"stop">>
  OBVIOUS
<1>5. Head(<<"foo">>) = "foo" /\ Head(<<"stop">>) = "stop" /\ Head(<<"foo", "stop">>) = "foo"
  OBVIOUS
<1>6. QED
  BY <1>1, <1>2, <1>3, <1>4, <1>5

LEMMA Different ==
  /\ <<"foo">> # <<>> /\ <<"stop">> # <<>> /\ <<"foo", "stop">> # <<>>
  /\ <<"foo">> # <<"stop">> /\ <<"foo", "stop">> # <<"stop">> /\ <<"foo", "stop">> # <<"foo">>
  OBVIOUS

(* A message more, or less, on the way to the client. *)
LEMMA Messages ==
  ASSUME NEW s \in Seq(Answers)
  PROVE  /\ \A m \in Answers : Append(s, m) \in Seq(Answers) /\ Len(Append(s, m)) = Len(s) + 1
         /\ \A m \in Answers : s = <<>> => Head(Append(s, m)) = m
         /\ s # <<>> => /\ Tail(s) \in Seq(Answers) /\ Len(Tail(s)) = Len(s) - 1 /\ Len(s) > 0
                        /\ Head(s) \in Answers
                        /\ Len(s) <= 1 => Tail(s) = <<>>
         /\ Len(s) \in Nat /\ (s = <<>> <=> Len(s) = 0)
  OBVIOUS

-----------------------------------------------------------------------------
(* A handler that speaks to a client that has room for the message. *)
LEMMA Spoken ==
  ASSUME TypeOK, InTurns, NEW c \in Clients, handler[c] # "none", NEW m \in Answers, Send(c, m)
  PROVE  /\ to_client' \in [Clients -> Seq(Answers)]
         /\ \A d \in Clients : Len(to_client'[d]) <= 2
         /\ \A d \in Clients : d # c => to_client'[d] = to_client[d]
         /\ Works(c) /\ Connected(c) => Len(to_client'[c]) = 1 /\ Head(to_client'[c]) = m
<1>1. to_client \in [Clients -> Seq(Answers)] /\ \A d \in Clients : Len(to_client[d]) <= 2
  BY DEF TypeOK
<1>2. CASE ~Connected(c)
  BY <1>1, <1>2 DEF Send
<1>3. CASE Connected(c)
  <2>1. /\ Len(to_client[c]) <= 1
        /\ Works(c) => to_client[c] = <<>>
    BY <1>3, Messages DEF InTurns, Turns, Works, TypeOK
  <2>2. to_client' = [to_client EXCEPT ![c] = Append(to_client[c], m)]
    BY <1>3 DEF Send
  <2>3. /\ Append(to_client[c], m) \in Seq(Answers)
        /\ Len(Append(to_client[c], m)) = Len(to_client[c]) + 1
        /\ to_client[c] = <<>> => Head(Append(to_client[c], m)) = m /\ Len(to_client[c]) = 0
        /\ Len(to_client[c]) \in Nat
    BY <1>1, Messages
  <2> DEFINE longer == Append(to_client[c], m)
  <2> HIDE DEF longer
  <2>4. to_client' = [to_client EXCEPT ![c] = longer]
    BY <2>2 DEF longer
  <2>5. /\ longer \in Seq(Answers) /\ Len(longer) = Len(to_client[c]) + 1
        /\ to_client[c] = <<>> => Head(longer) = m /\ Len(longer) = 1
    BY <2>3 DEF longer
  <2>6. Len(longer) <= 2
    BY <2>1, <2>3, <2>5
  <2>7. to_client'[c] = longer /\ \A d \in Clients : d # c => to_client'[d] = to_client[d]
    BY <1>1, <2>4
  <2>8. \A d \in Clients : Len(to_client'[d]) <= 2
    BY <1>1, <2>6, <2>7
  <2>9. to_client' \in [Clients -> Seq(Answers)]
    BY <1>1, <2>4, <2>5
  <2>10. QED
    BY <2>1, <2>5, <2>7, <2>8, <2>9
<1>4. QED
  BY <1>2, <1>3

(* What a handler has to say is an answer. *)
LEMMA AlarmAnswers ==
  ASSUME TypeOK, NEW c \in Clients
  PROVE  Target(c) \in Alarms /\ State(Target(c)) \in Answers /\ request[c].op \in AllOps
  BY AlarmAssumption DEF TypeOK, Requests, Target, State, Answers, Times, IsSet

LEMMA HandlerTypes ==
  ASSUME TypeOK, InTurns, stale' \in [Clients -> 0..2], NEW c \in Clients, HandlerStep(c)
  PROVE  TypeOK'
<1> USE DEF serverVars, linkVars, clientVars
<1>1. Target(c) \in Alarms /\ State(Target(c)) \in Answers /\ request[c].time \in Times
  BY AlarmAnswers DEF TypeOK, Requests
<1>2. ASSUME NEW m \in Answers, handler[c] # "none", Reply(c, m),
             UNCHANGED <<to_server, clientVars>>,
             alarm_times' \in [Alarms -> Times \union {"unset"}],
             atomic' \in Clients \union {Nobody}, live' \subseteq Alarms
      PROVE  TypeOK'
  BY <1>2, Spoken DEF Reply, Goto, TypeOK
<1>3. ASSUME NEW h \in {"none", "clear", "write", "loop_1", "loop", "ring", "listen"},
             Goto(c, h), UNCHANGED <<to_client, clientVars>>,
             to_server' \in [Clients -> Behind],
             alarm_times' \in [Alarms -> Times \union {"unset"}],
             atomic' \in Clients \union {Nobody}, live' \subseteq Alarms
      PROVE  TypeOK'
  BY <1>3 DEF Goto, TypeOK
<1>4. CASE set_alarm_check(c)
  BY <1>2, <1>3, <1>4 DEF set_alarm_check, At, Answers, TypeOK
<1>5. CASE set_alarm_write(c)
  BY <1>1, <1>2, <1>5 DEF set_alarm_write, At, Answers, TypeOK
<1>6. CASE clear(c)
  <2>1. AfterRefusal(request[c].op) \in Answers
    BY DEF AfterRefusal, Answers
  <2>2. QED
    BY <1>2, <1>3, <1>6, <2>1 DEF clear, TypeOK
<1>7. CASE change_alarm_write(c)
  BY <1>1, <1>2, <1>7 DEF change_alarm_write, At, Answers, TypeOK
<1>8. CASE remove_alarm_del(c)
  <2>1. (IF IsSet(Target(c)) THEN "removed" ELSE "uncaught") \in Answers
    BY DEF Answers
  <2>2. QED
    BY <1>1, <1>2, <1>8, <2>1 DEF remove_alarm_del, At, TypeOK
<1>9. CASE alarm_active_read(c)
  BY <1>1, <1>2, <1>9 DEF alarm_active_read, At, TypeOK
<1>10. CASE buzzer_test(c)
  <2>1. (IF handler[c] = "loop" THEN "removed" ELSE "uncaught") \in Answers
    BY DEF Answers
  <2>2. QED
    BY <1>2, <1>3, <1>10, <2>1 DEF buzzer_test, TypeOK
<1>11. CASE buzzer_send(c)
  <2>1. CASE IsSet(Target(c))
    BY <1>1, <1>11, <2>1, Spoken DEF buzzer_send, Goto, TypeOK
  <2>2. CASE ~IsSet(Target(c))
    BY <1>2, <1>11, <2>2 DEF buzzer_send, Answers, TypeOK
  <2>3. QED
    BY <2>1, <2>2
<1>12. CASE buzzer_receive(c)
  <2>1. Tail(to_server[c]) \in Behind
    BY <1>12, Lines DEF buzzer_receive, TypeOK, Behind
  <2>2. to_server' \in [Clients -> Behind]
    BY <1>12, <2>1 DEF buzzer_receive, TypeOK
  <2>3. CASE Head(to_server[c]) = "stop"
    <3>1. handler[c] # "none" /\ Reply(c, "stopped") /\ "stopped" \in Answers
      BY <1>12, <2>3 DEF buzzer_receive, Answers
    <3>2. QED
      BY <1>12, <2>2, <3>1, Spoken DEF buzzer_receive, Reply, Goto, TypeOK
  <2>4. CASE Head(to_server[c]) # "stop"
    BY <1>3, <1>12, <2>2, <2>4 DEF buzzer_receive, TypeOK
  <2>5. QED
    BY <2>3, <2>4
<1>13. CASE buzzer_hangup(c)
  BY <1>3, <1>13 DEF buzzer_hangup, TypeOK
<1>14. QED
  BY <1>4, <1>5, <1>6, <1>7, <1>8, <1>9, <1>10, <1>11, <1>12, <1>13 DEF HandlerStep

LEMMA ClientTypes ==
  ASSUME TypeOK, InTurns, stale' \in [Clients -> 0..2], NEW c \in Clients,
         ClientStep(c) \/ interrupt(c) \/ \E r \in Requests : call(c, r)
  PROVE  TypeOK'
<1> USE DEF serverVars, linkVars, clientVars, TypeOK
<1>1. ASSUME to_client[c] # <<>>
      PROVE  Head(to_client[c]) \in Answers /\ Tail(to_client[c]) \in Seq(Answers)
             /\ Len(Tail(to_client[c])) <= 2
  BY <1>1, Messages
<1>2. ASSUME NEW v \in Results, Return(c, v) PROVE TypeOK'
  BY <1>2 DEF Return
<1>3. CASE receive_answer(c)
  BY <1>1, <1>2, <1>3 DEF receive_answer, Results
<1>4. CASE buzz(c)
  BY <1>1, <1>4 DEF buzz
<1>5. CASE buzzer_removed(c)
  BY <1>2, <1>5 DEF buzzer_removed, Results, Answers
<1>6. CASE lost_connection(c)
  BY <1>2, <1>6 DEF lost_connection, Results
<1>7. CASE wake(c)
  <2>1. handler[c] # "none" => Append(to_server[c], "foo") \in Behind
    BY <1>7, Lines DEF wake, InTurns, Turns, Connected, Behind
  <2>2. QED
    BY <1>7, <2>1 DEF wake, Say
<1>8. CASE interrupt(c)
  <2>1. CASE program[c] = "first"
    BY <1>2, <1>8, <2>1 DEF interrupt, Results, Answers
  <2>2. CASE program[c] \in {"receive", "nap"}
    <3>1. handler[c] # "none" => Append(to_server[c], "stop") \in Behind
      BY <2>2, Lines DEF InTurns, Turns, Connected, Behind
    <3>2. QED
      BY <1>8, <2>2, <3>1 DEF interrupt, Say
  <2>3. QED
    BY <1>8, <2>1, <2>2 DEF interrupt
<1>9. ASSUME NEW r \in Requests, call(c, r) PROVE TypeOK'
  <2>1. <<>> \in Behind /\ <<>> \in Seq(Answers) /\ Len(<<>>) <= 2
    BY DEF Behind
  <2>2. QED
    BY <1>9, <2>1 DEF call, Goto, Results
<1>10. QED
  BY <1>3, <1>4, <1>5, <1>6, <1>7, <1>8, <1>9 DEF ClientStep

LEMMA Counted ==
  ASSUME TypeOK, CountStale
  PROVE  stale' \in [Clients -> 0..2]
<1>1. \A n \in 0..2 : n < 2 => n + 1 \in 0..2
  OBVIOUS
<1>2. QED
  BY <1>1 DEF CountStale, TypeOK

(* Every step keeps the types. *)
LEMMA AlarmTypes == TypeOK /\ InTurns /\ [Next]_vars => TypeOK'
<1> SUFFICES ASSUME TypeOK, InTurns, [Next]_vars PROVE TypeOK'
  OBVIOUS
<1>1. CASE UNCHANGED vars
  BY <1>1 DEF vars, serverVars, linkVars, clientVars, TypeOK
<1>2. ASSUME NEW a \in Alarms, time_passes(a), CountStale PROVE TypeOK'
  BY <1>2, Counted DEF time_passes, serverVars, linkVars, clientVars, TypeOK, Times
<1>3. QED
  BY <1>1, <1>2, Counted, HandlerTypes, ClientTypes DEF Next

-----------------------------------------------------------------------------
(* A thread works on its own connection. *)
LEMMA OthersRest ==
  ASSUME TypeOK, NEW c \in Clients, NEW d \in Clients, d # c,
         HandlerStep(c) \/ ClientStep(c) \/ interrupt(c) \/ \E r \in Requests : call(c, r)
  PROVE  UNCHANGED <<handler[d], program[d], request[d], to_server[d], to_client[d]>>
<1> USE DEF TypeOK, serverVars, linkVars, clientVars
<1>1. ASSUME NEW m, Reply(c, m) PROVE handler'[d] = handler[d] /\ to_client'[d] = to_client[d]
  BY <1>1 DEF Reply, Send, Goto
<1>2. ASSUME NEW h, Goto(c, h) PROVE handler'[d] = handler[d]
  BY <1>2 DEF Goto
<1>3. CASE set_alarm_check(c) \/ set_alarm_write(c) \/ clear(c) \/ change_alarm_write(c)
           \/ remove_alarm_del(c) \/ alarm_active_read(c) \/ buzzer_test(c) \/ buzzer_hangup(c)
  BY <1>1, <1>2, <1>3
     DEF set_alarm_check, set_alarm_write, clear, change_alarm_write, remove_alarm_del,
         alarm_active_read, buzzer_test, buzzer_hangup
<1>4. CASE buzzer_send(c) \/ buzzer_receive(c)
  BY <1>1, <1>2, <1>4 DEF buzzer_send, buzzer_receive, Send
<1>5. CASE receive_answer(c) \/ buzzer_removed(c) \/ lost_connection(c) \/ interrupt(c)
  BY <1>5 DEF receive_answer, buzzer_removed, lost_connection, interrupt, Return, Say
<1>6. CASE buzz(c) \/ wake(c)
  BY <1>6 DEF buzz, wake, Say
<1>7. ASSUME NEW r \in Requests, call(c, r)
      PROVE  UNCHANGED <<handler[d], program[d], request[d], to_server[d], to_client[d]>>
  BY <1>7 DEF call, Goto
<1>8. QED
  BY <1>3, <1>4, <1>5, <1>6, <1>7 DEF HandlerStep, ClientStep

(* The lock and the alarms, as a step of one thread leaves them. *)
LEMMA GuardedStep ==
  ASSUME TypeOK, SetGuarded, [Next]_vars
  PROVE  SetGuarded'
<1> USE AlarmAssumption DEF serverVars, linkVars, clientVars, IsSet, At, Target
<1>1. CASE UNCHANGED vars
  BY <1>1 DEF vars, SetGuarded
<1>2. ASSUME NEW a \in Alarms, time_passes(a) PROVE SetGuarded'
  BY <1>2 DEF time_passes, TypeOK, SetGuarded
<1>3. ASSUME NEW c \in Clients,
             HandlerStep(c) \/ ClientStep(c) \/ interrupt(c) \/ \E r \in Requests : call(c, r)
      PROVE  SetGuarded'
  <2>1. \A d \in Clients : d # c => handler'[d] = handler[d] /\ request'[d] = request[d]
    BY <1>3, OthersRest
  <2>2. ASSUME ~At(c, "write", "set"), ~At(c, "write", "set")', UNCHANGED <<atomic, live>>,
               \A a \in live : IsSet(a)'
        PROVE  SetGuarded'
    BY <2>1, <2>2 DEF SetGuarded
  <2>3. \A h : Goto(c, h) => handler'[c] = h
    BY DEF Goto, TypeOK
  <2>4. \A m : Reply(c, m) => handler'[c] = "none"
    BY <2>3 DEF Reply
  <2>5. CASE set_alarm_check(c)
    <3>1. CASE IsSet(Target(c))
      BY <1>3, <2>2, <2>4, <2>5, <3>1 DEF set_alarm_check, SetGuarded
    <3>2. CASE ~IsSet(Target(c))
      <4>1. /\ handler'[c] = "write" /\ atomic' = c /\ atomic = Nobody
            /\ UNCHANGED <<alarm_times, live, request>>
        BY <2>3, <2>5, <3>2 DEF set_alarm_check
      <4>2. Target(c) \notin live /\ request[c].op = "set"
        BY <2>5, <3>2 DEF set_alarm_check, SetGuarded
      <4>3. \A d \in Clients : ~At(d, "write", "set")
        BY <4>1 DEF SetGuarded
      <4>4. QED
        BY <2>1, <4>1, <4>2, <4>3 DEF SetGuarded
    <3>3. QED
      BY <3>1, <3>2
  <2>6. CASE set_alarm_write(c)
    <3>1. /\ atomic = c /\ atomic' = Nobody /\ handler'[c] = "none"
          /\ live' = live \union {Target(c)} /\ UNCHANGED request
          /\ alarm_times' = [alarm_times EXCEPT ![Target(c)] = request[c].time]
      BY <2>4, <2>6 DEF set_alarm_write, SetGuarded
    <3>2. request[c].time # "unset" /\ Target(c) \in Alarms /\ live \subseteq Alarms
      BY DEF TypeOK, Requests, Times
    <3>3. \A d \in Clients : ~At(d, "write", "set")'
      BY <2>1, <3>1 DEF SetGuarded
    <3>4. \A a \in live' : IsSet(a)'
      BY <3>1, <3>2 DEF SetGuarded, TypeOK
    <3>5. QED
      BY <3>1, <3>3, <3>4 DEF SetGuarded
  <2>7. CASE remove_alarm_del(c)
    <3>1. /\ handler[c] = "write" /\ request[c].op = "remove" /\ handler'[c] = "none"
          /\ live' = live \ {Target(c)} /\ UNCHANGED <<atomic, request>>
          /\ alarm_times' = [alarm_times EXCEPT ![Target(c)] = "unset"]
      BY <2>4, <2>7 DEF remove_alarm_del
    <3>2. \A a \in live' : IsSet(a)'
      BY <3>1 DEF SetGuarded, TypeOK
    <3>3. QED
      BY <2>1, <3>1, <3>2 DEF SetGuarded
  <2>8. CASE change_alarm_write(c)
    <3>1. /\ handler[c] = "write" /\ request[c].op = "change" /\ handler'[c] = "none"
          /\ UNCHANGED <<atomic, request, live>>
          /\ alarm_times' = [alarm_times EXCEPT ![Target(c)] = request[c].time]
      BY <2>4, <2>8 DEF change_alarm_write
    <3>2. request[c].time # "unset"
      BY DEF TypeOK, Requests, Times
    <3>3. \A a \in live' : IsSet(a)'
      BY <3>1, <3>2 DEF SetGuarded, TypeOK
    <3>4. QED
      BY <2>2, <3>1, <3>3
  <2>9. CASE clear(c) \/ alarm_active_read(c)
    BY <2>2, <2>3, <2>4, <2>9 DEF clear, alarm_active_read, SetGuarded
  <2>10. CASE buzzer_test(c) \/ buzzer_send(c) \/ buzzer_receive(c) \/ buzzer_hangup(c)
    BY <2>2, <2>3, <2>4, <2>10
       DEF buzzer_test, buzzer_send, buzzer_receive, buzzer_hangup, SetGuarded
  <2>11. CASE ClientStep(c) \/ interrupt(c)
    BY <2>11 DEF ClientStep, interrupt, receive_answer, buzz, buzzer_removed, wake,
                 lost_connection, Return, SetGuarded
  <2>12. ASSUME NEW r \in Requests, call(c, r) PROVE SetGuarded'
    BY <2>2, <2>3, <2>12 DEF call, SetGuarded
  <2>13. QED
    BY <1>3, <2>5, <2>6, <2>7, <2>8, <2>9, <2>10, <2>11, <2>12 DEF HandlerStep
<1>4. QED
  BY <1>1, <1>2, <1>3 DEF Next

(* The two ends of a connection go on taking turns. *)
LEMMA TurnsStep ==
  ASSUME TypeOK, InTurns, [Next]_vars
  PROVE  InTurns'
<1> USE DEF serverVars, linkVars, clientVars
<1>1. CASE UNCHANGED vars \/ \E a \in Alarms : time_passes(a)
  BY <1>1 DEF vars, time_passes, InTurns, Turns, Works, Connected
<1>2. ASSUME NEW c \in Clients,
             HandlerStep(c) \/ ClientStep(c) \/ interrupt(c) \/ \E r \in Requests : call(c, r)
      PROVE  InTurns'
  <2>1. ASSUME NEW d \in Clients, d # c, Connected(d)' PROVE Turns(d)'
    BY <1>2, <2>1, OthersRest DEF InTurns, Turns, Works, Connected
  <2>2. SUFFICES ASSUME Connected(c)' PROVE Turns(c)'
    BY <2>1 DEF InTurns
  <2>3. \A h : Goto(c, h) => handler'[c] = h
    BY DEF Goto, TypeOK
  <2>4. ASSUME Works(c), UNCHANGED <<program, to_server>>, NEW m \in Answers, Reply(c, m)
        PROVE  Turns(c)'
    <3>1. Connected(c) /\ Turns(c) /\ handler'[c] = "none" /\ Len(to_client'[c]) = 1
      BY <2>2, <2>3, <2>4, Spoken DEF Connected, InTurns, Works, Reply
    <3>2. QED
      BY <2>4, <3>1 DEF Turns, Works
  <2>5. ASSUME Works(c), UNCHANGED <<program, to_server, to_client>>,
               NEW h \in {"write", "loop_1", "ring"}, Goto(c, h)
        PROVE  Turns(c)'
    BY <2>2, <2>3, <2>5 DEF Connected, InTurns, Turns, Works
  <2>6. CASE set_alarm_check(c) \/ set_alarm_write(c) \/ change_alarm_write(c)
    BY <2>4, <2>5, <2>6
       DEF set_alarm_check, set_alarm_write, change_alarm_write, At, Works, Answers
  <2>7. CASE clear(c)
    <3>1. AfterRefusal(request[c].op) \in Answers
      BY DEF AfterRefusal, Answers
    <3>2. QED
      BY <2>4, <2>5, <2>7, <3>1 DEF clear, Works
  <2>8. CASE remove_alarm_del(c) \/ alarm_active_read(c)
    <3>1. (IF IsSet(Target(c)) THEN "removed" ELSE "uncaught") \in Answers
      BY DEF Answers
    <3>2. QED
      BY <2>4, <2>8, <3>1, AlarmAnswers DEF remove_alarm_del, alarm_active_read, At, Works
  <2>9. CASE buzzer_test(c)
    <3>1. (IF handler[c] = "loop" THEN "removed" ELSE "uncaught") \in Answers
      BY DEF Answers
    <3>2. QED
      BY <2>4, <2>5, <2>9, <3>1 DEF buzzer_test, Works
  <2>10. CASE buzzer_send(c)
    <3>1. CASE IsSet(Target(c))
      <4>1. /\ Connected(c) /\ Turns(c) /\ Works(c) /\ UNCHANGED <<program, to_server>>
            /\ handler'[c] = "listen" /\ Len(to_client'[c]) = 1
        BY <2>2, <2>3, <2>10, <3>1, Spoken, AlarmAnswers DEF buzzer_send, Connected, InTurns, Works
      <4>2. QED
        BY <4>1 DEF Turns, Works
    <3>2. CASE ~IsSet(Target(c))
      BY <2>4, <2>10, <3>2 DEF buzzer_send, Works, Answers
    <3>3. QED
      BY <3>1, <3>2
  <2>11. CASE buzzer_receive(c)
    <3>1. /\ Connected(c) /\ Turns(c) /\ UNCHANGED program /\ handler[c] = "listen"
          /\ to_server[c] \in Behind /\ to_server[c] # <<>> /\ to_server'[c] = Tail(to_server[c])
      BY <2>2, <2>11 DEF buzzer_receive, Connected, InTurns, TypeOK
    <3>2. CASE Head(to_server[c]) = "stop"
      <4>1. to_server[c] = <<"stop">> /\ handler'[c] = "none"
        BY <2>3, <2>11, <3>1, <3>2, Lines DEF buzzer_receive, Reply, Behind
      <4>2. program[c] = "stopping"
        BY <2>2, <3>1, <4>1, Different DEF Turns, TypeOK, Connected
      <4>3. QED
        BY <3>1, <4>1, <4>2 DEF Turns, Works
    <3>3. CASE Head(to_server[c]) # "stop"
      <4>1. handler'[c] = "loop" /\ UNCHANGED to_client
        BY <2>3, <2>11, <3>3 DEF buzzer_receive
      <4>2. to_server[c] \in {<<"foo">>, <<"foo", "stop">>}
        BY <3>1, <3>3, Lines DEF Behind
      <4>3. to_client[c] = <<>> /\ Len(to_client[c]) = 0
        BY <3>1, <4>2, Different DEF Turns
      <4>4. to_server'[c] \in {<<>>, <<"stop">>} /\ (to_server[c] = <<"foo">> => to_server'[c] = <<>>)
        BY <3>1, <4>2, Lines, Different
      <4>5. program[c] \notin {"wait", "first", "nap"}
        BY <3>1 DEF Turns
      <4>6. program[c] = "receive" => to_server[c] = <<"foo">>
        BY <3>1, <4>2, Different DEF Turns
      <4>7. QED
        BY <3>1, <4>1, <4>3, <4>4, <4>5, <4>6 DEF Turns, Works
    <3>4. QED
      BY <3>2, <3>3
  <2>12. CASE buzzer_hangup(c)
    BY <2>2, <2>12 DEF buzzer_hangup, Connected
  <2>13. CASE receive_answer(c) \/ buzzer_removed(c) \/ lost_connection(c)
    BY <2>2, <2>13 DEF receive_answer, buzzer_removed, lost_connection, Return, Connected, TypeOK
  <2>14. CASE buzz(c)
    <3>1. Connected(c) /\ Turns(c) /\ Receives(c) /\ to_client[c] # <<>>
      BY <2>14 DEF buzz, Receives, Connected, InTurns
    <3>2. to_client'[c] = Tail(to_client[c]) /\ program'[c] = "nap" /\ UNCHANGED <<handler, to_server>>
      BY <2>14 DEF buzz, TypeOK
    <3>3. Len(to_client[c]) <= 1 /\ ~Works(c)
      BY <3>1 DEF Turns, Receives
    <3>4. Tail(to_client[c]) = <<>> /\ Len(<<>>) = 0
      BY <3>1, <3>3, Messages DEF TypeOK
    <3>5. handler[c] # "none" => handler[c] = "listen" /\ to_server[c] = <<>>
      BY <3>1, <3>3, Different DEF Turns, Works, Receives
    <3>6. QED
      BY <3>2, <3>3, <3>4, <3>5 DEF Turns, Works
  <2>15. CASE wake(c)
    <3>1. /\ Connected(c) /\ Turns(c) /\ program[c] = "nap" /\ program'[c] = "receive"
          /\ UNCHANGED <<handler, to_client>>
      BY <2>15 DEF wake, Connected, InTurns, TypeOK
    <3>2. to_client[c] = <<>> /\ Len(to_client[c]) = 0
      BY <3>1 DEF Turns
    <3>3. handler[c] # "none" => handler[c] = "listen" /\ to_server'[c] = <<"foo">>
      BY <2>15, <3>1, Lines DEF wake, Say, Turns, TypeOK
    <3>4. QED
      BY <3>1, <3>2, <3>3 DEF Turns, Works
  <2>16. CASE interrupt(c)
    <3>1. /\ Connected(c) /\ Turns(c) /\ program[c] \in {"receive", "nap"}
          /\ program'[c] = "stopping" /\ Say(c, "stop") /\ UNCHANGED <<handler, to_client>>
      BY <2>2, <2>16 DEF interrupt, Return, Connected, InTurns, TypeOK
    <3>2. CASE handler[c] = "none"
      BY <3>1, <3>2 DEF Turns, Works
    <3>3. CASE handler[c] # "none"
      <4>1. to_server'[c] = Append(to_server[c], "stop") /\ to_server[c] \in {<<>>, <<"foo">>}
        BY <3>1, <3>3 DEF Say, Turns, TypeOK
      <4>2. CASE to_server[c] = <<>>
        BY <3>1, <4>1, <4>2, Lines DEF Turns, Works
      <4>3. CASE to_server[c] = <<"foo">>
        <5>1. to_client[c] = <<>> /\ ~Works(c)
          BY <3>1, <3>3, <4>3, Different DEF Turns, Works
        <5>2. QED
          BY <3>1, <5>1 DEF Turns, Works
      <4>4. QED
        BY <4>1, <4>2, <4>3
    <3>4. QED
      BY <3>2, <3>3
  <2>17. ASSUME NEW r \in Requests, call(c, r) PROVE Turns(c)'
    <3>1. /\ handler'[c] = "clear" /\ program'[c] \in {"first", "wait"}
          /\ to_server'[c] = <<>> /\ to_client'[c] = <<>>
      BY <2>3, <2>17 DEF call, TypeOK
    <3>2. QED
      BY <3>1 DEF Turns, Works
  <2>18. QED
    BY <1>2, <2>6, <2>7, <2>8, <2>9, <2>10, <2>11, <2>12, <2>13, <2>14, <2>15, <2>16, <2>17
       DEF HandlerStep, ClientStep
<1>3. QED
  BY <1>1, <1>2 DEF Next

(* A ring goes out for an alarm that is due, or was on its way already. *)
LEMMA NewRingIsDue ==
  ASSUME TypeOK, InTurns, Next, NEW c \in Clients, Ringing(c)'
  PROVE  Ringing(c) \/ alarm_times'[request'[c].alarm] = "due"
<1> USE DEF serverVars, linkVars, clientVars, Ringing, Receives
<1>1. CASE \E a \in Alarms : time_passes(a)
  BY <1>1 DEF time_passes
<1>2. ASSUME NEW d \in Clients, d # c,
             HandlerStep(d) \/ ClientStep(d) \/ interrupt(d) \/ \E r \in Requests : call(d, r)
      PROVE  Ringing(c)
  BY <1>2, OthersRest
<1>3. CASE HandlerStep(c)
  <2>1. program'[c] = program[c] /\ request' = request /\ Connected(c)
    BY <1>3 DEF Connected, HandlerStep, set_alarm_check, set_alarm_write, clear,
           change_alarm_write, remove_alarm_del, alarm_active_read, buzzer_test, buzzer_send,
           buzzer_receive, buzzer_hangup
  <2>2. ASSUME Works(c), NEW m \in Answers, Send(c, m) PROVE m = "on"
    <3>1. handler[c] # "none"
      BY <2>2 DEF Works
    <3>2. Head(to_client'[c]) = m
      BY <2>1, <2>2, <3>1, Spoken
    <3>3. QED
      BY <3>2
  <2>3. ASSUME Works(c), NEW m \in Answers, m # "on", Send(c, m) PROVE FALSE
    BY <2>2, <2>3
  <2>4. CASE alarm_active_read(c) \/ buzzer_send(c)
    <3>1. Works(c) /\ UNCHANGED alarm_times
      BY <2>4 DEF alarm_active_read, buzzer_send, At, Works
    <3>2. Send(c, State(Target(c))) \/ Send(c, "uncaught")
      BY <2>4 DEF alarm_active_read, buzzer_send, Reply
    <3>3. State(Target(c)) = "on"
      BY <2>2, <2>3, <3>1, <3>2, AlarmAnswers DEF Answers
    <3>4. QED
      BY <2>1, <3>1, <3>3 DEF State, Target
  <2>5. CASE set_alarm_check(c) \/ set_alarm_write(c) \/ change_alarm_write(c)
    BY <2>3, <2>5
       DEF set_alarm_check, set_alarm_write, change_alarm_write, At, Works, Answers, Reply
  <2>6. CASE clear(c)
    <3>1. AfterRefusal(request[c].op) \in Answers /\ AfterRefusal(request[c].op) # "on"
      BY DEF AfterRefusal, Answers
    <3>2. QED
      BY <2>1, <2>3, <2>6, <3>1 DEF clear, Works, Reply
  <2>7. CASE remove_alarm_del(c)
    <3>1. \A m \in {"removed", "uncaught"} : m \in Answers /\ m # "on"
      BY DEF Answers
    <3>2. Send(c, "removed") \/ Send(c, "uncaught")
      BY <2>7 DEF remove_alarm_del, Reply
    <3>3. QED
      BY <2>3, <2>7, <3>1, <3>2 DEF remove_alarm_del, At, Works
  <2>8. CASE buzzer_test(c)
    <3>1. \A m \in {"removed", "uncaught"} : m \in Answers /\ m # "on"
      BY DEF Answers
    <3>2. UNCHANGED to_client \/ Send(c, "removed") \/ Send(c, "uncaught")
      BY <2>8 DEF buzzer_test, Reply
    <3>3. QED
      BY <2>1, <2>3, <2>8, <3>1, <3>2 DEF buzzer_test, Works
  <2>9. CASE buzzer_receive(c)
    <3>1. Turns(c) /\ handler[c] = "listen" /\ program[c] \in {"first", "receive"}
      BY <2>1, <2>9 DEF buzzer_receive, InTurns
    <3>2. to_server[c] \in {<<>>, <<"foo">>}
      BY <3>1 DEF Turns
    <3>3. Head(to_server[c]) = "foo"
      BY <2>9, <3>2, Lines DEF buzzer_receive
    <3>4. UNCHANGED to_client
      BY <2>9, <3>3 DEF buzzer_receive
    <3>5. QED
      BY <2>1, <3>4
  <2>10. CASE buzzer_hangup(c)
    BY <2>1, <2>10 DEF buzzer_hangup
  <2>11. QED
    BY <1>3, <2>4, <2>5, <2>6, <2>7, <2>8, <2>9, <2>10 DEF HandlerStep
<1>4. CASE wake(c)
  BY <1>4 DEF wake, InTurns, Turns, Connected
<1>5. CASE receive_answer(c) \/ buzz(c) \/ buzzer_removed(c) \/ lost_connection(c) \/ interrupt(c)
  BY <1>5 DEF receive_answer, buzz, buzzer_removed, lost_connection, interrupt, Return, TypeOK
<1>6. ASSUME NEW r \in Requests, call(c, r) PROVE FALSE
  BY <1>6 DEF call, TypeOK
<1>7. QED
  BY <1>1, <1>2, <1>3, <1>4, <1>5, <1>6 DEF Next, ClientStep

(* A buzzer hears at most one ring of an alarm that was put off. *)
LEMMA RingStep ==
  ASSUME TypeOK, InTurns, RingsAreFresh, AtMostOneStaleRing, [Next]_vars
  PROVE  RingsAreFresh' /\ AtMostOneStaleRing'
<1>1. CASE UNCHANGED vars
  BY <1>1 DEF vars, linkVars, clientVars, RingsAreFresh, AtMostOneStaleRing, Ringing, Receives
<1>2. CASE Next
  <2>1. CountStale
    BY <1>2 DEF Next
  <2>2. ASSUME NEW c \in Clients, Ringing(c)' PROVE stale'[c] = 0
    <3>1. ~Rings(c)
      BY <2>2 DEF Rings, Ringing, Receives
    <3>2. QED
      BY <1>2, <2>1, <2>2, <3>1, NewRingIsDue DEF CountStale, RingsAreFresh
  <2>3. ASSUME NEW c \in Clients PROVE stale'[c] <= 1
    <3>1. stale[c] \in 0..2 /\ stale[c] <= 1
      BY DEF TypeOK, AtMostOneStaleRing
    <3>2. Rings(c) => stale[c] = 0
      BY DEF Rings, RingsAreFresh
    <3>3. QED
      BY <2>1, <3>1, <3>2 DEF CountStale
  <2>4. QED
    BY <2>2, <2>3 DEF RingsAreFresh, AtMostOneStaleRing
<1>3. QED
  BY <1>1, <1>2

LEMMA AlarmStarts == Init => AlarmInv
<1> SUFFICES ASSUME Init PROVE AlarmInv
  OBVIOUS
<1>1. PICK o \in Ops, a \in Alarms : TRUE
  BY AlarmAssumption
<1>2. [op |-> o, alarm |-> a, time |-> "due"] \in Requests
  BY DEF Requests, Times
<1>3. (CHOOSE r \in Requests : TRUE) \in Requests
  BY <1>2
<1>4. <<>> \in Behind /\ <<>> \in Seq(Answers) /\ Len(<<>>) <= 2
  BY DEF Behind
<1>5. TypeOK
  BY <1>3, <1>4 DEF Init, TypeOK, Results
<1>6. SetGuarded /\ InTurns /\ RingsAreFresh /\ AtMostOneStaleRing
  BY AlarmAssumption
     DEF Init, SetGuarded, At, InTurns, Connected, RingsAreFresh, Ringing, Receives,
         AtMostOneStaleRing
<1>7. QED
  BY <1>5, <1>6 DEF AlarmInv

-----------------------------------------------------------------------------
(* Handlers and clients of the alarm server take turns on every line, the  *)
(* lock covers what set_alarm found, and a buzzer hears at most one ring   *)
(* of an alarm that was put off.                                           *)
THEOREM AlarmSafety == Spec => []AlarmInv
<1>1. AlarmInv /\ [Next]_vars => AlarmInv'
  BY AlarmTypes, GuardedStep, TurnsStep, RingStep DEF AlarmInv
<1>2. QED
  BY <1>1, AlarmStarts, PTL DEF Spec

(* However many handlers run set_alarm for one name, one of them answers   *)
(* 'set' until the alarm is removed (alarm_server_gscLib.py:80-100, where  *)
(* atomic_action is held from the look at alarm_times to the write).       *)
THEOREM AlarmSetOnce == Spec => SetOnce
<1>1. AlarmInv /\ [Next]_vars => [\A c \in Clients : set_alarm_write(c) => Target(c) \notin live]_vars
  BY DEF AlarmInv, SetGuarded, set_alarm_write
<1>2. QED
  BY <1>1, AlarmSafety, PTL DEF Spec, SetOnce

-----------------------------------------------------------------------------
(* The lock server.                                                        *)

(* The invariant holds in the initial states. *)
LEMMA LockStarts == LockInit => LockInv
  BY LockAssumption DEF LockInit, LockInv, LockTypeOK, HolderIsServed, HandlerStates, ClientStates, LockAnswers, ServerStates

(* Every step keeps the invariant, one action at a time. *)
LEMMA LockStep == LockInv /\ [LockNext]_lockVars => LockInv'
<1> SUFFICES ASSUME LockInv, [LockNext]_lockVars PROVE LockInv'
  OBVIOUS
<1> USE LockAssumption DEF LockInv, LockTypeOK, HolderIsServed, HandlerStates, ClientStates, LockAnswers, ServerStates
<1>1. ASSUME NEW c \in Connections, has_lock(c) PROVE LockInv'
  BY <1>1 DEF has_lock, Handler
<1>2. ASSUME NEW c \in Connections, add_lock(c) PROVE LockInv'
  BY <1>2 DEF add_lock, Handler
<1>3. ASSUME NEW c \in Connections, add_lock_raises(c) PROVE LockInv'
  BY <1>3 DEF add_lock_raises, Handler, SendTo
<1>4. ASSUME NEW c \in Connections, acquire(c) PROVE LockInv'
  BY <1>4 DEF acquire, Handler
<1>5. ASSUME NEW c \in Connections, send_ok(c) PROVE LockInv'
  BY <1>5 DEF send_ok, Handler, SendTo
<1>6. ASSUME NEW c \in Connections, release(c) PROVE LockInv'
  BY <1>6 DEF release, Handler
<1>7. ASSUME NEW c \in Connections, NEW n \in Names, ask(c, n) PROVE LockInv'
  BY <1>7 DEF ask
<1>8. ASSUME NEW c \in Connections, enter(c) PROVE LockInv'
  BY <1>8 DEF enter
<1>9. ASSUME NEW c \in Connections, refused(c) PROVE LockInv'
  BY <1>9 DEF refused, Close
<1>10. ASSUME NEW c \in Connections, leave(c) PROVE LockInv'
  BY <1>10 DEF leave, Close
<1>11. ASSUME NEW c \in Connections, crash(c) PROVE LockInv'
  BY <1>11 DEF crash, Close
<1>12. ASSUME shutdown \/ stop_server PROVE LockInv'
  BY <1>12 DEF shutdown, stop_server
<1>13. ASSUME UNCHANGED lockVars PROVE LockInv'
  BY <1>13 DEF lockVars
<1>14. ASSUME NEW c \in Connections, real_handler(c) PROVE LockInv'
  BY <1>14 DEF real_handler, Handler, SendTo
<1>15. QED
  BY <1>1, <1>2, <1>3, <1>4, <1>5, <1>6, <1>7, <1>8, <1>9, <1>10, <1>11, <1>12, <1>13,
     <1>14 DEF LockNext, ThreadStep, ProgramStep

(* The inductive invariant: who holds a lock is served by a handler that   *)
(* will release it (gsc_lock.py's server function).                        *)
THEOREM LockSafety == LockSpec => []LockInv
  BY LockStarts, LockStep, PTL DEF LockSpec

(* Two clients are never inside the with block of one lock, for any number *)
(* of clients, locks and crashes.                                          *)
THEOREM LockMutualExclusion == LockSpec => []MutualExclusion
<1>1. LockInv => MutualExclusion
  BY LockAssumption DEF LockInv, LockTypeOK, HolderIsServed, MutualExclusion
<1>2. QED
  BY <1>1, LockSafety, PTL

(* A client that is inside keeps its lock in every step. *)
LEMMA InsideKeeps ==
  ASSUME LockInv, [LockNext]_lockVars, NEW c \in Connections, client[c] = "inside"
  PROVE  holder'[name[c]] = c
<1> USE LockAssumption DEF LockInv, LockTypeOK, HolderIsServed, HandlerStates, ClientStates, LockAnswers, ServerStates
<1>0. thread[c] = "receive" /\ holder[name[c]] = c /\ c \in connected /\ name[c] \in Names
  OBVIOUS
<1>1. ASSUME NEW d \in Connections, ThreadStep(d) PROVE holder'[name[c]] = c
  BY <1>0, <1>1
     DEF ThreadStep, real_handler, has_lock, add_lock, add_lock_raises, acquire, send_ok, release, Handler
<1>2. CASE UNCHANGED holder
  BY <1>0, <1>2
<1>3. QED
  BY <1>1, <1>2 DEF LockNext, ProgramStep, ask, enter, refused, leave, crash, shutdown, stop_server, lockVars

(* No step of another client or handler takes a lock from the client that  *)
(* is inside.                                                              *)
THEOREM LockNoTheft == LockSpec => NoTheft
<1>1. LockInv /\ [LockNext]_lockVars => [\A c \in Connections : client[c] = "inside" => holder'[name[c]] = c]_lockVars
  BY InsideKeeps
<1>2. QED
  BY <1>1, LockSafety, PTL DEF LockSpec, NoTheft

(* The owner of a lock is the one client inside. *)
LEMMA OwnerIsInside ==
  ASSUME LockTypeOK, MutualExclusion, NEW c \in Connections, client[c] = "inside"
  PROVE  Owner[name[c]] = c
  BY DEF LockTypeOK, MutualExclusion, Owner, TheOne, Inside
(* Owners change only where a client enters or closes its connection, so   *)
(* every step is a step of Mutex or leaves all owners alone.               *)
LEMMA OwnerStep ==
  ASSUME LockInv, LockInv', MutualExclusion, MutualExclusion', [LockNext]_lockVars
  PROVE  [Abstract!Next]_Owner
<1> USE LockAssumption
<1>0. LockTypeOK /\ LockTypeOK'
  BY DEF LockInv
<1>1. ASSUME client' = client, \A c \in Connections : client[c] = "inside" => name'[c] = name[c]
      PROVE  Owner' = Owner
  <2>1. Inside' = Inside
    BY <1>0, <1>1 DEF Inside, LockTypeOK
  <2>2. QED
    BY <2>1 DEF Owner
<1>2. ASSUME NEW c \in Connections, client[c] # "inside", client' = [client EXCEPT ![c] = "idle"],
             name' = name
      PROVE  Owner' = Owner
  <2>1. Inside' = Inside
    BY <1>0, <1>2 DEF Inside, LockTypeOK
  <2>2. QED
    BY <2>1 DEF Owner
<1>3. ASSUME NEW c \in Connections, client[c] = "inside", client' = [client EXCEPT ![c] = "idle"],
             name' = name
      PROVE  Abstract!Unlock(c, name[c])
  <2>1. Inside[name[c]] = {c} /\ Inside'[name[c]] = {}
    BY <1>0, <1>3 DEF Inside, LockTypeOK, MutualExclusion
  <2>2. \A n \in Names : n # name[c] => Inside'[n] = Inside[n]
    BY <1>0, <1>3 DEF Inside, LockTypeOK
  <2>3. name[c] \in Names
    BY <1>0 DEF LockTypeOK
  <2>4. Owner[name[c]] = c
    BY <1>0, <1>3, OwnerIsInside
  <2>5. Owner' = [Owner EXCEPT ![name[c]] = Unheld]
    <3>1. \A n \in Names : n # name[c] => Owner'[n] = Owner[n]
      BY <2>2 DEF Owner
    <3>2. Owner'[name[c]] = Unheld
      BY <2>1, <2>3 DEF Owner, TheOne
    <3>3. Owner = [n \in Names |-> Owner[n]] /\ Owner' = [n \in Names |-> Owner'[n]]
      BY DEF Owner
    <3>4. QED
      BY <2>3, <3>1, <3>2, <3>3
  <2>6. QED
    BY <2>4, <2>5 DEF Abstract!Unlock
<1>4. ASSUME NEW c \in Connections, enter(c) PROVE Abstract!Lock(c, name[c])
  <2>1. name[c] \in Names /\ holder[name[c]] = c /\ client[c] # "inside"
    BY <1>4 DEF LockInv, LockTypeOK, HolderIsServed, enter
  <2>2. client'[c] = "inside" /\ name' = name
    BY <1>0, <1>4 DEF enter, LockTypeOK
  <2>3. Inside[name[c]] = {}
    BY <2>1 DEF Inside, LockInv, HolderIsServed
  <2>4. \A n \in Names : n # name[c] => Inside'[n] = Inside[n]
    BY <1>0, <1>4 DEF Inside, LockTypeOK, enter
  <2>5. Owner'[name[c]] = c
    <3>1. \A d \in Inside'[name[c]] : d = c
      BY <2>1, <2>2 DEF Inside, MutualExclusion
    <3>2. c \in Inside'[name[c]]
      BY <2>1, <2>2 DEF Inside
    <3>3. (CHOOSE d \in Inside'[name[c]] : TRUE) = c
      BY <3>1, <3>2
    <3>4. QED
      BY <2>1, <2>2, <3>2, <3>3 DEF Owner, TheOne
  <2>6. Owner' = [Owner EXCEPT ![name[c]] = c]
    <3>1. \A n \in Names : n # name[c] => Owner'[n] = Owner[n]
      BY <2>4 DEF Owner
    <3>2. Owner = [n \in Names |-> Owner[n]] /\ Owner' = [n \in Names |-> Owner'[n]]
      BY DEF Owner
    <3>3. QED
      BY <2>1, <2>5, <3>1, <3>2
  <2>7. QED
    BY <2>1, <2>3, <2>6 DEF Abstract!Lock, Owner, TheOne
<1>5. ASSUME NEW c \in Connections, refused(c) \/ leave(c) \/ crash(c)
      PROVE  Owner' = Owner \/ Abstract!Unlock(c, name[c])
  BY <1>2, <1>3, <1>5 DEF refused, leave, crash, Close
<1>6. ASSUME NEW c \in Connections, ThreadStep(c) PROVE Owner' = Owner
  BY <1>1, <1>6 DEF ThreadStep, real_handler, has_lock, add_lock, add_lock_raises, acquire, send_ok, release
<1>7. ASSUME NEW c \in Connections, NEW n \in Names, ask(c, n) PROVE Owner' = Owner
  <2>1. Inside' = Inside
    BY <1>0, <1>7 DEF Inside, LockTypeOK, ask
  <2>2. QED
    BY <2>1 DEF Owner
<1>8. CASE shutdown \/ stop_server \/ UNCHANGED lockVars
  BY <1>1, <1>8 DEF shutdown, stop_server, lockVars
<1>9. \A c \in Connections : name[c] \in Names
  BY <1>0 DEF LockTypeOK
<1>10. QED
  BY <1>4, <1>5, <1>6, <1>7, <1>8, <1>9 DEF LockNext, ProgramStep, Abstract!Next

(* The lock server implements the specification Mutex. *)
THEOREM LockServerImplementsMutex == LockSpec => MutexSpec
<1>1. LockInit => Abstract!Init
  BY DEF LockInit, Abstract!Init, Owner, TheOne, Inside
<1>2. LockInv => MutualExclusion
  BY LockAssumption DEF LockInv, LockTypeOK, HolderIsServed, MutualExclusion
<1>3. LockInv' => MutualExclusion'
  BY LockAssumption DEF LockInv, LockTypeOK, HolderIsServed, MutualExclusion
<1>4. LockInv /\ LockInv' /\ [LockNext]_lockVars => [Abstract!Next]_Owner
  BY <1>2, <1>3, OwnerStep
<1>5. QED
  BY <1>1, <1>4, LockSafety, PTL DEF LockSpec, MutexSpec, Abstract!Spec

-----------------------------------------------------------------------------
(* The shared connection with the gateway, for any number of connections   *)
(* and of clients that open, close and check it at the same time: only     *)
(* handlers that were disturbed leak a connection, and the answer False    *)
(* means silence, or that another check has taken the answer.              *)

LEMMA ConnectionTypesStart == ConnectionInit => ConnectionTypeOK
  BY ConnectionAssumption DEF ConnectionAssumption, ConnectionInit, ConnectionTypeOK, TWSConnections, Places

(* An answer is taken from a queue that has one.                           *)
LEMMA OneLess ==
  ASSUME NEW f \in [TWSConnections -> Nat], NEW k, f[k] > 0
  PROVE  [f EXCEPT ![k] = @ - 1] \in [TWSConnections -> Nat]
<1>1. CASE k \in TWSConnections
  BY <1>1
<1>2. CASE k \notin TWSConnections
  BY <1>2
<1> QED BY <1>1, <1>2

LEMMA TakesTypes ==
  ASSUME ConnectionTypeOK, NEW c \in Requesters, Takes(c)
  PROVE  times' \in [TWSConnections -> Nat] /\ robbed' \subseteq Requesters
BY OneLess DEF ConnectionTypeOK, Takes

(* A step of a client moves no other client, and only it.                  *)
Step(c) == \/ open_request(c) \/ close_request(c) \/ responsive_request(c)
           \/ Opening(c) \/ Closing(c) \/ Checking(c)

LEMMA OtherHandlersStay ==
  ASSUME ConnectionTypeOK, NEW c \in Requesters, Step(c)
  PROVE  /\ pc' \in [Requesters -> Places]
         /\ conn' \in [Requesters -> 0..MaxConnections]
         /\ \/ conn'[c] \in {conn[c], 0, tws_connection}
            \/ connect(c) /\ conn'[c] = made + 1
         /\ \A d \in Requesters \ {c} : pc'[d] = pc[d] /\ conn'[d] = conn[d]
<1> USE DEF ConnectionTypeOK, Go, With, Asks, Returns, Places
<1>1. CASE open_request(c) \/ close_request(c) \/ responsive_request(c)
  BY <1>1, ConnectionAssumption DEF open_request, close_request, responsive_request, ConnectionAssumption
<1>2. CASE Opening(c)
  BY <1>2, ConnectionAssumption DEF Opening, already_open, connect, connect_fails, connected_to_gateway,
     refused_by_gateway, ConnectionAssumption
<1>3. CASE Closing(c)
  BY <1>3, ConnectionAssumption DEF Closing, disconnect, delete, ConnectionAssumption
<1>4. CASE Checking(c)
  BY <1>4, ConnectionAssumption DEF Checking, is_alive, queue_not_empty, take_old, send_time_request, get_time, time_out,
     ConnectionAssumption
<1> QED BY <1>1, <1>2, <1>3, <1>4 DEF Step

(* What the actions of a client leave alone.                               *)
LEMMA Untouched ==
  ASSUME NEW c \in Requesters, Step(c), ConnectionTypeOK
  PROVE  /\ made' = made \/ (connect(c) /\ made' = made + 1 /\ made + 1 \in TWSConnections)
         /\ UNCHANGED times \/ Takes(c)
         /\ UNCHANGED asked \/ send_time_request(c)
         /\ UNCHANGED robbed \/ Takes(c) \/ time_out(c)
<1>1. CASE open_request(c) \/ close_request(c) \/ responsive_request(c)
  BY <1>1 DEF open_request, close_request, responsive_request, conns, clock
<1>2. CASE Opening(c)
  <2>1. connect(c) => made' = made + 1 /\ made + 1 \in TWSConnections
    BY ConnectionAssumption DEF connect, ConnectionTypeOK, TWSConnections, ConnectionAssumption
  <2> QED BY <1>2, <2>1 DEF Opening, already_open, connect, connect_fails, connected_to_gateway, refused_by_gateway,
        conns, clock
<1>3. CASE Closing(c)
  BY <1>3 DEF Closing, disconnect, delete, conns, clock
<1>4. CASE Checking(c)
  BY <1>4 DEF Checking, is_alive, queue_not_empty, take_old, send_time_request, get_time, time_out, conns, clock
<1> QED BY <1>1, <1>2, <1>3, <1>4 DEF Step

(* A step that neither connects nor changes what others see: it looks.     *)
Busy(d) == pc[d] \in {"alive", "delete"}
Looks(c) ==
  /\ UNCHANGED <<tws_connection, connection, made, disturbed, lost>>
  /\ ~Busy(c) /\ ~Busy(c)'

LEMMA MostLook ==
  ASSUME ConnectionTypeOK, NEW c \in Requesters, Step(c)
  PROVE  \/ Looks(c) \/ connect(c) \/ connected_to_gateway(c) \/ refused_by_gateway(c)
         \/ (disconnect(c) /\ tws_connection # 0) \/ delete(c)
<1> USE DEF ConnectionTypeOK, Looks, Busy, Go, Asks, Returns, conns, races
<1>1. CASE open_request(c) \/ close_request(c) \/ responsive_request(c)
  BY <1>1 DEF open_request, close_request, responsive_request
<1>2. CASE Opening(c)
  BY <1>2 DEF Opening, already_open, connect_fails
<1>3. CASE Closing(c)
  BY <1>3 DEF Closing, disconnect
<1>4. CASE Checking(c)
  BY <1>4 DEF Checking, is_alive, queue_not_empty, take_old, send_time_request, get_time, time_out
<1> QED BY <1>1, <1>2, <1>3, <1>4 DEF Step

(* Each change of the shared state, written out once.                      *)
LEMMA Connects ==
  ASSUME ConnectionTypeOK, NEW c \in Requesters, connect(c)
  PROVE  /\ tws_connection = 0 /\ UNCHANGED <<tws_connection, disturbed, lost>>
         /\ pc[c] = "check" /\ pc'[c] = "alive" /\ conn'[c] = made + 1
         /\ made' = made + 1 /\ made + 1 \in TWSConnections
         /\ connection' \in [TWSConnections -> {"none", "open", "closed"}]
         /\ connection[made + 1] = "none" /\ connection'[made + 1] = "open"
         /\ \A k \in TWSConnections \ {made + 1} : connection'[k] = connection[k]
BY ConnectionAssumption DEF ConnectionTypeOK, Go, With, Returns, conns, races, connect, TWSConnections, ConnectionAssumption

LEMMA RegistersOwn ==
  ASSUME ConnectionTypeOK, NEW c \in Requesters, connected_to_gateway(c)
  PROVE  /\ pc[c] = "alive" /\ pc'[c] = "idle" /\ UNCHANGED <<connection, made>>
         /\ tws_connection' = conn[c]
         /\ disturbed' = (disturbed \ {c}) \union {d \in Requesters \ {c} : Busy(d)}
         /\ lost' = IF c \in disturbed THEN lost \union Registered ELSE lost
<1>1. pc[c] = "alive" /\ pc'[c] = "idle" /\ UNCHANGED <<connection, made>>
  BY DEF ConnectionTypeOK, Go, Returns, conns, connected_to_gateway
<1>2. Registers(c, conn[c])
  BY DEF connected_to_gateway
<1> QED BY <1>1, <1>2 DEF Registers, Busy

LEMMA Refused ==
  ASSUME ConnectionTypeOK, NEW c \in Requesters, refused_by_gateway(c), HandlersFit
  PROVE  /\ pc[c] = "alive" /\ pc'[c] = "idle" /\ UNCHANGED <<tws_connection, made, lost>>
         /\ connection' \in [TWSConnections -> {"none", "open", "closed"}]
         /\ conn[c] \in TWSConnections /\ connection[conn[c]] = "open" /\ connection'[conn[c]] = "closed"
         /\ \A k \in TWSConnections \ {conn[c]} : connection'[k] = connection[k]
         /\ disturbed' = disturbed \ {c}
BY ConnectionAssumption DEF ConnectionTypeOK, Go, With, Returns, conns, races, refused_by_gateway, HandlersFit, TWSConnections, ConnectionAssumption

LEMMA Disconnects ==
  ASSUME ConnectionTypeOK, NEW c \in Requesters, disconnect(c), tws_connection # 0
  PROVE  /\ pc[c] = "disconnect" /\ pc'[c] = "delete"
         /\ UNCHANGED <<tws_connection, made, disturbed, lost>>
         /\ connection' \in [TWSConnections -> {"none", "open", "closed"}]
         /\ tws_connection \in TWSConnections /\ connection[tws_connection] # "none"
         /\ connection'[tws_connection] = "closed"
         /\ \A k \in TWSConnections \ {tws_connection} : connection'[k] = connection[k]
BY ConnectionAssumption DEF ConnectionTypeOK, Go, With, Returns, conns, races, disconnect, TWSConnections, ConnectionAssumption

LEMMA Deletes ==
  ASSUME ConnectionTypeOK, NEW c \in Requesters, delete(c)
  PROVE  /\ pc[c] = "delete" /\ pc'[c] = "idle" /\ UNCHANGED <<connection, made>>
         /\ tws_connection' = 0
         /\ disturbed' = (disturbed \ {c}) \union {d \in Requesters \ {c} : Busy(d)}
         /\ lost' = IF c \in disturbed THEN lost \union Registered ELSE lost
BY DEF ConnectionTypeOK, Go, With, Returns, conns, delete, Registers, Busy

LEMMA ConnectionTypes ==
  ASSUME ConnectionTypeOK, HandlersFit, [ConnectionNext]_connectionVars
  PROVE  ConnectionTypeOK'
<1> USE ConnectionAssumption DEF ConnectionAssumption
<1>1. CASE UNCHANGED connectionVars
  BY <1>1 DEF ConnectionTypeOK, connectionVars, conns, clock, races
<1>2. ASSUME NEW c \in Requesters, Step(c) PROVE ConnectionTypeOK'
  <2>1. /\ times' \in [TWSConnections -> Nat] /\ robbed' \subseteq Requesters
        /\ asked' \in [TWSConnections -> Nat]
    <3>1. send_time_request(c) => asked' \in [TWSConnections -> Nat]
      BY DEF send_time_request, ConnectionTypeOK
    <3>2. time_out(c) => robbed' \subseteq Requesters
      BY DEF time_out, ConnectionTypeOK
    <3> QED BY <1>2, <3>1, <3>2, Untouched, TakesTypes DEF ConnectionTypeOK
  <2>2. made' \in 0..MaxConnections /\ made <= made' /\ (connect(c) => made' = made + 1)
    <3>1. made \in Nat /\ made <= MaxConnections
      BY DEF ConnectionTypeOK
    <3>2. connect(c) => made' = made + 1 /\ made' <= MaxConnections
      BY <1>2, Connects DEF TWSConnections
    <3> QED BY <1>2, <3>1, <3>2, Untouched
  <2>3. /\ pc' \in [Requesters -> Places] /\ conn' \in [Requesters -> 0..MaxConnections]
        /\ \A d \in Requesters : conn'[d] <= made'
    <3>1. conn'[c] <= made'
      BY <1>2, <2>2, OtherHandlersStay DEF ConnectionTypeOK
    <3> QED BY <1>2, <2>2, <3>1, OtherHandlersStay DEF ConnectionTypeOK
  <2>4. /\ tws_connection' \in 0..made'
        /\ disturbed' \subseteq Requesters /\ lost' \subseteq TWSConnections
        /\ connection' \in [TWSConnections -> {"none", "open", "closed"}]
        /\ \A k \in TWSConnections : (connection'[k] = "none") = (k > made')
    <3>1. CASE Looks(c)
      BY <3>1 DEF Looks, ConnectionTypeOK
    <3>2. CASE connect(c)
      <4>1. tws_connection' \in 0..made' /\ disturbed' \subseteq Requesters /\ lost' \subseteq TWSConnections
        BY <3>2, Connects DEF ConnectionTypeOK
      <4>2. ASSUME NEW k \in TWSConnections PROVE (connection'[k] = "none") = (k > made')
        <5>1. CASE k = made + 1
          BY <3>2, <5>1, Connects DEF TWSConnections
        <5>2. CASE k # made + 1
          <6>1. connection'[k] = connection[k] /\ made' = made + 1
            BY <3>2, <5>2, Connects
          <6>2. (k > made) = (k > made')
            BY <5>2, <6>1 DEF ConnectionTypeOK, TWSConnections
          <6> QED BY <6>1, <6>2 DEF ConnectionTypeOK
        <5> QED BY <5>1, <5>2
      <4> QED BY <3>2, <4>1, <4>2, Connects
    <3>3. CASE connected_to_gateway(c)
      BY <3>3, RegistersOwn DEF ConnectionTypeOK, Registered
    <3>4. CASE refused_by_gateway(c)
      <4>1. conn[c] \in TWSConnections /\ connection[conn[c]] = "open"
        BY <3>4, Refused DEF HandlersFit, ConnectionTypeOK, TWSConnections
      <4> QED BY <3>4, <4>1, Refused DEF ConnectionTypeOK
    <3>5. CASE disconnect(c) /\ tws_connection # 0
      <4>1. tws_connection \in TWSConnections /\ connection[tws_connection] # "none"
        BY <3>5 DEF ConnectionTypeOK, TWSConnections
      <4> QED BY <3>5, <4>1, Disconnects DEF ConnectionTypeOK
    <3>6. CASE delete(c)
      BY <3>6, Deletes DEF ConnectionTypeOK, Registered
    <3> QED BY <1>2, <3>1, <3>2, <3>3, <3>4, <3>5, <3>6, MostLook
  <2> QED BY <2>1, <2>2, <2>3, <2>4 DEF ConnectionTypeOK
<1>3. ASSUME NEW k \in TWSConnections, handle_current_time(k) PROVE ConnectionTypeOK'
  BY <1>3 DEF ConnectionTypeOK, handle_current_time, conns, races, TWSConnections
<1> QED BY <1>1, <1>2, <1>3 DEF ConnectionNext, Step

(* What the handlers know and what leaks, one change after the other.      *)
HandlersKnow == OnlyRacesLeak /\ RegisteredIsOpen /\ HandlersFit

LEMMA KnowStep ==
  ASSUME ConnectionTypeOK, HandlersKnow, NEW c \in Requesters, Step(c)
  PROVE  HandlersKnow'
<1>0. \A d \in Requesters \ {c} : pc'[d] = pc[d] /\ conn'[d] = conn[d]
  BY OtherHandlersStay
<1>1. CASE Looks(c)
  <2>1. \A d \in Requesters : /\ (pc'[d] = "alive") = (pc[d] = "alive")
                              /\ (pc'[d] = "delete") = (pc[d] = "delete")
                              /\ pc[d] = "alive" => conn'[d] = conn[d]
    BY <1>0, <1>1 DEF Looks, Busy
  <2> QED BY <1>1, <2>1 DEF HandlersKnow, Looks, OnlyRacesLeak, Leaked, RegisteredIsOpen, HandlersFit
<1>2. CASE connect(c)
  <2> DEFINE k == made + 1
  <2>1. /\ connection'[k] = "open" /\ \A j \in TWSConnections \ {k} : connection'[j] = connection[j]
        /\ k \in TWSConnections /\ connection[k] = "none" /\ k # 0
        /\ \A d \in Requesters : conn[d] # k
    BY <1>2, Connects DEF ConnectionTypeOK, TWSConnections
  <2>2. RegisteredIsOpen' /\ HandlersFit'
    <3>1. /\ tws_connection = 0 /\ tws_connection' = 0 /\ disturbed' = disturbed
          /\ pc'[c] = "alive" /\ conn'[c] = k
      BY <1>2, Connects
    <3>2. ASSUME NEW d \in Requesters \ {c}, pc'[d] = "alive"
          PROVE  conn'[d] # 0 /\ connection'[conn'[d]] = "open" /\ conn'[d] # k
                 /\ \A e \in Requesters \ {c} : pc'[e] = "alive" /\ conn'[e] = conn'[d] => e = d
      <4>1. pc[d] = "alive" /\ conn'[d] = conn[d] /\ conn[d] \in TWSConnections
        BY <1>0, <3>2 DEF HandlersKnow, HandlersFit, ConnectionTypeOK, TWSConnections
      <4> QED BY <1>0, <2>1, <4>1 DEF HandlersKnow, HandlersFit
    <3>3. \A d \in Requesters : pc'[d] = "delete" => d \in disturbed
      BY <1>0, <3>1 DEF HandlersKnow, HandlersFit
    <3> QED BY <2>1, <3>1, <3>2, <3>3 DEF RegisteredIsOpen, HandlersFit
  <2>3. OnlyRacesLeak'
    BY <1>0, <1>2, <2>1, Connects DEF HandlersKnow, OnlyRacesLeak, Leaked
  <2> QED BY <2>2, <2>3 DEF HandlersKnow
<1>3. CASE connected_to_gateway(c)
  <2>1. conn[c] # 0 /\ connection[conn[c]] = "open" /\ (c \notin disturbed => tws_connection = 0)
    BY <1>3, RegistersOwn DEF HandlersKnow, HandlersFit
  <2>2. RegisteredIsOpen' /\ HandlersFit'
    BY <1>0, <1>3, <2>1, RegistersOwn DEF HandlersKnow, RegisteredIsOpen, HandlersFit, Busy
  <2>3. OnlyRacesLeak'
    <3> SUFFICES ASSUME NEW k \in TWSConnections, Leaked(k)' PROVE k \in lost'
      BY DEF OnlyRacesLeak
    <3>1. connection[k] = "open" /\ ~\E d \in Requesters : pc[d] = "alive" /\ conn[d] = k
      BY <1>0, <1>3, RegistersOwn DEF Leaked
    <3>2. CASE k = tws_connection
      BY <1>3, <2>1, <3>1, <3>2, RegistersOwn DEF Registered, TWSConnections
    <3>3. CASE k # tws_connection
      BY <1>3, <3>1, <3>3, RegistersOwn DEF HandlersKnow, OnlyRacesLeak, Leaked
    <3> QED BY <3>2, <3>3
  <2> QED BY <2>2, <2>3 DEF HandlersKnow
<1>4. CASE refused_by_gateway(c)
  <2>1. /\ conn[c] \in TWSConnections /\ connection'[conn[c]] = "closed" /\ conn[c] # tws_connection
        /\ \A k \in TWSConnections \ {conn[c]} : connection'[k] = connection[k]
    BY <1>4, Refused DEF HandlersKnow, HandlersFit, ConnectionTypeOK, TWSConnections
  <2>2. /\ tws_connection # 0 => connection'[tws_connection] = connection[tws_connection]
        /\ \A d \in Requesters \ {c} : pc[d] = "alive" => connection'[conn[d]] = connection[conn[d]]
    <3>1. tws_connection # 0 => tws_connection \in TWSConnections
      <4>1. made \in Nat /\ made <= MaxConnections /\ tws_connection \in 0..made
        BY ConnectionAssumption DEF ConnectionTypeOK, ConnectionAssumption
      <4> QED BY <4>1, ConnectionAssumption DEF TWSConnections, ConnectionAssumption
    <3>2. ASSUME NEW d \in Requesters \ {c}, pc[d] = "alive"
          PROVE  conn[d] \in TWSConnections \ {conn[c]}
      <4>1. pc[c] = "alive"
        BY <1>4, Refused DEF HandlersKnow
      <4> QED BY <3>2, <4>1 DEF HandlersKnow, HandlersFit, ConnectionTypeOK, TWSConnections
    <3> QED BY <2>1, <3>1, <3>2
  <2>3. RegisteredIsOpen' /\ HandlersFit'
    BY <1>0, <1>4, <2>2, Refused DEF HandlersKnow, RegisteredIsOpen, HandlersFit
  <2>4. OnlyRacesLeak'
    BY <1>0, <1>4, <2>1, Refused DEF HandlersKnow, OnlyRacesLeak, Leaked
  <2> QED BY <2>3, <2>4 DEF HandlersKnow
<1>5. CASE disconnect(c) /\ tws_connection # 0
  <2>1. /\ tws_connection \in TWSConnections /\ connection'[tws_connection] = "closed"
        /\ \A k \in TWSConnections \ {tws_connection} : connection'[k] = connection[k]
    BY <1>5, Disconnects DEF ConnectionTypeOK, TWSConnections
  <2>2. \A d \in Requesters : pc[d] = "alive" => connection'[conn[d]] = connection[conn[d]]
    BY <2>1 DEF HandlersKnow, HandlersFit, ConnectionTypeOK, TWSConnections
  <2>3. RegisteredIsOpen' /\ HandlersFit'
    BY <1>0, <1>5, <2>1, <2>2, Disconnects DEF HandlersKnow, RegisteredIsOpen, HandlersFit
  <2>4. OnlyRacesLeak'
    BY <1>0, <1>5, <2>1, Disconnects DEF HandlersKnow, OnlyRacesLeak, Leaked
  <2> QED BY <2>3, <2>4 DEF HandlersKnow
<1>6. CASE delete(c)
  <2>1. RegisteredIsOpen' /\ HandlersFit'
    BY <1>0, <1>6, Deletes DEF HandlersKnow, RegisteredIsOpen, HandlersFit, Busy
  <2>2. OnlyRacesLeak'
    <3> SUFFICES ASSUME NEW k \in TWSConnections, Leaked(k)' PROVE k \in lost'
      BY DEF OnlyRacesLeak
    <3>1. connection[k] = "open" /\ ~\E d \in Requesters : pc[d] = "alive" /\ conn[d] = k
      BY <1>0, <1>6, Deletes DEF Leaked
    <3>2. CASE k = tws_connection
      <4>1. c \in disturbed
        BY <1>6, <3>1, <3>2, Deletes DEF HandlersKnow, HandlersFit
      <4> QED BY <1>6, <3>1, <3>2, <4>1, Deletes DEF Registered
    <3>3. CASE k # tws_connection
      BY <1>6, <3>1, <3>3, Deletes DEF HandlersKnow, OnlyRacesLeak, Leaked
    <3> QED BY <3>2, <3>3
  <2> QED BY <2>1, <2>2 DEF HandlersKnow
<1> QED BY <1>1, <1>2, <1>3, <1>4, <1>5, <1>6, MostLook

LEMMA ConnectionStep == ConnectionInv /\ [ConnectionNext]_connectionVars => ConnectionInv'
<1> SUFFICES ASSUME ConnectionInv, [ConnectionNext]_connectionVars PROVE ConnectionInv'
  OBVIOUS
<1>1. ConnectionTypeOK'
  BY ConnectionTypes DEF ConnectionInv
<1>2. ConnectionTypeOK /\ HandlersKnow
  BY DEF ConnectionInv, HandlersKnow
<1>3. ASSUME UNCHANGED <<tws_connection, connection, pc, conn, disturbed, lost>> PROVE HandlersKnow'
  BY <1>2, <1>3 DEF HandlersKnow, OnlyRacesLeak, Leaked, RegisteredIsOpen, HandlersFit
<1>4. HandlersKnow'
  <2>1. CASE UNCHANGED connectionVars
    BY <1>3, <2>1 DEF connectionVars, conns, races
  <2>2. ASSUME NEW c \in Requesters, Step(c) PROVE HandlersKnow'
    BY <1>2, <2>2, KnowStep
  <2>3. ASSUME NEW k \in TWSConnections, handle_current_time(k) PROVE HandlersKnow'
    BY <1>3, <2>3 DEF handle_current_time, conns, races
  <2> QED BY <2>1, <2>2, <2>3 DEF ConnectionNext, Step
<1> QED BY <1>1, <1>4 DEF ConnectionInv, HandlersKnow

LEMMA ConnectionStarts == ConnectionInit => ConnectionInv
<1>1. ConnectionInit => HandlersKnow
  BY DEF ConnectionInit, HandlersKnow, OnlyRacesLeak, Leaked, RegisteredIsOpen, HandlersFit
<1> QED BY <1>1, ConnectionTypesStart DEF ConnectionInv, HandlersKnow

(* However many requests open, close and check at the same time, only a    *)
(* handler that another one disturbed loses a connection that is open      *)
(* (tws_client_connection_gscLib.py:51-72, 95-101).                        *)
THEOREM ConnectionSafety == ConnectionSpec => []ConnectionInv
BY ConnectionStarts, ConnectionStep, PTL DEF ConnectionSpec

(* A check works with a connection there was, and while it waits there is  *)
(* an answer to come, or the connection closed, or it was robbed.          *)
Checks(c) ==
  /\ pc[c] \in {"empty", "take", "get"} => conn[c] \in TWSConnections
  /\ pc[c] = "get" => \/ connection[conn[c]] = "closed" \/ asked[conn[c]] + times[conn[c]] > 0
                      \/ c \in robbed
AllCheck == \A c \in Requesters : Checks(c)

LEMMA ClosedStays ==
  ASSUME ConnectionTypeOK, HandlersKnow, NEW c \in Requesters, Step(c)
  PROVE  \A k \in TWSConnections : connection[k] = "closed" => connection'[k] = "closed"
<1> SUFFICES ASSUME NEW k \in TWSConnections, connection[k] = "closed" PROVE connection'[k] = "closed"
  OBVIOUS
<1>1. CASE Looks(c)
  BY <1>1 DEF Looks
<1>2. CASE connect(c)
  BY <1>2, Connects
<1>3. CASE connected_to_gateway(c)
  BY <1>3, RegistersOwn
<1>4. CASE refused_by_gateway(c)
  BY <1>4, Refused DEF HandlersKnow
<1>5. CASE disconnect(c) /\ tws_connection # 0
  BY <1>5, Disconnects
<1>6. CASE delete(c)
  BY <1>6, Deletes
<1> QED BY <1>1, <1>2, <1>3, <1>4, <1>5, <1>6, MostLook

LEMMA OwnCheck ==
  ASSUME ConnectionTypeOK, NEW c \in Requesters, Checks(c), Step(c)
  PROVE  Checks(c)'
<1> USE DEF ConnectionTypeOK, Checks, Go, With, Asks, Returns
<1>1. CASE open_request(c) \/ close_request(c) \/ responsive_request(c)
  BY <1>1 DEF open_request, close_request, responsive_request
<1>2. CASE Opening(c)
  BY <1>2 DEF Opening, already_open, connect, connect_fails, connected_to_gateway, refused_by_gateway
<1>3. CASE Closing(c)
  BY <1>3 DEF Closing, disconnect, delete
<1>4. CASE is_alive(c)
  <2>1. pc'[c] = "empty" => conn'[c] \in TWSConnections
    BY <1>4, ConnectionAssumption DEF is_alive, TWSConnections, ConnectionAssumption
  <2>2. pc'[c] \in {"idle", "empty"}
    BY <1>4 DEF is_alive
  <2> QED BY <2>1, <2>2
<1>5. CASE queue_not_empty(c) \/ take_old(c)
  <2>1. pc'[c] \in {"empty", "take"} /\ conn'[c] = conn[c]
    BY <1>5 DEF queue_not_empty, take_old
  <2> QED BY <1>5, <2>1 DEF queue_not_empty, take_old
<1>6. CASE send_time_request(c)
  <2>1. CASE connection[conn[c]] = "closed"
    BY <1>6, <2>1 DEF send_time_request
  <2>2. CASE connection[conn[c]] # "closed"
    <3>1. pc'[c] = "get" /\ conn'[c] = conn[c] /\ conn[c] \in TWSConnections /\ times' = times
      BY <1>6, <2>2 DEF send_time_request, clock
    <3>2. asked'[conn[c]] = asked[conn[c]] + 1
      BY <1>6, <2>2, <3>1 DEF send_time_request
    <3> QED BY <3>1, <3>2
  <2> QED BY <2>1, <2>2
<1>7. CASE get_time(c) \/ time_out(c)
  BY <1>7 DEF get_time, time_out
<1> QED BY <1>1, <1>2, <1>3, <1>4, <1>5, <1>6, <1>7 DEF Step, Checking

LEMMA OtherCheck ==
  ASSUME ConnectionTypeOK, HandlersKnow, NEW c \in Requesters, Step(c),
         NEW d \in Requesters, d # c, Checks(d)
  PROVE  Checks(d)'
<1>1. pc'[d] = pc[d] /\ conn'[d] = conn[d]
  BY OtherHandlersStay
<1>2. SUFFICES ASSUME pc[d] = "get"
               PROVE \/ connection'[conn[d]] = "closed" \/ asked'[conn[d]] + times'[conn[d]] > 0
                     \/ d \in robbed'
  BY <1>1 DEF Checks
<1>3. conn[d] \in TWSConnections
  BY <1>2 DEF Checks
<1>4. d \in robbed => d \in robbed'
  BY Untouched DEF Takes, time_out
<1>5. times'[conn[d]] = times[conn[d]] \/ d \in robbed'
  <2>1. CASE Takes(c) /\ conn[c] = conn[d]
    BY <1>2, <2>1 DEF Takes
  <2>2. CASE Takes(c) /\ conn[c] # conn[d]
    BY <1>3, <2>2 DEF Takes, ConnectionTypeOK
  <2> QED BY <2>1, <2>2, Untouched
<1>6. asked'[conn[d]] = asked[conn[d]] \/ asked'[conn[d]] = asked[conn[d]] + 1
  BY <1>3, Untouched DEF send_time_request, ConnectionTypeOK
<1> QED BY <1>2, <1>3, <1>4, <1>5, <1>6, ClosedStays DEF Checks, ConnectionTypeOK

LEMMA ChecksStep == ConnectionInv /\ AllCheck /\ [ConnectionNext]_connectionVars => AllCheck'
<1> SUFFICES ASSUME ConnectionTypeOK, HandlersKnow, AllCheck, [ConnectionNext]_connectionVars PROVE AllCheck'
  BY DEF ConnectionInv, HandlersKnow
<1>1. CASE UNCHANGED connectionVars
  BY <1>1 DEF AllCheck, Checks, connectionVars, conns, clock
<1>2. ASSUME NEW c \in Requesters, Step(c) PROVE AllCheck'
  BY <1>2, OwnCheck, OtherCheck DEF AllCheck
<1>3. ASSUME NEW k \in TWSConnections, handle_current_time(k) PROVE AllCheck'
  <2>1. UNCHANGED <<connection, pc, conn, robbed>>
    BY <1>3 DEF handle_current_time, conns
  <2>2. \A j \in TWSConnections : asked'[j] + times'[j] = asked[j] + times[j]
    BY <1>3 DEF handle_current_time, ConnectionTypeOK
  <2> QED BY <2>1, <2>2 DEF AllCheck, Checks
<1> QED BY <1>1, <1>2, <1>3 DEF ConnectionNext, Step

(* However many checks share the queue, one that reports False was not     *)
(* answered, or another took the answer (TWSClient.py:199-215).            *)
THEOREM ChecksAreTrue == ConnectionSpec => FalseMeansSilence
<1> DEFINE Silent == \A c \in Requesters : time_out(c) =>
      connection[conn[c]] = "closed" \/ asked[conn[c]] > 0 \/ c \in robbed
<1>1. ConnectionInit => AllCheck
  BY DEF ConnectionInit, AllCheck, Checks
<1>2. ConnectionTypeOK /\ AllCheck => Silent
  <2> SUFFICES ASSUME ConnectionTypeOK, NEW c \in Requesters, Checks(c), time_out(c)
               PROVE connection[conn[c]] = "closed" \/ asked[conn[c]] > 0 \/ c \in robbed
    BY DEF AllCheck
  <2>1. pc[c] = "get" /\ times[conn[c]] = 0
    BY DEF time_out, Returns, Go
  <2> QED BY <2>1 DEF Checks, ConnectionTypeOK
<1>3. ConnectionSpec => [][Silent]_connectionVars
  <2>1. ConnectionInv => ConnectionTypeOK
    BY DEF ConnectionInv
  <2> QED BY <1>1, <1>2, <2>1, ConnectionStarts, ConnectionStep, ChecksStep, PTL DEF ConnectionSpec
<1> QED BY <1>3 DEF FalseMeansSilence
=============================================================================
