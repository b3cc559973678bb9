------------------------- MODULE RealTimeBarsProofs -------------------------
(* StreamInv is inductive: what the gateway has sent is what the program   *)
(* has read, followed by what it holds, what waits in req_data, what the   *)
(* dispatcher carries and what the listener has queued.                    *)
EXTENDS RealTimeBars, SequenceTheorems, TLAPS

Numbers == 1..MaxBars

-----------------------------------------------------------------------------
(* The bars of a queue in which at most the last message is an error.      *)

(* A bar is queued behind the others (send_bar). *)
LEMMA BarQueued ==
  ASSUME NEW S, NEW s \in Seq(S), NEW b \in S, b # Error, \A i \in 1..Len(s) : s[i] # Error
  PROVE  Bars(Append(s, b)) = Bars(s) \o <<b>>
  BY DEF Bars, BarsIn

(* An error behind the bars is no bar (send_error). *)
LEMMA ErrorQueued ==
  ASSUME NEW S, NEW s \in Seq(S), Error \in S, \A i \in 1..Len(s) : s[i] # Error
  PROVE  Bars(Append(s, Error)) = Bars(s)
  BY DEF Bars, BarsIn

(* The dispatcher takes the first bar of the queue (get_message). *)
LEMMA BarTaken ==
  ASSUME NEW S, NEW s \in Seq(S), s # <<>>, Head(s) # Error,
         \A i \in 1..Len(s) : s[i] = Error => i = Len(s)
  PROVE  Bars(s) = <<Head(s)>> \o Bars(Tail(s))
<1>1. BarsIn(s) = BarsIn(Tail(s)) + 1
  <2> DEFINE n == Len(s) - 1
  <2>1. s # <<>>
    OBVIOUS
  <2>2. n \in Nat /\ Len(s) = n + 1 /\ Tail(s) \in Seq(S) /\ Len(Tail(s)) = n
    OBVIOUS
  <2>3. Tail(s) = <<>> <=> n = 0
    <3>1. \A t \in Seq(S) : t = <<>> <=> Len(t) = 0
      OBVIOUS
    <3>2. QED
      BY <2>2, <3>1
  <2> HIDE DEF n
  <2>4. CASE n = 0
    <3>1. s[Len(s)] # Error
      BY <2>2, <2>4
    <3>2. QED
      BY <2>2, <2>4, <2>3, <3>1 DEF BarsIn
  <2>5. CASE n > 0
    <3>1. Tail(s)[n] = s[n + 1] /\ Tail(s) # <<>>
      BY <2>2, <2>3, <2>5
    <3>2. QED
      BY <2>2, <2>5, <3>1 DEF BarsIn
  <2>6. QED
    BY <2>2, <2>4, <2>5
<1>2. BarsIn(Tail(s)) \in 0..Len(Tail(s))
  BY DEF BarsIn
<1>3. \A i \in 1..BarsIn(Tail(s)) : Tail(s)[i] = s[i + 1]
  BY <1>2
<1>4. Head(s) = s[1]
  OBVIOUS
<1>5. Bars(Tail(s)) = [i \in 1..BarsIn(Tail(s)) |-> s[i + 1]]
  BY <1>3 DEF Bars
<1>6. BarsIn(Tail(s)) \in Nat
  BY <1>2
<1>7. ASSUME NEW n \in Nat
      PROVE  [i \in 1..n + 1 |-> s[i]] = <<s[1]>> \o [i \in 1..n |-> s[i + 1]]
  OBVIOUS
<1>8. QED
  BY <1>1, <1>4, <1>5, <1>6, <1>7 DEF Bars

(* The bars of a queue are numbers. *)
LEMMA BarsAreNumbers ==
  ASSUME NEW s \in Seq(1..Error), \A i \in 1..Len(s) : s[i] = Error => i = Len(s)
  PROVE  Bars(s) \in Seq(Numbers)
<1>1. BarsIn(s) \in Nat /\ BarsIn(s) <= Len(s)
  BY DEF BarsIn
<1>2. \A i \in 1..BarsIn(s) : s[i] \in Numbers
  BY <1>1, BarsAssumption DEF BarsIn, Numbers, Error
<1>3. QED
  BY <1>1, <1>2 DEF Bars

-----------------------------------------------------------------------------
(* A bar moves from one place to the next and the stream stays the same.   *)

(* The reader returns the bar it holds. *)
LEMMA Returned ==
  ASSUME NEW S, NEW g \in Seq(S), NEW x \in S
  PROVE  Append(g, x) \o <<>> = g \o <<x>>
  OBVIOUS

(* The reader pops the first bar of req_data. *)
LEMMA Popped ==
  ASSUME NEW S, NEW g \in Seq(S), NEW d \in Seq(S), d # <<>>
  PROVE  g \o <<Head(d)>> \o Tail(d) = g \o <<>> \o d
<1> DEFINE a == <<Head(d)>>
           t == Tail(d)
<1>1. a \in Seq(S) /\ t \in Seq(S) /\ d = a \o t
  OBVIOUS
<1> HIDE DEF a, t
<1>2. (g \o a) \o t = (g \o <<>>) \o (a \o t)
  BY <1>1
<1>3. QED
  BY <1>1, <1>2 DEF a, t

(* The dispatcher appends its bar to req_data. *)
LEMMA Appended ==
  ASSUME NEW S, NEW p \in Seq(S), NEW d \in Seq(S), NEW x \in S
  PROVE  p \o Append(d, x) \o <<>> = p \o d \o <<x>>
<1>1. Append(d, x) = d \o <<x>> /\ <<x>> \in Seq(S)
  OBVIOUS
<1>2. p \o (d \o <<x>>) = (p \o d) \o <<x>> /\ (p \o d) \o <<x>> \in Seq(S)
  BY <1>1
<1>3. QED
  BY <1>1, <1>2

(* The dispatcher takes a bar of the queue. *)
LEMMA Taken ==
  ASSUME NEW S, NEW p \in Seq(S), NEW q \in Seq(S), NEW x \in S
  PROVE  p \o <<x>> \o q = p \o <<>> \o (<<x>> \o q)
<1>1. <<x>> \in Seq(S) /\ p \o <<>> = p
  OBVIOUS
<1>2. \A a, b, c \in Seq(S) : (a \o b) \o c = a \o (b \o c)
  OBVIOUS
<1>3. QED
  BY <1>1, <1>2

(* The gateway sends one more bar. *)
LEMMA Sent ==
  ASSUME NEW S, NEW p \in Seq(S), NEW q \in Seq(S), NEW x \in S
  PROVE  p \o (q \o <<x>>) = (p \o q) \o <<x>>
<1>1. <<x>> \in Seq(S)
  OBVIOUS
<1>2. \A a, b, c \in Seq(S) : (a \o b) \o c = a \o (b \o c)
  OBVIOUS
<1>3. QED
  BY <1>1, <1>2

-----------------------------------------------------------------------------
(* The places and the statuses, one action at a time.                      *)

Places == TypeOK /\ LiveStreamKeepsDispatcher /\ NothingBefore /\ ErrorIsLast /\ ReaderHolds

(* In the initial state nothing is on its way. *)
LEMMA StreamInit == Init => StreamInv
<1> SUFFICES ASSUME Init PROVE StreamInv
  OBVIOUS
<1>1. Places
  BY BarsAssumption DEF Init, Places, TypeOK, Statuses, NoBar, Error, LiveStreamKeepsDispatcher,
     NothingBefore, ErrorIsLast, ReaderHolds
<1>2. ReadInOrder
  BY DEF Init, ReadInOrder
<1>3. NoBarLost
  <2>1. Bar(held) = <<>> /\ Waiting = <<>> /\ Bars(inbox) = <<>>
    BY DEF Init, Bar, Waiting, Bars, BarsIn
  <2>2. Stream = <<>>
    BY <2>1 DEF Init, Stream
  <2>3. [i \in 1..sent |-> i] = <<>>
    BY DEF Init
  <2>4. QED
    BY <2>2, <2>3 DEF NoBarLost
<1>4. QED
  BY <1>1, <1>2, <1>3 DEF Places, StreamInv

(* Every step leaves every process a state it can go on from. *)
LEMMA PlacesStep == Places /\ [Next]_vars => Places'
<1> SUFFICES ASSUME Places, [Next]_vars PROVE Places'
  OBVIOUS
<1>0. MaxBars \in Nat /\ Error \in Nat /\ Error = MaxBars + 1
  BY BarsAssumption DEF Error
<1> USE <1>0 DEF Places, TypeOK, Statuses, NoBar, LiveStreamKeepsDispatcher,
        NothingBefore, ErrorIsLast, ReaderHolds, gatewayVars, readerVars
<1>1. CASE send_bar
  <2>1. sent + 1 \in 1..MaxBars /\ sent + 1 # Error
    BY <1>1 DEF send_bar
  <2>2. \A i \in 1..Len(inbox) : inbox[i] # Error
    BY <1>1 DEF send_bar
  <2>3. /\ inbox' \in Seq(1..Error)
        /\ \A i \in 1..Len(inbox') : inbox'[i] # Error
    <3>1. ASSUME NEW b \in 1..Error, b # Error
          PROVE  /\ Append(inbox, b) \in Seq(1..Error)
                 /\ \A i \in 1..Len(Append(inbox, b)) : Append(inbox, b)[i] # Error
      BY <2>2, <3>1
    <3>2. QED
      BY <1>1, <2>1, <3>1 DEF send_bar
  <2>4. QED
    BY <1>1, <2>1, <2>3 DEF send_bar
<1>2. CASE send_error
  <2>1. /\ inbox' \in Seq(1..Error)
        /\ \A i \in 1..Len(inbox') : inbox'[i] = Error => i = Len(inbox')
    <3>1. \A i \in 1..Len(inbox) : inbox[i] # Error
      BY <1>2 DEF send_error
    <3>2. ASSUME NEW b \in 1..Error
          PROVE  /\ Append(inbox, b) \in Seq(1..Error)
                 /\ \A i \in 1..Len(Append(inbox, b)) :
                      Append(inbox, b)[i] = Error => i = Len(Append(inbox, b))
      BY <3>1, <3>2
    <3>3. Error \in 1..Error /\ inbox' = Append(inbox, Error)
      BY <1>2 DEF send_error
    <3>4. QED
      BY <3>2, <3>3
  <2>2. QED
    BY <1>2, <2>1 DEF send_error
<1>3. CASE cancelled
  BY <1>3 DEF cancelled
<1>4. CASE get_message
  <2>1. Head(inbox) \in 1..Error /\ (Head(inbox) = Error => gateway = "failed" /\ Tail(inbox) = <<>>)
    <3>1. Head(inbox) = inbox[1] /\ Head(inbox) \in 1..Error /\ Len(inbox) >= 1 /\ Len(inbox) \in Nat
      BY <1>4 DEF get_message
    <3>2. ASSUME inbox[1] = Error PROVE Tail(inbox) = <<>>
      <4>1. Len(inbox) = 1
        <5>1. \A i \in 1..Len(inbox) : inbox[i] = Error => i = Len(inbox)
          OBVIOUS
        <5>2. 1 \in 1..Len(inbox)
          BY <3>1
        <5>3. QED
          BY <3>2, <5>1, <5>2
      <4>2. \A t \in Seq(1..Error) : Len(t) = 0 => t = <<>>
        OBVIOUS
      <4>3. Tail(inbox) \in Seq(1..Error) /\ Len(Tail(inbox)) = 0
        BY <1>4, <4>1 DEF get_message
      <4>4. QED
        BY <4>2, <4>3
    <3>3. inbox[1] = Error => gateway = "failed"
      BY <3>1
    <3>4. QED
      BY <3>1, <3>2, <3>3
  <2>2. \A i \in 1..Len(inbox') : inbox'[i] = Error => i = Len(inbox') /\ gateway' = "failed"
    BY <1>4 DEF get_message
  <2>3. inbox' \in Seq(1..Error)
    BY <1>4 DEF get_message
  <2>4. QED
    BY <1>4, <2>1, <2>2, <2>3 DEF get_message
<1>5. CASE append_bar
  <2>1. data' \in Seq(1..MaxBars) /\ data' # <<>>
    <3>1. message \in 1..MaxBars /\ data \in Seq(1..MaxBars) /\ data' = Append(data, message)
      BY <1>5 DEF append_bar
    <3>2. \A S, e : \A q \in Seq(S) : e \in S => Append(q, e) \in Seq(S) /\ Append(q, e) # <<>>
      BY AppendProperties
    <3>3. QED
      BY <3>1, <3>2
  <2>2. QED
    BY <1>5, <2>1 DEF append_bar
<1>6. CASE check_status
  BY <1>6 DEF check_status, Handled
<1>7. CASE set_available
  BY <1>7 DEF set_available, Handled, Accepts, SetStatus, From
<1>8. CASE handle_error
  BY <1>8 DEF handle_error, Handled
<1>9. CASE req_real_time_bars
  BY <1>9 DEF req_real_time_bars, ProgramIdle
<1>10. CASE stop_real_time_bars
  BY <1>10 DEF stop_real_time_bars, ProgramIdle, Accepts, SetStatus, From, Ends
<1>11. CASE real_bar_from
  BY <1>11 DEF real_bar_from, ProgramIdle, Ends
<1>12. CASE look
  BY <1>12 DEF look
<1>13. CASE time_is_up
  BY <1>13 DEF time_is_up
<1>14. CASE after
  BY <1>14 DEF after, Ends
<1>15. CASE pop
  BY <1>15 DEF pop, Pop
<1>16. CASE pop_empty
  BY <1>16 DEF pop_empty, Ends
<1>17. CASE drain
  BY <1>17 DEF drain, Pop
<1>18. CASE look_at_length
  BY <1>18 DEF look_at_length
<1>19. CASE mark_empty
  BY <1>19 DEF mark_empty, Accepts, SetStatus, From, Ends
<1>20. CASE return_bar
  BY <1>20 DEF return_bar, Ends
<1>21. CASE UNCHANGED vars
  BY <1>21 DEF vars
<1>22. QED
  BY <1>1, <1>2, <1>3, <1>4, <1>5, <1>6, <1>7, <1>8, <1>9, <1>10, <1>11, <1>12, <1>13, <1>14,
     <1>15, <1>16, <1>17, <1>18, <1>19, <1>20, <1>21 DEF Next, Dispatcher, Program, Reader

-----------------------------------------------------------------------------
(* The stream.                                                             *)

(* Each of the five places holds a sequence of bars. *)
LEMMA PlacesHoldBars ==
  ASSUME Places
  PROVE  /\ Bar(held) \in Seq(Numbers) /\ Waiting \in Seq(Numbers)
         /\ got \in Seq(Numbers) /\ data \in Seq(Numbers) /\ Bars(inbox) \in Seq(Numbers)
<1>1. got \in Seq(Numbers) /\ data \in Seq(Numbers)
  BY DEF Places, TypeOK, Numbers
<1>2. <<>> \in Seq(Numbers) /\ \A b \in Numbers : <<b>> \in Seq(Numbers)
  <2>1. ASSUME NEW b \in Numbers PROVE <<b>> \in Seq(Numbers)
    OBVIOUS
  <2>2. QED
    BY <2>1
<1>3. held # NoBar => held \in Numbers
  BY BarsAssumption DEF Places, TypeOK, Numbers, NoBar
<1>4. dispatcher = "append" => message \in Numbers
  BY DEF Places, ErrorIsLast, Numbers
<1>5. Bars(inbox) \in Seq(Numbers)
  BY BarsAreNumbers DEF Places, TypeOK, ErrorIsLast
<1>6. Bar(held) \in Seq(Numbers)
  BY <1>2, <1>3 DEF Bar
<1>7. Waiting \in Seq(Numbers)
  BY <1>2, <1>4 DEF Waiting, Bar
<1>8. QED
  BY <1>1, <1>5, <1>6, <1>7

(* The places up to the dispatcher, one after the other. *)
LEMMA PrefixesHoldBars ==
  ASSUME NEW g \in Seq(Numbers), NEW h \in Seq(Numbers), NEW d \in Seq(Numbers), NEW w \in Seq(Numbers)
  PROVE  g \o h \in Seq(Numbers) /\ g \o h \o d \in Seq(Numbers) /\ g \o h \o d \o w \in Seq(Numbers)
<1>1. \A a, b \in Seq(Numbers) : a \o b \in Seq(Numbers)
  OBVIOUS
<1>2. QED
  BY <1>1

(* A call that reads in a failed stream is the last one to read. *)
Counted == status # "ERROR" \/ reader # "idle"
LEMMA CountedBefore == Places /\ [Next]_vars /\ Counted' => Counted
  BY DEF Places, ErrorIsLast, Counted, Next, Dispatcher, Program, Reader, vars, gatewayVars, readerVars,
     send_bar, send_error, cancelled, get_message, append_bar, check_status, set_available,
     handle_error, req_real_time_bars, stop_real_time_bars, real_bar_from, look, time_is_up, after,
     pop, pop_empty, drain, look_at_length, mark_empty, return_bar, Ends, SetStatus, Accepts, From,
     Handled

(* Every step keeps the stream, or it adds the bar the gateway sends. *)
LEMMA StreamStep ==
  ASSUME StreamInv, [Next]_vars, Counted'
  PROVE  Stream' = [i \in 1..sent' |-> i]
<1> DEFINE H == Bar(held)
           Q == Bars(inbox)
<1>0. Places /\ Places'
  BY PlacesStep DEF StreamInv, Places
<1>1. /\ got \in Seq(Numbers) /\ H \in Seq(Numbers) /\ data \in Seq(Numbers)
      /\ Waiting \in Seq(Numbers) /\ Q \in Seq(Numbers)
  BY <1>0, PlacesHoldBars
<1>2. Stream = [i \in 1..sent |-> i] /\ Counted
  BY <1>0, CountedBefore DEF StreamInv, NoBarLost, Counted
<1>3. ASSUME UNCHANGED <<got, held, data, inbox, sent>>, Waiting' = Waiting
      PROVE  Stream' = [i \in 1..sent' |-> i]
  <2>1. Stream' = Stream
    BY <1>3 DEF Stream, Bar, Bars, BarsIn
  <2>2. QED
    BY <1>2, <1>3, <2>1
<1>4. CASE send_bar
  <2>1. Bars(inbox') = Q \o <<sent + 1>>
    <3>1. sent + 1 \in 1..Error /\ sent + 1 # Error /\ inbox \in Seq(1..Error)
      BY <1>0, <1>4, BarsAssumption DEF send_bar, Places, TypeOK, Error
    <3>2. \A i \in 1..Len(inbox) : inbox[i] # Error
      BY <1>0, <1>4 DEF send_bar, Places, ErrorIsLast
    <3>3. inbox' = Append(inbox, sent + 1)
      BY <1>4 DEF send_bar
    <3>4. QED
      BY <3>1, <3>2, <3>3, BarQueued
  <2>2. Stream' = got \o H \o data \o Waiting \o (Q \o <<sent + 1>>)
    BY <1>4, <2>1 DEF send_bar, readerVars, Stream, Waiting, Bar
  <2>3. sent + 1 \in Numbers /\ sent \in Nat
    BY <1>0, <1>4, BarsAssumption DEF send_bar, Places, TypeOK, Numbers
  <2>4. Stream' = Stream \o <<sent + 1>>
    <3> DEFINE p == got \o H \o data \o Waiting
    <3>1. p \in Seq(Numbers)
      BY <1>1, PrefixesHoldBars
    <3>2. p \o (Q \o <<sent + 1>>) = (p \o Q) \o <<sent + 1>>
      <4> HIDE DEF p
      <4>1. QED
        BY <1>1, <2>3, <3>1, Sent
    <3>3. QED
      BY <2>2, <3>2 DEF Stream
  <2>5. \A n \in Nat : [i \in 1..n + 1 |-> i] = [i \in 1..n |-> i] \o <<n + 1>>
    <3>1. ASSUME NEW n \in Nat PROVE [i \in 1..n + 1 |-> i] = [i \in 1..n |-> i] \o <<n + 1>>
      OBVIOUS
    <3>2. QED
      BY <3>1
  <2>6. sent' = sent + 1
    BY <1>4 DEF send_bar
  <2>7. QED
    BY <1>2, <2>3, <2>4, <2>5, <2>6
<1>5. CASE send_error
  <2>1. Bars(inbox') = Q
    <3>1. Error \in 1..Error /\ inbox \in Seq(1..Error)
      BY <1>0, BarsAssumption DEF Places, TypeOK, Error
    <3>2. \A i \in 1..Len(inbox) : inbox[i] # Error
      BY <1>0, <1>5 DEF send_error, Places, ErrorIsLast
    <3>3. inbox' = Append(inbox, Error)
      BY <1>5 DEF send_error
    <3>4. QED
      BY <3>1, <3>2, <3>3, ErrorQueued
  <2>2. Stream' = Stream /\ sent' = sent
    BY <1>5, <2>1 DEF send_error, readerVars, Stream, Waiting, Bar
  <2>3. QED
    BY <1>2, <2>2
<1>6. CASE get_message
  <2>1. inbox \in Seq(1..Error) /\ inbox # <<>> /\ inbox' = Tail(inbox) /\ message' = Head(inbox)
        /\ \A i \in 1..Len(inbox) : inbox[i] = Error => i = Len(inbox)
    BY <1>0, <1>6 DEF get_message, Places, TypeOK, ErrorIsLast
  <2>2. Waiting = <<>>
    BY <1>6 DEF Waiting, get_message
  <2>3. UNCHANGED <<got, held, data, sent>>
    BY <1>6 DEF get_message, readerVars
  <2>4. CASE Head(inbox) = Error
    <3>1. inbox' = <<>> /\ dispatcher' = "error"
      BY <1>0, <1>6, <2>4 DEF get_message, Places, ErrorIsLast
    <3>2. Waiting' = <<>> /\ Bars(inbox') = <<>>
      BY <3>1 DEF Waiting, Bars, BarsIn
    <3>3. Q = <<>>
      <4>1. Head(inbox) = inbox[1] /\ Len(inbox) \in Nat /\ Len(inbox) >= 1
        BY <2>1
      <4>2. Len(inbox) = 1 /\ inbox[Len(inbox)] = Error
        <5>1. 1 \in 1..Len(inbox)
          BY <4>1
        <5>2. QED
          BY <2>1, <2>4, <4>1, <5>1
      <4>3. BarsIn(inbox) = 0
        BY <2>1, <4>2 DEF BarsIn
      <4>4. QED
        BY <4>3 DEF Bars
    <3>4. QED
      BY <1>2, <2>2, <2>3, <3>2, <3>3 DEF Stream, Bar
  <2>5. CASE Head(inbox) # Error
    <3>1. Q = <<Head(inbox)>> \o Bars(inbox')
      BY <2>1, <2>5, BarTaken
    <3>2. dispatcher' = "append"
      BY <1>6, <2>5 DEF get_message
    <3>3. message' \in Numbers /\ Bars(inbox') \in Seq(Numbers)
      <4>1. Bars(inbox') \in Seq(Numbers)
        BY <1>0, BarsAreNumbers DEF Places, TypeOK, ErrorIsLast
      <4>2. QED
        BY <1>0, <3>2, <4>1 DEF Places, ErrorIsLast, Numbers
    <3>4. Waiting' = <<message'>>
      BY <3>2, <3>3, BarsAssumption DEF Waiting, Bar, Numbers, NoBar
    <3>5. Stream' = got \o H \o data \o <<message'>> \o Bars(inbox')
      BY <2>3, <3>4 DEF Stream, Bar
    <3>6. Stream = got \o H \o data \o <<>> \o (<<message'>> \o Bars(inbox'))
      BY <2>1, <2>2, <3>1 DEF Stream
    <3>7. got \o H \o data \o <<message'>> \o Bars(inbox')
            = got \o H \o data \o <<>> \o (<<message'>> \o Bars(inbox'))
      <4> DEFINE p == got \o H \o data
      <4>1. p \in Seq(Numbers)
        BY <1>1, PrefixesHoldBars
      <4> HIDE DEF p
      <4>2. p \o <<message'>> \o Bars(inbox') = p \o <<>> \o (<<message'>> \o Bars(inbox'))
        BY <3>3, <4>1, Taken
      <4>3. QED
        BY <4>2 DEF p
    <3>8. QED
      BY <1>2, <2>3, <3>5, <3>6, <3>7
  <2>6. QED
    BY <2>4, <2>5
<1>7. CASE append_bar
  <2>1. message \in Numbers /\ dispatcher = "append" /\ dispatcher' = "check"
        /\ data' = Append(data, message) /\ UNCHANGED <<got, held, inbox, sent>>
    BY <1>0, <1>7 DEF append_bar, Places, ErrorIsLast, Numbers, gatewayVars, readerVars
  <2>2. Waiting = <<message>> /\ Waiting' = <<>>
    BY <2>1, BarsAssumption DEF Waiting, Bar, Numbers, NoBar
  <2>3. Stream = got \o H \o data \o <<message>> \o Q
    BY <2>2 DEF Stream
  <2>4. Stream' = got \o H \o Append(data, message) \o <<>> \o Q
    BY <2>1, <2>2 DEF Stream, Bar, Bars, BarsIn
  <2>5. got \o H \o Append(data, message) \o <<>> = got \o H \o data \o <<message>>
    <3> DEFINE p == got \o H
    <3>1. p \in Seq(Numbers)
      BY <1>1, PrefixesHoldBars
    <3> HIDE DEF p
    <3>2. p \o Append(data, message) \o <<>> = p \o data \o <<message>>
      BY <1>1, <2>1, <3>1, Appended
    <3>3. QED
      BY <3>2 DEF p
  <2>6. QED
    BY <1>2, <2>1, <2>3, <2>4, <2>5
<1>8. CASE pop \/ drain
  <2>1. held = NoBar /\ held' = Head(data) /\ data' = Tail(data) /\ data # <<>>
        /\ UNCHANGED <<got, inbox, sent, dispatcher, message>>
    BY <1>0, <1>8 DEF pop, drain, Pop, Places, ReaderHolds, gatewayVars
  <2>2. H = <<>> /\ Bar(held') = <<Head(data)>> /\ Waiting' = Waiting
    <3>1. Head(data) # NoBar
      BY <1>1, <2>1, BarsAssumption DEF Numbers, NoBar
    <3>2. QED
      BY <2>1, <3>1 DEF Bar, Waiting
  <2>3. Stream = got \o <<>> \o data \o Waiting \o Q
    BY <2>2 DEF Stream
  <2>4. Stream' = got \o <<Head(data)>> \o Tail(data) \o Waiting \o Q
    BY <2>1, <2>2 DEF Stream, Bars, BarsIn
  <2>5. Head(data) \in Numbers
    BY <1>1, <2>1
  <2>6. got \o <<Head(data)>> \o Tail(data) = got \o <<>> \o data
    BY <1>1, <2>1, Popped
  <2>7. QED
    BY <1>2, <2>1, <2>3, <2>4, <2>6
<1>9. CASE return_bar
  <2>1. held # NoBar /\ held' = NoBar /\ got' = Append(got, held)
        /\ UNCHANGED <<data, inbox, sent, dispatcher, message>>
    BY <1>0, <1>9 DEF return_bar, Places, ReaderHolds, gatewayVars
  <2>2. H = <<held>> /\ Bar(held') = <<>> /\ Waiting' = Waiting
    BY <2>1 DEF Bar, Waiting
  <2>3. Stream = got \o <<held>> \o data \o Waiting \o Q
    BY <2>2 DEF Stream
  <2>4. Stream' = Append(got, held) \o <<>> \o data \o Waiting \o Q
    BY <2>1, <2>2 DEF Stream, Bars, BarsIn
  <2>5. held \in Numbers
    BY <1>0, <2>1, BarsAssumption DEF Places, TypeOK, Numbers, NoBar
  <2>6. Append(got, held) \o <<>> = got \o <<held>>
    BY <1>1, <2>5, Returned
  <2>7. QED
    BY <1>2, <2>1, <2>3, <2>4, <2>6
<1>10. CASE req_real_time_bars
  <2>1. data = <<>> /\ data' = <<>> /\ UNCHANGED <<got, held, inbox, sent, dispatcher, message>>
    BY <1>0, <1>10 DEF req_real_time_bars, Places, NothingBefore, readerVars
  <2>2. Waiting' = Waiting
    BY <2>1 DEF Waiting, Bar
  <2>3. QED
    BY <1>3, <2>1, <2>2
<1>11. CASE mark_empty
  <2>1. UNCHANGED <<data, gatewayVars, dispatcher, message, got>> /\ held' = held
    BY <1>0, <1>11 DEF mark_empty, Accepts, From, Ends, Counted, Places, ReaderHolds
  <2>2. QED
    BY <1>3, <2>1 DEF Waiting, Bar, gatewayVars
<1>12. CASE check_status \/ set_available \/ handle_error
  <2>1. dispatcher # "append" /\ dispatcher' # "append" /\ UNCHANGED <<got, held, data, inbox, sent>>
    BY <1>12 DEF check_status, set_available, handle_error, Handled, gatewayVars, readerVars
  <2>2. QED
    BY <1>3, <2>1 DEF Waiting
<1>13. CASE cancelled \/ stop_real_time_bars \/ real_bar_from \/ look \/ time_is_up \/ after
            \/ pop_empty \/ look_at_length \/ UNCHANGED vars
  <2>1. UNCHANGED <<got, held, data, inbox, sent, dispatcher, message>>
    BY <1>13 DEF cancelled, stop_real_time_bars, real_bar_from, look, time_is_up, after, pop_empty,
       look_at_length, vars, gatewayVars, readerVars
  <2>2. QED
    BY <1>3, <2>1 DEF Waiting, Bar
<1>14. QED
  BY <1>4, <1>5, <1>6, <1>7, <1>8, <1>9, <1>10, <1>11, <1>12, <1>13
     DEF Next, Dispatcher, Program, Reader

(* The first bars of a run of numbers are a run of numbers. *)
LEMMA RunPrefix ==
  ASSUME NEW S, NEW a \in Seq(S), NEW b \in Seq(S), NEW n \in Nat, a \o b = [i \in 1..n |-> i]
  PROVE  \A i \in 1..Len(a) : a[i] = i
<1>1. ASSUME NEW i \in 1..Len(a) PROVE (a \o b)[i] = a[i]
  <2>1. \A j \in 1..Len(a) + Len(b) : (a \o b)[j] = IF j <= Len(a) THEN a[j] ELSE b[j - Len(a)]
    BY ConcatProperties
  <2>2. i \in 1..Len(a) + Len(b) /\ i <= Len(a)
    OBVIOUS
  <2>3. QED
    BY <2>1, <2>2
<1>2. Len(a \o b) = Len(a) + Len(b) /\ Len(a) \in Nat /\ Len(b) \in Nat
  OBVIOUS
<1>3. Len([i \in 1..n |-> i]) = n
  OBVIOUS
<1>4. \A i \in 1..n : [j \in 1..n |-> j][i] = i
  OBVIOUS
<1>5. Len(a) <= n
  BY <1>2, <1>3
<1>6. ASSUME NEW i \in 1..Len(a) PROVE a[i] = i
  <2>1. i \in 1..n
    BY <1>2, <1>5
  <2>2. (a \o b)[i] = i
    BY <1>4, <2>1
  <2>3. QED
    BY <1>1, <2>2
<1>7. QED
  BY <1>6

(* Only return_bar hands out a bar; it is the next one. *)
LEMMA ReadStep == StreamInv /\ [Next]_vars => ReadInOrder'
<1> SUFFICES ASSUME StreamInv, [Next]_vars PROVE ReadInOrder'
  OBVIOUS
<1>1. CASE return_bar
  <2>1. Places
    BY DEF StreamInv, Places
  <2>2. held # NoBar /\ got' = Append(got, held) /\ reader = "return"
    BY <1>1, <2>1 DEF return_bar, Places, ReaderHolds
  <2>3. Bar(held) = <<held>>
    BY <2>2 DEF Bar
  <2>4. /\ got \in Seq(Numbers) /\ data \in Seq(Numbers) /\ Waiting \in Seq(Numbers)
        /\ Bars(inbox) \in Seq(Numbers)
    BY <2>1, PlacesHoldBars
  <2>5. held \in Numbers /\ sent \in Nat
    BY <2>1, <2>2, BarsAssumption DEF Places, TypeOK, Numbers, NoBar
  <2>6. got \o <<held>> \o data \o Waiting \o Bars(inbox) = [i \in 1..sent |-> i]
    BY <2>2, <2>3 DEF StreamInv, NoBarLost, Stream
  <2> DEFINE p == got \o <<held>>
             r == data \o Waiting \o Bars(inbox)
  <2>7. p \in Seq(Numbers) /\ got' = p
    BY <2>2, <2>4, <2>5
  <2>8. r \in Seq(Numbers) /\ data \o Waiting \in Seq(Numbers)
    BY <2>4
  <2>9. p \o r = [i \in 1..sent |-> i]
    <3>1. \A a, b, c \in Seq(Numbers) : (a \o b) \o c = a \o (b \o c)
      OBVIOUS
    <3> HIDE DEF p
    <3>2. p \o data \o Waiting = p \o (data \o Waiting)
      BY <2>4, <2>7, <3>1
    <3>3. p \o (data \o Waiting) \o Bars(inbox) = p \o (data \o Waiting \o Bars(inbox))
      BY <2>4, <2>7, <2>8, <3>1
    <3>4. p \o data \o Waiting \o Bars(inbox) = [i \in 1..sent |-> i]
      BY <2>6 DEF p
    <3>5. QED
      BY <3>2, <3>3, <3>4
  <2> HIDE DEF p, r
  <2>10. \A i \in 1..Len(p) : p[i] = i
    BY <2>5, <2>7, <2>8, <2>9, RunPrefix
  <2>11. QED
    BY <2>7, <2>10 DEF ReadInOrder
<1>2. CASE ~return_bar
  <2>1. got' = got
    BY <1>2 DEF Next, Dispatcher, Program, Reader, vars, gatewayVars, readerVars, send_bar, send_error,
       cancelled, get_message, append_bar, check_status, set_available, handle_error,
       req_real_time_bars, stop_real_time_bars, real_bar_from, look, time_is_up, after, pop,
       pop_empty, drain, look_at_length, mark_empty
  <2>2. QED
    BY <2>1 DEF StreamInv, ReadInOrder
<1>3. QED
  BY <1>1, <1>2

(* StreamInv is inductive: the hand-over from dispatcher to reader through *)
(* req_data and req_info, unlocked as it is, neither loses nor reorders a  *)
(* bar, what is read is always the first bars sent, and a bar of a stream  *)
(* that goes on never ends the dispatcher (real_bar_from against dispatch, *)
(* for every number of bars, with and without stop and error).             *)
THEOREM StreamSafety == Spec => []StreamInv
<1>1. StreamInv /\ [Next]_vars => StreamInv'
  <2> SUFFICES ASSUME StreamInv, [Next]_vars PROVE StreamInv'
    OBVIOUS
  <2>1. Places'
    BY PlacesStep DEF StreamInv, Places
  <2>2. NoBarLost'
    BY StreamStep DEF NoBarLost, Counted
  <2>3. QED
    BY <2>1, <2>2, ReadStep DEF StreamInv, Places
<1>2. QED
  BY <1>1, StreamInit, PTL DEF Spec

(* What was read stays read, and each step reads at most the next bar: no  *)
(* bar is handed out twice, also in a stream that fails.                   *)
OneBarAtATime == [][got' = got \/ got' = Append(got, Len(got) + 1)]_vars
THEOREM StreamReadsOnce == Spec => OneBarAtATime
<1>1. StreamInv /\ ReadInOrder' /\ [Next]_vars => [got' = got \/ got' = Append(got, Len(got) + 1)]_vars
  <2> SUFFICES ASSUME StreamInv, ReadInOrder', [Next]_vars
               PROVE  got' = got \/ got' = Append(got, Len(got) + 1)
    OBVIOUS
  <2>1. CASE return_bar
    <3>1. got' = Append(got, held) /\ got \in Seq(Numbers) /\ held \in 0..MaxBars
      BY <2>1 DEF return_bar, StreamInv, TypeOK, Numbers
    <3>2. Len(got') = Len(got) + 1 /\ got'[Len(got) + 1] = held /\ Len(got) \in Nat
      BY <3>1, AppendProperties
    <3>3. got'[Len(got) + 1] = Len(got) + 1
      BY <3>2 DEF ReadInOrder
    <3>4. QED
      BY <3>1, <3>2, <3>3
  <2>2. CASE ~return_bar
    BY <2>2 DEF Next, Dispatcher, Program, Reader, vars, gatewayVars, readerVars, send_bar, send_error,
       cancelled, get_message, append_bar, check_status, set_available, handle_error,
       req_real_time_bars, stop_real_time_bars, real_bar_from, look, time_is_up, after, pop,
       pop_empty, drain, look_at_length, mark_empty
  <2>3. QED
    BY <2>1, <2>2
<1>2. StreamInv => ReadInOrder
  BY DEF StreamInv
<1>3. QED
  BY <1>1, <1>2, StreamSafety, PTL DEF Spec, OneBarAtATime
=============================================================================
