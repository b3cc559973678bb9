-------------------------- MODULE CorseTraderProofs --------------------------
(***************************************************************************)
(* Whatever may still trade at the gateway is the order the trader follows *)
(* or one it asked to cancel, and a trader stops with nothing left of its  *)
(* last order.                                                             *)
(***************************************************************************)
EXTENDS CorseTrader, TLAPS

Reports == {"none", "sent", "Submitted", "Filled", "Cancelled"}

CorseTypes ==
  /\ TypeOK /\ sent \in 0..MaxOrders
  /\ orders \in [Ids -> Reports] /\ order_status \in [Ids -> Reports]
  /\ nights \in Nat /\ (nights = 0 => connected)

(* What the table of a connected trader says of an order is true.          *)
TableFits ==
  /\ exit_reports \subseteq exited /\ \A i \in exited : orders[i] = "Filled"
  /\ connected => \A i \in Ids : order_status[i] \in {"none", orders[i]}

(* The trader's order is the last one sent; the orders before it can only  *)
(* trade if they were removed, and so can the last one of an EMPTY trader, *)
(* or of one that was told to monitor while it had no handle.  (None,)     *)
(* stands for the last order, removed at the end of a day.                 *)
Followed ==
  /\ \A i \in Ids : i < sent /\ Live(i) => i \in cancels
  /\ enter_id \in Ids => enter_id = sent
  /\ enter_id = None /\ sent \in Ids => orders[sent] = "Cancelled"
  /\ enter_id = Tuple => sent \in Ids /\ sent \in cancels
  /\ (status = "EMPTY" \/ (~connected /\ status = "MONITORING")) /\ enter_id \in Ids => enter_id \in cancels

IInv == CorseTypes /\ TableFits /\ Followed /\ StoppedIsFlat

(* The last order cannot trade any more.                                   *)
Over == sent \in Ids => ~Live(sent)

LEMMA Numbers == MaxOrders \in Nat /\ Tuple \notin Ids /\ None \notin Ids /\ Tuple # None
BY CorseAssumption DEF CorseAssumption, Tuple, None, Ids

LEMMA OnlySentLive ==
  ASSUME CorseTypes
  PROVE  \A i \in Ids : Live(i) => i < sent \/ i = sent
<1> SUFFICES ASSUME NEW i \in Ids, Live(i), i # sent PROVE i < sent
  OBVIOUS
<1>1. i \in Nat /\ sent \in Nat
  BY Numbers DEF Ids, CorseTypes
<1>2. ~(i > sent)
  BY DEF CorseTypes, TypeOK, Live, Open
<1> QED BY <1>1, <1>2

LEMMA InvImplies == IInv => CorseInv /\ StoppedIsFlat
<1> SUFFICES ASSUME IInv, NEW i \in Ids, Live(i), i # enter_id, i \notin cancels PROVE FALSE
  BY DEF IInv, CorseInv, CorseTypes, OrdersAreKnown
<1>1. i = sent
  BY OnlySentLive DEF IInv, Followed
<1>2. enter_id \in Ids \union {None, Tuple} /\ (orders[sent] = "Cancelled" => ~Live(sent))
  BY DEF IInv, CorseTypes, TypeOK, Live, Open
<1> QED BY <1>1, <1>2 DEF IInv, Followed

LEMMA StartsFlat == Init => IInv
<1> SUFFICES ASSUME Init PROVE IInv
  OBVIOUS
<1>1. CorseTypes
  BY Numbers DEF Init, CorseTypes, TypeOK, Reports, Statuses, Bars, Ids
<1>2. TableFits /\ Followed /\ StoppedIsFlat
  BY Numbers DEF Init, TableFits, Followed, StoppedIsFlat, Ids
<1> QED BY <1>1, <1>2 DEF IInv

-----------------------------------------------------------------------------
(* The trader's steps.                                                     *)

(* What a connected trader is told.                                        *)
LEMMA Told ==
  ASSUME IInv, connected
  PROVE  /\ OrderStatus = "Cancelled" => enter_id \in Ids /\ orders[enter_id] = "Cancelled"
         /\ OrderStatus = "completed" => enter_id \in Ids /\ enter_id \in exited
BY DEF OrderStatus, enter_status, exit_status, IInv, CorseTypes, TableFits, TypeOK, Reports

(* What it concludes.                                                      *)
LEMMA Concludes ==
  ASSUME IInv
  PROVE  /\ Status \in Statuses
         /\ Status = "MONITORING" => status = "MONITORING"
         /\ Status = "EMPTY" => status = "EMPTY"
         /\ ~connected => Status = status
         /\ Status = "STOPPED" /\ connected => status = "STOPPED" \/ Over
<1>1. status \in Statuses /\ (enter_id \in Ids => enter_id = sent)
  BY DEF IInv, CorseTypes, TypeOK, Followed
<1>2. /\ Status \in Statuses /\ (Status = "MONITORING" => status = "MONITORING")
      /\ (Status = "EMPTY" => status = "EMPTY") /\ (~connected => Status = status)
  BY <1>1 DEF Status, standard, Statuses
<1>3. ASSUME Status = "STOPPED", connected, status # "STOPPED" PROVE Over
  <2>1. OrderStatus \in {"completed", "Cancelled"}
    BY <1>3 DEF Status, standard
  <2>2. \A i \in exited : orders[i] = "Filled"
    BY DEF IInv, TableFits
  <2> QED BY <1>1, <1>3, <2>1, <2>2, Told DEF Over, Live, Open
<1> QED BY <1>2, <1>3

(* A step that sends no order.                                             *)
Calm ==
  /\ UNCHANGED <<orders, exited, order_status, exit_reports, exits_listed, sent>>
  /\ cancels \subseteq cancels' /\ cancels' \subseteq Ids
  /\ enter_id' = enter_id \/ (enter_id' = None /\ enter_id \in Ids /\ orders[enter_id] = "Cancelled")
  /\ status' \in Statuses
  /\ status' = "EMPTY" /\ enter_id' \in Ids => status = "EMPTY" \/ enter_id' \in cancels'
  /\ ~connected /\ status' = "MONITORING" => status \in {"EMPTY", "MONITORING"}
  /\ status' = "STOPPED" /\ connected => status = "STOPPED" \/ Over

(* A step that does.                                                       *)
Sends ==
  /\ connected /\ (enter_id = None \/ status = "EMPTY")
  /\ sent < MaxOrders /\ sent' = sent + 1 /\ enter_id' = sent'
  /\ orders' = [orders EXCEPT ![sent'] = "sent"]
  /\ UNCHANGED <<exited, cancels, order_status, exit_reports, exits_listed>>
  /\ status' = "MONITORING"

LEMMA Forgotten ==
  ASSUME IInv
  PROVE  enter_id = None => Over
BY DEF IInv, Followed, Over, Live, Open, CorseTypes, TypeOK, TableFits

LEMMA CancelIsCalm ==
  ASSUME IInv, cancel_order
  PROVE  /\ UNCHANGED <<orders, exited, order_status, exit_reports, exits_listed, sent>>
         /\ cancels \subseteq cancels' /\ cancels' \subseteq Ids
BY DEF cancel_order, IInv, CorseTypes, TypeOK

LEMMA RemoveIsCalm ==
  ASSUME IInv, NEW s \in Statuses \ {"MONITORING"}, remove_order(s),
         s = "STOPPED" => enter_id = None
  PROVE  Calm
<1>1. CASE Raise
  BY <1>1 DEF Raise, Calm, IInv, CorseTypes, TypeOK, gateway
<1>2. CASE Done /\ status' = s /\ cancel_order /\ UNCHANGED enter_id
  <2>1. Status = "MONITORING"
    BY <1>2 DEF remove_order, Raise, Done
  <2>2. enter_id \in Ids => enter_id \in cancels'
    <3>1. CASE connected
      BY <1>2, <3>1 DEF cancel_order, mode
    <3>2. CASE ~connected
      BY <2>1, <3>2, Concludes, CancelIsCalm, <1>2 DEF IInv, Followed
    <3> QED BY <3>1, <3>2
  <2> QED BY <1>2, <2>2, CancelIsCalm, Forgotten DEF Calm
<1> QED BY <1>1, <1>2 DEF remove_order

LEMMA SendMoves ==
  ASSUME IInv, send_order
  PROVE  Calm \/ Sends
<1>1. CASE Raise
  BY <1>1 DEF Raise, Calm, IInv, CorseTypes, TypeOK, gateway
<1>2. CASE Done /\ status' = "MONITORING" /\ Place
  <2>1. Status \in Statuses /\ Status \notin {"STOPPED", "STOPPING", "IN_TRADE"}
        /\ ~(Status = "MONITORING" /\ enter_id # None)
    BY <1>2, Concludes DEF send_order, Raise, Done
  <2>2. (status = "EMPTY" \/ enter_id = None) /\ status \in {"EMPTY", "MONITORING"}
    BY <2>1, Concludes DEF Statuses
  <2>3. CASE mode = "REAL_ENTER_OK"
    BY <1>2, <2>2, <2>3 DEF Place, Sends, mode
  <2>4. CASE mode # "REAL_ENTER_OK"
    BY <1>2, <2>2, <2>4 DEF Place, Calm, gateway, IInv, CorseTypes, TypeOK, Statuses
  <2> QED BY <2>3, <2>4
<1> QED BY <1>1, <1>2 DEF send_order

LEMMA KeepIsCalm ==
  ASSUME IInv, Keep(Status)
  PROVE  Calm
BY Concludes DEF Keep, Calm, gateway, IInv, CorseTypes, TypeOK

LEMMA EmptyIsCalm ==
  ASSUME IInv, connected, Status = "EMPTY", update_empty
  PROVE  Calm
<1>1. enter_id' = Emptied /\ UNCHANGED gateway /\ pc' = "idle"
  BY DEF update_empty, Done
<1>2. Emptied = enter_id \/ (Emptied = None /\ enter_id \in Ids /\ orders[enter_id] = "Cancelled")
  BY Told DEF Emptied
<1>3. Emptied = None => Over
  BY <1>2, Forgotten DEF IInv, Followed, Over, Live, Open
<1>4. /\ status' \in {"EMPTY", "STOPPED", "STOPPING"}
      /\ status' = "STOPPED" => Emptied = None
  BY DEF update_empty
<1> QED BY <1>1, <1>2, <1>3, <1>4, Concludes DEF Calm, gateway, Statuses, IInv, CorseTypes, TypeOK

LEMMA StandardMoves ==
  ASSUME IInv, update_standard
  PROVE  Calm \/ Sends
<1>0. connected
  BY DEF update_standard, mode
<1>1. CASE Status = "EMPTY" /\ update_empty
  BY <1>0, <1>1, EmptyIsCalm
<1>2. CASE Done /\ Keep(Status)
  BY <1>2, KeepIsCalm DEF Done
<1>3. CASE remove_order(After)
  <2>1. After \in Statuses \ {"MONITORING"} /\ (After = "STOPPED" => enter_id = None)
    BY DEF After, Statuses
  <2> QED BY <1>3, <2>1, RemoveIsCalm
<1>4. CASE send_order
  BY <1>4, SendMoves
<1>5. CASE send_new_a_value
  <2>1. CASE Raise
    BY <2>1 DEF Raise, Calm, IInv, CorseTypes, TypeOK, gateway
  <2>2. CASE Done /\ Keep(Status)
    BY <2>2, KeepIsCalm DEF Done
  <2> QED BY <1>5, <2>1, <2>2 DEF send_new_a_value
<1> QED BY <1>1, <1>2, <1>3, <1>4, <1>5 DEF update_standard

LEMMA EopIsCalm ==
  ASSUME IInv, update_eop
  PROVE  Calm
<1>0. connected
  BY DEF update_eop, mode
<1>1. Emptied = enter_id \/ (Emptied = None /\ enter_id \in Ids /\ orders[enter_id] = "Cancelled")
  BY <1>0, Told DEF Emptied
<1>2. Emptied = None => Over
  BY <1>1, Forgotten DEF IInv, Followed, Over, Live, Open
<1>3. After \in {"STOPPING", "STOPPED"} /\ (After = "STOPPED" => Over)
  BY Forgotten DEF After
<1>4. CASE Status = "EMPTY" /\ update_empty
  BY <1>0, <1>4, EmptyIsCalm
<1>5. CASE Done /\ Keep(Status)
  BY <1>5, KeepIsCalm DEF Done
<1>6. CASE pc' \in {"idle", "raised"} /\ UNCHANGED <<status, enter_id, gateway>>
  BY <1>6 DEF Calm, IInv, CorseTypes, TypeOK, gateway
<1>7. CASE pc' \in {"idle", "raised"} /\ status' = After /\ cancel_order /\ enter_id' = Emptied
  BY <1>1, <1>3, <1>7, CancelIsCalm DEF Calm, Statuses
<1>8. CASE pc' = "idle" /\ status' = Status /\ enter_id' = Emptied /\ UNCHANGED gateway
  BY <1>1, <1>8, Concludes DEF Calm, gateway, IInv, CorseTypes, TypeOK
<1>9. CASE /\ pc' = "idle" /\ enter_id' = Emptied
           /\ status' = IF Emptied # None THEN "STOPPING" ELSE "STOPPED"
           /\ cancel_order \/ UNCHANGED gateway
  <2>1. /\ UNCHANGED <<orders, exited, order_status, exit_reports, exits_listed, sent>>
        /\ cancels \subseteq cancels' /\ cancels' \subseteq Ids
    BY <1>9, CancelIsCalm DEF gateway, IInv, CorseTypes, TypeOK
  <2> QED BY <1>1, <1>2, <1>9, <2>1 DEF Calm, Statuses
<1> QED BY <1>4, <1>5, <1>6, <1>7, <1>8, <1>9 DEF update_eop, Done, Raise

LEMMA SimulatorIsCalm ==
  ASSUME IInv, update_simulator
  PROVE  Calm
<1>1. ~connected /\ pc' = "idle" /\ UNCHANGED <<enter_id, gateway>>
  BY DEF update_simulator, mode, Done, Keep
<1>2. status' \in {status, "STOPPED", "IN_TRADE"}
  BY DEF update_simulator, Keep
<1>3. status \in Statuses /\ cancels \subseteq Ids
  BY DEF IInv, CorseTypes, TypeOK
<1> QED BY <1>1, <1>2, <1>3 DEF Calm, gateway, Statuses

TraderStep == Trading \/ ask_send \/ ask_change \/ ask_remove \/ run_call
LEMMA TraderMoves ==
  ASSUME IInv, TraderStep
  PROVE  /\ Calm \/ Sends
         /\ UNCHANGED <<connected, permitted, nights>>
         /\ pc' \in {"idle", "update", "send_order", "send_new_a_value", "remove_order", "raised"}
         /\ bar' \in Bars
<1>1. ASSUME NEW m, NEW S, Call(m, S) PROVE Calm /\ pc' = m /\ UNCHANGED <<connected, permitted, nights>>
  <2>1. Keep(Status)
    BY <1>1 DEF Call, Keep
  <2> QED BY <1>1, <2>1, KeepIsCalm DEF Call
<1>2. bar \in Bars
  BY DEF IInv, CorseTypes, TypeOK
<1>3. CASE new_bar
  <2>1. Call("update", Statuses) /\ bar' \in Bars
    BY <1>3 DEF new_bar
  <2> QED BY <1>1, <2>1
<1>4. CASE ask_send
  <2>1. Call("send_order", {"EMPTY"}) /\ UNCHANGED bar
    BY <1>4 DEF ask_send
  <2> QED BY <1>1, <1>2, <2>1
<1>5. CASE ask_change
  <2>1. Call("send_new_a_value", {"MONITORING"}) /\ UNCHANGED bar
    BY <1>5 DEF ask_change
  <2> QED BY <1>1, <1>2, <2>1
<1>6. CASE ask_remove
  <2>1. Call("remove_order", {"MONITORING"}) /\ UNCHANGED bar
    BY <1>6 DEF ask_remove
  <2> QED BY <1>1, <1>2, <2>1
<1>7. CASE Update
  <2>1. UNCHANGED <<connected, permitted, nights, bar>>
    BY <1>7 DEF Update
  <2>2. Calm \/ Sends
    BY <1>7, StandardMoves, EopIsCalm, SimulatorIsCalm DEF Update
  <2>3. pc' \in {"idle", "raised"}
    BY <1>7 DEF Update, update_standard, update_eop, update_simulator, update_empty, remove_order, send_order,
                send_new_a_value, Done, Raise
  <2> QED BY <1>2, <2>1, <2>2, <2>3
<1>8. CASE run_call
  <2>1. UNCHANGED <<connected, permitted, nights, bar>>
    BY <1>8 DEF run_call
  <2>2. Calm \/ Sends
    <3>1. CASE pc = "send_order" /\ send_order
      BY <3>1, SendMoves
    <3>2. CASE send_new_a_value
      <4>1. CASE Raise
        BY <4>1 DEF Raise, Calm, IInv, CorseTypes, TypeOK, gateway
      <4>2. CASE Done /\ Keep(Status)
        BY <4>2, KeepIsCalm DEF Done
      <4> QED BY <3>2, <4>1, <4>2 DEF send_new_a_value
    <3>3. CASE remove_order("EMPTY")
      <4>1. "EMPTY" \in Statuses \ {"MONITORING"} /\ "EMPTY" # "STOPPED"
        BY DEF Statuses
      <4> QED BY <3>3, <4>1, RemoveIsCalm
    <3> QED BY <1>8, <3>1, <3>2, <3>3 DEF run_call
  <2>3. pc' \in {"idle", "raised"}
    BY <1>8 DEF run_call, remove_order, send_order, send_new_a_value, Done, Raise
  <2> QED BY <1>2, <2>1, <2>2, <2>3
<1>9. CASE status_raises
  <2>1. Raise /\ UNCHANGED <<connected, permitted, nights, bar>>
    BY <1>9 DEF status_raises
  <2>2. Calm
    BY <2>1 DEF Raise, Calm, IInv, CorseTypes, TypeOK, gateway
  <2> QED BY <1>2, <2>1, <2>2 DEF Raise
<1> QED BY <1>3, <1>4, <1>5, <1>6, <1>7, <1>8, <1>9 DEF TraderStep, Trading

-----------------------------------------------------------------------------
(* Every step keeps the invariant.                                         *)

LEMMA CalmKeeps ==
  ASSUME IInv, Calm, UNCHANGED <<connected, permitted>>, nights' = nights, bar' \in Bars,
         pc' \in {"idle", "update", "send_order", "send_new_a_value", "remove_order", "raised"}
  PROVE  IInv'
<1>0. CorseTypes /\ TableFits /\ Followed /\ StoppedIsFlat
  BY DEF IInv
<1>1. CorseTypes'
  BY <1>0 DEF Calm, CorseTypes, TypeOK
<1>2. TableFits'
  BY <1>0 DEF Calm, TableFits
<1>3. Followed'
  <2>1. Tuple \notin Ids /\ None \notin Ids /\ Tuple # None
    BY Numbers
  <2>2. \A i \in Ids : Live(i)' = Live(i)
    BY DEF Calm, Live
  <2> QED BY <1>0, <2>1, <2>2 DEF Calm, Followed
<1>4. StoppedIsFlat'
  <2> SUFFICES ASSUME status' = "STOPPED", nights = 0, NEW i \in Ids, Live(i)
               PROVE  i < sent /\ i \in cancels
    BY DEF StoppedIsFlat, Live, Calm
  <2>1. connected
    BY <1>0 DEF CorseTypes
  <2>2. status = "STOPPED" \/ Over
    BY <2>1 DEF Calm
  <2>3. i < sent \/ i = sent
    BY <1>0, OnlySentLive
  <2> QED BY <1>0, <2>2, <2>3 DEF Over, StoppedIsFlat, Followed
<1> QED BY <1>1, <1>2, <1>3, <1>4 DEF IInv

LEMMA SendKeeps ==
  ASSUME IInv, Sends, UNCHANGED <<connected, permitted>>, nights' = nights, bar' \in Bars,
         pc' \in {"idle", "update", "send_order", "send_new_a_value", "remove_order", "raised"}
  PROVE  IInv'
<1>0. CorseTypes /\ TableFits /\ Followed
  BY DEF IInv
<1> DEFINE n == sent + 1
<1>1. /\ n \in Ids /\ n \in Nat /\ sent \in Nat /\ sent' = n /\ enter_id' = n
      /\ orders' = [orders EXCEPT ![n] = "sent"] /\ orders \in [Ids -> Reports]
      /\ \A i \in Ids : i \in Nat /\ (i < n => i # n /\ (i < sent \/ i = sent)) /\ (i > n => i > sent)
      /\ status' = "MONITORING" /\ n \in 0..MaxOrders
  BY <1>0, Numbers DEF Sends, CorseTypes, Ids
<1>2. orders[n] = "none"
  BY <1>0, <1>1 DEF CorseTypes, TypeOK
<1> HIDE DEF n
<1>3. /\ orders'[n] = "sent"
      /\ \A i \in Ids : i # n => orders'[i] = orders[i]
      /\ orders' \in [Ids -> Reports]
  BY <1>1 DEF Reports
<1>4. CorseTypes'
  <2>1. \A i \in Ids : (orders'[i] = "none") = (i > n)
    <3> SUFFICES ASSUME NEW i \in Ids PROVE (orders'[i] = "none") = (i > n)
      OBVIOUS
    <3>1. CASE i = n
      BY <1>1, <1>3, <3>1
    <3>2. CASE i # n
      <4>1. (orders[i] = "none") = (i > sent)
        BY <1>0 DEF CorseTypes, TypeOK
      <4>2. (i > sent) = (i > n)
        BY <1>1, <3>2 DEF n
      <4> QED BY <1>3, <3>2, <4>1, <4>2
    <3> QED BY <3>1, <3>2
  <2>2. status' \in Statuses
    BY <1>1 DEF Statuses
  <2> QED BY <1>0, <1>1, <1>3, <2>1, <2>2 DEF Sends, CorseTypes, TypeOK
<1>5. TableFits'
  <2>1. n \notin exited
    BY <1>0, <1>2 DEF TableFits
  <2>2. exited \subseteq Ids
    BY <1>0 DEF CorseTypes, TypeOK
  <2>3. connected => order_status[n] = "none"
    BY <1>0, <1>1, <1>2 DEF TableFits
  <2> QED BY <1>0, <1>3, <2>1, <2>2, <2>3 DEF Sends, TableFits
<1>6. Followed'
  <2>1. connected /\ (enter_id = None \/ status = "EMPTY")
    BY DEF Sends
  <2>2. sent \in Ids /\ Live(sent) => sent \in cancels
    BY <1>0, <2>1, Numbers DEF Followed, CorseTypes, TypeOK, Live, Open
  <2>3. \A i \in Ids : i < n /\ Live(i)' => i \in cancels'
    BY <1>0, <1>1, <1>3, <2>2 DEF Followed, Sends, Live
  <2>4. n # None /\ n # Tuple
    BY <1>1, Numbers DEF Ids
  <2> QED BY <1>1, <2>1, <2>3, <2>4 DEF Followed
<1>7. StoppedIsFlat'
  BY <1>1 DEF StoppedIsFlat
<1> QED BY <1>4, <1>5, <1>6, <1>7 DEF IInv

(* The end of the day: the id becomes the tuple, the order is asked to be  *)
(* cancelled.                                                              *)
LEMMA NightKeeps ==
  ASSUME IInv, remove_TWS_h PROVE IInv'
<1>0. CorseTypes /\ TableFits /\ Followed
  BY DEF IInv
<1>1. /\ connected /\ connected' = FALSE /\ nights' = nights + 1 /\ nights \in Nat
      /\ UNCHANGED <<permitted, pc, local, bar>> /\ pc = "idle"
  BY <1>0 DEF remove_TWS_h, method, CorseTypes
<1>2. /\ UNCHANGED <<orders, exited, order_status, exit_reports, exits_listed, sent>>
      /\ cancels \subseteq cancels' /\ cancels' \subseteq Ids
      /\ status' \in Statuses /\ enter_id' \in Ids \union {None, Tuple}
  <2>1. CASE Keep(Status)
    BY <1>0, <2>1, Concludes DEF Keep, gateway, CorseTypes, TypeOK
  <2>2. CASE enter_id' = Tuple /\ status' = "EMPTY" /\ cancel_order
    BY <2>2, CancelIsCalm DEF Statuses
  <2> QED BY <2>1, <2>2 DEF remove_TWS_h
<1>3. Followed'
  <2>1. Tuple \notin Ids /\ None \notin Ids /\ Tuple # None
    BY Numbers
  <2>2. CASE Status = "MONITORING" /\ enter_id # None
    <3>1. enter_id' = Tuple /\ status' = "EMPTY" /\ cancel_order
      BY <2>2 DEF remove_TWS_h
    <3>2. enter_id = sent \/ enter_id = Tuple
      BY <1>0, <2>2 DEF Followed, CorseTypes, TypeOK
    <3>3. sent \in Ids /\ sent \in cancels'
      <4>1. CASE enter_id = Tuple
        BY <1>0, <1>2, <4>1 DEF Followed
      <4>2. CASE enter_id \in Ids
        BY <1>0, <1>1, <3>1, <4>2 DEF cancel_order, mode, Followed
      <4> QED BY <1>0, <2>2, <4>1, <4>2 DEF CorseTypes, TypeOK
    <3>4. \A i \in Ids : Live(i)' = Live(i)
      BY <1>2 DEF Live
    <3> QED BY <1>0, <1>1, <1>2, <2>1, <3>1, <3>3, <3>4 DEF Followed
  <2>3. CASE ~(Status = "MONITORING" /\ enter_id # None)
    <3>1. Keep(Status)
      BY <2>3 DEF remove_TWS_h
    <3>2. /\ status' = Status /\ enter_id' = enter_id
          /\ status' = "EMPTY" => status = "EMPTY"
          /\ status' = "MONITORING" => enter_id' = None
      BY <2>3, <3>1, Concludes DEF Keep
    <3>3. \A i \in Ids : Live(i)' = Live(i)
      BY <1>2 DEF Live
    <3> QED BY <1>0, <1>1, <1>2, <2>1, <3>2, <3>3 DEF Followed
  <2> QED BY <2>2, <2>3
<1>4. CorseTypes'
  <2>1. nights' \in Nat /\ nights' # 0
    BY <1>1
  <2> QED BY <1>0, <1>1, <1>2, <2>1 DEF CorseTypes, TypeOK
<1>5. TableFits'
  BY <1>0, <1>1, <1>2 DEF TableFits
<1>6. StoppedIsFlat'
  BY <1>1 DEF StoppedIsFlat
<1> QED BY <1>3, <1>4, <1>5, <1>6 DEF IInv

LEMMA MorningKeeps ==
  ASSUME IInv, set_TWS_h PROVE IInv'
<1>0. CorseTypes /\ TableFits /\ Followed
  BY DEF IInv
<1>1. /\ ~connected /\ connected' = TRUE /\ permitted' = TRUE /\ nights # 0
      /\ order_status' = [i \in Ids |-> "none"] /\ exit_reports' = {} /\ exits_listed' = {}
      /\ UNCHANGED <<status, enter_id, pc, bar, orders, exited, cancels, sent, nights>>
  BY <1>0 DEF set_TWS_h, method, CorseTypes
<1>2. CorseTypes'
  BY <1>0, <1>1 DEF CorseTypes, TypeOK, Reports
<1>3. TableFits' /\ Followed' /\ StoppedIsFlat'
  BY <1>0, <1>1 DEF TableFits, Followed, StoppedIsFlat, Live
<1> QED BY <1>2, <1>3 DEF IInv

(* The gateway deals with an order that may still fill.                    *)
LEMMA ReportKeeps ==
  ASSUME IInv, NEW i \in Ids, NEW s \in {"Submitted", "Filled", "Cancelled"}, orders[i] \in Open, Report(i, s)
  PROVE  IInv'
<1>0. CorseTypes /\ TableFits /\ Followed /\ StoppedIsFlat
  BY DEF IInv
<1>2. /\ orders' = [orders EXCEPT ![i] = s]
      /\ order_status' = IF connected THEN [order_status EXCEPT ![i] = s] ELSE order_status
      /\ UNCHANGED <<status, enter_id, connected, permitted, pc, bar, exited, cancels, exit_reports, exits_listed, sent, nights>>
  BY DEF Report, trader, method
<1>3. orders \in [Ids -> Reports] /\ order_status \in [Ids -> Reports] /\ s \in Reports
  BY <1>0 DEF CorseTypes, Reports
<1>4. /\ orders' \in [Ids -> Reports] /\ order_status' \in [Ids -> Reports]
      /\ orders'[i] = s /\ \A j \in Ids : j # i => orders'[j] = orders[j]
  BY <1>2, <1>3
<1>5. orders[i] # "none" /\ s # "none"
  BY DEF Open
<1>6. CorseTypes'
  <2>1. \A j \in Ids : (orders'[j] = "none") = (j > sent)
    BY <1>0, <1>4, <1>5 DEF CorseTypes, TypeOK
  <2> QED BY <1>0, <1>2, <1>4, <2>1 DEF CorseTypes, TypeOK
<1>7. TableFits'
  <2>1. i \notin exited /\ exited \subseteq Ids
    BY <1>0 DEF TableFits, Open, CorseTypes, TypeOK
  <2>2. connected => \A j \in Ids : order_status'[j] \in {"none", orders'[j]}
    BY <1>0, <1>2, <1>3, <1>4 DEF TableFits
  <2> QED BY <1>0, <1>2, <1>4, <2>1, <2>2 DEF TableFits
<1>8. Followed'
  <2>1. Live(i) /\ \A j \in Ids : Live(j)' => Live(j)
    BY <1>2, <1>4 DEF Live
  <2>2. enter_id = None /\ sent \in Ids => i # sent
    BY <1>0 DEF Followed, Open
  <2> QED BY <1>0, <1>2, <1>4, <2>1, <2>2 DEF Followed
<1>9. StoppedIsFlat'
  <2>1. Live(i) /\ \A j \in Ids : Live(j)' => Live(j)
    BY <1>2, <1>4 DEF Live
  <2> QED BY <1>0, <1>2, <2>1 DEF StoppedIsFlat
<1> QED BY <1>6, <1>7, <1>8, <1>9 DEF IInv

LEMMA GatewayKeeps ==
  ASSUME IInv, Gateway PROVE IInv'
<1>1. CASE confirm \/ fill \/ cancelled
  BY <1>1, ReportKeeps DEF confirm, fill, cancelled, Open
<1>2. CASE exit_filled
  <2>1. PICK i \in Ids \ exited :
          /\ orders[i] = "Filled" /\ exited' = exited \union {i}
          /\ exit_reports' = IF connected THEN exit_reports \union {i} ELSE exit_reports
    BY <1>2 DEF exit_filled
  <2>2. UNCHANGED <<status, enter_id, connected, permitted, pc, bar, orders, cancels, order_status, exits_listed, sent, nights>>
    BY <1>2 DEF exit_filled, trader, method
  <2>3. CorseTypes /\ TableFits /\ Followed /\ StoppedIsFlat
    BY DEF IInv
  <2>4. CorseTypes'
    BY <2>1, <2>2, <2>3 DEF CorseTypes, TypeOK
  <2>5. TableFits' /\ Followed'
    BY <2>1, <2>2, <2>3 DEF TableFits, Followed, Live
  <2>6. StoppedIsFlat'
    BY <2>1, <2>2, <2>3 DEF StoppedIsFlat, Live
  <2> QED BY <2>4, <2>5, <2>6 DEF IInv
<1>3. CASE exits_reported
  <2>1. /\ UNCHANGED <<trader, permitted, method, orders, exited, cancels, order_status, exit_reports, sent, nights>>
        /\ exits_listed \subseteq Ids => exits_listed' \subseteq Ids
    BY <1>3 DEF exits_reported
  <2> QED BY <2>1 DEF trader, method, IInv, CorseTypes, TypeOK, TableFits, Followed, StoppedIsFlat, Live
<1> QED BY <1>1, <1>2, <1>3 DEF Gateway

LEMMA CorseStep ==
  ASSUME IInv, [Next]_vars PROVE IInv'
<1>1. CASE TraderStep
  BY <1>1, TraderMoves, CalmKeeps, SendKeeps
<1>2. CASE until
  BY <1>2 DEF until, trader, method, gateway, IInv, CorseTypes, TypeOK, TableFits, Followed, StoppedIsFlat, Live
<1>3. CASE UNCHANGED vars
  BY <1>3 DEF vars, trader, method, gateway, IInv, CorseTypes, TypeOK, TableFits, Followed, StoppedIsFlat, Live
<1> QED BY <1>1, <1>2, <1>3, NightKeeps, MorningKeeps, GatewayKeeps DEF Next, TraderStep

(* An order that may still fill and a position that is still open are the  *)
(* trader's own, or it has asked to cancel the order, whatever the runner  *)
(* asks for and whenever the gateway acts (TWSTrader_corseabc.py).         *)
THEOREM CorseSafety == Spec => []CorseInv
<1>1. IInv /\ [Next]_vars => IInv'
  BY CorseStep
<1>2. IInv => CorseInv
  BY InvImplies
<1> QED BY StartsFlat, <1>1, <1>2, PTL DEF Spec

(* It stops with nothing left of its last order, as long as it keeps the   *)
(* handle; what else may trade is an order it removed and replaced.        *)
THEOREM CorseStopsFlat == Spec => []StoppedIsFlat
<1>1. IInv /\ [Next]_vars => IInv'
  BY CorseStep
<1>2. IInv => StoppedIsFlat
  BY DEF IInv
<1> QED BY StartsFlat, <1>1, <1>2, PTL DEF Spec
=============================================================================
