----------------------------- MODULE CorseTrader -----------------------------
(***************************************************************************)
(* A trader that follows one bracket order at the gateway                  *)
(* (TWSTrader_corseabc.py), driven bar by bar by a runner                  *)
(* (SimpleCorseRunner.py).  The statuses of the orders are kept by another *)
(* process and may change between any two reads; the property status       *)
(* stores what it concludes from them.  Prices are left out: a bar says    *)
(* whether it is outside b and c, crosses a, or ends a simulated trade.    *)
(***************************************************************************)
EXTENDS Naturals

CONSTANTS
  MaxOrders,  \* bound on the orders placed
  MaxNights,  \* bound on the ends of day
  Gap         \* whether the trader follows an index with a future gap

ASSUME CorseAssumption ==
  MaxOrders \in Nat /\ MaxNights \in Nat /\ Gap \in BOOLEAN

Ids == 1..MaxOrders
None == 0
Tuple == MaxOrders + 1  \* (None,): what remove_TWS_h assigns to enter_id

Bars == [out : BOOLEAN, crossed : BOOLEAN, ended : BOOLEAN]

VARIABLES
  status,     \* __status
  enter_id,   \* None, an order, or the tuple
  connected,  \* TWS_h is set
  permitted,  \* enter_trade_permitted
  pc,         \* "idle", a method that has read the status, or "raised"
  local,      \* the status it has read
  bar,        \* latest_bar
  orders,     \* the entry orders at the gateway
  exited,     \* brackets whose exit has been filled
  cancels,    \* orders asked to be cancelled
  order_status, \* the table of TWS_h: the entry statuses reported to it
  exit_reports,  \* the brackets whose exit was reported to it as filled,
  exits_listed,  \* and those whose exit orders it has all heard of
  sent, nights

trader == <<status, enter_id, connected>>
method == <<pc, local, bar>>
gateway == <<orders, exited, cancels, order_status, exit_reports, exits_listed, sent>>
vars == <<trader, permitted, method, gateway, nights>>

Statuses == {"EMPTY", "MONITORING", "IN_TRADE", "STOPPING", "STOPPED"}
Open == {"sent", "Submitted"}

Init ==
  /\ status = "EMPTY" /\ enter_id = None /\ connected = TRUE /\ permitted = TRUE
  /\ pc = "idle" /\ local = "EMPTY" /\ bar = [out |-> FALSE, crossed |-> FALSE, ended |-> FALSE]
  /\ orders = [i \in Ids |-> "none"] /\ exited = {} /\ cancels = {}
  /\ order_status = [i \in Ids |-> "none"] /\ exit_reports = {}
  /\ exits_listed = {} /\ sent = 0 /\ nights = 0

-----------------------------------------------------------------------------
(* The properties of the trader.                                           *)

enter_status ==
  IF enter_id = None THEN "none"
  ELSE IF enter_id \in Ids /\ order_status[enter_id] # "none" THEN order_status[enter_id]
  ELSE "waiting"

exit_status == IF enter_id \in exit_reports THEN "Filled" ELSE "none"

(* The statuses of the exits are only looked at when the entry has been    *)
(* filled; an exit the table has not heard of is a KeyError.               *)
ExitsUnknown == enter_status = "Filled" /\ enter_id \notin exits_listed

OrderStatus ==
  IF enter_status = "Filled" /\ exit_status = "Filled" THEN "completed" ELSE enter_status

mode == IF ~connected THEN "SIMULATE_TWS"
        ELSE IF permitted THEN "REAL_ENTER_OK" ELSE "REAL_DONT_ENTER"

(* What reading status of a trader whose __status is s stores and returns. *)
standard_NotEmpty(s) ==
  CASE s = "MONITORING" /\ OrderStatus = "Filled" -> "IN_TRADE"
    [] s \in {"MONITORING", "IN_TRADE"} /\ OrderStatus = "completed" -> "STOPPED"
    [] s = "STOPPING" /\ OrderStatus = "Cancelled" -> "STOPPED"
    [] s = "STOPPING" /\ OrderStatus = "Filled" -> "IN_TRADE"
    [] OTHER -> s
standard(s) ==
  CASE s \in {"EMPTY", "MONITORING"} /\ OrderStatus = "Filled" -> "IN_TRADE"
    [] s \in {"EMPTY", "MONITORING", "IN_TRADE"} /\ OrderStatus = "completed" -> "STOPPED"
    [] s = "STOPPING" /\ OrderStatus = "Cancelled" -> "STOPPED"
    [] s = "STOPPING" /\ OrderStatus = "Filled" -> "IN_TRADE"
    [] OTHER -> s
Status == IF connected THEN standard(status) ELSE status

(* Reading it may raise instead, wherever it is read.                      *)
Readable == connected => ~ExitsUnknown

-----------------------------------------------------------------------------
(* The methods, as changes of the trader from the status they read.        *)

Raise == pc' = "raised" /\ UNCHANGED <<status, enter_id, gateway>>
Done == pc' = "idle"
Keep(s) == status' = s /\ UNCHANGED <<enter_id, gateway>>

(* The bracket is placed in the mode in which entering is permitted, else  *)
(* it is only remembered.                                                  *)
Place ==
  IF mode = "REAL_ENTER_OK"
  THEN /\ sent < MaxOrders /\ sent' = sent + 1 /\ enter_id' = sent'
       /\ orders' = [orders EXCEPT ![sent'] = "sent"]
       /\ UNCHANGED <<exited, cancels, order_status, exit_reports, exits_listed>>
  ELSE UNCHANGED <<enter_id, gateway>>

send_order ==
  IF \/ Status \in {"STOPPED", "STOPPING", "IN_TRADE"}
     \/ Status = "MONITORING" /\ enter_id # None
  THEN Raise
  ELSE Done /\ status' = "MONITORING" /\ Place

(* remove_order, which leaves the trader in status s.                      *)
cancel_order_Skip == UNCHANGED <<orders, exited, cancels, order_status, exit_reports, exits_listed, sent>>
cancel_order ==
  /\ cancels' = IF mode # "SIMULATE_TWS" THEN cancels \union ({enter_id} \intersect Ids) ELSE cancels
  /\ UNCHANGED <<orders, exited, order_status, exit_reports, exits_listed, sent>>
remove_order(s) ==
  IF Status # "MONITORING" THEN Raise
  ELSE Done /\ status' = s /\ cancel_order /\ UNCHANGED enter_id

send_new_a_value == IF Status # "MONITORING" THEN Raise ELSE Done /\ Keep(Status)

-----------------------------------------------------------------------------
(* update: the status is read into a local, the rest follows.              *)

After_Stopped == "STOPPED"
After == IF enter_id # None THEN "STOPPING" ELSE "STOPPED"

(* An EMPTY trader forgets a cancelled order, and stops outside b and c.   *)
Emptied == IF OrderStatus = "Cancelled" THEN None ELSE enter_id
update_empty ==
  /\ Done /\ enter_id' = Emptied /\ UNCHANGED gateway
  /\ status' = IF ~bar.out THEN "EMPTY" ELSE IF Emptied = None THEN "STOPPED" ELSE "STOPPING"

update_standard ==
  /\ mode = "REAL_ENTER_OK"
  /\ IF Status = "EMPTY" THEN update_empty
     ELSE IF local # "MONITORING" THEN Done /\ Keep(Status)
     ELSE IF bar.out THEN remove_order(After)
     ELSE IF enter_id = None THEN send_order \/ (Gap /\ Done /\ Keep(Status))
     ELSE \/ Done /\ Keep(Status)
          \/ Gap /\ enter_id \in Ids /\ order_status[enter_id] # "none" /\ send_new_a_value

(* After hours: an order the gateway cancelled is forgotten; a bar that    *)
(* crosses a stops the trader.  A trader already stopped by the same bar   *)
(* raises.                                                                 *)
update_eop ==
  /\ mode = "REAL_DONT_ENTER"
  /\ IF Status = "EMPTY" THEN update_empty
     ELSE IF local # "MONITORING" THEN Done /\ Keep(Status)
     ELSE IF bar.out /\ (Status # "MONITORING" \/ bar.crossed) THEN
       /\ pc' = "raised"
       /\ IF Status # "MONITORING" THEN UNCHANGED <<status, enter_id, gateway>>
          ELSE status' = After /\ cancel_order /\ enter_id' = Emptied
     ELSE IF bar.out THEN Done /\ status' = After /\ cancel_order /\ enter_id' = Emptied
     ELSE IF ~bar.crossed THEN Done /\ status' = Status /\ enter_id' = Emptied /\ UNCHANGED gateway
     ELSE IF Status # "MONITORING" THEN Raise
     ELSE /\ Done /\ enter_id' = Emptied
          /\ status' = IF Emptied # None THEN "STOPPING" ELSE "STOPPED"
          /\ IF Emptied # None THEN cancel_order ELSE UNCHANGED gateway

update_simulator ==
  /\ mode = "SIMULATE_TWS" /\ Done
  /\ Keep(CASE local = "EMPTY" /\ bar.out -> "STOPPED"
            [] local = "MONITORING" /\ bar.out -> "STOPPED"
            [] local = "MONITORING" /\ ~bar.out /\ bar.crossed /\ permitted -> "IN_TRADE"
            [] local = "IN_TRADE" /\ bar.ended -> "STOPPED"
            [] OTHER -> status)

Update == /\ pc = "update" /\ Readable
          /\ \/ update_standard \/ update_eop \/ update_simulator
          /\ UNCHANGED <<connected, permitted, local, bar, nights>>

-----------------------------------------------------------------------------
(* The runner: it looks at the status before it calls.                     *)

Call(m, S) == /\ pc = "idle" /\ Readable /\ pc' = m /\ Status \in S /\ status' = Status /\ local' = Status
              /\ UNCHANGED <<enter_id, connected, permitted, gateway, nights>>

new_bar == status # "STOPPED" /\ Call("update", Statuses) /\ bar' \in Bars
ask_send == Call("send_order", {"EMPTY"}) /\ UNCHANGED bar
ask_change == Call("send_new_a_value", {"MONITORING"}) /\ UNCHANGED bar
ask_remove == Call("remove_order", {"MONITORING"}) /\ UNCHANGED bar

run_call == /\ Readable
            /\ \/ pc = "send_order" /\ send_order
               \/ pc = "send_new_a_value" /\ send_new_a_value
               \/ pc = "remove_order" /\ remove_order("EMPTY")
            /\ UNCHANGED <<connected, permitted, local, bar, nights>>

status_raises == /\ pc # "raised" /\ ~Readable /\ Raise
                 /\ UNCHANGED <<connected, permitted, local, bar, nights>>

(* End of the day: the handle is removed, from a trader in trade as well.  *)
remove_TWS_h ==
  /\ pc = "idle" /\ Readable /\ connected /\ nights < MaxNights /\ nights' = nights + 1
  /\ connected' = FALSE
  /\ IF Status = "MONITORING" /\ enter_id # None
     THEN enter_id' = Tuple /\ status' = "EMPTY" /\ cancel_order
     ELSE Keep(Status)
  /\ UNCHANGED <<permitted, method>>

(* restart_traders: a new handle, with an empty table, and new hours.      *)
set_TWS_h ==
  /\ pc = "idle" /\ ~connected /\ connected' = TRUE /\ permitted' = TRUE
  /\ order_status' = [i \in Ids |-> "none"] /\ exit_reports' = {} /\ exits_listed' = {}
  /\ UNCHANGED <<status, enter_id, method, orders, exited, cancels, sent, nights>>

until == permitted /\ permitted' = FALSE /\ UNCHANGED <<trader, method, gateway, nights>>

-----------------------------------------------------------------------------
(* The gateway.                                                            *)

Report(i, s) ==
  /\ orders' = [orders EXCEPT ![i] = s]
  /\ order_status' = IF connected THEN [order_status EXCEPT ![i] = s] ELSE order_status
  /\ UNCHANGED <<trader, permitted, method, exited, cancels, exit_reports, exits_listed, sent, nights>>

confirm == \E i \in Ids : orders[i] = "sent" /\ Report(i, "Submitted")
fill == \E i \in Ids : orders[i] \in Open /\ Report(i, "Filled")
cancelled == \E i \in Ids : /\ orders[i] \in Open /\ (i \in cancels \/ ~permitted)
                            /\ Report(i, "Cancelled")
exit_filled == \E i \in Ids \ exited :
  /\ orders[i] = "Filled" /\ exited' = exited \union {i}
  /\ exit_reports' = IF connected THEN exit_reports \union {i} ELSE exit_reports
  /\ UNCHANGED <<trader, permitted, method, orders, cancels, order_status, exits_listed, sent, nights>>
exits_reported == \E i \in Ids \ exits_listed :
  /\ connected /\ orders[i] # "none" /\ exits_listed' = exits_listed \union {i}
  /\ UNCHANGED <<trader, permitted, method, orders, exited, cancels, order_status, exit_reports, sent, nights>>

Trading == new_bar \/ Update \/ status_raises
Gateway == confirm \/ fill \/ cancelled \/ exit_filled \/ exits_reported
Next == \/ Trading \/ ask_send \/ ask_change \/ ask_remove \/ run_call
        \/ remove_TWS_h \/ set_TWS_h \/ until \/ Gateway

(* Bars keep coming, a called method runs, the gateway takes cancels up.   *)
Fairness == WF_vars(Trading) /\ WF_vars(run_call) /\ WF_vars(cancelled) /\ WF_vars(set_TWS_h)
Spec == Init /\ [][Next]_vars
FairSpec == Spec /\ Fairness

-----------------------------------------------------------------------------
(* Type invariant.                                                         *)
TypeOK ==
  /\ status \in Statuses
  /\ enter_id \in Ids \union {None, Tuple} /\ connected \in BOOLEAN /\ permitted \in BOOLEAN
  /\ pc \in {"idle", "update", "send_order", "send_new_a_value", "remove_order", "raised"}
  /\ bar \in Bars /\ exited \subseteq Ids /\ cancels \subseteq Ids /\ exits_listed \subseteq Ids
  /\ \A i \in Ids : (orders[i] = "none") = (i > sent)

(* An entry order that may fill, or a position that is still open: it is   *)
(* the one the trader follows, or one it asked to cancel.  The runner      *)
(* sends an EMPTY trader out again before the cancellation is confirmed,   *)
(* and the id of the order it removed is overwritten.                      *)
Live(i) == orders[i] \in Open \/ (orders[i] = "Filled" /\ i \notin exited)
OrdersAreKnown == \A i \in Ids : Live(i) => i = enter_id \/ i \in cancels

(* The trader and the gateway agree on what may still trade.               *)
CorseInv == TypeOK /\ OrdersAreKnown

(* As long as the handle is there, a trader stops with nothing left of its *)
(* last order; what may be left is an order that it removed and replaced,  *)
(* and that was filled before it was cancelled.                            *)
StoppedIsFlat ==
  status = "STOPPED" /\ nights = 0 => \A i \in Ids : Live(i) => i < sent /\ i \in cancels

(* Between two sessions the trader notices a fill.                         *)
FillIsNoticed ==
  (connected /\ enter_id \in Ids /\ order_status[enter_id] = "Filled")
    ~> (status \in {"IN_TRADE", "STOPPING", "STOPPED"} \/ pc = "raised" \/ ~connected)

-----------------------------------------------------------------------------
(* What the documentation says and the code does not do (see README.md).   *)

(* "for now I just stop if he is getting out in the evening" (comment in   *)
(* update, TWSTrader_corseabc.py:657): no method raises IllegalRequest.    *)
NeverRaises == pc # "raised"

(* "trader asked TWS to cancel trades" (TWSTrader_corseabc.py:36): once    *)
(* the gateway has dealt with the order, a stopping trader stops.          *)
Finished == enter_id \in Ids /\ (orders[enter_id] = "Cancelled" \/ enter_id \in exited)
StoppingStops == (status = "STOPPING" /\ Finished) ~> (status # "STOPPING")
==============================================================================
