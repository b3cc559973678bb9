----------------------------- MODULE TWSOrders -----------------------------
(***************************************************************************)
(* The order side of the TWS client (TWSClient.py): a program that places, *)
(* changes and cancels orders, the dispatcher process that files what the  *)
(* gateway sends (TWSClientServerMessages.py) and the gateway itself.  The *)
(* program gets every order id from the gateway, through a queue the       *)
(* dispatcher fills.                                                       *)
(***************************************************************************)
EXTENDS Naturals, Sequences, FiniteSetsExt, SequencesExt

CONSTANTS
  MaxOrders,    \* bound on the orders the program places
  MaxChanges,   \* bound on its changes and cancellations
  MaxTimeouts   \* bound on the order ids that do not come within STD_TIMEOUT

ASSUME OrdersAssumption ==
  /\ MaxOrders \in Nat \ {0} /\ MaxChanges \in Nat /\ MaxTimeouts \in Nat

Ids    == 1..MaxOrders
Roles  == {"single", "entry", "profit", "stop", "moc"}
States == {"none", "held", "live", "Filled", "Cancelled"}
Closed == {"Filled", "Cancelled"}
Statuses == {"Submitted"} \union Closed

VARIABLES
  next_order_id,  \* queue of order ids for the program
  open_orders,    \* ids of the open orders the client knows of
  order_status,   \* last status received of each order
  dispatching,    \* the dispatcher process runs
  to_tws, from_tws, \* messages under way
  tws,            \* the gateway's orders
  next_valid,     \* the gateway's next valid id
  pc,             \* where the program is: "idle", "getId" or "wait"
  todo,           \* orders the running place call has yet to place
  parent_id,      \* parent of the bracket being placed
  placed,         \* history: the orders whose id was returned, in order
  changes, timeouts

clientVars  == <<next_order_id, open_orders, order_status, dispatching>>
twsVars     == <<tws, next_valid>>
programVars == <<pc, todo, parent_id, placed, changes, timeouts>>
vars == <<clientVars, to_tws, from_tws, twsVars, programVars>>

NextValidId(id)     == [type |-> "nextValidId", id |-> id]
OpenOrder(id)       == [type |-> "openOrder", id |-> id]
OrderStatus(id, s)  == [type |-> "orderStatus", id |-> id, status |-> s]
RequestIds          == [type |-> "reqIds"]
Place(id, parent, role, transmit) ==
  [type |-> "placeOrder", id |-> id, parent |-> parent, role |-> role, transmit |-> transmit]
Cancel(id)          == [type |-> "cancelOrder", id |-> id]

(* The gateway sends an order id when the connection is made; the          *)
(* constructor's is_alive has been answered after it.                      *)
Init ==
  /\ next_order_id = <<1>> /\ open_orders = {} /\ order_status = [i \in Ids |-> "none"]
  /\ dispatching = TRUE
  /\ to_tws = <<>> /\ from_tws = <<>>
  /\ tws = [i \in Ids |-> [state |-> "none", parent |-> 0, role |-> "none"]] /\ next_valid = 1
  /\ pc = "idle" /\ todo = <<>> /\ parent_id = 0 /\ placed = <<>>
  /\ changes = 0 /\ timeouts = 0

-----------------------------------------------------------------------------
(* The program.                                                            *)

(* The orders of a bracket, with a market-on-close order if the caller asks *)
(* for one; only the last is transmitted.                                  *)
Bracket_StopLive(eod) ==
  <<[role |-> "entry", transmit |-> FALSE], [role |-> "profit", transmit |-> TRUE],
    [role |-> "stop", transmit |-> ~eod]>>
  \o (IF eod THEN <<[role |-> "moc", transmit |-> TRUE]>> ELSE <<>>)
Bracket(eod) ==
  <<[role |-> "entry", transmit |-> FALSE], [role |-> "profit", transmit |-> FALSE],
    [role |-> "stop", transmit |-> ~eod]>>
  \o (IF eod THEN <<[role |-> "moc", transmit |-> TRUE]>> ELSE <<>>)

call(orders) ==
  /\ pc = "idle" /\ Len(placed) + Len(orders) <= MaxOrders
  /\ pc' = "getId" /\ todo' = orders /\ parent_id' = 0
  /\ UNCHANGED <<clientVars, to_tws, from_tws, twsVars, placed, changes, timeouts>>

place_order         == call(<<[role |-> "single", transmit |-> TRUE]>>)
place_bracket_order == \E eod \in BOOLEAN : call(Bracket(eod))

(* get_order_id: ask for an id only if there is none in the queue.         *)
get_order_id_Always ==
  /\ pc = "getId" /\ pc' = "wait"
  /\ to_tws' = Append(to_tws, RequestIds)
  /\ UNCHANGED <<clientVars, from_tws, twsVars, todo, parent_id, placed, changes, timeouts>>
get_order_id ==
  /\ pc = "getId" /\ pc' = "wait"
  /\ to_tws' = IF next_order_id = <<>> THEN Append(to_tws, RequestIds) ELSE to_tws
  /\ UNCHANGED <<clientVars, from_tws, twsVars, todo, parent_id, placed, changes, timeouts>>

(* With the id the order goes out; a bracket continues with the next one.  *)
order_id_got ==
  /\ pc = "wait" /\ next_order_id # <<>>
  /\ LET id    == Head(next_order_id)
         order == Head(todo)
     IN /\ id \in Ids
        /\ next_order_id' = Tail(next_order_id)
        /\ to_tws' = Append(to_tws, Place(id, parent_id, order.role, order.transmit))
        /\ placed' = Append(placed, [id |-> id, role |-> order.role, parent |-> parent_id])
        /\ parent_id' = IF order.role = "entry" THEN id ELSE parent_id
  /\ todo' = Tail(todo)
  /\ pc' = IF todo' = <<>> THEN "idle" ELSE "getId"
  /\ UNCHANGED <<open_orders, order_status, dispatching, from_tws, twsVars, changes, timeouts>>

(* The queue stays empty for STD_TIMEOUT: the call ends with a             *)
(* TWSClientWarning, what it has already placed stays where it is.         *)
order_id_timeout ==
  /\ pc = "wait" /\ next_order_id = <<>>
  /\ timeouts < MaxTimeouts /\ timeouts' = timeouts + 1
  /\ pc' = "idle" /\ todo' = <<>>
  /\ UNCHANGED <<clientVars, to_tws, from_tws, twsVars, parent_id, placed, changes>>

(* Changing an order places the one that the gateway last reported again:  *)
(* one that was placed under the id, of several if the id was given twice. *)
(* The reports do not hold transmit, so it is what def_order gives.        *)
change_order(id) ==
  /\ pc = "idle" /\ changes < MaxChanges /\ id \in open_orders
  /\ changes' = changes + 1
  /\ \E order \in Range(placed) :
       order.id = id /\ to_tws' = Append(to_tws, Place(id, order.parent, order.role, TRUE))
  /\ UNCHANGED <<clientVars, from_tws, twsVars, pc, todo, parent_id, placed, timeouts>>

cancel_order(id) ==
  /\ pc = "idle" /\ changes < MaxChanges /\ \E i \in DOMAIN placed : placed[i].id = id
  /\ changes' = changes + 1
  /\ to_tws' = Append(to_tws, Cancel(id))
  /\ UNCHANGED <<clientVars, from_tws, twsVars, pc, todo, parent_id, placed, timeouts>>

Program ==
  \/ place_order \/ place_bracket_order \/ get_order_id \/ order_id_got \/ order_id_timeout
  \/ \E id \in Ids : change_order(id) \/ cancel_order(id)

-----------------------------------------------------------------------------
(* The gateway (external).                                                 *)

Family(id) ==
  LET top == IF tws[id].parent = 0 THEN id ELSE tws[id].parent
  IN {i \in Ids : i = top \/ tws[i].parent = top}

(* It reports every order whose state it changes: as open, with its status. *)
Reports(changed, state) ==
  LET order == SetToSeq(changed)
  IN [n \in 1..2 * Cardinality(changed) |->
        IF n % 2 = 1 THEN OpenOrder(order[(n + 1) \div 2])
        ELSE OrderStatus(order[n \div 2], IF state = "live" THEN "Submitted" ELSE state)]

SetStates(changed, state) ==
  /\ tws' = [i \in Ids |-> IF i \in changed THEN [tws[i] EXCEPT !.state = state] ELSE tws[i]]
  /\ from_tws' = from_tws \o Reports(changed, state)

ids_requested ==
  /\ to_tws # <<>> /\ Head(to_tws).type = "reqIds"
  /\ to_tws' = Tail(to_tws) /\ from_tws' = Append(from_tws, NextValidId(next_valid))
  /\ UNCHANGED <<clientVars, twsVars, programVars>>

(* A new order, or another order for an id it has; a transmitted order     *)
(* transmits the family it belongs to.  A closed order stays closed.       *)
order_placed ==
  /\ to_tws # <<>> /\ Head(to_tws).type = "placeOrder"
  /\ to_tws' = Tail(to_tws)
  /\ LET m   == Head(to_tws)
         new == [tws EXCEPT ![m.id] =
                   [state |-> "held", parent |-> m.parent, role |-> m.role]]
         top == IF m.parent = 0 THEN m.id ELSE m.parent
         family == {i \in Ids : i = top \/ new[i].parent = top}
         live == {i \in family : new[i].state = "held"}
     IN IF tws[m.id].state \in Closed
          THEN UNCHANGED <<tws, next_valid, from_tws>>
          ELSE /\ next_valid' = IF m.id >= next_valid THEN m.id + 1 ELSE next_valid
               /\ IF m.transmit
                    THEN /\ tws' = [i \in Ids |-> IF i \in live
                                      THEN [new[i] EXCEPT !.state = "live"] ELSE new[i]]
                         /\ from_tws' = from_tws \o Reports(live, "live")
                    ELSE tws' = new /\ UNCHANGED from_tws
  /\ UNCHANGED <<clientVars, programVars>>

order_cancelled ==
  /\ to_tws # <<>> /\ Head(to_tws).type = "cancelOrder"
  /\ to_tws' = Tail(to_tws)
  /\ LET id == Head(to_tws).id
     IN SetStates({i \in Ids : (i = id \/ tws[i].parent = id)
                               /\ tws[i].state \in {"held", "live"}}, "Cancelled")
  /\ UNCHANGED <<clientVars, next_valid, programVars>>

(* An entry or single order is filled; or, in a trade, one of its closing  *)
(* orders, and the others are cancelled.                                   *)
fill(id) ==
  /\ tws[id].state = "live" /\ tws[id].parent = 0
  /\ SetStates({id}, "Filled")
  /\ UNCHANGED <<clientVars, to_tws, next_valid, programVars>>

fill_child(id) ==
  /\ tws[id].state = "live" /\ tws[id].parent # 0 /\ tws[tws[id].parent].state = "Filled"
  /\ LET others == {i \in Family(id) : tws[i].state = "live"} \ {id}
     IN /\ tws' = [i \in Ids |-> IF i = id THEN [tws[i] EXCEPT !.state = "Filled"]
                                 ELSE IF i \in others THEN [tws[i] EXCEPT !.state = "Cancelled"]
                                 ELSE tws[i]]
        /\ from_tws' = from_tws \o Reports({id}, "Filled")
                                \o Reports(others, "Cancelled")
  /\ UNCHANGED <<clientVars, to_tws, next_valid, programVars>>

Gateway ==
  \/ ids_requested \/ order_placed \/ order_cancelled \/ \E id \in Ids : fill(id) \/ fill_child(id)

-----------------------------------------------------------------------------
(* The dispatcher.                                                         *)

Received(type) == dispatching /\ from_tws # <<>> /\ Head(from_tws).type = type /\ from_tws' = Tail(from_tws)

(* Emptying the queue first is meant, but names an object that is not      *)
(* there: the NameError ends the process.                                  *)
handle_next_valid_id ==
  /\ Received("nextValidId")
  /\ IF next_order_id = <<>>
       THEN next_order_id' = <<Head(from_tws).id>> /\ UNCHANGED dispatching
       ELSE dispatching' = FALSE /\ UNCHANGED next_order_id
  /\ UNCHANGED <<open_orders, order_status, to_tws, twsVars, programVars>>

handle_open_order ==
  /\ Received("openOrder")
  /\ open_orders' = open_orders \union {Head(from_tws).id}
  /\ UNCHANGED <<next_order_id, order_status, dispatching, to_tws, twsVars, programVars>>

handle_order_status_Filled ==
  /\ Received("orderStatus")
  /\ LET m == Head(from_tws)
     IN /\ order_status' = [order_status EXCEPT ![m.id] = m.status]
        /\ open_orders' = IF m.status = "Filled" THEN open_orders \ {m.id} ELSE open_orders
  /\ UNCHANGED <<next_order_id, dispatching, to_tws, twsVars, programVars>>
handle_order_status_First ==
  /\ Received("orderStatus")
  /\ LET m == Head(from_tws)
     IN /\ order_status' = [order_status EXCEPT ![m.id] = IF @ = "none" THEN m.status ELSE @]
        /\ open_orders' = IF m.status \in Closed THEN open_orders \ {m.id} ELSE open_orders
  /\ UNCHANGED <<next_order_id, dispatching, to_tws, twsVars, programVars>>
handle_order_status ==
  /\ Received("orderStatus")
  /\ LET m == Head(from_tws)
     IN /\ order_status' = [order_status EXCEPT ![m.id] = m.status]
        /\ open_orders' = IF m.status \in Closed THEN open_orders \ {m.id} ELSE open_orders
  /\ UNCHANGED <<next_order_id, dispatching, to_tws, twsVars, programVars>>

Dispatcher == handle_next_valid_id \/ handle_open_order \/ handle_order_status

Next == Program \/ Gateway \/ Dispatcher

(* The dispatcher process runs, and the gateway reads what it is sent.     *)
Fairness == WF_vars(Dispatcher) /\ WF_vars(ids_requested \/ order_placed \/ order_cancelled)

Spec == Init /\ [][Next]_vars
FairSpec == Spec /\ Fairness

-----------------------------------------------------------------------------
(* Type invariant; the queue never holds two ids.                          *)
TypeOK ==
  /\ next_order_id \in Seq(1..MaxOrders + 1) /\ Len(next_order_id) <= 1
  /\ open_orders \subseteq Ids
  /\ order_status \in [Ids -> {"none"} \union Statuses] /\ dispatching \in BOOLEAN
  /\ tws \in [Ids -> [state : States, parent : 0..MaxOrders, role : Roles \union {"none"}]]
  /\ next_valid \in 1..MaxOrders + 1
  /\ pc \in {"idle", "getId", "wait"} /\ (todo = <<>> <=> pc = "idle")
  /\ changes \in 0..MaxChanges /\ timeouts \in 0..MaxTimeouts

(* Docstring of place_order (TWSClient.py:716-722): "The function returns  *)
(* the tws id of the order": two orders have two ids.                      *)
IdIsOfTheOrder == \A i, j \in DOMAIN placed : i # j => placed[i].id # placed[j].id

(* While every id comes in time the program and the dispatcher, which      *)
(* share only the queue, agree: no id is given twice and the queue is      *)
(* never found full, which would end the dispatcher.                       *)
InTimeIdsWork == timeouts = 0 => IdIsOfTheOrder /\ dispatching

(* The market knows the orders that close a trade of entry order i.        *)
Protected(i) == \A role \in {"profit", "stop"} : \E j \in Ids :
  tws[j].parent = i /\ tws[j].role = role /\ tws[j].state # "held"

(* As long as no id was given twice no entry order works in the market     *)
(* without the stop that limits its loss: a bracket is transmitted whole   *)
(* or not at all, also when the call that places it fails half way.        *)
BracketIsWhole == IdIsOfTheOrder => \A i \in Ids :
  tws[i].role = "entry" /\ tws[i].state \in {"live", "Filled"} => Protected(i)

(* Once everything the gateway reported is handled the client's open       *)
(* orders and their status are the gateway's; before that it only lags.    *)
(* An order that replaces a live one of the same id, and is not            *)
(* transmitted, would stay open for the client.                            *)
ViewIsTrue ==
  IdIsOfTheOrder /\ dispatching /\ from_tws = <<>> =>
    \A i \in Ids :
      /\ i \in open_orders <=> tws[i].state = "live"
      /\ tws[i].state = "live" => order_status[i] = "Submitted"
      /\ tws[i].state \in Closed => order_status[i] = tws[i].state

(* A fill the gateway reports reaches the program's view of its orders, as *)
(* long as the dispatcher runs.                                            *)
FillIsSeen == \A i \in Ids :
  (tws[i].state = "Filled") ~> (order_status[i] = "Filled" \/ ~dispatching)
=============================================================================
