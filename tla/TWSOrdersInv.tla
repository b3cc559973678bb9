---------------------------- MODULE TWSOrdersInv ----------------------------
(***************************************************************************)
(* What holds between the program, its two queues and the gateway of       *)
(* TWSOrders at every step: the inductive invariant behind its safety      *)
(* properties.                                                             *)
(***************************************************************************)
EXTENDS TWSOrders

ToGateway ==
  {RequestIds}
  \union [type : {"placeOrder"}, id : Ids, parent : 0..MaxOrders, role : Roles, transmit : BOOLEAN]
  \union [type : {"cancelOrder"}, id : Ids]
FromGateway ==
  [type : {"nextValidId"}, id : 1..MaxOrders + 1]
  \union [type : {"openOrder"}, id : Ids]
  \union [type : {"orderStatus"}, id : Ids, status : Statuses]

Typed ==
  /\ to_tws \in Seq(ToGateway) /\ from_tws \in Seq(FromGateway)
  /\ todo \in Seq([role : Roles, transmit : BOOLEAN]) /\ parent_id \in 0..MaxOrders
  /\ placed \in Seq([id : Ids, role : Roles, parent : 0..MaxOrders])

-----------------------------------------------------------------------------
(* The gateway has, or is sent, only orders the program placed; it reports *)
(* only orders it has, and gives no id twice that it has seen.             *)
Among(orders, id, parent, role) ==
  \E n \in DOMAIN orders : orders[n] = [id |-> id, role |-> role, parent |-> parent]
Sends(k, id) == k \in DOMAIN to_tws /\ to_tws[k].type = "placeOrder" /\ to_tws[k].id = id

FromProgram ==
  /\ \A k \in DOMAIN to_tws : to_tws[k].type = "placeOrder" =>
       Among(placed, to_tws[k].id, to_tws[k].parent, to_tws[k].role)
  /\ \A i \in Ids : IF tws[i].state = "none" THEN tws[i].parent = 0
                    ELSE Among(placed, i, tws[i].parent, tws[i].role)
Reported ==
  /\ \A i \in open_orders : tws[i].state # "none"
  /\ \A k \in DOMAIN from_tws : from_tws[k].type \in {"openOrder", "orderStatus"} =>
       tws[from_tws[k].id].state # "none"
Numbered == \A i \in Ids : tws[i].state # "none" => i < next_valid

(* While no id came late there is one id under way at most, and it is new. *)
Waits == pc = "wait" /\ next_order_id = <<>>
Unused(v) ==
  /\ v = next_valid
  /\ \A n \in DOMAIN placed : placed[n].id < v
  /\ \A k \in DOMAIN to_tws : to_tws[k].type = "placeOrder" => to_tws[k].id < v
OneId == timeouts = 0 =>
  /\ \A n \in DOMAIN placed : \/ placed[n].id < next_valid
                              \/ \E k \in DOMAIN to_tws : Sends(k, placed[n].id)
  /\ \A k \in DOMAIN to_tws : to_tws[k].type = "reqIds" => k = Len(to_tws) /\ Waits
  /\ \A k \in DOMAIN from_tws : from_tws[k].type = "nextValidId" =>
       /\ Waits /\ Unused(from_tws[k].id)
       /\ \A j \in DOMAIN to_tws : to_tws[j].type # "reqIds"
       /\ \A j \in DOMAIN from_tws : from_tws[j].type = "nextValidId" => j = k
  /\ \A k \in DOMAIN next_order_id : Unused(next_order_id[k])

-----------------------------------------------------------------------------
(* The orders of a bracket are placed in their order, the entry first.     *)
Earlier(role) ==
  IF role = "profit" THEN {"entry"} ELSE IF role = "stop" THEN {"entry", "profit"}
  ELSE IF role = "moc" THEN {"entry", "profit", "stop"} ELSE {}
PlacedBefore(n, role, top) == \E m \in 1..n - 1 :
  placed[m].role = role /\ top = (IF role = "entry" THEN placed[m].id ELSE placed[m].parent)

PlacedInOrder == \A n \in DOMAIN placed :
  /\ placed[n].role \in {"single", "entry"} <=> placed[n].parent = 0
  /\ \A role \in Earlier(placed[n].role) : PlacedBefore(n, role, placed[n].parent)
TodoInOrder == \A k \in DOMAIN todo :
  /\ todo[k].role \in {"entry", "profit"} => ~todo[k].transmit
  /\ todo[k].role \in {"single", "entry"} => k = 1 /\ parent_id = 0
  /\ todo[k].role \notin {"single", "entry"} /\ k = 1 => parent_id # 0
  /\ IF k = 1 THEN \A role \in Earlier(todo[k].role) :
                     PlacedBefore(Len(placed) + 1, role, parent_id)
     ELSE /\ todo[k - 1].role # "single"
          /\ Earlier(todo[k].role) = Earlier(todo[k - 1].role) \union {todo[k - 1].role}

-----------------------------------------------------------------------------
(* While no id was given twice the orders arrive in the order they were    *)
(* placed, and an order that is not transmitted is always a new one.       *)
Arrived(n) == tws[placed[n].id].state # "none"
ArriveInOrder == IdIsOfTheOrder => \A n \in DOMAIN placed :
  /\ Arrived(n) \/ \E k \in DOMAIN to_tws : Sends(k, placed[n].id)
  /\ Arrived(n) => \A m \in 1..n - 1 : Arrived(m)
  /\ \A k \in DOMAIN to_tws : Sends(k, placed[n].id) =>
       \A m \in 1..n - 1 : Arrived(m) \/ \E j \in 1..k - 1 : Sends(j, placed[m].id)
HeldIsNew == IdIsOfTheOrder => \A k \in DOMAIN to_tws :
  to_tws[k].type = "placeOrder" /\ ~to_tws[k].transmit =>
    tws[to_tws[k].id].state = "none" /\ \A j \in 1..k - 1 : ~Sends(j, to_tws[k].id)

(* So what is transmitted belongs to a whole bracket.                      *)
Top(id, parent) == IF parent = 0 THEN id ELSE parent
WholeOrNothing == IdIsOfTheOrder =>
  /\ \A k \in DOMAIN to_tws :
       to_tws[k].type = "placeOrder" /\ to_tws[k].transmit /\ to_tws[k].role \in {"entry", "profit"} =>
         \/ Protected(Top(to_tws[k].id, to_tws[k].parent))
         \/ tws[to_tws[k].id].state \in Closed
  /\ \A i \in Ids : tws[i].state \in {"live", "Filled"} /\ tws[i].role \in {"entry", "profit"} =>
       Protected(Top(i, tws[i].parent))

(* What the client knows of an order and what is reported of it add up to  *)
(* what the gateway has.                                                   *)
About(k, i) == from_tws[k].type \in {"openOrder", "orderStatus"} /\ from_tws[k].id = i
Unseen(i) == i \notin open_orders /\ \A k \in DOMAIN from_tws : ~About(k, i)
SeenLive(i) ==
  /\ i \in open_orders \/ \E k \in DOMAIN from_tws : from_tws[k] = OpenOrder(i)
  /\ order_status[i] = "Submitted" \/ \E k \in DOMAIN from_tws : from_tws[k] = OrderStatus(i, "Submitted")
  /\ \A k \in DOMAIN from_tws : About(k, i) => from_tws[k] \in {OpenOrder(i), OrderStatus(i, "Submitted")}
SeenClosed(i) ==
  /\ \A k \in DOMAIN from_tws : About(k, i) =>
       \E j \in DOMAIN from_tws : j >= k /\ from_tws[j] = OrderStatus(i, tws[i].state)
  /\ (\A k \in DOMAIN from_tws : ~About(k, i)) => i \notin open_orders /\ order_status[i] = tws[i].state
ViewsAddUp == IdIsOfTheOrder => \A i \in Ids :
  /\ tws[i].state \in {"none", "held"} => Unseen(i)
  /\ tws[i].state = "live" => SeenLive(i)
  /\ tws[i].state \in Closed => SeenClosed(i)

-----------------------------------------------------------------------------
(* Program, dispatcher and gateway agree on ids, on whose turn it is and   *)
(* on the orders.                                                          *)
OrdersInv ==
  /\ TypeOK /\ InTimeIdsWork
  /\ Typed /\ FromProgram /\ Reported /\ Numbered /\ OneId /\ PlacedInOrder /\ TodoInOrder
  /\ ArriveInOrder /\ HeldIsNew /\ WholeOrNothing /\ ViewsAddUp
=============================================================================
