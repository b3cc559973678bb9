------------------------------- MODULE Market -------------------------------
(***************************************************************************)
(* The order book of market.Market as it is driven by                      *)
(* VirtualSingleContractIndexMarketFromDataBarStream: groups of one entry  *)
(* order and the close orders that hang on it, replayed bar by bar.        *)
(*                                                                         *)
(* Single threaded code: one call of sync_with_trader is cut into the      *)
(* bodies of its loops (a bar, an order of the bar, the end of a bar), and *)
(* pc says which body comes next.  Prices are abstracted to one choice:    *)
(* the bar touches the stop or limit of the order looked at, or not.       *)
(***************************************************************************)
EXTENDS Integers, Sequences, Functions

CONSTANTS
  Requests,    \* numbers of the order groups (one group per trader request)
  Groups,      \* the group definitions a trader may send
  GTC,         \* the 'good till cancel' condition
  OrderSize,   \* units of every entry order
  Percent,     \* size of a close order, in percent of its parent's position
  MaxTime      \* bound: last time a caller uses

ChildKinds == {"cos", "eod", "profit", "stop", "trail"}
Kinds      == {"enter"} \union ChildKinds

(* What the caller says of a group: side and type of the entry order, the  *)
(* last moment the entry is valid, the time its end-of-day order starts,   *)
(* and its close orders, one of a kind, in the order in which they were    *)
(* sent.                                                                   *)
GroupDef ==
  [action : {"buy", "sell"}, type : {"market", "limit"},
   gtd : Nat \union {GTC}, closing : Nat,
   kids : {ks \in Seq(ChildKinds) : IsInjective(ks)}]

ASSUME MarketAssumption ==
  /\ Requests \subseteq Nat
  /\ Groups \subseteq GroupDef
  /\ GTC \notin Nat
  /\ OrderSize \in Nat \ {0}
  /\ Percent \in 1..100
  /\ MaxTime \in Nat

Orders    == Requests \X Kinds
Req(o)    == o[1]
Kind(o)   == o[2]
Parent(o) == <<o[1], "enter">>

VARIABLES
  group,     \* the definition of each group, fixed from the start
  place,     \* which of new_orders, active_orders, finished_orders holds it
  start,     \* order.start has become ManagedOrderValue(True)
  until,     \* order.until has not yet become ManagedOrderValue(False)
  signal,    \* order.signal of the close-on-signal order is set
  filled, stopped, size,    \* the fields of OrderInfo
  filled_at,                \* time in the last entry of OrderInfo.history
  last_market_sync_time,
  gray_bar_end,  \* gray_zone_bar.end_time()
  target,        \* at_time of the running sync_with_trader
  scan,          \* ids of ordered_active_orders_ids() not looked at yet
  pc,            \* "idle", "sync" (the while loop), "bar" (the for loop), "return"
  call,          \* the method that called sync_with_trader
  err            \* the exception that ended the program, or "none"

orderVars  == <<place, start, until, signal, filled, stopped, size, filled_at>>
clockVars  == <<last_market_sync_time, gray_bar_end>>
flowVars   == <<target, scan, pc, call>>
marketVars == <<group, orderVars, clockVars, flowVars, err>>

Calls  == {"report", "activate", "change"}
Errors == {"none", "time reversed", "market out of data", "assertion",
           "size is text", "order overfilled", "dict changed size",
           "no such active order",
           "time moved backward"}   \* raised by the trader, not by the market

-----------------------------------------------------------------------------
(* Orders and groups.                                                      *)

Members(r)  == {<<r, "enter">>} \union {<<r, k>> : k \in Range(group[r].kids)}
children(r) == Members(r) \ {<<r, "enter">>}

Opposite(a) == IF a = "buy" THEN "sell" ELSE "buy"
Action(o)   == IF Kind(o) = "enter" THEN group[Req(o)].action
                                    ELSE Opposite(group[Req(o)].action)

AtMarket(o) == \/ Kind(o) \in {"cos", "eod"}
               \/ Kind(o) = "enter" /\ group[Req(o)].type = "market"

Magnitude(n) == IF n < 0 THEN -n ELSE n

(* order.size(): a number for the entry order; for a close order ceil of   *)
(* Percent of the parent position, 0 standing for the text it is before    *)
(* the parent has a position.                                              *)
SizeOf(o) == IF Kind(o) = "enter" THEN OrderSize
             ELSE (Magnitude(size[Parent(o)]) * Percent + 99) \div 100

(* Ids are sorted, so the groups come one by one; within a group the       *)
(* parent comes first and the children in the order of the children list.  *)
Rank(o) == IF Kind(o) = "enter" THEN 0
           ELSE CHOOSE i \in DOMAIN group[Req(o)].kids :
                       group[Req(o)].kids[i] = Kind(o)
Before(o, p) == \/ Req(o) < Req(p)
                \/ Req(o) = Req(p) /\ Rank(o) < Rank(p)

positions_in_group(sz, r) ==
  sz[<<r, "enter">>] + sz[<<r, "cos">>] + sz[<<r, "eod">>]
    + sz[<<r, "profit">>] + sz[<<r, "stop">>] + sz[<<r, "trail">>]

-----------------------------------------------------------------------------
(* The managed order values.  start() and until() first update themselves  *)
(* and then return the OLD value: a condition that becomes true in a call  *)
(* is seen by the next call.                                               *)

StartMet(o, f, t, sig) ==
  CASE Kind(o) = "enter" -> TRUE
    [] Kind(o) = "eod"   -> t > group[Req(o)].closing
    [] Kind(o) = "cos"   -> sig[Req(o)]
    [] OTHER             -> f[Parent(o)]

Lapsed_ParentOnly(o, f, s, sz, t) ==
  IF Kind(o) = "enter"
  THEN group[Req(o)].gtd # GTC /\ t > group[Req(o)].gtd
  ELSE (f[Parent(o)] \/ s[Parent(o)]) /\ sz[Parent(o)] = 0

Lapsed(o, f, s, sz, t) ==
  IF Kind(o) = "enter"
  THEN group[Req(o)].gtd # GTC /\ t > group[Req(o)].gtd
  ELSE (f[Parent(o)] \/ s[Parent(o)]) /\ positions_in_group(sz, Req(o)) = 0

Started_NewValue(o) ==
  start[o] \/ StartMet(o, filled, last_market_sync_time, signal)
Started(o) == start[o]

(* order.signal is reset by the start() call that consumes it.             *)
SignalAfterStart(S) ==
  [r \in Requests |-> signal[r] /\ ~(<<r, "cos">> \in S /\ ~start[<<r, "cos">>])]

-----------------------------------------------------------------------------
(* replace_finished_orders: called with the until values u, at the end of  *)
(* a step that has set filled', size' and last_market_sync_time'.  Active  *)
(* orders are kept in insertion order, a parent before its children.       *)

Leaving_KeepUntil(u) ==
  {o \in Orders : place[o] = "active" /\ (filled'[o] \/ stopped[o])}
Leaving(u) ==
  {o \in Orders : place[o] = "active" /\ (filled'[o] \/ stopped[o] \/ ~u[o])}

replace_finished_orders(u) ==
  /\ place' = [o \in Orders |-> IF o \in Leaving(u) THEN "finished" ELSE place[o]]
  /\ stopped' = [o \in Orders |-> stopped[o] \/ o \in Leaving(u)]
  /\ until' = [o \in Orders |->
                 IF place[o] = "active" /\ ~filled'[o] /\ ~stopped[o]
                 THEN u[o] /\ ~Lapsed(o, filled', stopped', size',
                                      last_market_sync_time')
                 ELSE u[o]]

-----------------------------------------------------------------------------
(* Calls of the trader, one at a time.                                     *)

Running == err = "none"
Idle    == Running /\ pc = "idle"

(* new_order for the entry and the close orders of a group.                *)
Unknown_NotActive(r) == \A o \in Members(r) : place[o] # "active"
Unknown(r) == \A o \in Members(r) : place[o] = "absent"

new_order(r) ==
  /\ Idle
  /\ Unknown(r)
  /\ place' = [o \in Orders |-> IF o \in Members(r) THEN "new" ELSE place[o]]
  /\ UNCHANGED <<group, start, until, signal, filled, stopped, size, filled_at,
                 clockVars, flowVars, err>>

(* sync_with_trader(at_time), entered from method c.                       *)
sync_with_trader(c, at_time) ==
  /\ Idle
  /\ IF at_time < last_market_sync_time
     THEN err' = "time reversed" /\ UNCHANGED flowVars
     ELSE /\ target' = at_time /\ pc' = "sync" /\ call' = c
          /\ UNCHANGED <<scan, err>>
  /\ UNCHANGED <<group, orderVars, clockVars>>

status_report(at_time) == sync_with_trader("report", at_time)

(* order.signal = signal, on the close-on-signal order of group r: the     *)
(* signal it waits for, or another one.                                    *)
SetSignal(r, expected) ==
  /\ Idle
  /\ place[<<r, "cos">>] \in {"active", "finished"}
  /\ signal' = [signal EXCEPT ![r] = expected]
  /\ UNCHANGED <<group, place, start, until, filled, stopped, size, filled_at,
                 clockVars, flowVars, err>>

-----------------------------------------------------------------------------
(* sync_with_trader: the while loop.                                       *)

(* _sync_active_orders finds a finished bar: the ids are collected once.   *)
ordered_active_orders_ids ==
  {o \in Orders : /\ place[o] # "absent"
                  /\ \/ place[o] = "active"
                     \/ Kind(o) # "enter" /\ \E p \in children(Req(o)) : place[p] = "active"}

BarDone == gray_bar_end <= target

ProcessBar ==
  /\ Running /\ pc = "sync"
  /\ last_market_sync_time < target /\ BarDone
  /\ scan' = ordered_active_orders_ids
  /\ pc' = "bar"
  /\ UNCHANGED <<group, orderVars, clockVars, target, call, err>>

IsNext(o) == /\ Running /\ pc = "bar"
             /\ o \in scan
             /\ \A p \in scan \ {o} : Before(o, p)
             /\ scan' = scan \ {o}

(* start() is not True, or until() is False.                               *)
SkipOrder(o) ==
  /\ IsNext(o)
  /\ ~Started(o) \/ ~until[o]
  /\ start' = [start EXCEPT ![o] = @ \/ StartMet(o, filled, last_market_sync_time, signal)]
  /\ signal' = SignalAfterStart({o})
  /\ UNCHANGED <<group, place, until, filled, stopped, size, filled_at,
                 clockVars, target, pc, call, err>>

CalledUntil(o) ==
  [until EXCEPT ![o] = @ /\ ~Lapsed(o, filled, stopped, size, last_market_sync_time)]

(* The bar did not reach the stop or the limit.                            *)
MissOrder(o) ==
  /\ IsNext(o)
  /\ Started(o) /\ until[o] /\ ~AtMarket(o)
  /\ until' = CalledUntil(o)
  /\ UNCHANGED <<group, place, start, signal, filled, stopped, size, filled_at,
                 clockVars, target, pc, call, err>>

(* register_new_action for the whole size of the order.                    *)
register_new_action(o) ==
  LET added == IF Action(o) = "buy" THEN SizeOf(o) ELSE -SizeOf(o)
      total == size[o] + added
  IN /\ err' = IF place[o] \notin {"active", "finished"} \/ stopped[o]
                 THEN "assertion"
               ELSE IF SizeOf(o) = 0 THEN "size is text"
               ELSE IF Magnitude(total) > SizeOf(o) THEN "order overfilled"
               ELSE "none"
     /\ IF err' = "none"
        THEN /\ size' = [size EXCEPT ![o] = total]
             /\ filled' = [filled EXCEPT ![o] = TRUE]
             /\ filled_at' = [filled_at EXCEPT ![o] = last_market_sync_time]
        ELSE UNCHANGED <<size, filled, filled_at>>

(* _buy_at_market ... _sell_at_limit, when the price is reached.           *)
FillOrder(o) ==
  /\ IsNext(o)
  /\ Started(o) /\ until[o]
  /\ register_new_action(o)
  /\ UNCHANGED clockVars
  /\ IF err' = "none"
     THEN replace_finished_orders(CalledUntil(o))
     ELSE until' = CalledUntil(o) /\ UNCHANGED <<place, stopped>>
  /\ UNCHANGED <<group, start, signal, target, pc, call>>

(* Every order was looked at: the next bar is read, or the data ends       *)
(* before the market time moves.                                           *)
FinishBar ==
  /\ Running /\ pc = "bar" /\ scan = {}
  /\ UNCHANGED <<group, start, signal, filled, size, filled_at, target, scan, call>>
  /\ \/ /\ \E e \in (gray_bar_end + 1)..(MaxTime + 1) : gray_bar_end' = e
        /\ last_market_sync_time' = gray_bar_end
        /\ pc' = "sync"
        /\ replace_finished_orders(until)
        /\ UNCHANGED err
     \/ /\ err' = "market out of data"
        /\ UNCHANGED <<place, until, stopped, clockVars, pc>>

(* No finished bar left before the target: the market is there.            *)
SyncedTo_Unmoved == last_market_sync_time
SyncedTo == target

AdvanceToTarget ==
  /\ Running /\ pc = "sync"
  /\ last_market_sync_time < target /\ ~BarDone
  /\ last_market_sync_time' = SyncedTo
  /\ UNCHANGED <<group, start, signal, filled, size, filled_at, gray_bar_end,
                 flowVars, err>>
  /\ replace_finished_orders(until)

(* After the loop: update_order_attributes for every active order, then    *)
(* replace_finished_orders once more.                                      *)
UpdatedStart(S) ==
  [o \in Orders |-> \/ start[o]
                    \/ o \in S /\ StartMet(o, filled, last_market_sync_time, signal)]
UpdatedUntil(S) ==
  [o \in Orders |-> until[o] /\
     ~(o \in S /\ Lapsed(o, filled, stopped, size, last_market_sync_time))]

FinishSync ==
  LET active == {o \in Orders : place[o] = "active"}
  IN /\ Running /\ pc = "sync" /\ last_market_sync_time >= target
     /\ start' = UpdatedStart(active)
     /\ signal' = SignalAfterStart(active)
     /\ UNCHANGED <<filled, size, filled_at, clockVars>>
     /\ replace_finished_orders(UpdatedUntil(active))
     /\ pc' = IF call = "report" THEN "idle" ELSE "return"
     /\ UNCHANGED <<group, target, scan, call, err>>

-----------------------------------------------------------------------------
(* What activate_new_orders and change_existing_order do after the sync.   *)

(* Every new order is preprocessed (which calls its start and until once), *)
(* groups become active as a whole; activate_single_order pops the order   *)
(* from the dict it iterates over, so the second step of its loop raises.  *)
activate_new_orders ==
  LET new     == {o \in Orders : place[o] = "new"}
      grouped == {o \in new : group[Req(o)].kids # <<>>}
      Activate(S) ==
        place' = [o \in Orders |-> IF o \in S THEN "active" ELSE place[o]]
  IN /\ Running /\ pc = "return" /\ call = "activate"
     /\ start' = UpdatedStart(new)
     /\ until' = UpdatedUntil(new)
     /\ IF new = grouped
        THEN Activate(grouped) /\ pc' = "idle" /\ UNCHANGED err
        ELSE /\ \E o \in new \ grouped : Activate(grouped \union {o})
             /\ err' = "dict changed size" /\ UNCHANGED pc
     /\ UNCHANGED <<group, signal, filled, stopped, size, filled_at,
                    clockVars, target, scan, call>>

(* The stop of order o moves; a missing order leaves a name unbound.       *)
change_existing_order(o) ==
  /\ Running /\ pc = "return" /\ call = "change"
  /\ IF place[o] = "active" THEN pc' = "idle" /\ UNCHANGED err
     ELSE err' = "no such active order" /\ UNCHANGED pc
  /\ UNCHANGED <<group, orderVars, clockVars, target, scan, call>>

-----------------------------------------------------------------------------
Init ==
  /\ group \in [Requests -> Groups]
  /\ place = [o \in Orders |-> "absent"]
  /\ start = [o \in Orders |-> FALSE]
  /\ until = [o \in Orders |-> TRUE]
  /\ signal = [r \in Requests |-> FALSE]
  /\ filled = [o \in Orders |-> FALSE]
  /\ stopped = [o \in Orders |-> FALSE]
  /\ size = [o \in Orders |-> 0]
  /\ filled_at = [o \in Orders |-> 0]
  /\ last_market_sync_time = 0
  /\ gray_bar_end \in 1..(MaxTime + 1)
  /\ target = 0
  /\ scan = {}
  /\ pc = "idle"
  /\ call = "report"
  /\ err = "none"

SyncStep ==
  \/ ProcessBar
  \/ \E o \in Orders : SkipOrder(o) \/ MissOrder(o) \/ FillOrder(o)
  \/ FinishBar
  \/ AdvanceToTarget
  \/ FinishSync

Engine ==
  \/ SyncStep
  \/ activate_new_orders
  \/ \E o \in Orders : place[o] # "absent" /\ change_existing_order(o)

Client ==
  \/ \E r \in Requests : new_order(r) \/ \E s \in BOOLEAN : SetSignal(r, s)
  \/ \E t \in 0..MaxTime, c \in Calls :
       /\ c = "change" => \E o \in Orders : place[o] # "absent"
       /\ sync_with_trader(c, t)

(* An exception ends the program.                                          *)
Halted == ~Running /\ UNCHANGED marketVars

Next == Client \/ Engine \/ Halted

Spec == Init /\ [][Next]_marketVars /\ WF_marketVars(Engine)

-----------------------------------------------------------------------------
TypeOK ==
  /\ group \in [Requests -> Groups]
  /\ place \in [Orders -> {"absent", "new", "active", "finished"}]
  /\ start \in [Orders -> BOOLEAN]
  /\ until \in [Orders -> BOOLEAN]
  /\ signal \in [Requests -> BOOLEAN]
  /\ filled \in [Orders -> BOOLEAN]
  /\ stopped \in [Orders -> BOOLEAN]
  /\ size \in [Orders -> Int]
  /\ filled_at \in [Orders -> Nat]
  /\ last_market_sync_time \in Nat
  /\ gray_bar_end \in Nat
  /\ target \in Nat
  /\ scan \subseteq Orders
  /\ pc \in {"idle", "sync", "bar", "return"}
  /\ call \in Calls
  /\ err \in Errors

(* The stop and the profit order of one entry can both be reached by the   *)
(* same bar, and each closes the whole position: a group is either flat or *)
(* holds exactly what its entry bought or sold, never the reverse          *)
(* (the until() of market.py:672-696 has to be primed by                   *)
(* replace_finished_orders before the next order of the bar is looked at). *)
GroupNeverReversed ==
  \A r \in Requests :
    positions_in_group(size, r)
      \in {0, IF group[r].action = "buy" THEN OrderSize ELSE -OrderSize}

(* The assertions and the overfill error of OrderInfo.register_new_action  *)
(* (market.py:228-246) never fire: no order the market looks at was        *)
(* stopped or filled before.                                               *)
NoFillRejected == err \notin {"assertion", "order overfilled"}

(* No bar is played twice and the sync loop always advances: the bar the   *)
(* market waits for ends after the time it has reached.                    *)
GrayBarAhead == last_market_sync_time < gray_bar_end

(* Once a close order has filled, the end of its bar leaves no other order *)
(* of the group working.                                                   *)
NothingLeftAfterExit ==
  pc # "bar" =>
    \A r \in Requests :
      (\E o \in children(r) : filled[o]) =>
        \A o \in Members(r) : place[o] = "finished"

(* Stop, profit and trailing orders only work from the bar after the one   *)
(* that filled their parent: which came first inside that bar is unknown.  *)
ExitInLaterBar ==
  \A o \in Orders :
    filled[o] /\ Kind(o) \in {"profit", "stop", "trail"} =>
      filled[Parent(o)] /\ filled_at[Parent(o)] < filled_at[o]

(* What the traders do with finished orders relies on it: an order on the  *)
(* finished list is never filled, reactivated or forgotten.                *)
FinishedIsFinal ==
  [][\A o \in Orders : place[o] = "finished" =>
        place'[o] = "finished" /\ size'[o] = size[o] /\ stopped'[o]]_marketVars

(* Every sync returns to its caller, unless an exception ends the program: *)
(* of bars that end at increasing times, as those of the model do.         *)
SyncReturns == pc # "idle" ~> (pc = "idle" \/ err # "none")

-----------------------------------------------------------------------------
(* What the documentation says and the code does not do (see README.md).   *)

(* "Finally the single orders are activated." (market.py:408): activating  *)
(* an order that belongs to no group does not end the program.             *)
SingleOrderActivated == err # "dict changed size"

(* "set start to get active when parent has positions" (market.py:489): a  *)
(* close order does not start before there is something to close.          *)
CloseWaitsForPosition ==
  \A o \in Orders : start[o] /\ Kind(o) # "enter" => filled[Parent(o)]

(* "When this function is finished, all active orders are synced with the  *)
(* current(at_time) market situation." (market.py:900-901): when the sync  *)
(* hands over to its caller, no active order is due to be withdrawn.       *)
SyncComplete ==
  pc = "return" =>
    \A o \in Orders : place[o] = "active" =>
      until[o] /\ ~Lapsed(o, filled, stopped, size, last_market_sync_time)
=============================================================================
