---------------------------- MODULE MarketProofs ----------------------------
(***************************************************************************)
(* The order book of module Market: its type invariant, its safety         *)
(* properties, and that it implements GroupLife, for any number of groups, *)
(* any exits and any bars, when close orders close the whole position.     *)
(* Then the trader of module Trader on that order book: its safety         *)
(* properties, for requests with a manager that waits for their exit, and  *)
(* that it keeps the contract the order book needs.                        *)
(***************************************************************************)
EXTENDS MarketLife, TraderSafety, TLAPS

-----------------------------------------------------------------------------
(* Order ids.                                                              *)

LEMMA OrderParts ==
  ASSUME NEW o \in Orders
  PROVE  /\ Req(o) \in Requests
         /\ Kind(o) \in Kinds
         /\ o = <<Req(o), Kind(o)>>
         /\ Parent(o) \in Orders
         /\ Req(Parent(o)) = Req(o)
         /\ Kind(Parent(o)) = "enter"
         /\ Kind(o) = "enter" => Parent(o) = o
  BY DEF Orders, Req, Kind, Parent, Kinds

LEMMA OrderOfParts ==
  ASSUME NEW r \in Requests, NEW k \in Kinds
  PROVE  /\ <<r, k>> \in Orders
         /\ Req(<<r, k>>) = r
         /\ Kind(<<r, k>>) = k
         /\ Parent(<<r, k>>) = <<r, "enter">>
  BY DEF Orders, Req, Kind, Parent, Kinds

LEMMA SizeIsNat ==
  ASSUME TypeOK, NEW o \in Orders
  PROVE  SizeOf(o) \in Nat
<1>1. size[Parent(o)] \in Int
  BY OrderParts DEF TypeOK
<1>2. Magnitude(size[Parent(o)]) \in Nat
  BY <1>1 DEF Magnitude
<1> DEFINE m == Magnitude(size[Parent(o)])
<1>3. (m * Percent + 99) \in Nat
  BY <1>2, MarketAssumption
<1>4. \A n \in Nat : n \div 100 \in Nat
  OBVIOUS
<1>5. QED
  BY <1>3, <1>4, MarketAssumption DEF SizeOf

-----------------------------------------------------------------------------
(* Type correctness.                                                       *)

LEMMA ReplaceTypeOK ==
  ASSUME TypeOK, NEW u \in [Orders -> BOOLEAN], replace_finished_orders(u)
  PROVE  /\ place' \in [Orders -> {"absent", "new", "active", "finished"}]
         /\ stopped' \in [Orders -> BOOLEAN]
         /\ until' \in [Orders -> BOOLEAN]
<1>1. place' \in [Orders -> {"absent", "new", "active", "finished"}]
  BY DEF TypeOK, replace_finished_orders
<1>2. stopped' \in [Orders -> BOOLEAN]
  BY DEF TypeOK, replace_finished_orders
<1>3. until' \in [Orders -> BOOLEAN]
  BY DEF TypeOK, replace_finished_orders
<1>4. QED BY <1>1, <1>2, <1>3

LEMMA InitTypeOK == Init => TypeOK
  BY MarketAssumption DEF Init, TypeOK, Calls, Errors

LEMMA UntilTypeOK ==
  ASSUME TypeOK
  PROVE  /\ \A o \in Orders : CalledUntil(o) \in [Orders -> BOOLEAN]
         /\ \A S : UpdatedUntil(S) \in [Orders -> BOOLEAN]
         /\ \A S : UpdatedStart(S) \in [Orders -> BOOLEAN]
         /\ \A S : SignalAfterStart(S) \in [Requests -> BOOLEAN]
<1>1. \A o \in Orders : CalledUntil(o) \in [Orders -> BOOLEAN]
  BY DEF TypeOK, CalledUntil
<1>2. \A S : UpdatedUntil(S) \in [Orders -> BOOLEAN]
  BY DEF TypeOK, UpdatedUntil
<1>3. \A S : UpdatedStart(S) \in [Orders -> BOOLEAN]
  BY DEF TypeOK, UpdatedStart
<1>4. \A S : SignalAfterStart(S) \in [Requests -> BOOLEAN]
  BY DEF TypeOK, SignalAfterStart
<1>5. QED BY <1>1, <1>2, <1>3, <1>4

LEMMA FillTypeOK ==
  ASSUME TypeOK, NEW o \in Orders, FillOrder(o)
  PROVE  TypeOK'
<1>1. CalledUntil(o) \in [Orders -> BOOLEAN]
  BY UntilTypeOK
<1>2. err' \in Errors
  BY DEF FillOrder, register_new_action, Errors
<1>3. /\ size' \in [Orders -> Int]
      /\ filled' \in [Orders -> BOOLEAN]
      /\ filled_at' \in [Orders -> Nat]
  <2>1. CASE err' = "none"
    <3>1. SizeOf(o) \in Nat
      BY SizeIsNat
    <3>2. /\ size' = [size EXCEPT ![o] = size[o] +
                        IF Action(o) = "buy" THEN SizeOf(o) ELSE -SizeOf(o)]
          /\ filled' = [filled EXCEPT ![o] = TRUE]
          /\ filled_at' = [filled_at EXCEPT ![o] = last_market_sync_time]
      BY <2>1 DEF FillOrder, register_new_action
    <3>3. QED BY <3>1, <3>2 DEF TypeOK
  <2>2. CASE err' # "none"
    BY <2>2 DEF FillOrder, register_new_action, TypeOK
  <2>3. QED BY <2>1, <2>2
<1>4. /\ place' \in [Orders -> {"absent", "new", "active", "finished"}]
      /\ stopped' \in [Orders -> BOOLEAN]
      /\ until' \in [Orders -> BOOLEAN]
  <2>1. CASE err' = "none"
    BY <1>1, <2>1, ReplaceTypeOK DEF FillOrder
  <2>2. CASE err' # "none"
    BY <1>1, <2>2 DEF FillOrder, TypeOK
  <2>3. QED BY <2>1, <2>2
<1>5. scan' \subseteq Orders
  BY DEF FillOrder, IsNext, TypeOK
<1>6. QED
  BY <1>2, <1>3, <1>4, <1>5 DEF TypeOK, FillOrder, clockVars

LEMMA ReplaceStepTypeOK ==
  ASSUME TypeOK, FinishBar \/ AdvanceToTarget \/ FinishSync
  PROVE  TypeOK'
<1>1. /\ place' \in [Orders -> {"absent", "new", "active", "finished"}]
      /\ stopped' \in [Orders -> BOOLEAN]
      /\ until' \in [Orders -> BOOLEAN]
  BY ReplaceTypeOK, UntilTypeOK
     DEF FinishBar, AdvanceToTarget, FinishSync, TypeOK
<1>2. /\ start' \in [Orders -> BOOLEAN]
      /\ signal' \in [Requests -> BOOLEAN]
  <2>1. CASE FinishSync
    BY <2>1, UntilTypeOK DEF FinishSync
  <2>2. CASE FinishBar \/ AdvanceToTarget
    BY <2>2 DEF FinishBar, AdvanceToTarget, TypeOK
  <2>3. QED BY <2>1, <2>2
<1>3. last_market_sync_time' \in Nat /\ gray_bar_end' \in Nat
  <2>1. CASE FinishSync
    BY <2>1 DEF FinishSync, TypeOK, clockVars
  <2>2. CASE AdvanceToTarget
    BY <2>2 DEF AdvanceToTarget, SyncedTo, TypeOK
  <2>3. CASE FinishBar
    <3>1. CASE err' = "market out of data" /\ UNCHANGED clockVars
      BY <3>1 DEF TypeOK, clockVars
    <3>2. CASE /\ \E e \in (gray_bar_end + 1)..(MaxTime + 1) : gray_bar_end' = e
               /\ last_market_sync_time' = gray_bar_end
      <4>1. PICK e \in (gray_bar_end + 1)..(MaxTime + 1) : gray_bar_end' = e
        BY <3>2
      <4>2. gray_bar_end \in Nat /\ MaxTime \in Nat
        BY MarketAssumption DEF TypeOK
      <4>3. e \in Nat
        BY <4>1, <4>2
      <4>4. QED BY <3>2, <4>1, <4>2, <4>3
    <3>3. QED BY <2>3, <3>1, <3>2 DEF FinishBar, clockVars
  <2>4. QED BY <2>1, <2>2, <2>3
<1>4. QED
  BY <1>1, <1>2, <1>3
     DEF FinishBar, AdvanceToTarget, FinishSync, TypeOK, flowVars, clockVars, Errors

LEMMA ActivateTypeOK ==
  ASSUME TypeOK, activate_new_orders
  PROVE  TypeOK'
  BY UntilTypeOK DEF activate_new_orders, TypeOK, clockVars, Errors

(* Every step of the order book keeps the types. *)
LEMMA TypeStep == TypeOK /\ [Next]_marketVars => TypeOK'
<1> SUFFICES ASSUME TypeOK, [Next]_marketVars PROVE TypeOK'
  OBVIOUS
<1>1. CASE UNCHANGED marketVars
  BY <1>1 DEF TypeOK, marketVars, orderVars, clockVars, flowVars
<1>2. ASSUME NEW r \in Requests, NEW s \in BOOLEAN,
             new_order(r) \/ SetSignal(r, s)
      PROVE  TypeOK'
  BY <1>2 DEF new_order, SetSignal, TypeOK, clockVars, flowVars
<1>3. ASSUME NEW t \in 0..MaxTime, NEW c \in Calls, sync_with_trader(c, t)
      PROVE  TypeOK'
  <2>1. t \in Nat
    BY MarketAssumption
  <2>2. CASE t < last_market_sync_time
    BY <1>3, <2>2
       DEF sync_with_trader, TypeOK, orderVars, clockVars, flowVars, Errors
  <2>3. CASE ~(t < last_market_sync_time)
    BY <1>3, <2>1, <2>3
       DEF sync_with_trader, TypeOK, orderVars, clockVars, flowVars
  <2>4. QED BY <2>2, <2>3
<1>4. CASE ProcessBar
  BY <1>4 DEF ProcessBar, ordered_active_orders_ids, TypeOK, orderVars, clockVars
<1>5. ASSUME NEW o \in Orders, SkipOrder(o) PROVE TypeOK'
  BY <1>5, UntilTypeOK DEF SkipOrder, IsNext, TypeOK, clockVars
<1>6. ASSUME NEW o \in Orders, MissOrder(o) PROVE TypeOK'
  BY <1>6, UntilTypeOK DEF MissOrder, IsNext, TypeOK, clockVars
<1>7. ASSUME NEW o \in Orders, FillOrder(o) PROVE TypeOK'
  BY <1>7, FillTypeOK
<1>8. CASE FinishBar \/ AdvanceToTarget \/ FinishSync
  BY <1>8, ReplaceStepTypeOK
<1>9. CASE activate_new_orders
  BY <1>9, ActivateTypeOK
<1>10. ASSUME NEW o \in Orders, change_existing_order(o) PROVE TypeOK'
  BY <1>10 DEF change_existing_order, TypeOK, orderVars, clockVars, Errors
<1>11. QED
  BY <1>1, <1>2, <1>3, <1>4, <1>5, <1>6, <1>7, <1>8, <1>9, <1>10
     DEF Next, Client, Engine, SyncStep, Halted

(* Every reachable state is well typed.                                    *)
THEOREM TypeCorrect == Spec => []TypeOK
  BY InitTypeOK, TypeStep, PTL DEF Spec

-----------------------------------------------------------------------------
(* Groups.                                                                 *)

LEMMA MembersFacts ==
  ASSUME TypeOK, NEW r \in Requests
  PROVE  /\ Members(r) \subseteq Orders
         /\ <<r, "enter">> \in Members(r)
         /\ \A o \in Members(r) : Req(o) = r
         /\ children(r) = {o \in Members(r) : Kind(o) # "enter"}
         /\ group[r].kids = <<>> => Members(r) = {<<r, "enter">>}
<1>1. group[r].kids \in Seq(ChildKinds)
  BY MarketAssumption DEF TypeOK, GroupDef
<1>2. Range(group[r].kids) \subseteq ChildKinds
  BY <1>1 DEF Range
<1>3. \A k \in Range(group[r].kids) : k \in Kinds /\ k # "enter"
  BY <1>2 DEF Kinds, ChildKinds
<1>4. Members(r) \subseteq Orders /\ <<r, "enter">> \in Members(r)
  BY <1>3, OrderOfParts DEF Members, Kinds
<1>5. \A o \in Members(r) : Req(o) = r
  BY <1>3, OrderOfParts DEF Members, Req
<1>6. children(r) = {o \in Members(r) : Kind(o) # "enter"}
  BY <1>3 DEF children, Members, Kind
<1>7. group[r].kids = <<>> => Range(group[r].kids) = {}
  BY DEF Range
<1>8. group[r].kids = <<>> => Members(r) = {<<r, "enter">>}
  BY <1>7 DEF Members
<1>9. QED BY <1>4, <1>5, <1>6, <1>8

(* What a group holds when every fill is for s at the entry and -s at an   *)
(* exit, and at most one exit has filled.                                  *)
LEMMA Positions ==
  ASSUME NEW f, NEW sz, NEW r, NEW s \in Int,
         sz[<<r, "enter">>] = IF f[<<r, "enter">>] THEN s ELSE 0,
         \A k \in ChildKinds : sz[<<r, k>>] = IF f[<<r, k>>] THEN -s ELSE 0,
         \A k \in ChildKinds : f[<<r, k>>] => f[<<r, "enter">>],
         \A k, l \in ChildKinds : f[<<r, k>>] /\ f[<<r, l>>] => k = l
  PROVE  positions_in_group(sz, r) =
           IF \E k \in ChildKinds : f[<<r, k>>] THEN 0
           ELSE IF f[<<r, "enter">>] THEN s ELSE 0
<1>1. CASE \E k \in ChildKinds : f[<<r, k>>]
  <2>1. PICK k \in ChildKinds : f[<<r, k>>]
    BY <1>1
  <2>2. sz[<<r, k>>] = -s /\ sz[<<r, "enter">>] = s
    BY <2>1
  <2>3. \A l \in ChildKinds \ {k} : sz[<<r, l>>] = 0
    BY <2>1
  <2>4. k \in {"cos", "eod", "profit", "stop", "trail"}
    BY DEF ChildKinds
  <2>5. positions_in_group(sz, r) = 0
    BY <2>2, <2>3, <2>4 DEF positions_in_group, ChildKinds
  <2>6. QED BY <2>5, <1>1
<1>2. CASE ~\E k \in ChildKinds : f[<<r, k>>]
  <2>1. \A k \in ChildKinds : sz[<<r, k>>] = 0
    BY <1>2
  <2>2. sz[<<r, "enter">>] \in Int
    OBVIOUS
  <2>3. positions_in_group(sz, r) = sz[<<r, "enter">>]
    BY <2>1, <2>2 DEF positions_in_group, ChildKinds
  <2>4. QED BY <2>3, <1>2
<1>3. QED BY <1>1, <1>2

-----------------------------------------------------------------------------
(* Steps that fill nothing.                                                *)

(* A step may call until() or start(), which only ever withdraws orders.   *)
LEMMA BookKept ==
  ASSUME TypeOK, MarketInv,
         UNCHANGED <<group, place, filled, stopped, size>>,
         \A o \in Orders : until'[o] => until[o]
  PROVE  Placed' /\ Together' /\ Sized' /\ EntryFirst' /\ OneExit'
<1>1. Placed'
  BY DEF MarketInv, Placed, Members
<1>2. Together'
  BY DEF MarketInv, Together, Members
<1>3. Sized'
  BY DEF MarketInv, Sized, Signed, Action
<1>4. EntryFirst'
  BY DEF MarketInv, EntryFirst
<1>5. OneExit'
  BY DEF MarketInv, OneExit
<1>6. QED BY <1>1, <1>2, <1>3, <1>4, <1>5

LEMMA ReplaceFacts ==
  ASSUME TypeOK, NEW u \in [Orders -> BOOLEAN], replace_finished_orders(u),
         NEW o \in Orders
  PROVE  /\ place'[o] = IF place[o] = "active" /\ (filled'[o] \/ stopped[o] \/ ~u[o])
                        THEN "finished" ELSE place[o]
         /\ stopped'[o] <=> \/ stopped[o]
                            \/ place[o] = "active" /\ (filled'[o] \/ ~u[o])
         /\ until'[o] => u[o]
         /\ place[o] = "active" /\ ~filled'[o] /\ ~stopped[o] /\ until'[o] =>
              ~Lapsed(o, filled', stopped', size', last_market_sync_time')
<1>1. place'[o] = IF place[o] = "active" /\ (filled'[o] \/ stopped[o] \/ ~u[o])
                  THEN "finished" ELSE place[o]
  BY DEF replace_finished_orders, Leaving
<1>2. stopped'[o] <=> \/ stopped[o]
                      \/ place[o] = "active" /\ (filled'[o] \/ ~u[o])
  BY DEF replace_finished_orders, Leaving
<1>3. until'[o] = IF place[o] = "active" /\ ~filled'[o] /\ ~stopped[o]
                  THEN u[o] /\ ~Lapsed(o, filled', stopped', size',
                                       last_market_sync_time')
                  ELSE u[o]
  BY DEF replace_finished_orders
<1>4. QED BY <1>1, <1>2, <1>3

(* replace_finished_orders after a step that filled nothing.               *)
LEMMA ReplaceKeeps ==
  ASSUME TypeOK, MarketInv, NEW u \in [Orders -> BOOLEAN],
         replace_finished_orders(u),
         \A o \in Orders : u[o] => until[o],
         UNCHANGED <<group, filled, size>>
  PROVE  /\ Placed' /\ Together' /\ Sized' /\ EntryFirst' /\ OneExit'
         /\ \A o \in Orders : place[o] = "finished" => place'[o] = "finished"
<1>1. Placed'
  <2> SUFFICES ASSUME NEW o \in Orders
               PROVE  /\ stopped'[o] <=> place'[o] = "finished"
                      /\ filled'[o] => place'[o] = "finished"
                      /\ place'[o] = "finished" => filled'[o] \/ ~until'[o]
                      /\ place'[o] # "absent" => o \in Members(Req(o))'
    BY DEF Placed
  <2>1. Members(Req(o))' = Members(Req(o))
    BY DEF Members
  <2>2. QED BY <2>1, ReplaceFacts DEF MarketInv, Placed
<1>2. Together'
  <2> SUFFICES ASSUME NEW r \in Requests, NEW o \in Members(r), NEW p \in Members(r)
               PROVE  /\ place'[o] = "absent" => place'[p] = "absent"
                      /\ place'[o] = "new" => place'[p] = "new"
    BY DEF Together, Members
  <2>1. o \in Orders /\ p \in Orders
    BY MembersFacts
  <2>2. QED BY <2>1, ReplaceFacts DEF MarketInv, Together
<1>3. Sized'
  BY DEF MarketInv, Sized, Signed, Action
<1>4. EntryFirst'
  BY DEF MarketInv, EntryFirst
<1>5. OneExit'
  <2> SUFFICES ASSUME NEW o \in Orders, NEW p \in Orders,
                      Req(o) = Req(p), IsExit(o), IsExit(p), o # p, filled'[o]
               PROVE  ~filled'[p] /\ (place'[p] = "absent" \/ ~until'[p])
    BY DEF OneExit
  <2>1. ~filled[p] /\ (place[p] = "absent" \/ ~until[p])
    BY DEF MarketInv, OneExit
  <2>2. QED BY <2>1, ReplaceFacts
<1>6. \A o \in Orders : place[o] = "finished" => place'[o] = "finished"
  BY ReplaceFacts
<1>7. QED BY <1>1, <1>2, <1>3, <1>4, <1>5, <1>6

LEMMA UntilOnlyFalls ==
  ASSUME TypeOK
  PROVE  /\ \A o, p \in Orders : CalledUntil(o)[p] => until[p]
         /\ \A S : \A p \in Orders : UpdatedUntil(S)[p] => until[p]
  BY DEF TypeOK, CalledUntil, UpdatedUntil

(* The orders of a group whose exit has filled, when the bar is over.      *)
LEMMA ExitWithdrawsAll ==
  ASSUME TypeOK, MarketInv, NEW r \in Requests,
         NEW o \in children(r), filled[o], NEW p \in Members(r)
  PROVE  place[p] \in {"active", "finished"} /\ (filled[p] \/ ~until[p])
<1>1. o \in Members(r) /\ o \in Orders /\ p \in Orders /\ Req(o) = r /\ Req(p) = r
      /\ IsExit(o)
  BY MembersFacts DEF IsExit
<1>2. place[o] = "finished"
  BY <1>1 DEF MarketInv, Placed
<1>3. place[p] # "absent" /\ place[p] # "new"
  BY <1>1, <1>2 DEF MarketInv, Together
<1>4. place[p] \in {"active", "finished"}
  BY <1>1, <1>3 DEF TypeOK
<1>5. CASE Kind(p) = "enter"
  <2>1. p = <<r, "enter">>
    BY <1>1, <1>5, OrderParts
  <2>2. Parent(o) = <<r, "enter">>
    BY <1>1 DEF Parent, Req
  <2>3. QED BY <2>1, <2>2, <1>1, <1>4 DEF MarketInv, EntryFirst
<1>6. CASE Kind(p) # "enter"
  BY <1>1, <1>3, <1>4, <1>6 DEF MarketInv, OneExit, IsExit
<1>7. QED BY <1>5, <1>6

-----------------------------------------------------------------------------
(* One lemma per action.                                                   *)

LEMMA InitInv == Init => MarketInv
<1> SUFFICES ASSUME Init PROVE MarketInv
  OBVIOUS
<1>1. Placed /\ Sized /\ EntryFirst /\ OneExit /\ ScanOK /\ StartOK /\ HistoryOK
  BY OrderParts
     DEF Init, Placed, Sized, EntryFirst, OneExit, ScanOK, StartOK, HistoryOK
<1>2. Together
  <2>1. TypeOK
    BY InitTypeOK
  <2>2. QED BY <2>1, MembersFacts DEF Init, Together
<1>3. GrayBarAhead /\ NoFillRejected /\ ExitInLaterBar
  BY MarketAssumption DEF Init, GrayBarAhead, NoFillRejected, ExitInLaterBar
<1>4. NothingLeftAfterExit
  <2>1. TypeOK
    BY InitTypeOK
  <2>2. QED BY <2>1, MembersFacts DEF Init, NothingLeftAfterExit
<1>5. QED BY <1>1, <1>2, <1>3, <1>4 DEF MarketInv

(* Steps that touch no order, except that some until() becomes False or    *)
(* some start() True.                                                      *)
LEMMA QuietInv ==
  ASSUME TypeOK, TypeOK', MarketInv,
         UNCHANGED <<group, place, filled, stopped, size, filled_at, clockVars>>,
         \A o \in Orders : until'[o] => until[o],
         \A o \in Orders : start'[o] /\ StartsWithParent(o) =>
            \/ start[o]
            \/ filled[Parent(o)] /\ ~(pc' = "bar" /\ o \in scan'),
         pc' = "bar" => pc = "bar" /\ scan' \subseteq scan,
         pc' # "bar" => pc # "bar",
         err' \notin {"assertion", "order overfilled"}
  PROVE  MarketInv'
<1>1. Placed' /\ Together' /\ Sized' /\ EntryFirst' /\ OneExit'
  BY BookKept
<1>2. ScanOK'
  BY DEF MarketInv, ScanOK
<1>3. StartOK'
  BY DEF MarketInv, StartOK, clockVars
<1>4. HistoryOK'
  BY DEF MarketInv, HistoryOK, clockVars
<1>5. GrayBarAhead' /\ NoFillRejected'
  BY DEF MarketInv, GrayBarAhead, NoFillRejected, clockVars
<1>6. NothingLeftAfterExit'
  BY DEF MarketInv, NothingLeftAfterExit, children, Members
<1>7. ExitInLaterBar'
  BY DEF MarketInv, ExitInLaterBar
<1>8. QED BY <1>1, <1>2, <1>3, <1>4, <1>5, <1>6, <1>7 DEF MarketInv

LEMMA NewOrderInv ==
  ASSUME TypeOK, MarketInv, NEW r \in Requests, new_order(r)
  PROVE  MarketInv'
<1>1. \A o \in Orders : place'[o] = IF o \in Members(r) THEN "new" ELSE place[o]
  BY DEF new_order
<1>2. \A o \in Members(r) : o \in Orders /\ Req(o) = r /\ place[o] = "absent"
  BY MembersFacts DEF new_order, Unknown
<1>3. UNCHANGED <<group, start, until, filled, stopped, size, filled_at,
                  last_market_sync_time, gray_bar_end, pc, scan, err>>
  BY DEF new_order, clockVars, flowVars
<1>4. pc # "bar"
  BY DEF new_order, Idle
<1>5. \A o \in Orders : filled[o] => Req(o) # r
  BY <1>2, OrderParts DEF MarketInv, Placed
<1>6. Placed'
  BY <1>1, <1>2, <1>3 DEF MarketInv, Placed, Members
<1>7. Together'
  <2> SUFFICES ASSUME NEW q \in Requests, NEW o \in Members(q), NEW p \in Members(q)
               PROVE  /\ place'[o] = "absent" => place'[p] = "absent"
                      /\ place'[o] = "new" => place'[p] = "new"
    BY <1>3 DEF Together, Members
  <2>1. o \in Orders /\ p \in Orders /\ Req(o) = q /\ Req(p) = q
    BY MembersFacts
  <2>2. CASE q = r
    BY <1>1, <2>1, <2>2
  <2>3. CASE q # r
    <3>1. place'[o] = place[o] /\ place'[p] = place[p]
      BY <1>1, <1>2, <2>1, <2>3
    <3>2. QED BY <3>1 DEF MarketInv, Together
  <2>4. QED BY <2>2, <2>3
<1>8. Sized' /\ EntryFirst'
  BY <1>3 DEF MarketInv, Sized, EntryFirst, Signed, Action
<1>9. OneExit'
  BY <1>1, <1>2, <1>3, <1>5 DEF MarketInv, OneExit
<1>10. ScanOK' /\ StartOK' /\ HistoryOK' /\ GrayBarAhead' /\ NoFillRejected'
       /\ ExitInLaterBar'
  BY <1>3, <1>4 DEF MarketInv, ScanOK, StartOK, HistoryOK, GrayBarAhead,
                    NoFillRejected, ExitInLaterBar
<1>11. NothingLeftAfterExit'
  <2> SUFFICES ASSUME NEW q \in Requests, NEW o \in children(q), filled[o],
                      NEW p \in Members(q)
               PROVE  place'[p] = "finished"
    BY <1>3 DEF NothingLeftAfterExit, children, Members
  <2>1. o \in Orders /\ Req(o) = q /\ p \in Orders /\ Req(p) = q
    BY MembersFacts
  <2>2. place[p] = "finished"
    BY <1>4 DEF MarketInv, NothingLeftAfterExit
  <2>3. QED BY <1>1, <1>2, <1>5, <2>1, <2>2
<1>12. QED
  BY <1>6, <1>7, <1>8, <1>9, <1>10, <1>11 DEF MarketInv

LEMMA ActivateInv ==
  ASSUME TypeOK, MarketInv, activate_new_orders
  PROVE  MarketInv'
<1> DEFINE new == {o \in Orders : place[o] = "new"}
<1>1. PICK S \in SUBSET new :
        /\ place' = [o \in Orders |-> IF o \in S THEN "active" ELSE place[o]]
        /\ \A o, p \in new : Req(o) = Req(p) /\ o \in S =>
              p \in S \/ group[Req(o)].kids = <<>>
  <2> DEFINE grouped == {o \in new : group[Req(o)].kids # <<>>}
  <2>1. CASE new = grouped
    <3>1. place' = [o \in Orders |-> IF o \in grouped THEN "active" ELSE place[o]]
      BY <2>1 DEF activate_new_orders
    <3>2. WITNESS grouped \in SUBSET new
    <3>3. QED BY <3>1
  <2>2. CASE new # grouped
    <3>1. PICK o \in new \ grouped : 
            place' = [p \in Orders |-> IF p \in grouped \union {o} THEN "active"
                                       ELSE place[p]]
      BY <2>2 DEF activate_new_orders
    <3>2. WITNESS grouped \union {o} \in SUBSET new
    <3>3. QED BY <3>1
  <2>3. QED BY <2>1, <2>2
<1>2. \A o \in Orders : place'[o] = IF o \in S THEN "active" ELSE place[o]
  BY <1>1
<1>3. \A o \in S : o \in Orders /\ place[o] = "new"
  BY <1>1
<1>4. UNCHANGED <<group, filled, stopped, size, filled_at,
                  last_market_sync_time, gray_bar_end, scan>>
  BY DEF activate_new_orders, clockVars
<1>5. pc = "return" /\ pc' # "bar"
  BY DEF activate_new_orders
<1>6. /\ \A o \in Orders : until'[o] => until[o]
      /\ \A o \in Orders : start'[o] => start[o] \/ StartMet(o, filled, last_market_sync_time, signal)
  BY UntilOnlyFalls DEF activate_new_orders, UpdatedStart
<1>7. Placed'
  BY <1>2, <1>3, <1>4, <1>6 DEF MarketInv, Placed, Members
<1>8. Together'
  <2> SUFFICES ASSUME NEW r \in Requests, NEW o \in Members(r), NEW p \in Members(r)
               PROVE  /\ place'[o] = "absent" => place'[p] = "absent"
                      /\ place'[o] = "new" => place'[p] = "new"
    BY <1>4 DEF Together, Members
  <2>1. o \in Orders /\ p \in Orders /\ Req(o) = r /\ Req(p) = r
    BY MembersFacts
  <2>2. group[r].kids = <<>> => o = p
    <3>1. group[r].kids = <<>> => Members(r) = {<<r, "enter">>}
      BY MembersFacts
    <3>2. QED BY <3>1
  <2>3. p \in S /\ o \notin S => place[o] # "absent" /\ place[o] # "new"
    <3> HAVE p \in S /\ o \notin S
    <3>1. place[o] # "absent"
      BY <1>3 DEF MarketInv, Together
    <3>2. place[o] # "new"
      BY <1>1, <2>1, <2>2
    <3>3. QED BY <3>1, <3>2
  <2>4. QED BY <1>2, <2>1, <2>3 DEF MarketInv, Together
<1>9. Sized' /\ EntryFirst'
  BY <1>4 DEF MarketInv, Sized, EntryFirst, Signed, Action
<1>10. OneExit'
  <2> SUFFICES ASSUME NEW o \in Orders, NEW p \in Orders,
                      Req(o) = Req(p), IsExit(o), IsExit(p), o # p, filled[o]
               PROVE  ~filled[p] /\ (place'[p] = "absent" \/ ~until'[p])
    BY <1>4 DEF OneExit
  <2>1. ~filled[p] /\ (place[p] = "absent" \/ ~until[p])
    BY DEF MarketInv, OneExit
  <2>2. QED BY <2>1, <1>2, <1>3, <1>6
<1>11. ScanOK'
  BY <1>5 DEF ScanOK
<1>12. StartOK'
  BY <1>4, <1>5, <1>6 DEF MarketInv, StartOK, StartMet, StartsWithParent
<1>13. HistoryOK' /\ GrayBarAhead' /\ ExitInLaterBar'
  BY <1>4, <1>5 DEF MarketInv, HistoryOK, GrayBarAhead, ExitInLaterBar
<1>14. NoFillRejected'
  BY DEF MarketInv, NoFillRejected, activate_new_orders
<1>15. NothingLeftAfterExit'
  <2> SUFFICES ASSUME NEW q \in Requests, NEW o \in children(q), filled[o],
                      NEW p \in Members(q)
               PROVE  place'[p] = "finished"
    BY <1>4 DEF NothingLeftAfterExit, children, Members
  <2>1. p \in Orders
    BY MembersFacts
  <2>2. place[p] = "finished"
    BY <1>5 DEF MarketInv, NothingLeftAfterExit
  <2>3. QED BY <1>2, <1>3, <2>1, <2>2
<1>16. QED
  BY <1>7, <1>8, <1>9, <1>10, <1>11, <1>12, <1>13, <1>14, <1>15 DEF MarketInv

(* A bar starts: the orders to look at are still open.                     *)
LEMMA ProcessBarInv ==
  ASSUME TypeOK, MarketInv, ProcessBar
  PROVE  MarketInv'
<1>1. /\ UNCHANGED <<group, place, start, until, filled, stopped, size, filled_at,
                     last_market_sync_time, gray_bar_end, err>>
      /\ pc = "sync" /\ pc' = "bar"
      /\ scan' = ordered_active_orders_ids
  BY DEF ProcessBar, orderVars, clockVars
<1>2. Placed' /\ Together' /\ Sized' /\ EntryFirst' /\ OneExit'
  BY <1>1, BookKept
<1>3. ScanOK'
  <2> SUFFICES ASSUME NEW o \in ordered_active_orders_ids
               PROVE  ~filled[o] /\ place[o] \in {"active", "finished"}
    BY <1>1 DEF ScanOK
  <2>1. o \in Orders /\ place[o] # "absent"
    BY DEF ordered_active_orders_ids
  <2>2. CASE place[o] = "active"
    BY <2>1, <2>2 DEF MarketInv, Placed
  <2>3. CASE place[o] # "active"
    <3>1. PICK p \in children(Req(o)) : place[p] = "active"
      BY <2>3 DEF ordered_active_orders_ids
    <3>2. Req(o) \in Requests /\ IsExit(o)
      BY <2>1, <2>3, OrderParts DEF ordered_active_orders_ids, IsExit
    <3>3. o \in Members(Req(o))
      BY <2>1 DEF MarketInv, Placed
    <3>4. o \in children(Req(o)) /\ p \in Members(Req(o))
      BY <3>2, <3>3, MembersFacts DEF IsExit
    <3>5. ~filled[o]
      BY <1>1, <3>1, <3>2, <3>4 DEF MarketInv, NothingLeftAfterExit
    <3>6. place[o] # "new"
      BY <3>1, <3>2, <3>3, <3>4 DEF MarketInv, Together
    <3>7. QED BY <2>1, <3>5, <3>6 DEF TypeOK
  <2>4. QED BY <2>2, <2>3
<1>4. StartOK'
  <2> SUFFICES ASSUME NEW o \in Orders, start[o], StartsWithParent(o)
               PROVE  /\ filled[Parent(o)]
                      /\ filled_at[Parent(o)] < last_market_sync_time
    BY <1>1 DEF StartOK
  <2>1. filled[Parent(o)] /\ Parent(o) \in Orders
    BY OrderParts DEF MarketInv, StartOK
  <2>2. QED BY <1>1, <2>1 DEF MarketInv, HistoryOK
<1>5. HistoryOK' /\ GrayBarAhead' /\ NoFillRejected' /\ ExitInLaterBar'
  BY <1>1 DEF MarketInv, HistoryOK, GrayBarAhead, NoFillRejected, ExitInLaterBar
<1>6. NothingLeftAfterExit'
  BY <1>1 DEF NothingLeftAfterExit
<1>7. QED BY <1>2, <1>3, <1>4, <1>5, <1>6 DEF MarketInv

(* The ends of a bar and of a sync.                                        *)
LEMMA FinishBarInv ==
  ASSUME TypeOK, MarketInv, FinishBar, pc' = "sync"
  PROVE  MarketInv'
<1>1. /\ UNCHANGED <<group, start, filled, size, filled_at, scan, err>>
      /\ pc = "bar"
      /\ last_market_sync_time' = gray_bar_end
      /\ replace_finished_orders(until)
      /\ \E e \in (gray_bar_end + 1)..(MaxTime + 1) : gray_bar_end' = e
  BY DEF FinishBar
<1>2. until \in [Orders -> BOOLEAN] /\ gray_bar_end \in Nat
      /\ last_market_sync_time \in Nat /\ filled_at \in [Orders -> Nat]
  BY DEF TypeOK
<1>3. /\ Placed' /\ Together' /\ Sized' /\ EntryFirst' /\ OneExit'
      /\ \A o \in Orders : place[o] = "finished" => place'[o] = "finished"
  BY <1>1, <1>2, ReplaceKeeps
<1>4. last_market_sync_time < gray_bar_end /\ gray_bar_end < gray_bar_end'
  BY <1>1, <1>2, MarketAssumption DEF MarketInv, GrayBarAhead
<1>5. ScanOK' /\ NoFillRejected'
  BY <1>1 DEF MarketInv, ScanOK, NoFillRejected
<1>6. StartOK'
  BY <1>1, OrderParts DEF MarketInv, StartOK
<1>7. HistoryOK'
  BY <1>1, <1>2, <1>4 DEF MarketInv, HistoryOK
<1>8. GrayBarAhead'
  BY <1>1, <1>4 DEF GrayBarAhead
<1>9. NothingLeftAfterExit'
  <2> SUFFICES ASSUME NEW r \in Requests, NEW o \in children(r), filled[o],
                      NEW p \in Members(r)
               PROVE  place'[p] = "finished"
    BY <1>1 DEF NothingLeftAfterExit, children, Members
  <2>1. p \in Orders
    BY MembersFacts
  <2>2. place[p] \in {"active", "finished"} /\ (filled[p] \/ ~until[p])
    BY ExitWithdrawsAll
  <2>3. QED BY <1>1, <1>2, <2>1, <2>2, ReplaceFacts
<1>10. ExitInLaterBar'
  BY <1>1 DEF MarketInv, ExitInLaterBar
<1>11. QED
  BY <1>3, <1>5, <1>6, <1>7, <1>8, <1>9, <1>10 DEF MarketInv

LEMMA SyncEndInv ==
  ASSUME TypeOK, MarketInv, AdvanceToTarget \/ FinishSync
  PROVE  MarketInv'
<1> DEFINE active == {o \in Orders : place[o] = "active"}
<1>1. PICK u \in [Orders -> BOOLEAN] :
        replace_finished_orders(u) /\ \A o \in Orders : u[o] => until[o]
  <2>1. CASE AdvanceToTarget
    <3>1. until \in [Orders -> BOOLEAN] /\ replace_finished_orders(until)
      BY <2>1 DEF AdvanceToTarget, TypeOK
    <3>2. QED BY <3>1
  <2>2. CASE FinishSync
    <3>1. /\ UpdatedUntil(active) \in [Orders -> BOOLEAN]
          /\ replace_finished_orders(UpdatedUntil(active))
      BY <2>2, UntilTypeOK DEF FinishSync
    <3>2. QED BY <3>1, UntilOnlyFalls
  <2>3. QED BY <2>1, <2>2
<1>2. /\ UNCHANGED <<group, filled, size, filled_at, gray_bar_end, err>>
      /\ pc = "sync" /\ pc' # "bar"
      /\ \A o \in Orders : start'[o] /\ StartsWithParent(o) =>
            start[o] \/ filled[Parent(o)]
  <2>1. CASE AdvanceToTarget
    BY <2>1 DEF AdvanceToTarget, flowVars
  <2>2. CASE FinishSync
    BY <2>2 DEF FinishSync, clockVars, UpdatedStart, StartMet, StartsWithParent
  <2>3. QED BY <2>1, <2>2
<1>3. /\ last_market_sync_time' \in Nat /\ last_market_sync_time \in Nat
      /\ last_market_sync_time <= last_market_sync_time'
      /\ last_market_sync_time' < gray_bar_end
  <2>1. CASE AdvanceToTarget
    BY <2>1 DEF AdvanceToTarget, SyncedTo, BarDone, TypeOK
  <2>2. CASE FinishSync
    BY <2>2 DEF FinishSync, clockVars, TypeOK, MarketInv, GrayBarAhead
  <2>3. QED BY <2>1, <2>2
<1>4. /\ Placed' /\ Together' /\ Sized' /\ EntryFirst' /\ OneExit'
      /\ \A o \in Orders : place[o] = "finished" => place'[o] = "finished"
  BY <1>1, <1>2, ReplaceKeeps
<1>5. ScanOK' /\ NoFillRejected' /\ GrayBarAhead' /\ ExitInLaterBar'
  BY <1>2, <1>3
     DEF MarketInv, ScanOK, NoFillRejected, GrayBarAhead, ExitInLaterBar
<1>6. StartOK'
  BY <1>2, OrderParts DEF MarketInv, StartOK
<1>7. HistoryOK'
  <2>1. filled_at \in [Orders -> Nat]
    BY DEF TypeOK
  <2>2. QED BY <2>1, <1>2, <1>3 DEF MarketInv, HistoryOK
<1>8. NothingLeftAfterExit'
  <2> SUFFICES ASSUME NEW r \in Requests, NEW o \in children(r), filled[o],
                      NEW p \in Members(r)
               PROVE  place'[p] = "finished"
    BY <1>2 DEF NothingLeftAfterExit, children, Members
  <2>1. p \in Orders
    BY MembersFacts
  <2>2. place[p] = "finished"
    BY <1>2 DEF MarketInv, NothingLeftAfterExit
  <2>3. QED BY <1>4, <2>1, <2>2
<1>9. QED BY <1>4, <1>5, <1>6, <1>7, <1>8 DEF MarketInv

-----------------------------------------------------------------------------
(* Fills.                                                                  *)

LEMMA FullSize ==
  ASSUME TypeOK, MarketInv, Percent = 100, NEW o \in Orders
  PROVE  SizeOf(o) = IF IsExit(o) /\ ~filled[Parent(o)] THEN 0 ELSE OrderSize
<1>1. Parent(o) \in Orders /\ Req(Parent(o)) = Req(o)
  BY OrderParts
<1>2. CASE Kind(o) = "enter"
  BY <1>2 DEF SizeOf, IsExit
<1>3. CASE Kind(o) # "enter"
  <2>1. OrderSize \in Nat \ {0}
    BY MarketAssumption
  <2>2. Magnitude(size[Parent(o)]) = IF filled[Parent(o)] THEN OrderSize ELSE 0
    BY <1>1, <2>1 DEF MarketInv, Sized, Signed, Magnitude
  <2>3. SizeOf(o) = (Magnitude(size[Parent(o)]) * 100 + 99) \div 100
    BY <1>3 DEF SizeOf
  <2>4. (OrderSize * 100 + 99) \div 100 = OrderSize /\ (0 * 100 + 99) \div 100 = 0
    BY <2>1
  <2>5. QED BY <1>3, <2>2, <2>3, <2>4 DEF IsExit
<1>4. QED BY <1>2, <1>3

(* An order that is looked at and wants to trade is active, unfilled, and  *)
(* trades its whole size or, before its entry has a position, has none.    *)
LEMMA FillFacts ==
  ASSUME TypeOK, MarketInv, Percent = 100, NEW o \in Orders, FillOrder(o)
  PROVE  /\ pc = "bar" /\ o \in scan
         /\ place[o] = "active" /\ ~filled[o] /\ ~stopped[o] /\ until[o]
         /\ err' \in {"none", "size is text"}
         /\ err' = "none" =>
              /\ IsExit(o) => filled[Parent(o)]
              /\ size' = [size EXCEPT ![o] = Signed(o)]
              /\ filled' = [filled EXCEPT ![o] = TRUE]
              /\ filled_at' = [filled_at EXCEPT ![o] = last_market_sync_time]
<1>1. pc = "bar" /\ o \in scan /\ until[o] /\ register_new_action(o)
  BY DEF FillOrder, IsNext
<1>2. ~filled[o] /\ place[o] \in {"active", "finished"}
  BY <1>1 DEF MarketInv, ScanOK
<1>3. place[o] = "active" /\ ~stopped[o]
  BY <1>1, <1>2 DEF MarketInv, Placed
<1>4. size[o] = 0
  BY <1>2 DEF MarketInv, Sized
<1>5. OrderSize \in Nat \ {0}
  BY MarketAssumption
<1>6. CASE IsExit(o) /\ ~filled[Parent(o)]
  <2>1. SizeOf(o) = 0
    BY <1>6, FullSize
  <2>2. err' = "size is text"
    BY <1>1, <1>3, <2>1 DEF register_new_action
  <2>3. QED BY <1>1, <1>2, <1>3, <2>2
<1>7. CASE ~(IsExit(o) /\ ~filled[Parent(o)])
  <2>1. SizeOf(o) = OrderSize
    BY <1>7, FullSize
  <2>2. size[o] + (IF Action(o) = "buy" THEN SizeOf(o) ELSE -SizeOf(o)) = Signed(o)
    BY <1>4, <1>5, <2>1 DEF Signed
  <2>3. Magnitude(Signed(o)) = OrderSize
    BY <1>5 DEF Magnitude, Signed
  <2>4. err' = "none"
    <3> DEFINE added == IF Action(o) = "buy" THEN SizeOf(o) ELSE -SizeOf(o)
               total == size[o] + added
    <3>1. err' = IF place[o] \notin {"active", "finished"} \/ stopped[o]
                   THEN "assertion"
                 ELSE IF SizeOf(o) = 0 THEN "size is text"
                 ELSE IF Magnitude(total) > SizeOf(o) THEN "order overfilled"
                 ELSE "none"
      BY <1>1 DEF register_new_action
    <3>2. total = Signed(o)
      BY <2>2
    <3>3. ~(Magnitude(total) > SizeOf(o)) /\ SizeOf(o) # 0
      BY <1>5, <2>1, <2>3, <3>2
    <3> HIDE DEF total
    <3>4. QED BY <1>3, <3>1, <3>3
  <2>5. QED BY <1>1, <1>2, <1>3, <1>7, <2>2, <2>4 DEF register_new_action
<1>8. QED BY <1>6, <1>7

(* An exit that fills leaves its group flat.                               *)
LEMMA FlatAfterExit ==
  ASSUME TypeOK, MarketInv, Percent = 100, NEW o \in Orders, FillOrder(o),
         err' = "none", IsExit(o)
  PROVE  positions_in_group(size', Req(o)) = 0
<1> DEFINE r == Req(o)
           s == Signed(<<r, "enter">>)
<1>1. /\ r \in Requests /\ Kind(o) \in ChildKinds /\ o = <<r, Kind(o)>>
      /\ Parent(o) = <<r, "enter">>
  BY OrderParts DEF Kinds, IsExit, Parent, Req
<1>2. /\ ~filled[o] /\ until[o] /\ place[o] = "active" /\ filled[<<r, "enter">>]
      /\ size' = [size EXCEPT ![o] = Signed(o)]
      /\ filled' = [filled EXCEPT ![o] = TRUE]
  BY <1>1, FillFacts
<1>3. \A k \in ChildKinds : /\ <<r, k>> \in Orders
                            /\ Req(<<r, k>>) = r /\ Kind(<<r, k>>) = k
                            /\ IsExit(<<r, k>>)
                            /\ Parent(<<r, k>>) = <<r, "enter">>
  BY <1>1, OrderOfParts DEF Kinds, ChildKinds, IsExit
<1>4. <<r, "enter">> \in Orders /\ Kind(<<r, "enter">>) = "enter"
      /\ Req(<<r, "enter">>) = r
  BY <1>1, OrderOfParts DEF Kinds
<1>5. s \in Int /\ \A k \in ChildKinds : Signed(<<r, k>>) = -s
  <2>1. group[r].action \in {"buy", "sell"}
    <3>1. group[r] \in GroupDef
      BY <1>1, MarketAssumption DEF TypeOK
    <3> HIDE DEF r
    <3>2. QED BY <3>1 DEF GroupDef
  <2>2. OrderSize \in Nat
    BY MarketAssumption
  <2>3. Action(<<r, "enter">>) = group[r].action
    BY <1>4 DEF Action
  <2>4. \A k \in ChildKinds : Action(<<r, k>>) = Opposite(group[r].action)
    BY <1>3 DEF Action, IsExit
  <2>5. s = IF group[r].action = "buy" THEN OrderSize ELSE -OrderSize
    BY <2>3 DEF Signed
  <2>6. \A k \in ChildKinds : Signed(<<r, k>>) =
          IF Opposite(group[r].action) = "buy" THEN OrderSize ELSE -OrderSize
    BY <2>4 DEF Signed
  <2> HIDE DEF s
  <2>7. QED BY <2>1, <2>2, <2>5, <2>6 DEF Opposite
<1>6. \A k \in ChildKinds : ~filled[<<r, k>>]
  <2> SUFFICES ASSUME NEW k \in ChildKinds, filled[<<r, k>>] PROVE FALSE
    OBVIOUS
  <2>1. o # <<r, k>>
    BY <1>2
  <2>2. ~until[o] \/ place[o] = "absent"
    BY <1>1, <1>3, <2>1 DEF MarketInv, OneExit
  <2>3. QED BY <1>2, <2>2
<1>7. /\ size \in [Orders -> Int] /\ filled \in [Orders -> BOOLEAN]
  BY DEF TypeOK
<1>8. size'[<<r, "enter">>] = IF filled'[<<r, "enter">>] THEN s ELSE 0
  <2>1. size[<<r, "enter">>] = s
    BY <1>2, <1>4 DEF MarketInv, Sized
  <2>2. o # <<r, "enter">>
    BY <1>4 DEF IsExit
  <2>3. QED BY <1>2, <1>4, <1>7, <2>1, <2>2
<1>9. \A k \in ChildKinds : /\ filled'[<<r, k>>] <=> <<r, k>> = o
                            /\ size'[<<r, k>>] = IF filled'[<<r, k>>] THEN -s ELSE 0
  <2> SUFFICES ASSUME NEW k \in ChildKinds
               PROVE  /\ filled'[<<r, k>>] <=> <<r, k>> = o
                      /\ size'[<<r, k>>] = IF filled'[<<r, k>>] THEN -s ELSE 0
    OBVIOUS
  <2>1. CASE <<r, k>> = o
    BY <1>2, <1>3, <1>5, <1>7, <2>1
  <2>2. CASE <<r, k>> # o
    <3>1. size[<<r, k>>] = 0
      BY <1>3, <1>6 DEF MarketInv, Sized
    <3>2. QED BY <1>2, <1>3, <1>6, <1>7, <2>2, <3>1
  <2>3. QED BY <2>1, <2>2
<1>10. filled'[<<r, "enter">>] /\ filled'[<<r, Kind(o)>>]
  BY <1>1, <1>2, <1>4, <1>7, <1>9
<1>11. \A k, l \in ChildKinds : filled'[<<r, k>>] /\ filled'[<<r, l>>] => k = l
  BY <1>9
<1> HIDE DEF r, s
<1>12. positions_in_group(size', r) =
         IF \E k \in ChildKinds : filled'[<<r, k>>] THEN 0
         ELSE IF filled'[<<r, "enter">>] THEN s ELSE 0
  <2>1. \A k \in ChildKinds : size'[<<r, k>>] = IF filled'[<<r, k>>] THEN -s ELSE 0
    BY <1>9
  <2>2. QED BY <1>5, <1>8, <2>1, <1>10, <1>11, Positions
<1>13. positions_in_group(size', r) = 0
  BY <1>1, <1>10, <1>12
<1>14. QED BY <1>13 DEF r

LEMMA FillInv ==
  ASSUME TypeOK, TypeOK', MarketInv, Percent = 100, NEW o \in Orders,
         FillOrder(o), err' = "none"
  PROVE  MarketInv'
<1> DEFINE u == CalledUntil(o)
<1>1. /\ pc = "bar" /\ o \in scan
      /\ place[o] = "active" /\ ~filled[o] /\ ~stopped[o] /\ until[o]
      /\ IsExit(o) => filled[Parent(o)]
      /\ size' = [size EXCEPT ![o] = Signed(o)]
      /\ filled' = [filled EXCEPT ![o] = TRUE]
      /\ filled_at' = [filled_at EXCEPT ![o] = last_market_sync_time]
  BY FillFacts
<1>2. /\ UNCHANGED <<group, start, last_market_sync_time, gray_bar_end, pc>>
      /\ replace_finished_orders(u)
      /\ scan' = scan \ {o}
      /\ start[o]
  BY DEF FillOrder, clockVars, IsNext, Started
<1>3. u \in [Orders -> BOOLEAN] /\ \A p \in Orders : u[p] => until[p]
  BY UntilTypeOK, UntilOnlyFalls
<1>4. /\ size \in [Orders -> Int] /\ filled \in [Orders -> BOOLEAN]
      /\ filled_at \in [Orders -> Nat]
      /\ place \in [Orders -> {"absent", "new", "active", "finished"}]
      /\ last_market_sync_time \in Nat
  BY DEF TypeOK
<1>5. \A p \in Orders :
        /\ filled'[p] <=> filled[p] \/ p = o
        /\ size'[p] = IF p = o THEN Signed(o) ELSE size[p]
        /\ filled_at'[p] = IF p = o THEN last_market_sync_time ELSE filled_at[p]
  BY <1>1, <1>4
<1>6. \A p \in Orders :
        /\ place'[p] = IF place[p] = "active" /\ (p = o \/ ~u[p]) THEN "finished"
                       ELSE place[p]
        /\ stopped'[p] <=> place'[p] = "finished"
        /\ until'[p] => u[p]
  <2> SUFFICES ASSUME NEW p \in Orders
               PROVE  /\ place'[p] = IF place[p] = "active" /\ (p = o \/ ~u[p])
                                     THEN "finished" ELSE place[p]
                      /\ stopped'[p] <=> place'[p] = "finished"
                      /\ until'[p] => u[p]
    OBVIOUS
  <2>1. place[p] = "active" => ~filled[p] /\ ~stopped[p]
    BY DEF MarketInv, Placed
  <2>2. stopped[p] <=> place[p] = "finished"
    BY DEF MarketInv, Placed
  <2> HIDE DEF u
  <2>3. QED BY <1>2, <1>3, <1>5, <2>1, <2>2, ReplaceFacts
<1>7. Placed'
  <2> SUFFICES ASSUME NEW p \in Orders
               PROVE  /\ stopped'[p] <=> place'[p] = "finished"
                      /\ filled'[p] => place'[p] = "finished"
                      /\ place'[p] = "finished" => filled'[p] \/ ~until'[p]
                      /\ place'[p] # "absent" => p \in Members(Req(p))'
    BY DEF Placed
  <2>1. Members(Req(p))' = Members(Req(p))
    BY <1>2 DEF Members
  <2> HIDE DEF u
  <2>2. QED BY <2>1, <1>1, <1>3, <1>5, <1>6 DEF MarketInv, Placed
<1>8. Together'
  <2> SUFFICES ASSUME NEW r \in Requests, NEW p \in Members(r), NEW q \in Members(r)
               PROVE  /\ place'[p] = "absent" => place'[q] = "absent"
                      /\ place'[p] = "new" => place'[q] = "new"
    BY <1>2 DEF Together, Members
  <2>1. p \in Orders /\ q \in Orders
    BY MembersFacts
  <2> HIDE DEF u
  <2>2. QED BY <2>1, <1>6 DEF MarketInv, Together
<1>9. Sized'
  <2>1. \A p \in Orders : Signed(p)' = Signed(p)
    BY <1>2 DEF Signed, Action
  <2>2. QED BY <2>1, <1>5 DEF MarketInv, Sized
<1>10. EntryFirst'
  <2> SUFFICES ASSUME NEW p \in Orders, filled'[p] PROVE filled'[Parent(p)]
    BY DEF EntryFirst
  <2>1. Parent(p) \in Orders /\ (Kind(p) = "enter" => Parent(p) = p)
    BY OrderParts
  <2>2. QED BY <2>1, <1>1, <1>5 DEF MarketInv, EntryFirst, IsExit
<1>11. OneExit'
  <2> SUFFICES ASSUME NEW p \in Orders, NEW q \in Orders,
                      Req(p) = Req(q), IsExit(p), IsExit(q), p # q, filled'[p]
               PROVE  ~filled'[q] /\ (place'[q] = "absent" \/ ~until'[q])
    BY DEF OneExit
  <2>1. CASE p # o
    <3>1. ~filled[q] /\ (place[q] = "absent" \/ ~until[q])
      BY <1>5, <2>1 DEF MarketInv, OneExit
    <3>2. q # o
      BY <1>1, <3>1
    <3> HIDE DEF u
    <3>3. QED BY <1>3, <1>5, <1>6, <3>1, <3>2
  <2>2. CASE p = o
    <3>1. ~filled[q] /\ ~filled'[q]
      BY <1>1, <1>5, <2>2 DEF MarketInv, OneExit
    <3>2. Parent(q) = Parent(o) /\ Parent(q) \in Orders /\ Req(q) \in Requests
      BY <2>2, OrderParts DEF Parent, Req
    <3>3. filled'[Parent(q)]
      BY <1>1, <1>5, <2>2, <3>2
    <3>4. Lapsed(q, filled', stopped', size', last_market_sync_time')
      <4>1. positions_in_group(size', Req(q)) = 0
        BY <2>2, FlatAfterExit
      <4>2. QED BY <3>3, <4>1 DEF Lapsed, IsExit
    <3>5. CASE place[q] = "active"
      <4>1. ~stopped[q]
        BY <3>5 DEF MarketInv, Placed
      <4> HIDE DEF u
      <4>2. ~until'[q]
        BY <1>2, <1>3, <3>1, <3>4, <3>5, <4>1, ReplaceFacts
      <4>3. QED BY <3>1, <4>2
    <3>6. CASE place[q] = "finished"
      <4>1. ~until[q]
        BY <3>1, <3>6 DEF MarketInv, Placed
      <4> HIDE DEF u
      <4>2. QED BY <1>3, <1>6, <3>1, <4>1
    <3>7. CASE place[q] = "absent"
      <4> HIDE DEF u
      <4>1. QED BY <1>6, <3>1, <3>7
    <3>8. place[q] # "new"
      <4>1. place[q] = "new" => q \in Members(Req(q)) /\ o \in Members(Req(q))
        BY <1>1, <2>2 DEF MarketInv, Placed
      <4>2. QED BY <1>1, <3>2, <4>1 DEF MarketInv, Together
    <3>9. QED BY <1>4, <3>5, <3>6, <3>7, <3>8
  <2>3. QED BY <2>1, <2>2
<1>12. ScanOK'
  <2> SUFFICES ASSUME NEW p \in scan, p # o
               PROVE  ~filled'[p] /\ place'[p] \in {"active", "finished"}
    BY <1>2 DEF ScanOK
  <2>1. p \in Orders
    BY DEF TypeOK
  <2>2. ~filled[p] /\ place[p] \in {"active", "finished"}
    BY <1>1 DEF MarketInv, ScanOK
  <2> HIDE DEF u
  <2>3. QED BY <1>5, <1>6, <2>1, <2>2
<1>13. StartOK'
  <2> SUFFICES ASSUME NEW p \in Orders, start[p], StartsWithParent(p)
               PROVE  /\ filled'[Parent(p)]
                      /\ p \in scan =>
                           filled_at'[Parent(p)] < last_market_sync_time
    BY <1>2 DEF StartOK
  <2>1. Parent(p) \in Orders
    BY OrderParts
  <2>2. /\ filled[Parent(p)]
        /\ p \in scan => filled_at[Parent(p)] < last_market_sync_time
    BY <1>1 DEF MarketInv, StartOK
  <2>3. QED BY <1>1, <1>5, <2>1, <2>2
<1>14. HistoryOK' /\ GrayBarAhead'
  BY <1>1, <1>2, <1>4, <1>5 DEF MarketInv, HistoryOK, GrayBarAhead
<1>15. NothingLeftAfterExit' /\ NoFillRejected'
  BY <1>1, <1>2 DEF NothingLeftAfterExit, NoFillRejected
<1>16. ExitInLaterBar'
  <2> SUFFICES ASSUME NEW p \in Orders, filled'[p],
                      Kind(p) \in {"profit", "stop", "trail"}
               PROVE  filled'[Parent(p)] /\ filled_at'[Parent(p)] < filled_at'[p]
    BY DEF ExitInLaterBar
  <2>1. Parent(p) \in Orders /\ Kind(Parent(p)) = "enter"
    BY OrderParts
  <2>2. CASE p = o
    <3>1. filled[Parent(o)] /\ filled_at[Parent(o)] < last_market_sync_time
      BY <1>1, <1>2, <2>2 DEF MarketInv, StartOK, StartsWithParent
    <3>2. QED BY <1>5, <2>1, <2>2, <3>1
  <2>3. CASE p # o
    <3>1. filled[p]
      BY <1>5, <2>3
    <3>2. filled[Parent(p)] /\ filled_at[Parent(p)] < filled_at[p]
      BY <3>1 DEF MarketInv, ExitInLaterBar
    <3>3. Parent(p) # o
      BY <1>1, <3>2
    <3>4. QED BY <1>5, <2>1, <2>3, <3>2, <3>3
  <2>4. QED BY <2>2, <2>3
<1>17. QED
  BY <1>7, <1>8, <1>9, <1>10, <1>11, <1>12, <1>13, <1>14, <1>15, <1>16
     DEF MarketInv

-----------------------------------------------------------------------------
(* All steps together.                                                     *)

LEMMA StepInv ==
  ASSUME TypeOK, TypeOK', MarketInv, Percent = 100, [Next]_marketVars
  PROVE  MarketInv'
<1>1. CASE UNCHANGED marketVars
  BY <1>1, QuietInv
     DEF marketVars, orderVars, clockVars, flowVars, MarketInv, NoFillRejected, StartOK
<1>2. ASSUME NEW r \in Requests, new_order(r) PROVE MarketInv'
  BY <1>2, NewOrderInv
<1>3. ASSUME NEW r \in Requests, NEW s \in BOOLEAN, SetSignal(r, s)
      PROVE  MarketInv'
  BY <1>3, QuietInv DEF SetSignal, Idle, Running, clockVars, flowVars
<1>4. ASSUME NEW t \in 0..MaxTime, NEW c \in Calls, sync_with_trader(c, t)
      PROVE  MarketInv'
  <2>1. /\ UNCHANGED <<group, place, start, until, filled, stopped, size,
                       filled_at, clockVars>>
        /\ pc # "bar" /\ pc' # "bar"
        /\ err' \notin {"assertion", "order overfilled"}
    BY <1>4 DEF sync_with_trader, Idle, Running, orderVars, flowVars
  <2>2. QED BY <2>1, QuietInv
<1>5. CASE ProcessBar
  BY <1>5, ProcessBarInv
<1>6. ASSUME NEW o \in Orders, SkipOrder(o) PROVE MarketInv'
  <2>1. /\ UNCHANGED <<group, place, until, filled, stopped, size, filled_at,
                       clockVars, pc, err>>
        /\ pc = "bar" /\ scan' = scan \ {o} /\ err = "none"
        /\ start' = [start EXCEPT ![o] = @ \/ StartMet(o, filled, last_market_sync_time, signal)]
    BY <1>6 DEF SkipOrder, IsNext, Running
  <2>2. \A p \in Orders : start'[p] /\ StartsWithParent(p) =>
          \/ start[p]
          \/ filled[Parent(p)] /\ ~(pc' = "bar" /\ p \in scan')
    BY <2>1 DEF StartMet, StartsWithParent, TypeOK
  <2>3. QED BY <2>1, <2>2, QuietInv
<1>7. ASSUME NEW o \in Orders, MissOrder(o) PROVE MarketInv'
  <2>1. /\ UNCHANGED <<group, place, start, filled, stopped, size, filled_at,
                       clockVars, pc, err>>
        /\ pc = "bar" /\ scan' = scan \ {o} /\ err = "none"
        /\ until' = CalledUntil(o)
    BY <1>7 DEF MissOrder, IsNext, Running
  <2>2. QED BY <2>1, UntilOnlyFalls, QuietInv
<1>8. ASSUME NEW o \in Orders, FillOrder(o) PROVE MarketInv'
  <2>1. CASE err' = "none"
    BY <1>8, <2>1, FillInv
  <2>2. CASE err' # "none"
    <3>1. err' = "size is text"
      BY <1>8, <2>2, FillFacts
    <3>2. /\ UNCHANGED <<group, place, start, filled, stopped, size, filled_at,
                         clockVars, pc>>
          /\ pc = "bar" /\ scan' = scan \ {o}
          /\ until' = CalledUntil(o)
      BY <1>8, <2>2 DEF FillOrder, register_new_action, IsNext
    <3>3. QED BY <3>1, <3>2, UntilOnlyFalls, QuietInv
  <2>3. QED BY <2>1, <2>2
<1>9. CASE FinishBar
  <2>1. CASE pc' = "sync"
    BY <1>9, <2>1, FinishBarInv
  <2>2. CASE pc' # "sync"
    <3>1. /\ UNCHANGED <<group, place, start, until, filled, stopped, size,
                         filled_at, clockVars, pc, scan>>
          /\ err' = "market out of data"
      BY <1>9, <2>2 DEF FinishBar
    <3>2. QED BY <3>1, QuietInv
  <2>3. QED BY <2>1, <2>2
<1>10. CASE AdvanceToTarget \/ FinishSync
  BY <1>10, SyncEndInv
<1>11. CASE activate_new_orders
  BY <1>11, ActivateInv
<1>12. ASSUME NEW o \in Orders, change_existing_order(o) PROVE MarketInv'
  <2>1. /\ UNCHANGED <<group, place, start, until, filled, stopped, size,
                       filled_at, clockVars, scan>>
        /\ pc = "return" /\ pc' \in {"idle", "return"}
        /\ err' \in {"none", "no such active order"}
    BY <1>12 DEF change_existing_order, Running, orderVars
  <2>2. QED BY <2>1, QuietInv
<1>13. QED
  BY <1>1, <1>2, <1>3, <1>4, <1>5, <1>6, <1>7, <1>8, <1>9, <1>10, <1>11, <1>12
     DEF Next, Client, Engine, SyncStep, Halted

(* The inductive invariant holds in every reachable state, when every      *)
(* close order is for the whole position.                                  *)
THEOREM Invariant ==
  ASSUME Percent = 100 PROVE Spec => [](TypeOK /\ MarketInv)
<1>1. TypeOK /\ MarketInv /\ TypeOK' /\ [Next]_marketVars => MarketInv'
  BY StepInv
<1>2. Init => MarketInv
  BY InitInv
<1>3. Spec => []TypeOK
  BY TypeCorrect
<1>4. QED BY <1>1, <1>2, <1>3, PTL DEF Spec

(* What a group holds: the position of its entry until an exit fills.      *)
LEMMA GroupPosition ==
  ASSUME TypeOK, MarketInv, NEW r \in Requests
  PROVE  /\ Signed(<<r, "enter">>) =
              IF group[r].action = "buy" THEN OrderSize ELSE -OrderSize
         /\ Signed(<<r, "enter">>) \in Int
         /\ positions_in_group(size, r) =
              IF \E k \in ChildKinds : filled[<<r, k>>] THEN 0
              ELSE IF filled[<<r, "enter">>] THEN Signed(<<r, "enter">>) ELSE 0
<1> DEFINE s == Signed(<<r, "enter">>)
<1>1. \A k \in ChildKinds : /\ <<r, k>> \in Orders
                            /\ Req(<<r, k>>) = r /\ Kind(<<r, k>>) = k
                            /\ IsExit(<<r, k>>)
                            /\ Parent(<<r, k>>) = <<r, "enter">>
  BY OrderOfParts DEF Kinds, ChildKinds, IsExit
<1>2. <<r, "enter">> \in Orders /\ Kind(<<r, "enter">>) = "enter"
      /\ Req(<<r, "enter">>) = r
  BY OrderOfParts DEF Kinds
<1>3. /\ s = IF group[r].action = "buy" THEN OrderSize ELSE -OrderSize
      /\ s \in Int
  BY <1>2, MarketAssumption DEF Signed, Action
<1>4. \A k \in ChildKinds : Signed(<<r, k>>) = -s
  <2>1. group[r].action \in {"buy", "sell"}
    <3>1. group[r] \in GroupDef
      BY MarketAssumption DEF TypeOK
    <3>2. QED BY <3>1 DEF GroupDef
  <2>2. \A k \in ChildKinds : Action(<<r, k>>) = Opposite(group[r].action)
    BY <1>1 DEF Action, IsExit
  <2>3. \A k \in ChildKinds : Signed(<<r, k>>) =
          IF Opposite(group[r].action) = "buy" THEN OrderSize ELSE -OrderSize
    BY <2>2 DEF Signed
  <2>4. OrderSize \in Nat
    BY MarketAssumption
  <2> HIDE DEF s
  <2>5. QED BY <1>3, <2>1, <2>3, <2>4 DEF Opposite
<1>5. /\ size[<<r, "enter">>] = IF filled[<<r, "enter">>] THEN s ELSE 0
      /\ \A k \in ChildKinds : size[<<r, k>>] = IF filled[<<r, k>>] THEN -s ELSE 0
  BY <1>1, <1>2, <1>4 DEF MarketInv, Sized
<1>6. /\ \A k \in ChildKinds : filled[<<r, k>>] => filled[<<r, "enter">>]
      /\ \A k, l \in ChildKinds : filled[<<r, k>>] /\ filled[<<r, l>>] => k = l
  BY <1>1 DEF MarketInv, EntryFirst, OneExit
<1> HIDE DEF s
<1>7. positions_in_group(size, r) =
        IF \E k \in ChildKinds : filled[<<r, k>>] THEN 0
        ELSE IF filled[<<r, "enter">>] THEN s ELSE 0
  BY <1>3, <1>5, <1>6, Positions
<1>8. QED BY <1>3, <1>7 DEF s

LEMMA NeverReversed ==
  ASSUME TypeOK, MarketInv PROVE GroupNeverReversed
  BY GroupPosition DEF GroupNeverReversed

(* Whatever the bars reach, in whatever order the stop, profit, trailing,  *)
(* signal and end-of-day orders of a group come, its position is that of   *)
(* its entry or nothing.                                                   *)
THEOREM GroupSafety ==
  ASSUME Percent = 100 PROVE Spec => []GroupNeverReversed
<1>1. TypeOK /\ MarketInv => GroupNeverReversed
  BY NeverReversed
<1>2. QED BY <1>1, Invariant, PTL

(* No fill is ever refused by OrderInfo.                                   *)
THEOREM FillSafety ==
  ASSUME Percent = 100 PROVE Spec => []NoFillRejected
<1>1. MarketInv => NoFillRejected
  BY DEF MarketInv
<1>2. QED BY <1>1, Invariant, PTL

(* At the end of the bar in which one exit filled, its whole group is on   *)
(* the finished list.                                                      *)
THEOREM ExitSafety ==
  ASSUME Percent = 100 PROVE Spec => []NothingLeftAfterExit
<1>1. MarketInv => NothingLeftAfterExit
  BY DEF MarketInv
<1>2. QED BY <1>1, Invariant, PTL

(* No exit that starts with its entry fills inside the bar of the entry,   *)
(* and the market time runs strictly before the bar it waits for.          *)
THEOREM BarSafety ==
  ASSUME Percent = 100 PROVE Spec => [](ExitInLaterBar /\ GrayBarAhead)
<1>1. MarketInv => ExitInLaterBar /\ GrayBarAhead
  BY DEF MarketInv
<1>2. QED BY <1>1, Invariant, PTL

-----------------------------------------------------------------------------
(* What a step does to the orders and to the position of a group.          *)

(* How a step moves an order from list to list.                            *)
PlaceMoves(o) ==
  \/ place'[o] = place[o]
  \/ place[o] = "absent" /\ place'[o] = "new"
  \/ place[o] = "new" /\ place'[o] = "active"
  \/ place[o] = "active" /\ place'[o] = "finished"

LEMMA BookMoves ==
  ASSUME TypeOK, [Next]_marketVars
  PROVE  /\ group' = group
         /\ \A o \in Orders : PlaceMoves(o)
<1>1. group' = group
  BY DEF Next, Client, Engine, SyncStep, Halted, marketVars, new_order,
         SetSignal, sync_with_trader, ProcessBar, SkipOrder, MissOrder,
         FillOrder, FinishBar, AdvanceToTarget, FinishSync,
         activate_new_orders, change_existing_order
<1>2. SUFFICES ASSUME NEW o \in Orders PROVE PlaceMoves(o)
  BY <1>1
<1>3. CASE UNCHANGED place
  BY <1>3 DEF PlaceMoves
<1>4. ASSUME NEW r \in Requests, new_order(r) PROVE PlaceMoves(o)
  BY <1>4 DEF new_order, Unknown, PlaceMoves
<1>5. ASSUME NEW u \in [Orders -> BOOLEAN], replace_finished_orders(u)
      PROVE  PlaceMoves(o)
  BY <1>5, ReplaceFacts DEF PlaceMoves
<1>6. ASSUME NEW p \in Orders, FillOrder(p) PROVE PlaceMoves(o)
  <2>1. CASE err' = "none"
    BY <1>5, <1>6, <2>1, UntilTypeOK DEF FillOrder
  <2>2. CASE err' # "none"
    BY <1>3, <1>6, <2>2 DEF FillOrder
  <2>3. QED BY <2>1, <2>2
<1>7. CASE FinishBar \/ AdvanceToTarget \/ FinishSync
  BY <1>3, <1>5, <1>7, UntilTypeOK
     DEF FinishBar, AdvanceToTarget, FinishSync, TypeOK
<1>8. CASE activate_new_orders
  BY <1>8 DEF activate_new_orders, PlaceMoves
<1>9. QED
  BY <1>3, <1>4, <1>6, <1>7, <1>8
     DEF Next, Client, Engine, SyncStep, Halted, marketVars, orderVars,
         SetSignal, sync_with_trader, ProcessBar, SkipOrder, MissOrder,
         change_existing_order

(* Only a fill changes what is filled, and it fills one order.             *)
LEMMA OneFill ==
  ASSUME TypeOK, MarketInv, Percent = 100, [Next]_marketVars
  PROVE  \/ UNCHANGED <<filled, size>>
         \/ \E o \in Orders : FillOrder(o) /\ err' = "none"
<1>1. ASSUME NEW o \in Orders, FillOrder(o), err' # "none"
      PROVE  UNCHANGED <<filled, size>>
  BY <1>1 DEF FillOrder, register_new_action
<1>2. QED
  BY <1>1
     DEF Next, Client, Engine, SyncStep, Halted, marketVars, orderVars,
         new_order, SetSignal, sync_with_trader, ProcessBar, SkipOrder,
         MissOrder, FinishBar, AdvanceToTarget, FinishSync,
         activate_new_orders, change_existing_order

LEMMA FinalStep ==
  ASSUME TypeOK, MarketInv, MarketInv', Percent = 100, [Next]_marketVars,
         NEW o \in Orders, place[o] = "finished"
  PROVE  place'[o] = "finished" /\ size'[o] = size[o] /\ stopped'[o]
<1>1. SUFFICES place'[o] = "finished" /\ size'[o] = size[o]
  BY DEF MarketInv, Placed
<1>2. CASE UNCHANGED <<place, size>>
  BY <1>2
<1>3. ASSUME NEW r \in Requests, new_order(r)
      PROVE  place'[o] = "finished" /\ size'[o] = size[o]
  BY <1>3 DEF new_order, Unknown
<1>4. ASSUME NEW p \in Orders, FillOrder(p)
      PROVE  place'[o] = "finished" /\ size'[o] = size[o]
  <2>1. p # o
    BY <1>4, FillFacts
  <2>2. CASE err' = "none"
    <3>1. replace_finished_orders(CalledUntil(p))
          /\ size' = [size EXCEPT ![p] = Signed(p)]
      BY <1>4, <2>2, FillFacts DEF FillOrder
    <3>2. place'[o] = "finished"
      BY <3>1, UntilTypeOK, ReplaceFacts
    <3>3. QED BY <2>1, <3>1, <3>2 DEF TypeOK
  <2>3. CASE err' # "none"
    BY <1>4, <2>3 DEF FillOrder, register_new_action
  <2>4. QED BY <2>2, <2>3
<1>5. CASE FinishBar \/ AdvanceToTarget \/ FinishSync
  <2>1. size' = size
    BY <1>5 DEF FinishBar, AdvanceToTarget, FinishSync
  <2>2. place'[o] = "finished"
    BY <1>5, UntilTypeOK, ReplaceFacts
       DEF FinishBar, AdvanceToTarget, FinishSync, TypeOK
  <2>3. QED BY <2>1, <2>2
<1>6. CASE activate_new_orders
  BY <1>6 DEF activate_new_orders
<1>7. QED
  BY <1>2, <1>3, <1>4, <1>5, <1>6
     DEF Next, Client, Engine, SyncStep, Halted, marketVars, orderVars,
         SetSignal, sync_with_trader, ProcessBar, SkipOrder, MissOrder,
         change_existing_order

(* A finished order stays finished, with the position it finished with.    *)
THEOREM FinishedForGood ==
  ASSUME Percent = 100 PROVE Spec => FinishedIsFinal
<1>1. TypeOK /\ MarketInv /\ (TypeOK /\ MarketInv)' /\ [Next]_marketVars =>
        [\A o \in Orders : place[o] = "finished" =>
           place'[o] = "finished" /\ size'[o] = size[o] /\ stopped'[o]]_marketVars
  BY FinalStep
<1>2. QED BY <1>1, Invariant, PTL DEF FinishedIsFinal, Spec

-----------------------------------------------------------------------------
(* Reading the phase of a group off its orders.                            *)

LEMMA GroupOrders ==
  ASSUME TypeOK, MarketInv, NEW r \in Requests
  PROVE  /\ <<r, "enter">> \in Orders
         /\ \A o \in children(r) :
              /\ o \in Orders /\ Req(o) = r /\ IsExit(o)
              /\ Parent(o) = <<r, "enter">>
         /\ \A o \in Orders :
              Req(o) = r /\ IsExit(o) /\ place[o] # "absent" => o \in children(r)
<1>1. <<r, "enter">> \in Orders
  BY OrderOfParts DEF Kinds
<1>2. \A o \in children(r) : o \in Orders /\ Req(o) = r /\ IsExit(o)
  BY MembersFacts DEF IsExit
<1>3. \A o \in children(r) : Parent(o) = <<r, "enter">>
  BY <1>2 DEF Parent, Req
<1>4. \A o \in Orders :
        Req(o) = r /\ IsExit(o) /\ place[o] # "absent" => o \in children(r)
  BY MembersFacts DEF MarketInv, Placed, IsExit
<1>5. QED BY <1>1, <1>2, <1>3, <1>4

(* The position of a group follows from its phase.                         *)
HeldByPhase ==
  \A r \in Requests :
    /\ FullPosition[r] \in Int \ {0}
    /\ positions_in_group(size, r) =
         IF PhaseOf(r) = "open" THEN FullPosition[r] ELSE 0

LEMMA PhaseHolds == TypeOK /\ MarketInv => HeldByPhase
<1> SUFFICES ASSUME TypeOK, MarketInv, NEW r \in Requests
             PROVE  /\ FullPosition[r] \in Int \ {0}
                    /\ positions_in_group(size, r) =
                         IF PhaseOf(r) = "open" THEN FullPosition[r] ELSE 0
  BY DEF HeldByPhase
<1>1. FullPosition[r] = Signed(<<r, "enter">>)
  BY DEF FullPosition
<1>2. Signed(<<r, "enter">>) \in Int \ {0}
  BY GroupPosition, MarketAssumption
<1>3. (\E k \in ChildKinds : filled[<<r, k>>]) <=> \E o \in children(r) : filled[o]
  <2>1. ASSUME NEW k \in ChildKinds, filled[<<r, k>>]
        PROVE  <<r, k>> \in children(r)
    <3>1. <<r, k>> \in Orders /\ Req(<<r, k>>) = r /\ IsExit(<<r, k>>)
      BY OrderOfParts DEF Kinds, ChildKinds, IsExit
    <3>2. place[<<r, k>>] = "finished"
      BY <2>1, <3>1 DEF MarketInv, Placed
    <3>3. QED BY <3>1, <3>2, GroupOrders
  <2>2. ASSUME NEW o \in children(r)
        PROVE  Kind(o) \in ChildKinds /\ o = <<r, Kind(o)>>
    BY GroupOrders, OrderParts DEF IsExit, Kinds
  <2>3. QED BY <2>1, <2>2
<1>4. PhaseOf(r) = "open" <=>
        filled[<<r, "enter">>] /\ ~\E o \in children(r) : filled[o]
  BY DEF PhaseOf
<1>5. positions_in_group(size, r) =
        IF \E k \in ChildKinds : filled[<<r, k>>] THEN 0
        ELSE IF filled[<<r, "enter">>] THEN Signed(<<r, "enter">>) ELSE 0
  BY GroupPosition
<1>6. QED BY <1>1, <1>2, <1>3, <1>4, <1>5

-----------------------------------------------------------------------------
(* How a step moves a group from phase to phase.                           *)

(* A group in which nothing fills rests, is sent or is withdrawn.          *)
LEMMA QuietPhase ==
  ASSUME TypeOK, MarketInv, NEW r \in Requests,
         group' = group, PlaceMoves(<<r, "enter">>), TypeOK',
         \A o \in Orders : Req(o) = r => (filled'[o] <=> filled[o])
  PROVE  \/ PhaseOf(r)' = PhaseOf(r)
         \/ PhaseOf(r) = "none" /\ PhaseOf(r)' = "working"
         \/ PhaseOf(r) = "working" /\ PhaseOf(r)' = "withdrawn"
<1> DEFINE e == <<r, "enter">>
<1>1. children(r)' = children(r)
  BY DEF children, Members
<1>2. e \in Orders /\ Req(e) = r
  BY GroupOrders DEF Req
<1>3. (\E o \in children(r) : filled[o]) <=> \E o \in children(r)' : filled'[o]
  BY <1>1, GroupOrders
<1>4. filled'[e] <=> filled[e]
  BY <1>2
<1>5. /\ place[e] \in {"absent", "new", "active", "finished"}
      /\ place'[e] \in {"absent", "new", "active", "finished"}
  BY <1>2 DEF TypeOK
<1>6. CASE (\E o \in children(r) : filled[o]) \/ filled[e]
  BY <1>3, <1>4, <1>6 DEF PhaseOf
<1>7. CASE ~(\E o \in children(r) : filled[o]) /\ ~filled[e]
  <2>1. PhaseOf(r) = CASE place[e] = "absent"   -> "none"
                       [] place[e] = "finished" -> "withdrawn"
                       [] OTHER                 -> "working"
    BY <1>7 DEF PhaseOf
  <2>2. PhaseOf(r)' = CASE place'[e] = "absent"   -> "none"
                        [] place'[e] = "finished" -> "withdrawn"
                        [] OTHER                  -> "working"
    BY <1>3, <1>4, <1>7 DEF PhaseOf
  <2>3. QED BY <1>5, <2>1, <2>2 DEF PlaceMoves
<1>8. QED BY <1>6, <1>7

(* The fill of an entry opens its group, the fill of an exit closes it.    *)
LEMMA FillPhase ==
  ASSUME TypeOK, MarketInv, Percent = 100, group' = group,
         NEW o \in Orders, FillOrder(o), err' = "none"
  PROVE  \/ PhaseOf(Req(o)) = "working" /\ PhaseOf(Req(o))' = "open"
         \/ PhaseOf(Req(o)) = "open" /\ PhaseOf(Req(o))' = "closed"
<1> DEFINE r == Req(o)
           e == <<r, "enter">>
<1>1. /\ r \in Requests /\ Parent(o) = e
      /\ ~IsExit(o) => o = e
  BY OrderParts DEF Parent, Req, IsExit
<1>2. /\ place[o] = "active" /\ ~filled[o] /\ until[o]
      /\ filled' = [filled EXCEPT ![o] = TRUE]
      /\ IsExit(o) => filled[Parent(o)]
  BY FillFacts
<1>3. children(r)' = children(r)
  BY DEF children, Members
<1>4. filled'[o] /\ \A p \in Orders \ {o} : filled'[p] = filled[p]
  BY <1>2 DEF TypeOK
<1>5. CASE ~IsExit(o)
  <2>1. \A p \in children(r) : ~filled[p] /\ ~filled'[p]
    <3>1. \A p \in children(r) : p \in Orders /\ p # o /\ Parent(p) = o
      BY <1>1, <1>5, GroupOrders
    <3>2. QED BY <1>2, <1>4, <3>1 DEF MarketInv, EntryFirst
  <2>2. PhaseOf(r) = "working"
    BY <1>1, <1>2, <1>5, <2>1 DEF PhaseOf
  <2>3. PhaseOf(r)' = "open"
    BY <1>1, <1>3, <1>4, <1>5, <2>1 DEF PhaseOf
  <2>4. QED BY <2>2, <2>3
<1>6. CASE IsExit(o)
  <2>1. o \in children(r)
    BY <1>1, <1>2, <1>6, GroupOrders
  <2>2. \A p \in children(r) : ~filled[p]
    <3> SUFFICES ASSUME NEW p \in children(r), filled[p] PROVE FALSE
      OBVIOUS
    <3>1. p \in Orders /\ Req(p) = r /\ IsExit(p) /\ p # o
      BY <1>1, <1>2, GroupOrders
    <3>2. QED BY <1>2, <1>6, <3>1 DEF MarketInv, OneExit
  <2>3. PhaseOf(r) = "open"
    BY <1>1, <1>2, <1>6, <2>2 DEF PhaseOf
  <2>4. PhaseOf(r)' = "closed"
    BY <1>3, <1>4, <2>1 DEF PhaseOf
  <2>5. QED BY <2>3, <2>4
<1>7. QED BY <1>5, <1>6

-----------------------------------------------------------------------------
(* The refinement.                                                         *)

LEMMA LifeInit == Init => Life!Init
<1> SUFFICES ASSUME Init PROVE Life!Init
  OBVIOUS
<1>1. TypeOK /\ MarketInv
  BY InitTypeOK, InitInv
<1>2. FullPosition \in [Requests -> Int \ {0}]
  BY <1>1, PhaseHolds DEF HeldByPhase, FullPosition
<1>3. \A r \in Requests : PhaseOf(r) = "none"
  <2> SUFFICES ASSUME NEW r \in Requests PROVE PhaseOf(r) = "none"
    OBVIOUS
  <2>1. <<r, "enter">> \in Orders /\ children(r) \subseteq Orders
    BY <1>1, GroupOrders
  <2>2. \A o \in Orders : ~filled[o] /\ place[o] = "absent"
    BY DEF Init
  <2>3. QED BY <2>1, <2>2 DEF PhaseOf
<1>4. \A r \in Requests : positions_in_group(size, r) = 0
  BY <1>1, <1>3, PhaseHolds DEF HeldByPhase
<1>5. QED BY <1>2, <1>3, <1>4 DEF Life!Init

LEMMA LifeStep ==
  ASSUME TypeOK, MarketInv, TypeOK', MarketInv', HeldByPhase, HeldByPhase',
         Percent = 100, [Next]_marketVars
  PROVE  Life!Next
<1> DEFINE Held(r) == positions_in_group(size, r)
<1>1. group' = group /\ \A o \in Orders : PlaceMoves(o)
  BY BookMoves
<1>2. FullPosition' = FullPosition
  BY <1>1 DEF FullPosition, Signed, Action
<1>3. \A r \in Requests :
        /\ FullPosition[r] \in Int
        /\ Held(r) = IF PhaseOf(r) = "open" THEN FullPosition[r] ELSE 0
        /\ Held(r)' = IF PhaseOf(r)' = "open" THEN FullPosition[r] ELSE 0
  BY <1>2 DEF HeldByPhase
<1>4. \A r \in Requests : /\ PhaseOf(r) \in Life!Phases
                          /\ PhaseOf(r)' \in Life!Phases
  BY DEF PhaseOf, Life!Phases
<1>5. ASSUME NEW r \in Requests,
             \A o \in Orders : Req(o) = r => (filled'[o] <=> filled[o])
      PROVE  /\ \/ PhaseOf(r)' = PhaseOf(r)
                \/ PhaseOf(r) = "none" /\ PhaseOf(r)' = "working"
                \/ PhaseOf(r) = "working" /\ PhaseOf(r)' = "withdrawn"
             /\ Held(r)' = Held(r)
  <2>1. PlaceMoves(<<r, "enter">>)
    BY <1>1, GroupOrders
  <2>2. \/ PhaseOf(r)' = PhaseOf(r)
        \/ PhaseOf(r) = "none" /\ PhaseOf(r)' = "working"
        \/ PhaseOf(r) = "working" /\ PhaseOf(r)' = "withdrawn"
    BY <1>1, <1>5, <2>1, QuietPhase
  <2> HIDE DEF Held
  <2>3. QED BY <1>3, <2>2
<1>6. \A o \in Orders : Req(o) \in Requests
  BY OrderParts
<1>7. \A r \in Requests :
        \/ PhaseOf(r)' = PhaseOf(r)
        \/ PhaseOf(r) = "none" /\ PhaseOf(r)' = "working"
        \/ PhaseOf(r) = "working" /\ PhaseOf(r)' = "withdrawn"
        \/ PhaseOf(r) = "working" /\ PhaseOf(r)' = "open"
        \/ PhaseOf(r) = "open" /\ PhaseOf(r)' = "closed"
  <2> HIDE DEF Held
  <2>1. CASE filled' = filled
    BY <1>5, <2>1
  <2>2. ASSUME NEW o \in Orders, FillOrder(o), err' = "none", NEW r \in Requests
        PROVE  \/ PhaseOf(r)' = PhaseOf(r)
               \/ PhaseOf(r) = "none" /\ PhaseOf(r)' = "working"
               \/ PhaseOf(r) = "working" /\ PhaseOf(r)' = "withdrawn"
               \/ PhaseOf(r) = "working" /\ PhaseOf(r)' = "open"
               \/ PhaseOf(r) = "open" /\ PhaseOf(r)' = "closed"
    <3>1. CASE r = Req(o)
      BY <1>1, <2>2, <3>1, FillPhase
    <3>2. CASE r # Req(o)
      <4>1. \A p \in Orders : Req(p) = r => filled'[p] = filled[p]
        BY <2>2, <3>2, FillFacts DEF TypeOK
      <4>2. QED BY <1>5, <4>1
    <3>3. QED BY <3>1, <3>2
  <2>3. QED BY <2>1, <2>2, OneFill
<1>8. ASSUME NEW r \in Requests, NEW q \in Requests,
             Held(r)' # Held(r), Held(q)' # Held(q)
      PROVE  r = q
  <2> HIDE DEF Held
  <2>1. filled' # filled
    BY <1>5, <1>8
  <2>2. PICK o \in Orders : FillOrder(o) /\ err' = "none"
    BY <2>1, OneFill
  <2>3. \A p \in Orders : p # o => filled'[p] = filled[p]
    BY <2>2, FillFacts DEF TypeOK
  <2>4. \A g \in Requests : g # Req(o) => Held(g)' = Held(g)
    BY <1>5, <2>3
  <2>5. QED BY <1>8, <2>4
<1> DEFINE phaseF == [r \in Requests |-> PhaseOf(r)]
           heldF == [r \in Requests |-> Held(r)]
<1>9. \A r \in Requests :
        Life!Sent(r) \/ Life!Opened(r) \/ Life!Closed(r) \/ Life!Withdrawn(r)
          \/ Life!Rests(r)
  <2> SUFFICES ASSUME NEW r \in Requests
               PROVE  Life!Sent(r) \/ Life!Opened(r) \/ Life!Closed(r)
                        \/ Life!Withdrawn(r) \/ Life!Rests(r)
    OBVIOUS
  <2>1. /\ phaseF[r] = PhaseOf(r) /\ phaseF'[r] = PhaseOf(r)'
        /\ heldF[r] = Held(r) /\ heldF'[r] = Held(r)'
    OBVIOUS
  <2>2. Held(r)' = IF PhaseOf(r)' = "open" THEN FullPosition[r] ELSE 0
    BY <1>3
  <2>3. Held(r) = IF PhaseOf(r) = "open" THEN FullPosition[r] ELSE 0
    BY <1>3
  <2>4. \A from, to, position :
          PhaseOf(r) = from /\ PhaseOf(r)' = to /\ Held(r)' = position
            => Life!Goes(r, from, to, position)
    BY <2>1 DEF Life!Goes
  <2> HIDE DEF Held, phaseF, heldF
  <2>5. CASE PhaseOf(r)' = PhaseOf(r)
    <3>1. Held(r)' = Held(r)
      BY <2>2, <2>3, <2>5
    <3>2. Life!Rests(r)
      BY <2>1, <2>4, <2>5, <3>1 DEF Life!Rests, heldF, phaseF, Held
    <3>3. QED BY <3>2
  <2>6. QED
    BY <1>7, <2>2, <2>4, <2>5
       DEF Life!Sent, Life!Opened, Life!Closed, Life!Withdrawn
<1>10. phaseF' \in [Requests -> Life!Phases] /\ heldF' \in [Requests -> Int]
  <2>1. \A r \in Requests : Held(r)' \in Int
    <3> HIDE DEF Held
    <3>1. QED BY <1>3
  <2>2. QED BY <1>4, <2>1
<1>11. QED
  BY <1>2, <1>8, <1>9, <1>10 DEF Life!Next

(* For any number of groups, every behaviour of the order book is one of   *)
(* groups that are sent, opened whole, closed whole by one exit and never  *)
(* traded again.                                                           *)
THEOREM GroupLifeImplemented ==
  ASSUME Percent = 100 PROVE Spec => ImplementsGroupLife
<1>1. TypeOK /\ MarketInv => HeldByPhase
  BY PhaseHolds
<1>2. TypeOK /\ MarketInv /\ HeldByPhase /\ (TypeOK /\ MarketInv /\ HeldByPhase)'
        /\ [Next]_marketVars => [Life!Next]_Life!lifeVars
  BY LifeStep
<1>3. Init => Life!Init
  BY LifeInit
<1>4. QED
  BY <1>1, <1>2, <1>3, Invariant, PTL DEF Spec, ImplementsGroupLife, Life!Spec

-----------------------------------------------------------------------------
(*                                                                         *)
(* The trader on the order book.                                           *)
(*                                                                         *)

-----------------------------------------------------------------------------
(* Groups that are over.                                                   *)

LEMMA EntryFacts ==
  ASSUME NEW r \in Requests
  PROVE  /\ Entry(r) \in Orders /\ Req(Entry(r)) = r /\ Kind(Entry(r)) = "enter"
         /\ \A o \in Orders : Req(o) = r => Parent(o) = Entry(r)
  BY OrderOfParts, OrderParts DEF Entry, Kinds, Parent, Req, Orders

(* What fills changes the position of its own group only. *)
LEMMA SamePosition ==
  ASSUME NEW r \in Requests, \A o \in Orders : Req(o) = r => size'[o] = size[o]
  PROVE  positions_in_group(size, r)' = positions_in_group(size, r)
<1>1. \A k \in Kinds : size'[<<r, k>>] = size[<<r, k>>]
  BY OrderOfParts
<1>2. QED
  BY <1>1 DEF positions_in_group, Kinds, ChildKinds

(* A group that holds nothing while an exit could still fill has not       *)
(* traded.                                                                 *)
LEMMA NoExitLeft ==
  ASSUME TypeOK, MarketInv, NEW o \in Orders, IsExit(o), filled[Parent(o)],
         positions_in_group(size, Req(o)) = 0
  PROVE  filled[o] \/ place[o] = "absent" \/ ~until[o]
<1> DEFINE r == Req(o)
<1>1. r \in Requests /\ Parent(o) = <<r, "enter">>
  BY OrderParts DEF Parent, Req
<1>2. Signed(<<r, "enter">>) # 0
  BY <1>1, MarketAssumption DEF Signed
<1>3. PICK k \in ChildKinds : filled[<<r, k>>]
  BY <1>1, <1>2, GroupPosition
<1>4. <<r, k>> \in Orders /\ Req(<<r, k>>) = r /\ IsExit(<<r, k>>)
  BY <1>1, OrderOfParts DEF Kinds, ChildKinds, IsExit
<1>5. QED
  BY <1>3, <1>4 DEF MarketInv, OneExit

(* A group that is over never trades again. *)
LEMMA OverStays ==
  ASSUME TypeOK, MarketInv, MarketInv', Percent = 100, [Next]_marketVars,
         NEW r \in Requests, Over(r)
  PROVE  Over(r)' /\ \A o \in Orders : Req(o) = r => filled'[o] = filled[o]
<1>1. Entry(r) \in Orders /\ Req(Entry(r)) = r
  BY EntryFacts
<1>2. stopped'[Entry(r)]
  BY <1>1, FinalStep DEF Over, MarketInv, Placed
<1>3. SUFFICES \A o \in Orders : Req(o) = r => filled'[o] = filled[o] /\ size'[o] = size[o]
  BY <1>2, SamePosition DEF Over, Entry
<1>4. CASE UNCHANGED <<filled, size>>
  BY <1>4
<1>5. ASSUME NEW p \in Orders, FillOrder(p), err' = "none"
      PROVE  \A o \in Orders : Req(o) = r => filled'[o] = filled[o] /\ size'[o] = size[o]
  <2>1. /\ place[p] = "active" /\ ~filled[p] /\ ~stopped[p] /\ until[p]
        /\ IsExit(p) => filled[Parent(p)]
        /\ size' = [size EXCEPT ![p] = Signed(p)] /\ filled' = [filled EXCEPT ![p] = TRUE]
    BY <1>5, FillFacts
  <2>2. Req(p) # r
    <3>1. SUFFICES ASSUME Req(p) = r PROVE FALSE
      OBVIOUS
    <3>2. Kind(p) = "enter" => p = Entry(r)
      BY <3>1, OrderParts, EntryFacts
    <3>3. QED
      BY <2>1, <3>1, <3>2, NoExitLeft DEF Over, IsExit
  <2>3. QED
    BY <2>1, <2>2 DEF TypeOK
<1>6. QED
  BY <1>4, <1>5, OneFill

(* An exit lapses when its group is over, before a step and after it. *)
LEMMA LapsedIsOver ==
  ASSUME TypeOK, MarketInv, NEW o \in Orders, IsExit(o), NEW t,
         Lapsed(o, filled, stopped, size, t)
  PROVE  Over(Req(o))
<1>1. Parent(o) \in Orders /\ Parent(o) = Entry(Req(o))
  BY OrderParts, EntryFacts
<1>2. QED
  BY <1>1 DEF Lapsed, IsExit, Over, MarketInv, Placed

LEMMA LapsedIsOverNext ==
  ASSUME TypeOK', MarketInv', NEW o \in Orders, IsExit(o), NEW t,
         Lapsed(o, filled', stopped', size', t)
  PROVE  Over(Req(o))'
<1>1. Parent(o) \in Orders /\ Parent(o) = Entry(Req(o))
  BY OrderParts, EntryFacts
<1>2. QED
  BY <1>1 DEF Lapsed, IsExit, Over, MarketInv, Placed, Entry

(* An order ends when it is filled or withdrawn: an exit with its group. *)
LEMMA EndedIsOver ==
  ASSUME TypeOK, MarketInv, ExitsLapse, NEW o \in Orders, stopped[o],
         IsExit(o) \/ ~filled[o]
  PROVE  Over(Req(o))
<1> DEFINE r == Req(o)
<1>1. r \in Requests /\ o = <<r, Kind(o)>> /\ Parent(o) = Entry(r) /\ Entry(r) \in Orders
  BY OrderParts, EntryFacts
<1>2. CASE ~filled[o] /\ IsExit(o)
  BY <1>2 DEF ExitsLapse, MarketInv, Placed
<1>3. CASE filled[o] /\ IsExit(o)
  <2>1. Kind(o) \in ChildKinds
    BY <1>3, OrderParts DEF IsExit, Kinds
  <2>2. positions_in_group(size, r) = 0
    BY <1>1, <1>3, <2>1, GroupPosition
  <2>3. stopped[Entry(r)]
    BY <1>1, <1>3 DEF MarketInv, Placed, EntryFirst
  <2>4. QED
    BY <2>2, <2>3 DEF Over
<1>4. CASE ~filled[o] /\ ~IsExit(o)
  <2>1. o = Entry(r)
    BY <1>1, <1>4, OrderParts DEF IsExit
  <2>2. \A k \in ChildKinds : ~filled[<<r, k>>]
    <3>1. \A k \in ChildKinds : <<r, k>> \in Orders /\ Parent(<<r, k>>) = Entry(r)
      BY <1>1, OrderOfParts DEF Kinds, Entry
    <3>2. QED
      BY <1>4, <2>1, <3>1 DEF MarketInv, EntryFirst
  <2>3. positions_in_group(size, r) = 0
    BY <1>1, <1>4, <2>1, <2>2, GroupPosition DEF Entry
  <2>4. QED
    BY <2>1, <2>3 DEF Over
<1>5. QED
  BY <1>2, <1>3, <1>4

(* An exit is only withdrawn from a group that is over. *)
LEMMA ExitsLapseStep ==
  ASSUME TypeOK, TypeOK', MarketInv, MarketInv', Percent = 100, ExitsLapse, [Next]_marketVars
  PROVE  ExitsLapse'
<1> SUFFICES ASSUME NEW o \in Orders, IsExit(o), ~until'[o] PROVE Over(Req(o))'
  BY DEF ExitsLapse
<1>1. Over(Req(o)) => Over(Req(o))'
  BY OverStays, OrderParts
<1>2. CASE ~until[o]
  BY <1>1, <1>2 DEF ExitsLapse
<1>3. ASSUME NEW u \in [Orders -> BOOLEAN], replace_finished_orders(u), ~u[o] => Over(Req(o))
      PROVE  Over(Req(o))'
  <2>1. CASE ~u[o]
    BY <1>1, <1>3, <2>1
  <2>2. CASE u[o]
    <3>1. Lapsed(o, filled', stopped', size', last_market_sync_time')
      BY <1>3, <2>2 DEF replace_finished_orders
    <3>2. QED
      BY <3>1, LapsedIsOverNext
  <2>3. QED
    BY <2>1, <2>2
<1>4. ASSUME NEW p \in Orders, until[o], ~CalledUntil(p)[o] PROVE Over(Req(o))
  BY <1>4, LapsedIsOver DEF CalledUntil, TypeOK
<1>5. ASSUME NEW S, until[o], ~UpdatedUntil(S)[o] PROVE Over(Req(o))
  BY <1>5, LapsedIsOver DEF UpdatedUntil
<1>6. ASSUME NEW p \in Orders, MissOrder(p) PROVE Over(Req(o))'
  BY <1>1, <1>2, <1>4, <1>6 DEF MissOrder
<1>7. ASSUME NEW p \in Orders, FillOrder(p) PROVE Over(Req(o))'
  <2>1. CASE err' = "none"
    BY <1>2, <1>3, <1>4, <1>7, <2>1, UntilTypeOK DEF FillOrder
  <2>2. CASE err' # "none"
    BY <1>1, <1>2, <1>4, <1>7, <2>2 DEF FillOrder
  <2>3. QED
    BY <2>1, <2>2
<1>8. CASE FinishBar
  BY <1>2, <1>3, <1>8 DEF FinishBar, TypeOK
<1>9. CASE AdvanceToTarget
  BY <1>2, <1>3, <1>9 DEF AdvanceToTarget, TypeOK
<1>10. CASE FinishSync
  <2> DEFINE active == {p \in Orders : place[p] = "active"}
  <2>1. replace_finished_orders(UpdatedUntil(active))
    BY <1>10 DEF FinishSync
  <2>2. QED
    BY <1>2, <1>3, <1>5, <2>1, UntilTypeOK
<1>11. CASE activate_new_orders
  <2> DEFINE new == {p \in Orders : place[p] = "new"}
  <2>1. until' = UpdatedUntil(new)
    BY <1>11 DEF activate_new_orders
  <2>2. QED
    BY <1>1, <1>2, <1>5, <2>1
<1>12. CASE UNCHANGED until
  BY <1>2, <1>12
<1>13. QED
  BY <1>6, <1>7, <1>8, <1>9, <1>10, <1>11, <1>12
     DEF Next, Client, Engine, SyncStep, Halted, marketVars, orderVars, new_order,
         SetSignal, sync_with_trader, ProcessBar, SkipOrder, change_existing_order

(* While it syncs the market only moves working orders to the finished ones. *)
LEMMA SyncPlaces ==
  ASSUME TypeOK, SyncStep, NEW o \in Orders
  PROVE  place'[o] = place[o] \/ (place[o] = "active" /\ place'[o] = "finished")
<1>1. ASSUME NEW u \in [Orders -> BOOLEAN], replace_finished_orders(u)
      PROVE  place'[o] = place[o] \/ (place[o] = "active" /\ place'[o] = "finished")
  BY <1>1, ReplaceFacts
<1>2. ASSUME NEW p \in Orders, FillOrder(p)
      PROVE  place'[o] = place[o] \/ (place[o] = "active" /\ place'[o] = "finished")
  BY <1>1, <1>2, UntilTypeOK DEF FillOrder
<1>3. CASE FinishBar \/ AdvanceToTarget \/ FinishSync
  BY <1>1, <1>3, UntilTypeOK DEF FinishBar, AdvanceToTarget, FinishSync, TypeOK
<1>4. QED
  BY <1>2, <1>3 DEF SyncStep, ProcessBar, SkipOrder, MissOrder, orderVars

-----------------------------------------------------------------------------
(* The market under the trader.                                            *)

(* While a group has a position, each of its exits can close it. *)
LEMMA HeldIsWorking ==
  ASSUME TypeOK, MarketInv, ExitsLapse, NEW r \in Requests, positions_in_group(size, r) # 0
  PROVE  /\ filled[Entry(r)]
         /\ \A o \in children(r) : o \in Orders /\ place[o] = "active" /\ until[o]
<1>1. filled[Entry(r)] /\ \A k \in ChildKinds : ~filled[<<r, k>>]
  BY GroupPosition DEF Entry
<1>2. place[Entry(r)] = "finished"
  BY <1>1, EntryFacts DEF MarketInv, Placed
<1>3. SUFFICES ASSUME NEW o \in children(r)
              PROVE  o \in Orders /\ place[o] = "active" /\ until[o]
  BY <1>1
<1>4. o \in Orders /\ o \in Members(r) /\ Req(o) = r /\ IsExit(o) /\ Entry(r) \in Members(r)
  BY MembersFacts DEF IsExit, Entry
<1>5. o = <<r, Kind(o)>> /\ Kind(o) \in ChildKinds
  BY <1>4, OrderParts DEF IsExit, Kinds
<1>6. until[o]
  BY <1>4 DEF ExitsLapse, Over
<1>7. place[o] # "finished"
  BY <1>1, <1>4, <1>5, <1>6 DEF MarketInv, Placed
<1>8. place[o] \notin {"absent", "new"}
  BY <1>2, <1>4 DEF MarketInv, Together
<1>9. QED
  BY <1>4, <1>6, <1>7, <1>8 DEF TypeOK

(* The trail the trader moves is an active order of the market. *)
LEMMA TrailWorks ==
  ASSUME TraderTypeOK, MarketInv, ExitsLapse, Working, Trailing, Moving, tpc = "changing"
  PROVE  Own("trail") \in Orders /\ place[Own("trail")] = "active"
<1>1. cur \in Requests /\ queue # <<>> /\ Head(queue) = "trail_3" /\ Trailed(cur, queue)
  BY DEF Working, Trailing, Managing, Active
<1>2. Head(queue) \in Range(queue)
  BY <1>1 DEF TraderTypeOK, Range
<1>3. Own("trail") \in Members(cur)
  BY <1>1, <1>2 DEF Trailed, Own
<1>4. Own("trail") \in children(cur)
  BY <1>3 DEF children, Own
<1>5. positions_in_group(size, cur) # 0
  BY DEF Moving
<1>6. QED
  BY <1>1, <1>4, <1>5, HeldIsWorking DEF TraderTypeOK

(* Time that moves backward is noticed before the market is asked. *)
Reversed ==
  /\ err = "none" /\ err' = "time moved backward"
  /\ UNCHANGED <<group, orderVars, clockVars, flowVars>>

LEMMA GroupsStay == [Next]_marketVars => group' = group
  BY DEF Next, Client, new_order, SetSignal, sync_with_trader, Engine, SyncStep, ProcessBar,
         SkipOrder, MissOrder, FillOrder, FinishBar, AdvanceToTarget, FinishSync,
         activate_new_orders, change_existing_order, Halted, marketVars

(* Every step of the trader is a step of the order book, or none. *)
LEMMA MarketStep ==
  ASSUME TraderInv, MarketInv, TNext
  PROVE  [Next]_marketVars \/ Reversed
<1> USE DEF TraderInv
<1>1. ASSUME NEW t \in 0..MaxTime, TimeReversed(t) PROVE Reversed
  BY <1>1 DEF TimeReversed, Reversed, TraderIdle, Running
<1>2. ASSUME NEW r \in Requests, NEW t \in 0..MaxTime, add_request(r, t) PROVE Next
  BY <1>2 DEF add_request, Next, Client
<1>3. ASSUME NEW c \in Calls, c # "change", tpc # "idle", sync_with_trader(c, env_time)
      PROVE  Next
  BY <1>3 DEF InTime, Next, Client
<1>4. CASE MoveTrail
  <2>1. place[Entry(cur)] # "absent" /\ Entry(cur) \in Orders
    BY <1>4, EntryFacts DEF MoveTrail, Known, Working, Managing, Sending, Active
  <2>2. QED
    BY <1>4, <2>1 DEF MoveTrail, InTime, Next, Client, Calls
<1>5. ASSUME NEW o \in Orders, SignalOrder(o) PROVE [Next]_marketVars
  <2>1. Req(o) \in Requests
    BY OrderParts
  <2>2. QED
    BY <1>5, <2>1 DEF SignalOrder, Next, Client
<1>6. CASE MarketWorks
  <2>1. CASE change_existing_order(Own("trail"))
    <3>1. tpc = "changing"
      BY <2>1 DEF change_existing_order, InTime
    <3>2. QED
      BY <2>1, <3>1, TrailWorks DEF Next, Engine
  <2>2. QED
    BY <1>6, <2>1 DEF MarketWorks, Next, Engine
<1>7. CASE send_orders \/ RunManager \/ ManagerAsksAgain \/ \E o \in Orders : ReadOrder(o)
  BY <1>3, <1>7 DEF send_orders, RunManager, ManagerAsksAgain, SecondReport, ReadOrder, Ask,
                    status_report, Calls
<1>8. QED
  BY <1>1, <1>2, <1>4, <1>5, <1>6, <1>7
     DEF TNext, Caller, TraderWorks, CheckSome, Halted, RequestAdded, check_active_requests,
         set_signal_in_active_request, RunRequest, FileRequest, ManagerReturns, SecondReturns,
         TrailMoved, RequestDone, RequestFiled, PassDone, Return, EnterManager, AfterEntry,
         TrailEnded, CosManager, EodManager

(* So the market keeps its own invariant. *)
LEMMA MarketKept ==
  ASSUME TraderInv, MarketInv, Percent = 100, TNext
  PROVE  TypeOK' /\ MarketInv' /\ ExitsLapse'
<1> USE DEF TraderInv, TraderTypeOK
<1>1. CASE [Next]_marketVars
  BY <1>1, TypeStep, StepInv, ExitsLapseStep
<1>2. CASE Reversed
  <2>1. TypeOK'
    BY <1>2 DEF Reversed, TypeOK, orderVars, clockVars, flowVars, Errors
  <2>2. MarketInv'
    <3>1. /\ UNCHANGED <<group, place, start, until, filled, stopped, size, filled_at, clockVars,
                        pc, scan>>
          /\ err' = "time moved backward"
      BY <1>2 DEF Reversed, orderVars, flowVars
    <3>2. QED
      BY <2>1, <3>1, QuietInv
  <2>3. ExitsLapse'
    BY <1>2 DEF Reversed, orderVars, ExitsLapse, Over, positions_in_group
  <2>4. QED
    BY <2>1, <2>2, <2>3
<1>3. QED
  BY <1>1, <1>2, MarketStep

-----------------------------------------------------------------------------
(* Time and the lists.                                                     *)

(* The market is never ahead of the trader. *)
LEMMA InTimeStep ==
  ASSUME TraderTypeOK, InTime, TNext PROVE InTime'
<1> USE MarketAssumption DEF InTime, TraderTypeOK, TypeOK, marketVars, orderVars, clockVars,
        flowVars, listVars, methodVars, traderVars
<1>1. ASSUME NEW t \in 0..MaxTime, TimeReversed(t) PROVE InTime'
  BY <1>1 DEF TimeReversed
<1>2. ASSUME NEW t \in 0..MaxTime, NEW r \in Requests, add_request(r, t) PROVE InTime'
  BY <1>2 DEF add_request, new_order, Idle, TraderIdle, set_environment, None
<1>3. ASSUME NEW t \in 0..MaxTime, check_active_requests(t) PROVE InTime'
  BY <1>3 DEF check_active_requests, TraderIdle, set_environment, None
<1>4. ASSUME NEW t \in 0..MaxTime, NEW S, set_signal_in_active_request(S, t) PROVE InTime'
  BY <1>4 DEF set_signal_in_active_request, TraderIdle, set_environment, None
<1>5. ASSUME NEW c, sync_with_trader(c, env_time), env_time' = env_time, tpc # "idle",
             \/ c = "activate" /\ tpc' = "sent"
             \/ c = "change" /\ tpc' = "changing"
             \/ c = "report" /\ tpc' \in {"asked", "asked2", "filing"}
      PROVE  InTime'
  BY <1>5 DEF sync_with_trader, Idle, None
<1>6. CASE send_orders \/ RunManager \/ ManagerAsksAgain \/ MoveTrail
           \/ \E o \in Orders : ReadOrder(o)
  BY <1>5, <1>6 DEF send_orders, RunManager, ManagerAsksAgain, SecondReport, MoveTrail,
                    ReadOrder, Ask, status_report
<1>7. ASSUME NEW o \in Orders, SignalOrder(o) PROVE InTime'
  BY <1>7 DEF SignalOrder, SetSignal, Idle
<1>8. ASSUME UNCHANGED <<marketVars, env_time>>, pc = "idle", tpc # "idle" PROVE InTime'
  BY <1>8
<1>9. CASE \/ RequestAdded \/ \E r \in Requests : RunRequest(r) \/ FileRequest(r)
           \/ ManagerReturns \/ SecondReturns \/ TrailMoved \/ RequestDone \/ RequestFiled
           \/ PassDone
  BY <1>8, <1>9 DEF RequestAdded, RunRequest, FileRequest, ManagerReturns, SecondReturns,
       TrailMoved, RequestDone, RequestFiled, PassDone, Return, EnterManager, AfterEntry,
       TrailEnded, CosManager, EodManager, Idle
<1>10. CASE MarketWorks
  <2>1. CASE ProcessBar
    BY <1>10, <2>1 DEF MarketWorks, ProcessBar, BarDone
  <2>2. CASE \E o \in Orders : SkipOrder(o) \/ MissOrder(o) \/ FillOrder(o)
    BY <1>10, <2>2 DEF MarketWorks, SkipOrder, MissOrder, FillOrder, IsNext
  <2>3. CASE FinishBar
    BY <1>10, <2>3 DEF MarketWorks, FinishBar
  <2>4. CASE AdvanceToTarget
    BY <1>10, <2>4 DEF MarketWorks, AdvanceToTarget, SyncedTo
  <2>5. CASE FinishSync
    BY <1>10, <2>5 DEF MarketWorks, FinishSync
  <2>6. CASE activate_new_orders \/ change_existing_order(Own("trail"))
    BY <1>10, <2>6 DEF MarketWorks, activate_new_orders, change_existing_order
  <2>7. QED
    BY <1>10, <2>1, <2>2, <2>3, <2>4, <2>5, <2>6 DEF MarketWorks, SyncStep
<1>11. CASE Halted /\ UNCHANGED traderVars
  BY <1>11 DEF Halted
<1>12. QED
  BY <1>1, <1>2, <1>3, <1>4, <1>6, <1>7, <1>9, <1>10, <1>11
     DEF TNext, Caller, TraderWorks, CheckSome

(* The market knows what the trader has sent, and nothing else. *)
LEMMA KnownStep ==
  ASSUME TraderTypeOK, MarketInv, ClosedByTrader, InTime, Known, Working, TNext
  PROVE  Known'
<1> USE DEF Sending, Running
<1>1. TypeOK
  BY DEF TraderTypeOK
<1>2. ASSUME NEW t \in 0..MaxTime, TimeReversed(t) PROVE Known'
  BY <1>2 DEF TimeReversed, TraderIdle, Known, orderVars, flowVars, listVars, methodVars, traderVars
<1>3. ASSUME NEW t \in 0..MaxTime, NEW r \in Requests, add_request(r, t) PROVE Known'
  <2>1. /\ tpc = "idle" /\ tpc' = "sending" /\ cur' = r /\ where' = where /\ where[r] = "none"
        /\ place' = [o \in Orders |-> IF o \in Members(r) THEN "new" ELSE place[o]]
    BY <1>3 DEF add_request, TraderIdle, new_order
  <2>2. \A q \in Requests : Entry(q) \in Orders /\ (Entry(q) \in Members(r) <=> q = r)
    BY <1>1, EntryFacts, MembersFacts DEF Entry
  <2>3. QED
    BY <2>1, <2>2 DEF Known
<1>4. CASE send_orders
  <2>1. /\ tpc = "sending" /\ tpc' = "sent" /\ UNCHANGED <<cur, where, place>>
        /\ pc' # "idle" \/ err' # "none"
    BY <1>4 DEF send_orders, sync_with_trader, listVars, orderVars
  <2>2. QED
    BY <2>1 DEF Known
<1>5. CASE RequestAdded
  <2>1. /\ tpc = "sent" /\ pc = "idle" /\ err = "none" /\ tpc' = "idle" /\ place' = place
        /\ where' = [where EXCEPT ![cur] = "active"]
    BY <1>5 DEF RequestAdded, Idle, marketVars, orderVars
  <2>2. QED
    BY <2>1 DEF Known, TraderTypeOK
<1>6. ASSUME ~Sending, ~Sending', UNCHANGED <<where, place>> PROVE Known'
  BY <1>6 DEF Known
<1>7. CASE RequestFiled
  <2>1. /\ tpc = "filing" /\ tpc' = "pass" /\ place' = place
        /\ where' = [where EXCEPT ![cur] = find_final_destination(cur)]
        /\ find_final_destination(cur) # "none" /\ cur \in Active
    BY <1>7 DEF RequestFiled, Idle, marketVars, orderVars, Working, find_final_destination
  <2>2. QED
    BY <2>1 DEF Known, TraderTypeOK, Active
<1>8. CASE SyncStep /\ UNCHANGED traderVars
  <2>1. pc # "idle" /\ (tpc = "sent" => pc' # "idle")
    BY <1>8 DEF SyncStep, ProcessBar, SkipOrder, MissOrder, FillOrder, IsNext, FinishBar,
                AdvanceToTarget, FinishSync, flowVars, InTime
  <2>2. UNCHANGED <<cur, where, tpc>>
    BY <1>8 DEF traderVars, listVars, methodVars
  <2>3. \A r \in Requests :
          \/ place'[Entry(r)] = place[Entry(r)]
          \/ place[Entry(r)] = "active" /\ place'[Entry(r)] = "finished"
    <3>1. \A r \in Requests : Entry(r) \in Orders
      BY EntryFacts
    <3>2. QED
      BY <1>1, <1>8, <3>1, SyncPlaces
  <2>4. QED
    BY <2>1, <2>2, <2>3 DEF Known
<1>9. CASE activate_new_orders /\ UNCHANGED traderVars
  <2>1. tpc = "sent" /\ UNCHANGED <<cur, where, tpc>>
    BY <1>9 DEF activate_new_orders, InTime, traderVars, listVars, methodVars
  <2>2. \A o \in Orders : group[Req(o)].kids # <<>>
    <3>1. \A o \in Orders : group[Req(o)] \in Groups
      BY <1>1, OrderParts DEF TypeOK
    <3>2. \A g \in Groups : g.kids # <<>>
      BY DEF ClosedByTrader, Range
    <3>3. QED
      BY <3>1, <3>2
  <2>3. /\ place' = [o \in Orders |-> IF place[o] = "new" THEN "active" ELSE place[o]]
        /\ pc' = "idle" /\ err' = "none"
    BY <1>9, <2>2 DEF activate_new_orders
  <2>4. pc # "idle"
    BY <1>9 DEF activate_new_orders
  <2>5. \A r \in Requests : Entry(r) \in Orders
    BY EntryFacts
  <2>6. QED
    BY <2>1, <2>3, <2>4, <2>5 DEF Known
<1>10. CASE change_existing_order(Own("trail")) /\ UNCHANGED traderVars
  <2>1. tpc = "changing"
    BY <1>10 DEF change_existing_order, InTime
  <2>2. QED
    BY <1>6, <1>10, <2>1 DEF change_existing_order, traderVars, listVars, methodVars, orderVars
<1>11. CASE Halted /\ UNCHANGED traderVars
  BY <1>11 DEF Halted, marketVars, orderVars, flowVars, traderVars, listVars, methodVars, Known
<1>12. CASE RunManager \/ ManagerAsksAgain \/ MoveTrail \/ \E o \in Orders : ReadOrder(o)
  BY <1>6, <1>12 DEF RunManager, ManagerAsksAgain, SecondReport, MoveTrail,
       ReadOrder, Ask, status_report, sync_with_trader, orderVars, listVars
<1>13. CASE \E t \in 0..MaxTime : check_active_requests(t) \/ \E S : set_signal_in_active_request(S, t)
  BY <1>6, <1>13 DEF check_active_requests, set_signal_in_active_request, TraderIdle, marketVars, orderVars
<1>14. CASE \E o \in Orders : SignalOrder(o)
  BY <1>6, <1>14 DEF SignalOrder, SetSignal, marketVars, orderVars, listVars
<1>15. CASE \/ \E r \in Requests : RunRequest(r) \/ FileRequest(r)
            \/ ManagerReturns \/ SecondReturns \/ TrailMoved \/ RequestDone \/ PassDone
  BY <1>6, <1>15 DEF RunRequest, FileRequest, ManagerReturns, SecondReturns,
       TrailMoved, RequestDone, PassDone, Return, EnterManager, AfterEntry,
       TrailEnded, CosManager, EodManager, marketVars, orderVars, listVars
<1>16. QED
  BY <1>2, <1>3, <1>4, <1>5, <1>7, <1>8, <1>9, <1>10, <1>11, <1>12, <1>13, <1>14, <1>15
     DEF TNext, Caller, TraderWorks, CheckSome, MarketWorks

-----------------------------------------------------------------------------
(* Managers.                                                               *)

(* What is left of a list without one of its members. *)
LEMMA WithoutFacts ==
  ASSUME NEW ks \in Seq(ChildKinds), IsInjective(ks), NEW k
  PROVE  /\ Without(ks, k) \in Seq(ChildKinds)
         /\ Range(Without(ks, k)) = Range(ks) \ {k}
<1>1. CASE k \notin Range(ks)
  BY <1>1 DEF Without
<1>2. CASE k \in Range(ks)
  <2> DEFINE n == CHOOSE i \in DOMAIN ks : ks[i] = k
             w == [i \in 1..(Len(ks) - 1) |-> ks[IF i < n THEN i ELSE i + 1]]
  <2>1. n \in DOMAIN ks /\ ks[n] = k
    BY <1>2 DEF Range
  <2>2. Without(ks, k) = w
    BY <1>2 DEF Without
  <2> HIDE DEF n
  <2>3. n \in 1..Len(ks) /\ Len(ks) \in Nat /\ Len(ks) - 1 \in Nat
    BY <2>1
  <2>4. \A i \in 1..(Len(ks) - 1) : w[i] \in ChildKinds /\ w[i] \in Range(ks) /\ w[i] # k
    <3> SUFFICES ASSUME NEW i \in 1..(Len(ks) - 1)
                 PROVE  w[i] \in ChildKinds /\ w[i] \in Range(ks) /\ w[i] # k
      OBVIOUS
    <3> DEFINE j == IF i < n THEN i ELSE i + 1
    <3>1. j \in DOMAIN ks /\ j # n /\ w[i] = ks[j]
      BY <2>3
    <3> HIDE DEF j, w
    <3>2. QED
      BY <2>1, <3>1 DEF Range, IsInjective
  <2>5. w \in Seq(ChildKinds)
    BY <2>3, <2>4
  <2>6. ASSUME NEW x \in Range(ks), x # k PROVE x \in Range(w)
    <3>1. PICK j \in 1..Len(ks) : ks[j] = x
      BY <2>6 DEF Range
    <3>2. j # n
      BY <2>1, <2>6, <3>1
    <3>3. CASE j < n
      <4>1. j \in 1..(Len(ks) - 1) /\ w[j] = x
        BY <2>3, <3>1, <3>3
      <4>2. QED
        BY <4>1 DEF Range
    <3>4. CASE j > n
      <4>1. j - 1 \in 1..(Len(ks) - 1) /\ w[j - 1] = x
        BY <2>3, <3>1, <3>4
      <4>2. QED
        BY <4>1 DEF Range
    <3>5. QED
      BY <2>3, <3>2, <3>3, <3>4
  <2>7. Range(w) \subseteq Range(ks) \ {k}
    BY <2>4 DEF Range
  <2>8. QED
    BY <2>2, <2>5, <2>6, <2>7
<1>3. QED
  BY <1>1, <1>2

(* The members of lists put together and taken apart. *)
LEMMA RangeOfConcat ==
  ASSUME NEW S, NEW s \in Seq(S), NEW t \in Seq(S)
  PROVE  Range(s \o t) = Range(s) \union Range(t)
<1> DEFINE c == s \o t
<1>1. /\ Len(s) \in Nat /\ Len(t) \in Nat
      /\ DOMAIN c = 1..(Len(s) + Len(t))
      /\ \A i \in 1..(Len(s) + Len(t)) : c[i] = IF i <= Len(s) THEN s[i] ELSE t[i - Len(s)]
  OBVIOUS
<1>2. DOMAIN s = 1..Len(s) /\ DOMAIN t = 1..Len(t)
  OBVIOUS
<1> HIDE DEF c
<1>3. \A i \in DOMAIN c : c[i] \in Range(s) \union Range(t)
  BY <1>1, <1>2 DEF Range
<1>4. \A i \in DOMAIN s : c[i] = s[i] /\ i \in DOMAIN c
  BY <1>1, <1>2
<1>5. \A i \in DOMAIN t : c[i + Len(s)] = t[i] /\ i + Len(s) \in DOMAIN c
  BY <1>1, <1>2
<1>6. Range(c) = Range(s) \union Range(t)
  BY <1>3, <1>4, <1>5 DEF Range
<1>7. QED
  BY <1>6 DEF c

LEMMA RangeOfTail ==
  ASSUME NEW S, NEW s \in Seq(S), s # <<>>
  PROVE  Tail(s) \in Seq(S) /\ Head(s) \in S /\ Range(s) = {Head(s)} \union Range(Tail(s))
<1> DEFINE t == Tail(s)
<1>1. /\ Len(s) \in Nat \ {0} /\ DOMAIN s = 1..Len(s) /\ Head(s) = s[1]
      /\ t \in Seq(S) /\ DOMAIN t = 1..(Len(s) - 1) /\ \A i \in 1..(Len(s) - 1) : t[i] = s[i + 1]
  OBVIOUS
<1>2. Head(s) \in S
  OBVIOUS
<1> HIDE DEF t
<1>3. \A i \in DOMAIN s : i = 1 \/ (i - 1 \in DOMAIN t /\ t[i - 1] = s[i])
  BY <1>1
<1>4. \A i \in DOMAIN t : i + 1 \in DOMAIN s /\ t[i] = s[i + 1]
  BY <1>1
<1>5. 1 \in DOMAIN s
  BY <1>1
<1>6. Range(s) = {Head(s)} \union Range(t)
  BY <1>1, <1>3, <1>4, <1>5 DEF Range
<1>7. QED
  BY <1>1, <1>2, <1>6 DEF t

(* A request is armed with managers, one of which waits for its exit, and  *)
(* with that of a trail only if it has one.                                *)
LEMMA ArmFacts ==
  ASSUME NEW g \in GroupDef
  PROVE  /\ arm(g) \in Seq(Managers)
         /\ Range(g.kids) \intersect {"cos", "stop", "trail"} # {} =>
              Range(arm(g)) \intersect Watchers # {}
         /\ "trail_1" \in Range(arm(g)) => "trail" \in Range(g.kids)
         /\ "trail_2" \notin Range(arm(g)) /\ "trail_3" \notin Range(arm(g))
<1> DEFINE w == Without(g.kids, "profit")
           m == [i \in DOMAIN w |-> FirstManager[w[i]]]
<1>1. w \in Seq(ChildKinds) /\ Range(w) = Range(g.kids) \ {"profit"}
  BY WithoutFacts DEF GroupDef
<1>2. arm(g) = <<"enter">> \o m
  BY DEF arm
<1> HIDE DEF w
<1>3. \A i \in DOMAIN w : w[i] \in {"cos", "eod", "stop", "trail"} /\ w[i] \in Range(g.kids)
  BY <1>1 DEF Range, ChildKinds
<1>4. \A i \in DOMAIN w :
        m[i] = IF w[i] = "stop" THEN "exit_1" ELSE IF w[i] = "trail" THEN "trail_1" ELSE w[i]
  BY <1>3 DEF FirstManager, ChildKinds
<1> HIDE DEF m
<1>5. DOMAIN m = 1..Len(w) /\ DOMAIN w = 1..Len(w) /\ Len(w) \in Nat
  BY <1>1 DEF m
<1>6. m \in Seq(Managers) /\ Len(m) = Len(w)
  BY <1>3, <1>4, <1>5 DEF Managers, m
<1>7. Range(arm(g)) = {"enter"} \union Range(m)
  <2> DEFINE e == <<"enter">>
  <2>1. e \in Seq(Managers) /\ Range(e) = {"enter"}
    BY DEF Managers, Range
  <2>2. arm(g) = e \o m
    BY <1>2
  <2> HIDE DEF e
  <2>3. QED
    BY <1>6, <2>1, <2>2, RangeOfConcat
<1>8. ASSUME Range(g.kids) \intersect {"cos", "stop", "trail"} # {}
      PROVE  Range(m) \intersect Watchers # {}
  <2>1. PICK k \in {"cos", "stop", "trail"} : k \in Range(w)
    BY <1>1, <1>8
  <2>2. PICK i \in DOMAIN w : w[i] = k
    BY <2>1 DEF Range
  <2>3. m[i] \in Watchers
    BY <1>4, <2>2 DEF Watchers
  <2>4. QED
    BY <1>5, <2>2, <2>3 DEF Range
<1>9. "trail_1" \in Range(m) => "trail" \in Range(g.kids)
  BY <1>3, <1>4, <1>5 DEF Range
<1>10. "trail_2" \notin Range(m) /\ "trail_3" \notin Range(m)
  BY <1>3, <1>4, <1>5 DEF Range
<1>11. QED
  BY <1>2, <1>6, <1>7, <1>8, <1>9, <1>10 DEF Managers

(* What a manager returns takes its place in the new list. *)
LEMMA Returned ==
  ASSUME TraderTypeOK, NEW ms \in Seq(Managers), Return(ms), queue # <<>>
  PROVE  /\ kept' \in Seq(Managers) /\ queue' \in Seq(Managers)
         /\ Range(kept') = Range(kept) \union Range(ms)
         /\ Range(queue) = {Head(queue)} \union Range(queue')
         /\ tpc' = "managers" /\ noted' = FALSE
         /\ UNCHANGED <<marketVars, listVars, cur, todo, signals, unread>>
<1>1. kept \in Seq(Managers) /\ queue \in Seq(Managers)
  BY DEF TraderTypeOK
<1>2. /\ kept' = kept \o ms /\ queue' = Tail(queue) /\ tpc' = "managers" /\ noted' = FALSE
      /\ UNCHANGED <<marketVars, listVars, cur, todo, signals, unread>>
  BY DEF Return
<1>3. kept \o ms \in Seq(Managers)
  BY <1>1
<1>4. QED
  BY <1>1, <1>2, <1>3, RangeOfConcat, RangeOfTail

(* What the managers of a request may return: nothing when its group is    *)
(* over, when they were dropped anyway or wait for no exit; the next       *)
(* manager of a trail only when the entry is filled.                       *)
Handed(ms) ==
  /\ ms \in Seq(Managers) /\ Return(ms)
  /\ Idle /\ tpc \in {"asked", "asked2", "changing"}
  /\ Range(ms) \intersect Watchers # {} \/ Over(cur) \/ Head(queue) \notin Watchers
  /\ Range(ms) \intersect {"trail_1", "trail_2", "trail_3"} # {} =>
       Head(queue) \in {"trail_1", "trail_2", "trail_3"}
  /\ Range(ms) \intersect {"trail_2", "trail_3"} # {} =>
       filled[Entry(cur)] \/ Head(queue) \in {"trail_2", "trail_3"}

LEMMA ManagersHand ==
  ASSUME TraderTypeOK, MarketInv, ExitsLapse, Working, Watching,
         ManagerReturns \/ SecondReturns \/ TrailMoved
  PROVE  \E ms \in Seq(Managers) : Handed(ms)
<1>1. cur \in Requests /\ TypeOK
  BY DEF TraderTypeOK, ManagerReturns, SecondReturns, TrailMoved, Working, Managing, Active
<1>2. \A k \in Kinds : /\ Own(k) \in Orders /\ Req(Own(k)) = cur
                       /\ IsExit(Own(k)) <=> k # "enter"
  BY <1>1, OrderOfParts DEF Own, IsExit
<1>3. \A k \in ChildKinds : Ended(Own(k)) => Over(cur)
  BY <1>1, <1>2, EndedIsOver DEF Ended, Kinds, ChildKinds
<1>4. Ended(Own("enter")) => filled[Own("enter")] \/ Over(cur)
  BY <1>1, <1>2, EndedIsOver DEF Ended, Kinds
<1>5. <<>> \in Seq(Managers) /\ Range(<<>>) = {}
  BY DEF Range
<1>6. \A m \in Managers : <<m>> \in Seq(Managers) /\ Range(<<m>>) = {m}
  BY DEF Range
<1> USE DEF Handed
<1>7. CASE ManagerReturns
  <2>1. Idle /\ tpc = "asked"
    BY <1>7 DEF ManagerReturns
  <2>2. CASE EnterManager
    <3>1. CASE Ended(Own("enter"))
      BY <1>5, <2>1, <2>2, <3>1 DEF EnterManager, Watchers
    <3>2. CASE ~Ended(Own("enter"))
      <4>1. Handed(<<"enter">>)
        BY <1>6, <2>1, <2>2, <3>2 DEF EnterManager, Watchers, Managers
      <4>2. QED
        BY <1>6, <4>1 DEF Managers
    <3>3. QED
      BY <3>1, <3>2
  <2>3. CASE AfterEntry("exit_1", "exit_2")
    <3>1. CASE ~filled[Own("enter")] /\ Ended(Own("enter"))
      <4>1. Handed(<<>>)
        BY <1>4, <1>5, <2>1, <2>3, <3>1 DEF AfterEntry
      <4>2. QED
        BY <1>5, <4>1
    <3>2. ASSUME NEW m \in {"exit_1", "exit_2"}, Return(<<m>>), Head(queue) = "exit_1"
          PROVE  \E ms \in Seq(Managers) : Handed(ms)
      <4>1. Handed(<<m>>)
        BY <1>6, <2>1, <3>2 DEF Watchers, Managers
      <4>2. QED
        BY <1>6, <4>1 DEF Managers
    <3>3. QED
      BY <2>3, <3>1, <3>2 DEF AfterEntry
  <2>4. CASE AfterEntry("trail_1", "trail_2")
    BY <1>4, <1>5, <1>6, <2>1, <2>4 DEF AfterEntry, Watchers, Managers, Own, Entry
  <2>5. CASE TrailEnded
    BY <1>3, <1>5, <2>1, <2>5 DEF TrailEnded, ChildKinds
  <2>6. CASE CosManager
    BY <1>3, <1>5, <1>6, <2>1, <2>6 DEF CosManager, Watchers, Managers, ChildKinds
  <2>7. CASE EodManager
    BY <1>5, <2>1, <2>7 DEF EodManager, Watchers
  <2>8. QED
    BY <1>7, <2>2, <2>3, <2>4, <2>5, <2>6, <2>7 DEF ManagerReturns
<1>8. CASE SecondReturns
  <2>1. Idle /\ tpc = "asked2" /\ (noted => Over(cur))
    BY <1>8 DEF SecondReturns, Watching
  <2>2. CASE Head(queue) = "exit_2" /\ Return(IF noted \/ Ended(Own("profit")) THEN <<>> ELSE <<"exit_2">>)
    <3>1. CASE noted \/ Ended(Own("profit"))
      <4>1. Over(cur)
        BY <1>3, <2>1, <3>1 DEF ChildKinds
      <4>2. QED
        BY <1>5, <2>1, <2>2, <3>1, <4>1
    <3>2. CASE ~(noted \/ Ended(Own("profit")))
      <4>1. Handed(<<"exit_2">>)
        BY <1>6, <2>1, <2>2, <3>2 DEF Watchers, Managers
      <4>2. QED
        BY <1>6, <4>1 DEF Managers
    <3>3. QED
      BY <3>1, <3>2
  <2>3. ASSUME NEW m \in {"trail_2", "trail_3"}, Head(queue) = "trail_2", Return(<<m>>)
        PROVE  Handed(<<m>>) /\ <<m>> \in Seq(Managers)
    BY <1>6, <2>1, <2>3 DEF Watchers, Managers
  <2>4. CASE Head(queue) = "trail_3" /\ Return(IF Ended(Own("trail")) THEN <<>> ELSE <<"trail_3">>)
    BY <1>3, <1>5, <1>6, <2>1, <2>4 DEF Watchers, Managers, ChildKinds
  <2>5. QED
    BY <1>8, <2>2, <2>3, <2>4 DEF SecondReturns
<1>9. CASE TrailMoved
  <2>1. Head(queue) = "trail_3" /\ Idle /\ tpc = "changing" /\ Return(<<"trail_3">>)
    BY <1>9 DEF TrailMoved, Working
  <2>2. QED
    BY <1>6, <2>1 DEF Watchers, Managers
<1>10. QED
  BY <1>7, <1>8, <1>9

-----------------------------------------------------------------------------
(* The steps of the trader, one part of the invariant after the other.     *)

(* A request that is over stays so, whatever the trader does. *)
LEMMA OverKept ==
  ASSUME TraderInv, MarketInv, Percent = 100, TNext, NEW r \in Requests
  PROVE  /\ Over(r) => Over(r)' /\ \A o \in Orders : Req(o) = r => filled'[o] = filled[o]
         /\ filled[Entry(r)] => filled'[Entry(r)]
         /\ group' = group
<1>1. TypeOK /\ MarketInv' /\ Entry(r) \in Orders
  BY MarketKept, EntryFacts DEF TraderInv, TraderTypeOK
<1>2. CASE [Next]_marketVars
  <2>1. Over(r) => Over(r)' /\ \A o \in Orders : Req(o) = r => filled'[o] = filled[o]
    BY <1>1, <1>2, OverStays
  <2>2. ASSUME NEW p \in Orders, FillOrder(p), err' = "none", filled[Entry(r)]
        PROVE  filled'[Entry(r)]
    BY <1>1, <2>2, FillFacts DEF TypeOK
  <2>3. QED
    BY <1>1, <1>2, <2>1, <2>2, OneFill, BookMoves
<1>3. CASE Reversed
  BY <1>3 DEF Reversed, orderVars, Over, positions_in_group
<1>4. QED
  BY <1>2, <1>3, MarketStep

(* What leaves the trader as it is. *)
LEMMA TraderRests ==
  ASSUME TNext
  PROVE  \/ Caller \/ TraderWorks
         \/ UNCHANGED traderVars
  BY DEF TNext, MarketWorks

LEMMA WorkingStep ==
  ASSUME TraderTypeOK, InTime, Working, Watching, TNext,
         \A r \in Requests : Over(r) => Over(r)'
  PROVE  Working'
<1> USE DEF Working, Managing, Active, listVars
<1>1. CASE UNCHANGED traderVars
  BY <1>1 DEF traderVars, methodVars
<1>2. CASE Caller
  BY <1>2 DEF Caller, CheckSome, TimeReversed, add_request, check_active_requests,
              set_signal_in_active_request, TraderIdle, traderVars, methodVars
<1>3. CASE send_orders \/ RequestAdded
  BY <1>3 DEF send_orders, RequestAdded, TraderTypeOK
<1>4. ASSUME NEW r \in Requests, RunRequest(r) PROVE Working'
  BY <1>4 DEF RunRequest
<1>5. ASSUME NEW r \in Requests, FileRequest(r) PROVE Working'
  <2>1. where[r] = "active" /\ managers[r] = <<>>
    BY <1>5 DEF FileRequest, Finishable
  <2>2. Over(r)
    BY <2>1 DEF Watching, Watched, Range
  <2>3. QED
    BY <1>5, <2>1, <2>2 DEF FileRequest
<1>6. CASE \E o \in Orders : SignalOrder(o) \/ ReadOrder(o)
  BY <1>6 DEF SignalOrder, ReadOrder, Ask
<1>7. CASE RunManager \/ ManagerAsksAgain \/ MoveTrail
  BY <1>7 DEF RunManager, ManagerAsksAgain, SecondReport, MoveTrail, Ask
<1>8. CASE ManagerReturns \/ SecondReturns \/ TrailMoved
  <2>1. /\ tpc \in {"asked", "asked2", "changing"} /\ tpc' = "managers"
        /\ UNCHANGED <<where, cur, todo>>
    BY <1>8 DEF ManagerReturns, SecondReturns, TrailMoved, Return, EnterManager, AfterEntry,
                TrailEnded, CosManager, EodManager
  <2>2. QED
    BY <2>1
<1>9. CASE RequestDone \/ PassDone
  BY <1>9 DEF RequestDone, PassDone
<1>10. CASE RequestFiled
  BY <1>10 DEF RequestFiled
<1>11. QED
  BY <1>1, <1>2, <1>3, <1>4, <1>5, <1>6, <1>7, <1>8, <1>9, <1>10, TraderRests DEF TraderWorks

LEMMA WatchingStep ==
  ASSUME TraderTypeOK, MarketInv, ExitsLapse, ClosedByTrader, Known, Working, Watching, TNext,
         \A r \in Requests : Over(r) => Over(r)'
  PROVE  Watching'
<1> USE DEF Watching, Watched, Managing, Active, listVars
<1>1. CASE UNCHANGED traderVars
  BY <1>1 DEF traderVars, methodVars, Working
<1>2. CASE Caller
  BY <1>2 DEF Caller, CheckSome, TimeReversed, add_request, check_active_requests,
              set_signal_in_active_request, TraderIdle, traderVars, methodVars
<1>3. CASE RequestAdded
  <2>1. cur \in Requests /\ group[cur] \in Groups /\ Groups \subseteq GroupDef
    BY <1>3, MarketAssumption DEF RequestAdded, Known, Sending, TraderTypeOK, TypeOK
  <2>2. Range(arm(group[cur])) \intersect Watchers # {}
    BY <2>1, ArmFacts DEF ClosedByTrader
  <2>3. QED
    BY <1>3, <2>1, <2>2 DEF RequestAdded, TraderTypeOK
<1>4. ASSUME NEW r \in Requests, RunRequest(r) PROVE Watching'
  BY <1>4 DEF RunRequest, Working
<1>5. CASE \/ \E r \in Requests : FileRequest(r)
           \/ \E o \in Orders : SignalOrder(o) \/ ReadOrder(o)
           \/ send_orders \/ PassDone
  BY <1>5 DEF FileRequest, SignalOrder, ReadOrder, Ask, send_orders, PassDone
<1>6. CASE RunManager \/ MoveTrail
  BY <1>6 DEF RunManager, MoveTrail, Ask, Working
<1>7. CASE ManagerAsksAgain
  <2>1. /\ tpc = "asked" /\ tpc' = "asked2" /\ noted' = Ended(Own("stop"))
        /\ UNCHANGED <<where, managers, cur, queue, kept>>
    BY <1>7 DEF ManagerAsksAgain, SecondReport, Ask
  <2>2. cur \in Requests
    BY <2>1 DEF Working
  <2>3. Own("stop") \in Orders /\ Req(Own("stop")) = cur /\ IsExit(Own("stop"))
    <3>1. "stop" \in Kinds
      BY DEF Kinds, ChildKinds
    <3>2. QED
      BY <2>2, <3>1, OrderOfParts DEF Own, IsExit
  <2>4. noted' => Over(cur)
    BY <2>1, <2>3, EndedIsOver DEF Ended, TraderTypeOK
  <2>5. QED
    BY <2>1, <2>2, <2>4
<1>8. CASE ManagerReturns \/ SecondReturns \/ TrailMoved
  <2>1. PICK ms \in Seq(Managers) : Handed(ms)
    BY <1>8, ManagersHand
  <2>2. queue # <<>> /\ cur \in Requests
    BY <2>1 DEF Handed, Working
  <2>3. /\ Range(kept') = Range(kept) \union Range(ms)
        /\ Range(queue) = {Head(queue)} \union Range(queue')
        /\ tpc' = "managers" /\ noted' = FALSE
        /\ UNCHANGED <<where, managers, cur>>
    BY <2>1, <2>2, Returned DEF Handed
  <2>4. /\ Range(ms) \intersect Watchers # {} \/ Over(cur) \/ Head(queue) \notin Watchers
        /\ tpc \in {"asked", "asked2", "changing"}
    BY <2>1 DEF Handed
  <2>5. Watched(cur, kept') \/ Watched(cur, queue')
    BY <2>3, <2>4
  <2>6. QED
    BY <2>2, <2>3, <2>5
<1>9. CASE RequestDone
  <2>1. /\ tpc = "managers" /\ queue = <<>> /\ tpc' = "pass" /\ UNCHANGED <<where, cur>>
        /\ managers' = [managers EXCEPT ![cur] = kept]
    BY <1>9 DEF RequestDone, NewManagers
  <2>2. Watched(cur, kept)
    BY <2>1 DEF Range
  <2>3. QED
    BY <2>1, <2>2 DEF Working, TraderTypeOK
<1>10. CASE RequestFiled
  BY <1>10 DEF RequestFiled, find_final_destination, TraderTypeOK
<1>11. QED
  BY <1>1, <1>2, <1>3, <1>4, <1>5, <1>6, <1>7, <1>8, <1>9, <1>10, TraderRests DEF TraderWorks

LEMMA TrailingStep ==
  ASSUME TraderTypeOK, MarketInv, ExitsLapse, Known, Working, Watching, Trailing, TNext,
         group' = group, \A r \in Requests : filled[Entry(r)] => filled'[Entry(r)]
  PROVE  Trailing'
<1> USE DEF Trailing, Managing, Active, listVars
<1>1. ASSUME NEW r \in Requests, NEW ms, Trailed(r, ms) PROVE Trailed(r, ms)'
  BY <1>1 DEF Trailed, Members
<1>2. CASE UNCHANGED traderVars
  BY <1>1, <1>2 DEF traderVars, methodVars, Working
<1>3. CASE Caller
  BY <1>1, <1>3 DEF Caller, CheckSome, TimeReversed, add_request, check_active_requests,
              set_signal_in_active_request, TraderIdle, traderVars, methodVars
<1>4. CASE RequestAdded
  <2>1. cur \in Requests /\ group[cur] \in GroupDef
    BY <1>4, MarketAssumption DEF RequestAdded, Known, Sending, TraderTypeOK, TypeOK
  <2>2. /\ "trail_1" \in Range(arm(group[cur])) => "trail" \in Range(group[cur].kids)
        /\ "trail_2" \notin Range(arm(group[cur])) /\ "trail_3" \notin Range(arm(group[cur]))
    BY <2>1, ArmFacts
  <2>3. Trailed(cur, arm(group[cur]))
    BY <2>2 DEF Trailed, Members
  <2>4. /\ where' = [where EXCEPT ![cur] = "active"] /\ tpc' = "idle"
        /\ managers' = [managers EXCEPT ![cur] = arm(group[cur])]
    BY <1>4 DEF RequestAdded
  <2>5. QED
    BY <1>1, <2>1, <2>3, <2>4 DEF TraderTypeOK
<1>5. ASSUME NEW r \in Requests, RunRequest(r) PROVE Trailing'
  <2>1. Trailed(r, managers[r]) /\ Trailed(r, <<>>)
    <3>1. r \in Active
      BY <1>5 DEF RunRequest, Working
    <3>2. Trailed(r, <<>>)
      BY DEF Trailed, Range
    <3>3. QED
      BY <3>1, <3>2
  <2>2. /\ cur' = r /\ queue' = managers[r] /\ kept' = <<>> /\ UNCHANGED <<where, managers>>
    BY <1>5 DEF RunRequest
  <2>3. QED
    BY <1>1, <2>1, <2>2
<1>6. CASE \/ \E r \in Requests : FileRequest(r)
           \/ \E o \in Orders : SignalOrder(o) \/ ReadOrder(o)
           \/ send_orders \/ PassDone
  BY <1>1, <1>6 DEF FileRequest, SignalOrder, ReadOrder, Ask, send_orders, PassDone
<1>7. CASE RunManager \/ MoveTrail \/ ManagerAsksAgain
  <2>1. Managing /\ UNCHANGED <<where, managers, cur, queue, kept>>
    BY <1>7 DEF RunManager, MoveTrail, ManagerAsksAgain, SecondReport, Ask
  <2>2. QED
    BY <1>1, <2>1 DEF Working
<1>8. CASE ManagerReturns \/ SecondReturns \/ TrailMoved
  <2>1. PICK ms \in Seq(Managers) : Handed(ms)
    BY <1>8, ManagersHand
  <2>2. queue # <<>> /\ cur \in Requests /\ Trailed(cur, kept) /\ Trailed(cur, queue)
    BY <2>1 DEF Handed, Working
  <2>3. /\ Range(kept') = Range(kept) \union Range(ms)
        /\ Range(queue) = {Head(queue)} \union Range(queue')
        /\ tpc' = "managers"
        /\ UNCHANGED <<where, managers, cur>>
    BY <2>1, <2>2, Returned DEF Handed
  <2>4. Trailed(cur, ms)
    BY <2>1, <2>2, <2>3 DEF Handed, Trailed
  <2>5. Trailed(cur, kept') /\ Trailed(cur, queue')
    BY <2>2, <2>3, <2>4 DEF Trailed
  <2>6. Trailed(cur, kept)' /\ Trailed(cur, queue)'
    BY <2>2, <2>3, <2>5 DEF Trailed, Members
  <2>7. QED
    BY <1>1, <2>3, <2>6
<1>9. CASE RequestDone
  <2>1. /\ tpc = "managers" /\ tpc' = "pass" /\ UNCHANGED <<where, cur>>
        /\ managers' = [managers EXCEPT ![cur] = kept]
    BY <1>9 DEF RequestDone, NewManagers
  <2>2. QED
    BY <1>1, <2>1 DEF Working, TraderTypeOK
<1>10. CASE RequestFiled
  BY <1>1, <1>10 DEF RequestFiled, find_final_destination, TraderTypeOK
<1>11. QED
  BY <1>2, <1>3, <1>4, <1>5, <1>6, <1>7, <1>8, <1>9, <1>10, TraderRests DEF TraderWorks

(* What is filed is over, and says whether it has traded. *)
LEMMA FiledStep ==
  ASSUME TraderTypeOK, MarketInv, Working, Filed, NoErroneousRequest, TNext,
         \A r \in Requests :
           /\ Over(r) => Over(r)' /\ \A o \in Orders : Req(o) = r => filled'[o] = filled[o]
           /\ filled[Entry(r)] => filled'[Entry(r)]
  PROVE  Filed' /\ NoErroneousRequest'
<1> USE DEF Filed, NoErroneousRequest, listVars
<1>1. \A r \in Requests : Entry(r) \in Orders /\ Req(Entry(r)) = r
  BY EntryFacts
<1>2. CASE where' = where
  BY <1>1, <1>2
<1>3. CASE RequestAdded
  BY <1>1, <1>3 DEF RequestAdded, TraderTypeOK
<1>4. CASE RequestFiled
  <2>1. /\ cur \in Requests /\ Over(cur) /\ UNCHANGED <<group, filled, size, stopped>>
        /\ where' = [where EXCEPT ![cur] = find_final_destination(cur)]
    BY <1>4 DEF RequestFiled, Working, Active, marketVars, orderVars
  <2>2. Entry(cur) \in Members(cur) /\ Members(cur) \subseteq Orders
    BY <2>1, MembersFacts DEF Entry, TraderTypeOK
  <2>3. \A o \in Members(cur) : filled[o] => filled[Entry(cur)]
    <3>1. \A o \in Members(cur) : o \in Orders /\ Parent(o) = Entry(cur)
      BY <2>1, <2>2, MembersFacts, EntryFacts DEF TraderTypeOK
    <3>2. QED
      BY <3>1 DEF MarketInv, EntryFirst
  <2>4. \/ find_final_destination(cur) = "unfilled" /\ ~filled[Entry(cur)]
        \/ find_final_destination(cur) = "finished" /\ filled[Entry(cur)]
    BY <2>1, <2>2, <2>3 DEF find_final_destination, Over
  <2>5. \A r \in Requests : where'[r] = IF r = cur THEN find_final_destination(cur) ELSE where[r]
    BY <2>1 DEF TraderTypeOK
  <2>6. QED
    BY <1>1, <2>1, <2>4, <2>5
<1>5. QED
  BY <1>2, <1>3, <1>4, TraderRests
     DEF TraderWorks, Caller, CheckSome, TimeReversed, add_request, check_active_requests,
         set_signal_in_active_request, traderVars, send_orders, RunRequest, FileRequest,
         SignalOrder, ReadOrder, RunManager, ManagerReturns, ManagerAsksAgain, SecondReport,
         SecondReturns, MoveTrail, TrailMoved, RequestDone, PassDone, Return, EnterManager,
         AfterEntry, TrailEnded, CosManager, EodManager, Ask

(* After a report the exits that work have a position, and the trail that  *)
(* is moved keeps it.                                                      *)
LEMMA MovingStep ==
  ASSUME TraderTypeOK, MarketInv, ExitsLapse, InTime, Known, Working, Trailing, Moving, TNext
  PROVE  Moving'
<1>1. TypeOK
  BY DEF TraderTypeOK
<1>2. ASSUME tpc' \notin {"asked2", "changing"} PROVE Moving'
  BY <1>2 DEF Moving
<1>3. CASE MoveTrail
  <2>1. /\ Idle /\ tpc = "asked2" /\ Head(queue) = "trail_3" /\ ~stopped[Own("trail")]
        /\ tpc' = "changing" /\ pc' \in {"idle", "sync"}
        /\ UNCHANGED <<size, last_market_sync_time, env_time, cur>>
    BY <1>3 DEF MoveTrail, MayMove, Ended, sync_with_trader, Idle, orderVars, clockVars,
                flowVars, listVars
  <2>2. cur \in Requests /\ where[cur] = "active" /\ Trailed(cur, queue) /\ Head(queue) \in Range(queue)
    BY <2>1 DEF Working, Managing, Active, Trailing, TraderTypeOK, Range
  <2>3. Own("trail") \in Members(cur) /\ filled[Entry(cur)]
    BY <2>1, <2>2 DEF Trailed, Own
  <2>4. /\ Own("trail") \in Orders /\ Req(Own("trail")) = cur /\ IsExit(Own("trail"))
        /\ Parent(Own("trail")) = Entry(cur) /\ Entry(cur) \in Members(cur)
    BY <1>1, <2>2, <2>3, MembersFacts, EntryFacts DEF Own, IsExit, Kind, Entry
  <2>5. place[Entry(cur)] \in {"active", "finished"}
    BY <2>1, <2>2 DEF Known, Sending
  <2>6. place[Own("trail")] = "active"
    <3>1. place[Own("trail")] \notin {"absent", "new"}
      BY <2>2, <2>3, <2>4, <2>5 DEF MarketInv, Together
    <3>2. place[Own("trail")] # "finished"
      BY <2>1, <2>4 DEF MarketInv, Placed
    <3>3. QED
      BY <1>1, <2>4, <3>1, <3>2 DEF TypeOK
  <2>7. last_market_sync_time = env_time /\ positions_in_group(size, cur) # 0
    BY <2>1, <2>3, <2>4, <2>6 DEF Moving, Idle
  <2>8. QED
    BY <2>1, <2>7 DEF Moving
<1>4. CASE FinishSync /\ UNCHANGED traderVars
  <2> DEFINE active == {o \in Orders : place[o] = "active"}
  <2>1. /\ replace_finished_orders(UpdatedUntil(active)) /\ last_market_sync_time >= target
        /\ pc = "sync" /\ pc' \in {"idle", "return"}
        /\ UNCHANGED <<filled, size, last_market_sync_time, env_time, tpc, cur>>
    BY <1>4 DEF FinishSync, clockVars, traderVars, listVars, methodVars
  <2>2. last_market_sync_time = env_time
    BY <1>1, <2>1, MarketAssumption DEF InTime, TypeOK, None
  <2>3. ASSUME NEW o \in Orders, IsExit(o), place'[o] = "active", filled[Parent(o)]
        PROVE  positions_in_group(size, Req(o)) # 0
    <3>1. place[o] = "active" /\ UpdatedUntil(active)[o]
      BY <1>1, <2>1, <2>3, ReplaceFacts, UntilTypeOK
    <3>2. ~Lapsed(o, filled, stopped, size, last_market_sync_time)
      BY <3>1 DEF UpdatedUntil
    <3>3. QED
      BY <2>3, <3>2 DEF Lapsed, IsExit
  <2>4. QED
    BY <2>1, <2>2, <2>3 DEF Moving, positions_in_group
<1>5. CASE ProcessBar /\ UNCHANGED traderVars
  BY <1>5 DEF ProcessBar, Moving, InTime, TypeOK, traderVars, listVars, methodVars
<1>6. CASE (\E o \in Orders : SkipOrder(o) \/ MissOrder(o) \/ FillOrder(o)) /\ UNCHANGED traderVars
  BY <1>6 DEF SkipOrder, MissOrder, FillOrder, IsNext, Moving, traderVars, methodVars
<1>7. CASE FinishBar /\ UNCHANGED traderVars
  BY <1>7 DEF FinishBar, Moving, traderVars, methodVars
<1>8. CASE AdvanceToTarget /\ UNCHANGED traderVars
  BY <1>1, <1>8 DEF AdvanceToTarget, Moving, InTime, TypeOK, flowVars, traderVars, listVars, methodVars
<1>9. CASE activate_new_orders /\ UNCHANGED traderVars
  BY <1>2, <1>9 DEF activate_new_orders, InTime, traderVars, methodVars
<1>10. CASE change_existing_order(Own("trail")) /\ UNCHANGED traderVars
  <2>1. /\ tpc = "changing" /\ pc' \in {"idle", "return"}
        /\ UNCHANGED <<size, last_market_sync_time, env_time, tpc, cur>>
    BY <1>10 DEF change_existing_order, InTime, orderVars, clockVars, traderVars, listVars, methodVars
  <2>2. QED
    BY <2>1 DEF Moving
<1>11. CASE Halted /\ UNCHANGED traderVars
  <2>1. UNCHANGED <<place, filled, size, last_market_sync_time, pc, err, env_time, tpc, cur>>
    BY <1>11 DEF Halted, marketVars, orderVars, clockVars, flowVars, traderVars, listVars, methodVars
  <2>2. QED
    BY <1>11, <2>1 DEF Moving, Halted, Running
<1>12. CASE ManagerAsksAgain
  BY <1>12 DEF ManagerAsksAgain, SecondReport, Ask, status_report, sync_with_trader, Moving, Running
<1>13. CASE Caller \/ (TraderWorks /\ ~MoveTrail /\ ~ManagerAsksAgain)
  BY <1>2, <1>13
     DEF Caller, CheckSome, TimeReversed, add_request, check_active_requests,
         set_signal_in_active_request, TraderIdle, traderVars, methodVars,
         TraderWorks, send_orders, RequestAdded, RunRequest, FileRequest, SignalOrder,
         RunManager, ReadOrder, ManagerReturns, SecondReturns, TrailMoved, RequestDone,
         RequestFiled, PassDone, Return, EnterManager, AfterEntry, TrailEnded, CosManager,
         EodManager, Ask
<1>14. QED
  BY <1>3, <1>4, <1>5, <1>6, <1>7, <1>8, <1>9, <1>10, <1>11, <1>12, <1>13
     DEF TNext, MarketWorks, SyncStep

(* The trader asks the market for nothing it has no answer to. *)
LEMMA ContractStep ==
  ASSUME TraderInv, MarketInv, TraderKeepsContract, TNext
  PROVE  TraderKeepsContract'
<1>1. ASSUME NEW c, sync_with_trader(c, env_time), tpc # "idle" PROVE TraderKeepsContract'
  <2>1. env_time \in 0..MaxTime /\ last_market_sync_time <= env_time /\ last_market_sync_time \in Nat
    BY <1>1 DEF TraderInv, TraderTypeOK, TypeOK, InTime
  <2>2. ~(env_time < last_market_sync_time)
    BY <2>1, MarketAssumption
  <2>3. err' = err
    BY <1>1, <2>2 DEF sync_with_trader
  <2>4. QED
    BY <2>3 DEF TraderKeepsContract
<1>2. CASE send_orders \/ RunManager \/ ManagerAsksAgain \/ MoveTrail \/ \E o \in Orders : ReadOrder(o)
  BY <1>1, <1>2 DEF send_orders, RunManager, ManagerAsksAgain, SecondReport, MoveTrail,
                    ReadOrder, Ask, status_report
<1>3. CASE change_existing_order(Own("trail"))
  <2>1. tpc = "changing"
    BY <1>3 DEF change_existing_order, TraderInv, InTime
  <2>2. place[Own("trail")] = "active"
    BY <2>1, TrailWorks DEF TraderInv
  <2>3. QED
    BY <1>3, <2>2 DEF change_existing_order, TraderKeepsContract
<1>4. CASE SyncStep \/ activate_new_orders \/ Halted
  BY <1>4 DEF SyncStep, activate_new_orders, Halted, ProcessBar, SkipOrder, MissOrder, FillOrder,
              register_new_action, FinishBar, AdvanceToTarget, FinishSync, marketVars,
              TraderKeepsContract
<1>5. CASE Caller
  BY <1>5 DEF Caller, CheckSome, TimeReversed, add_request, new_order, check_active_requests,
              set_signal_in_active_request, marketVars, TraderKeepsContract
<1>6. QED
  BY <1>2, <1>3, <1>4, <1>5
     DEF TNext, MarketWorks, TraderWorks, RequestAdded, RunRequest, FileRequest, SignalOrder,
         SetSignal, ManagerReturns, SecondReturns, TrailMoved, RequestDone, RequestFiled, PassDone,
         Return, EnterManager, AfterEntry, TrailEnded, CosManager, EodManager, marketVars,
         TraderKeepsContract
(* What the trader works on is of the right type. *)
LEMMA TraderTypeStep ==
  ASSUME TraderTypeOK, TypeOK', MarketInv, ExitsLapse, InTime', Known, Working, Watching, TNext
  PROVE  TraderTypeOK'
<1>1. TypeOK /\ env_time' \in Nat \union {None}
  BY MarketAssumption DEF TraderTypeOK, InTime
<1>2. CASE UNCHANGED traderVars
  BY <1>2 DEF TraderTypeOK, traderVars, listVars, methodVars
<1>3. ASSUME NEW r \in Requests PROVE Members(r) \subseteq Orders
  BY <1>1, <1>3, MembersFacts
<1>4. CASE Caller
  <2>1. ASSUME NEW S \in {Active} \union {{r} : r \in Active}, NEW t,
               set_signal_in_active_request(S, t)
        PROVE  TraderTypeOK'
    <3>1. S \subseteq Requests
      BY DEF Active
    <3>2. UNION {Members(r) : r \in S} \subseteq Orders
      BY <1>3, <3>1
    <3>3. QED
      BY <1>1, <2>1, <3>2 DEF set_signal_in_active_request, TraderTypeOK
  <2>2. QED
    BY <1>1, <1>4, <2>1
       DEF Caller, CheckSome, TimeReversed, add_request, check_active_requests, Active,
           TraderTypeOK, traderVars, listVars, methodVars
<1>5. CASE RequestAdded
  <2>1. cur \in Requests /\ group[cur] \in GroupDef
    BY <1>1, <1>5, MarketAssumption DEF RequestAdded, Known, Sending, TypeOK
  <2>2. arm(group[cur]) \in Seq(Managers)
    BY <2>1, ArmFacts
  <2>3. QED
    BY <1>1, <1>5, <2>2 DEF RequestAdded, TraderTypeOK, Lists
<1>6. CASE \E r \in Requests : RunRequest(r) \/ FileRequest(r)
  <2>1. <<>> \in Seq(Managers)
    OBVIOUS
  <2>2. QED
    BY <1>1, <1>3, <1>6, <2>1 DEF RunRequest, FileRequest, TraderTypeOK, listVars, Active
<1>7. CASE ManagerReturns \/ SecondReturns \/ TrailMoved
  <2>1. PICK ms \in Seq(Managers) : Handed(ms)
    BY <1>7, ManagersHand
  <2>2. queue # <<>> /\ Return(ms)
    BY <1>7, <2>1 DEF Handed, Working, ManagerReturns, SecondReturns, TrailMoved
  <2>3. QED
    BY <1>1, <2>2, Returned DEF TraderTypeOK, listVars
<1>8. CASE RequestFiled
  <2>1. find_final_destination(cur) \in Lists
    BY DEF find_final_destination, Lists
  <2>2. QED
    BY <1>1, <1>8, <2>1 DEF RequestFiled, TraderTypeOK
<1>9. CASE RequestDone
  <2>1. <<>> \in Seq(Managers)
    OBVIOUS
  <2>2. QED
    BY <1>1, <1>9, <2>1 DEF RequestDone, NewManagers, TraderTypeOK
<1>10. CASE ManagerAsksAgain
  <2>1. cur \in Requests
    BY <1>10 DEF ManagerAsksAgain, Working, Managing, Active
  <2>2. Ended(Own("stop")) \in BOOLEAN
    BY <1>1, <2>1, OrderOfParts DEF Ended, Own, TypeOK, Kinds, ChildKinds
  <2>3. QED
    BY <1>1, <1>10, <2>2
       DEF ManagerAsksAgain, SecondReport, Ask, TraderTypeOK, listVars
<1>11. CASE send_orders \/ RunManager \/ MoveTrail \/ PassDone
            \/ \E o \in Orders : SignalOrder(o) \/ ReadOrder(o)
  BY <1>1, <1>11 DEF send_orders, RunManager, MoveTrail, PassDone, SignalOrder, ReadOrder, Ask,
                     TraderTypeOK, listVars, Active
<1>12. QED
  BY <1>2, <1>4, <1>5, <1>6, <1>7, <1>8, <1>9, <1>10, <1>11, TraderRests DEF TraderWorks

(* What a group holds is on the active list, with an exit that works. *)
LEMMA PositionStep ==
  ASSUME TraderTypeOK, MarketInv, ExitsLapse, ClosedByTrader, Known, Filed, NoErroneousRequest
  PROVE  PositionIsWatched
<1> SUFFICES ASSUME NEW r \in Requests, positions_in_group(size, r) # 0
             PROVE  /\ \E o \in children(r) : place[o] = "active" /\ until[o]
                    /\ where[r] = "active"
  BY DEF PositionIsWatched
<1>1. TypeOK /\ group[r] \in Groups /\ where[r] \in Lists
  BY DEF TraderTypeOK, TypeOK
<1>2. filled[Entry(r)] /\ \A o \in children(r) : place[o] = "active" /\ until[o]
  BY <1>1, HeldIsWorking
<1>3. PICK k \in Range(group[r].kids) : k \in {"cos", "stop", "trail"}
  BY <1>1 DEF ClosedByTrader
<1>4. <<r, k>> \in children(r)
  BY <1>3 DEF children, Members
<1>5. place[Entry(r)] = "finished"
  BY <1>2, EntryFacts DEF MarketInv, Placed
<1>6. where[r] # "none"
  BY <1>5 DEF Known
<1>7. where[r] \notin {"unfilled", "finished"}
  BY DEF Filed, Over
<1>8. where[r] = "active"
  BY <1>1, <1>6, <1>7 DEF NoErroneousRequest, Lists
<1>9. QED
  BY <1>2, <1>4, <1>8

(* What is carried from one step to the next. *)
Carried ==
  /\ MarketInv /\ TraderKeepsContract
  /\ TraderTypeOK /\ ExitsLapse
  /\ InTime /\ Known /\ Working /\ Watching /\ Trailing /\ Moving /\ Filed
  /\ NoErroneousRequest

LEMMA CarriedIsSafe ==
  ASSUME ClosedByTrader, Carried PROVE TraderInv /\ MarketInv /\ TraderKeepsContract
  BY PositionStep DEF Carried, TraderInv

LEMMA CarriedInit == TInit => Carried
<1> SUFFICES ASSUME TInit PROVE Carried
  OBVIOUS
<1>1. TypeOK /\ MarketInv
  BY InitTypeOK, InitInv DEF TInit
<1>2. <<>> \in Seq(Managers)
  OBVIOUS
<1>3. TraderTypeOK
  BY <1>1, <1>2 DEF TInit, TraderTypeOK, Lists
<1>4. \A r \in Requests : positions_in_group(size, r) = 0 /\ place[Entry(r)] = "absent"
  <2> SUFFICES ASSUME NEW r \in Requests
               PROVE  positions_in_group(size, r) = 0 /\ place[Entry(r)] = "absent"
    OBVIOUS
  <2>1. \A k \in Kinds : size[<<r, k>>] = 0
    BY OrderOfParts DEF TInit, Init
  <2>2. QED
    BY <2>1, EntryFacts DEF TInit, Init, positions_in_group, Kinds, ChildKinds
<1>5. InTime /\ ExitsLapse
  BY MarketAssumption DEF TInit, Init, InTime, ExitsLapse, None
<1>6. Known /\ Filed /\ NoErroneousRequest
  BY <1>4 DEF TInit, Known, Sending, Filed, NoErroneousRequest
<1>7. Working /\ Watching /\ Trailing /\ Moving
  BY DEF TInit, Working, Watching, Trailing, Moving, Managing, Active
<1>8. TraderKeepsContract
  BY DEF TInit, Init, TraderKeepsContract
<1>9. QED
  BY <1>1, <1>3, <1>5, <1>6, <1>7, <1>8 DEF Carried

(* Every step of the trader keeps its invariant, and the market's. *)
LEMMA CarriedStep ==
  ASSUME Percent = 100, ClosedByTrader, Carried, [TNext]_vars PROVE Carried'
<1> USE DEF Carried
<1>0. TraderInv
  BY CarriedIsSafe
<1>1. CASE UNCHANGED vars
  <2>1. UNCHANGED marketVars /\ UNCHANGED <<listVars, methodVars>>
    BY <1>1 DEF vars, traderVars
  <2>2. MarketInv' /\ TypeOK' /\ ExitsLapse'
    BY <2>1, StepInv, TypeStep, ExitsLapseStep DEF TraderTypeOK
  <2>3. TraderTypeOK' /\ InTime' /\ Known' /\ Working'
    BY <2>1, <2>2
       DEF TraderTypeOK, InTime, Known, Working, Sending, Managing, Active, Running, Over,
           marketVars, orderVars, clockVars, flowVars, listVars, methodVars, positions_in_group
  <2>4. Watching' /\ Trailing' /\ Filed' /\ NoErroneousRequest'
    BY <2>1
       DEF Watching, Trailing, Filed, NoErroneousRequest, Managing, Active, Watched,
           Trailed, Members, Over, positions_in_group,
           marketVars, orderVars, clockVars, flowVars, listVars, methodVars
  <2>5. Moving' /\ TraderKeepsContract'
    BY <2>1
       DEF Moving, TraderKeepsContract, Running, positions_in_group,
           marketVars, orderVars, clockVars, flowVars, listVars, methodVars
  <2>6. QED
    BY <2>2, <2>3, <2>4, <2>5
<1>2. CASE TNext
  <2>1. TypeOK' /\ MarketInv' /\ ExitsLapse'
    BY <1>0, <1>2, MarketKept
  <2>2. \A r \in Requests :
          /\ Over(r) => Over(r)' /\ \A o \in Orders : Req(o) = r => filled'[o] = filled[o]
          /\ filled[Entry(r)] => filled'[Entry(r)]
    BY <1>0, <1>2, OverKept
  <2>3. group' = group
    BY <1>0, <1>2, MarketStep, GroupsStay DEF Reversed
  <2>4. InTime' /\ Known' /\ Moving'
    BY <1>2, InTimeStep, KnownStep, MovingStep
  <2>5. Working' /\ Watching' /\ Trailing'
    BY <1>2, <2>2, <2>3, WorkingStep, WatchingStep, TrailingStep
  <2>6. Filed' /\ NoErroneousRequest'
    BY <1>2, <2>2, FiledStep
  <2>7. TraderTypeOK'
    BY <1>2, <2>1, <2>4, TraderTypeStep
  <2>8. TraderKeepsContract'
    BY <1>0, <1>2, ContractStep
  <2>9. QED
    BY <2>1, <2>4, <2>5, <2>6, <2>7, <2>8
<1>3. QED
  BY <1>1, <1>2

-----------------------------------------------------------------------------
(* The trader of trader.py is safe with any group of orders its strategies *)
(* send, as long as every request is armed with a manager that waits for   *)
(* an exit: it never holds a position it does not watch, moves no exit     *)
(* that does not work, and files nothing as erroneous.                     *)
THEOREM TraderSafe ==
  ASSUME Percent = 100, ClosedByTrader PROVE TSpec => []TraderInv
<1>1. Carried /\ [TNext]_vars => Carried'
  BY CarriedStep
<1>2. Carried => TraderInv
  BY CarriedIsSafe
<1>3. QED
  BY <1>1, <1>2, CarriedInit, PTL DEF TSpec

(* What the finished and the unfilled list say of a request stays true     *)
(* while the market goes on (trader.py:762-787).                           *)
THEOREM FilesAreTrue ==
  ASSUME Percent = 100, ClosedByTrader PROVE TSpec => []FiledIsTrue
<1>1. Carried /\ [TNext]_vars => Carried'
  BY CarriedStep
<1>2. Carried => FiledIsTrue
  <2> SUFFICES ASSUME Carried, NEW r \in Requests
               PROVE  /\ where[r] = "finished" =>
                           filled[<<r, "enter">>] /\ positions_in_group(size, r) = 0
                      /\ where[r] = "unfilled" => \A o \in Members(r) : size[o] = 0
    BY DEF FiledIsTrue
  <2>1. ASSUME where[r] = "unfilled", NEW o \in Members(r) PROVE size[o] = 0
    <3>1. o \in Orders /\ Parent(o) = Entry(r)
      BY MembersFacts, EntryFacts DEF Carried, TraderTypeOK
    <3>2. ~filled[o]
      BY <2>1, <3>1 DEF Carried, Filed, MarketInv, EntryFirst
    <3>3. QED
      BY <3>1, <3>2 DEF Carried, MarketInv, Sized
  <2>2. QED
    BY <2>1 DEF Carried, Filed, Over, Entry
<1>3. QED
  BY <1>1, <1>2, CarriedInit, PTL DEF TSpec

(* The trader only asks the market to go forward, and only moves a trail   *)
(* that still works: change_existing_order has no answer for another one   *)
(* (market.py:424-432).                                                    *)
THEOREM ContractIsKept ==
  ASSUME Percent = 100, ClosedByTrader PROVE TSpec => []TraderKeepsContract
<1>1. Carried /\ [TNext]_vars => Carried'
  BY CarriedStep
<1>2. Carried => TraderKeepsContract
  BY DEF Carried
<1>3. QED
  BY <1>1, <1>2, CarriedInit, PTL DEF TSpec

(* Under the trader the order book keeps what is proved of it alone, where *)
(* any client calls it in any order.                                       *)
THEOREM MarketUnderTrader ==
  ASSUME Percent = 100, ClosedByTrader PROVE TSpec => [](TypeOK /\ MarketInv)
<1>1. Carried /\ [TNext]_vars => Carried'
  BY CarriedStep
<1>2. Carried => TypeOK /\ MarketInv
  BY DEF Carried, TraderTypeOK
<1>3. QED
  BY <1>1, <1>2, CarriedInit, PTL DEF TSpec

(* Driven by the trader, the groups of the order book still live the life  *)
(* of module GroupLife: sent, opened whole, closed whole by one exit, or   *)
(* withdrawn, and never traded again.                                      *)
THEOREM LifeUnderTrader ==
  ASSUME Percent = 100, ClosedByTrader PROVE TSpec => ImplementsGroupLife
<1>1. Carried /\ [TNext]_vars => Carried'
  BY CarriedStep
<1>2. Carried => TypeOK /\ MarketInv /\ HeldByPhase
  BY PhaseHolds DEF Carried, TraderTypeOK
<1>3. Carried /\ [TNext]_vars => [Next]_marketVars \/ Reversed
  <2> SUFFICES ASSUME Carried, [TNext]_vars PROVE [Next]_marketVars \/ Reversed
    OBVIOUS
  <2>1. TraderInv /\ MarketInv
    BY CarriedIsSafe
  <2>2. QED
    BY <2>1, MarketStep DEF vars
<1>4. Reversed => UNCHANGED Life!lifeVars
  BY DEF Reversed, orderVars, Life!lifeVars, FullPosition, Signed, Action, PhaseOf, children,
         Members, positions_in_group
<1>5. TypeOK /\ MarketInv /\ HeldByPhase /\ (TypeOK /\ MarketInv /\ HeldByPhase)'
        /\ ([Next]_marketVars \/ Reversed) => [Life!Next]_Life!lifeVars
  BY <1>4, LifeStep
<1>6. TInit => Life!Init
  BY LifeInit DEF TInit
<1>7. QED
  BY <1>1, <1>2, <1>3, <1>5, <1>6, CarriedInit, PTL DEF TSpec, ImplementsGroupLife, Life!Spec
=============================================================================
