-------------------------- MODULE TWSOrdersProofs --------------------------
(* OrdersInv is inductive: ids are given one at a time while they come in   *)
(* time, the two queues keep the order of what is placed and reported, and  *)
(* so brackets stay whole and the client's view of its orders true.         *)
EXTENDS TWSOrdersInv, FiniteSetTheorems, SequenceTheorems, TLAPS

-----------------------------------------------------------------------------
(* Queues: one message more, one less, several more.                        *)

LEMMA Longer ==
  ASSUME NEW S, NEW s \in Seq(S), NEW m \in S
  PROVE  LET t == Append(s, m)
         IN /\ t \in Seq(S) /\ t # <<>> /\ Len(t) = Len(s) + 1 /\ Len(s) \in Nat
            /\ DOMAIN t = 1..Len(s) + 1 /\ DOMAIN s = 1..Len(s)
            /\ \A k \in 1..Len(s) : t[k] = s[k]
            /\ t[Len(s) + 1] = m
  BY AppendProperties, LenProperties

LEMMA Shorter ==
  ASSUME NEW S, NEW s \in Seq(S), s # <<>>
  PROVE  LET t == Tail(s)
         IN /\ t \in Seq(S) /\ Len(t) = Len(s) - 1 /\ Len(s) \in Nat \ {0}
            /\ DOMAIN t = 1..Len(s) - 1 /\ DOMAIN s = 1..Len(s)
            /\ \A k \in 1..Len(s) - 1 : t[k] = s[k + 1]
            /\ Head(s) = s[1] /\ Head(s) \in S
<1>1. Len(s) \in Nat \ {0}
  BY EmptySeq
<1>2. QED
  BY <1>1, HeadTailProperties, LenProperties

LEMMA Joined ==
  ASSUME NEW S, NEW s \in Seq(S), NEW t \in Seq(S)
  PROVE  LET u == s \o t
         IN /\ u \in Seq(S) /\ Len(u) = Len(s) + Len(t) /\ Len(s) \in Nat /\ Len(t) \in Nat
            /\ DOMAIN u = 1..Len(s) + Len(t) /\ DOMAIN s = 1..Len(s) /\ DOMAIN t = 1..Len(t)
            /\ \A k \in 1..Len(s) : u[k] = s[k]
            /\ \A k \in 1..Len(t) : u[Len(s) + k] = t[k]
            /\ \A k \in DOMAIN u : k \in 1..Len(s) \/ \E j \in 1..Len(t) : k = Len(s) + j
<1>1. /\ s \o t \in Seq(S) /\ Len(s \o t) = Len(s) + Len(t)
      /\ \A i \in 1..Len(s) + Len(t) : (s \o t)[i] = IF i <= Len(s) THEN s[i] ELSE t[i - Len(s)]
  BY ConcatProperties
<1>2. /\ Len(s) \in Nat /\ Len(t) \in Nat
      /\ DOMAIN (s \o t) = 1..Len(s) + Len(t) /\ DOMAIN s = 1..Len(s) /\ DOMAIN t = 1..Len(t)
  BY <1>1, LenProperties
<1>3. \A k \in 1..Len(s) : (s \o t)[k] = s[k]
  BY <1>1, <1>2
<1>4. \A k \in 1..Len(t) : (s \o t)[Len(s) + k] = t[k]
  <2>1. TAKE k \in 1..Len(t)
  <2>2. Len(s) + k \in 1..Len(s) + Len(t) /\ ~(Len(s) + k <= Len(s)) /\ Len(s) + k - Len(s) = k
    BY <1>2
  <2>3. QED
    BY <1>1, <2>2
<1>5. \A k \in DOMAIN (s \o t) : k \in 1..Len(s) \/ \E j \in 1..Len(t) : k = Len(s) + j
  <2>1. TAKE k \in DOMAIN (s \o t)
  <2>2. k \in 1..Len(s) \/ (k - Len(s) \in 1..Len(t) /\ k = Len(s) + (k - Len(s)))
    BY <1>2
  <2>3. QED
    BY <2>2
<1>6. QED
  BY <1>1, <1>2, <1>3, <1>4, <1>5

-----------------------------------------------------------------------------
(* Messages.                                                                *)

LEMMA ProgramMessages ==
  /\ RequestIds \in ToGateway /\ RequestIds.type = "reqIds"
  /\ \A id \in Ids : /\ Cancel(id) \in ToGateway /\ Cancel(id).type = "cancelOrder"
                     /\ Cancel(id).id = id
  /\ \A id \in Ids, parent \in 0..MaxOrders, role \in Roles, transmit \in BOOLEAN :
       LET m == Place(id, parent, role, transmit)
       IN /\ m \in ToGateway /\ m.type = "placeOrder" /\ m.id = id
          /\ m.parent = parent /\ m.role = role /\ m.transmit = transmit
  BY DEF ToGateway, RequestIds, Cancel, Place

LEMMA PlaceMessage ==
  ASSUME NEW m \in ToGateway
  PROVE  /\ m.type = "placeOrder" => /\ m.id \in Ids /\ m.parent \in 0..MaxOrders
                                     /\ m.role \in Roles /\ m.transmit \in BOOLEAN
         /\ m.type = "cancelOrder" => m.id \in Ids
  BY DEF ToGateway, RequestIds

LEMMA GatewayMessages ==
  /\ \A id \in 1..MaxOrders + 1 :
       NextValidId(id) \in FromGateway /\ NextValidId(id).type = "nextValidId" /\ NextValidId(id).id = id
  /\ \A id \in Ids :
       OpenOrder(id) \in FromGateway /\ OpenOrder(id).type = "openOrder" /\ OpenOrder(id).id = id
  /\ \A id \in Ids, s \in Statuses :
       /\ OrderStatus(id, s) \in FromGateway /\ OrderStatus(id, s).type = "orderStatus"
       /\ OrderStatus(id, s).id = id /\ OrderStatus(id, s).status = s
  BY DEF FromGateway, NextValidId, OpenOrder, OrderStatus

LEMMA ReceivedMessage ==
  ASSUME NEW m \in FromGateway
  PROVE  /\ m.type = "nextValidId" => m.id \in 1..MaxOrders + 1
         /\ m.type = "openOrder" => m.id \in Ids /\ m = OpenOrder(m.id)
         /\ m.type = "orderStatus" => /\ m.id \in Ids /\ m.status \in Statuses
                                      /\ m = OrderStatus(m.id, m.status)
  BY DEF FromGateway, OpenOrder, OrderStatus

(* Every order of a set is reported, as open and then with its status.      *)
LEMMA SetToSeqListsAll ==
  ASSUME NEW S, IsFiniteSet(S)
  PROVE  /\ Cardinality(S) \in Nat
         /\ SetToSeq(S) \in [1..Cardinality(S) -> S]
         /\ \A e \in S : \E k \in 1..Cardinality(S) : SetToSeq(S)[k] = e
<1> DEFINE n == Cardinality(S)
<1>1. n \in Nat
  BY FS_CardinalityType
<1>2. IsFiniteSet(1..n) /\ Cardinality(1..n) = n
  BY <1>1, FS_Interval
<1>3. PICK f \in Bijection(1..n, S) : TRUE
  BY <1>2, FS_SameCardinalityBij DEF ExistsBijection
<1>4. f \in [1..n -> S] /\ IsInjective(f)
  BY <1>3 DEF Bijection, Injection, IsInjective
<1>5. SetToSeq(S) \in [1..n -> S] /\ IsInjective(SetToSeq(S))
  BY <1>4 DEF SetToSeq
<1>6. SetToSeq(S) \in Injection(1..n, S)
  BY <1>5 DEF Injection, IsInjective
<1>7. SetToSeq(S) \in Surjection(1..n, S)
  BY <1>2, <1>6, FS_Injection
<1>8. QED
  BY <1>1, <1>5, <1>7 DEF Surjection

StatusOf(state) == IF state = "live" THEN "Submitted" ELSE state

LEMMA ReportsOf ==
  ASSUME NEW S \in SUBSET Ids, NEW state \in {"live", "Filled", "Cancelled"}
  PROVE  LET R == Reports(S, state)
         IN /\ R \in Seq(FromGateway)
            /\ \A k \in 1..Len(R) : \E i \in S : R[k] \in {OpenOrder(i), OrderStatus(i, StatusOf(state))}
            /\ \A i \in S : \E k \in 1..Len(R) : R[k] = OpenOrder(i)
            /\ \A i \in S : \A k \in 1..Len(R) : R[k] = OpenOrder(i) =>
                 k + 1 \in 1..Len(R) /\ R[k + 1] = OrderStatus(i, StatusOf(state))
<1> DEFINE n == Cardinality(S)
           order == SetToSeq(S)
           R == Reports(S, state)
<1>1. IsFiniteSet(S)
  <2>1. IsFiniteSet(Ids)
    BY OrdersAssumption, FS_Interval DEF Ids
  <2>2. QED
    BY <2>1, FS_Subset
<1>2. n \in Nat /\ order \in [1..n -> S] /\ \A e \in S : \E k \in 1..n : order[k] = e
  BY <1>1, SetToSeqListsAll
<1>3. StatusOf(state) \in Statuses
  BY DEF StatusOf, Statuses, Closed
<1>4. R = [k \in 1..2 * n |-> IF k % 2 = 1 THEN OpenOrder(order[(k + 1) \div 2])
                              ELSE OrderStatus(order[k \div 2], StatusOf(state))]
  BY DEF Reports, StatusOf
<1> HIDE DEF n, order, R
<1>5. \A k \in 1..2 * n : \/ k % 2 = 1 /\ (k + 1) \div 2 \in 1..n
                          \/ k % 2 = 0 /\ k \div 2 \in 1..n
  BY <1>2
<1>6. \A k \in 1..2 * n : \E i \in S : R[k] \in {OpenOrder(i), OrderStatus(i, StatusOf(state))}
  <2>1. TAKE k \in 1..2 * n
  <2>2. CASE k % 2 = 1 /\ (k + 1) \div 2 \in 1..n
    <3>1. R[k] = OpenOrder(order[(k + 1) \div 2]) /\ order[(k + 1) \div 2] \in S
      BY <1>2, <1>4, <2>2
    <3>2. QED
      BY <3>1
  <2>3. CASE k % 2 = 0 /\ k \div 2 \in 1..n
    <3>1. R[k] = OrderStatus(order[k \div 2], StatusOf(state)) /\ order[k \div 2] \in S
      BY <1>2, <1>4, <2>3
    <3>2. QED
      BY <3>1
  <2>4. QED
    BY <1>5, <2>2, <2>3
<1>7. R \in Seq(FromGateway) /\ Len(R) = 2 * n
  <2>1. \A i \in S : OpenOrder(i) \in FromGateway /\ OrderStatus(i, StatusOf(state)) \in FromGateway
    BY <1>3, GatewayMessages
  <2>2. \A k \in 1..2 * n : R[k] \in FromGateway
    BY <1>6, <2>1
  <2>3. R \in [1..2 * n -> FromGateway] /\ 2 * n \in Nat
    BY <1>2, <1>4, <2>2
  <2>4. QED
    BY <2>3
<1>8. \A i \in S : \E k \in 1..2 * n : R[k] = OpenOrder(i)
  <2>1. TAKE i \in S
  <2>2. PICK j \in 1..n : order[j] = i
    BY <1>2
  <2>3. 2 * j - 1 \in 1..2 * n /\ (2 * j - 1) % 2 = 1 /\ (2 * j - 1 + 1) \div 2 = j
    BY <1>2
  <2>4. R[2 * j - 1] = OpenOrder(i)
    BY <1>4, <2>2, <2>3
  <2>5. QED
    BY <2>3, <2>4
<1>9. \A i \in S : \A k \in 1..2 * n : R[k] = OpenOrder(i) =>
        k + 1 \in 1..2 * n /\ R[k + 1] = OrderStatus(i, StatusOf(state))
  <2>1. SUFFICES ASSUME NEW i \in S, NEW k \in 1..2 * n, R[k] = OpenOrder(i)
                 PROVE  k + 1 \in 1..2 * n /\ R[k + 1] = OrderStatus(i, StatusOf(state))
    OBVIOUS
  <2>2. CASE k % 2 = 1 /\ (k + 1) \div 2 \in 1..n
    <3> DEFINE j == (k + 1) \div 2
    <3>1. R[k] = OpenOrder(order[j]) /\ order[j] \in S
      BY <1>2, <1>4, <2>2
    <3>2. order[j] = i
      BY <2>1, <3>1 DEF OpenOrder
    <3>3. k + 1 \in 1..2 * n /\ (k + 1) % 2 # 1
      BY <1>2, <2>2
    <3>4. R[k + 1] = OrderStatus(order[j], StatusOf(state))
      BY <1>4, <3>3
    <3>5. QED
      BY <3>2, <3>3, <3>4
  <2>3. CASE k % 2 = 0 /\ k \div 2 \in 1..n
    <3>1. R[k] = OrderStatus(order[k \div 2], StatusOf(state))
      BY <1>4, <2>3
    <3>2. R[k].type = "orderStatus" /\ OpenOrder(i).type = "openOrder"
      BY <3>1 DEF OrderStatus, OpenOrder
    <3>3. QED
      BY <2>1, <3>2
  <2>4. QED
    BY <1>5, <2>2, <2>3
<1>10. QED
  BY <1>6, <1>7, <1>8, <1>9 DEF R

LEMMA BracketOrders ==
  ASSUME NEW eod \in BOOLEAN
  PROVE  LET b == Bracket(eod)
         IN /\ b \in Seq([role : Roles, transmit : BOOLEAN]) /\ b # <<>>
            /\ DOMAIN b = 1..Len(b) /\ Len(b) \in {3, 4}
            /\ b[1].role = "entry" /\ b[2].role = "profit" /\ b[3].role = "stop"
            /\ ~b[1].transmit /\ ~b[2].transmit
            /\ Len(b) = 4 => b[4].role = "moc"
<1> DEFINE O == [role : Roles, transmit : BOOLEAN]
           b3 == <<[role |-> "entry", transmit |-> FALSE], [role |-> "profit", transmit |-> FALSE],
                   [role |-> "stop", transmit |-> ~eod]>>
           b4 == IF eod THEN <<[role |-> "moc", transmit |-> TRUE]>> ELSE <<>>
<1>1. /\ b3 \in Seq(O) /\ Len(b3) = 3 /\ b3[1].role = "entry" /\ b3[2].role = "profit"
      /\ b3[3].role = "stop" /\ b3[1].transmit = FALSE /\ b3[2].transmit = FALSE
  BY DEF Roles
<1>2. b4 \in Seq(O) /\ Len(b4) \in {0, 1} /\ (Len(b4) = 1 => b4[1].role = "moc")
  <2>1. CASE eod
    <3> DEFINE moc == [role |-> "moc", transmit |-> TRUE]
    <3>1. b4 = <<moc>>
      BY <2>1
    <3>2. moc \in O /\ moc.role = "moc"
      BY DEF Roles
    <3> HIDE DEF moc, O
    <3>3. <<moc>> \in Seq(O) /\ Len(<<moc>>) = 1 /\ <<moc>>[1] = moc
      BY <3>2
    <3>4. QED
      BY <3>1, <3>2, <3>3
  <2>2. CASE ~eod
    <3>1. b4 = <<>>
      BY <2>2
    <3>2. QED
      BY <3>1
  <2>3. QED
    BY <2>1, <2>2
<1>3. Bracket(eod) = b3 \o b4
  BY DEF Bracket
<1> HIDE DEF b3, b4
<1>4. /\ b3 \o b4 \in Seq(O) /\ Len(b3 \o b4) = 3 + Len(b4)
      /\ \A i \in 1..3 + Len(b4) : (b3 \o b4)[i] = IF i <= 3 THEN b3[i] ELSE b4[i - 3]
  <2>1. /\ b3 \o b4 \in Seq(O) /\ Len(b3 \o b4) = Len(b3) + Len(b4)
        /\ \A i \in 1..Len(b3) + Len(b4) :
             (b3 \o b4)[i] = IF i <= Len(b3) THEN b3[i] ELSE b4[i - Len(b3)]
    BY <1>1, <1>2, ConcatProperties
  <2>2. Len(b3) = 3
    BY <1>1
  <2>3. QED
    BY <2>1, <2>2
<1>5. DOMAIN (b3 \o b4) = 1..Len(b3 \o b4) /\ b3 \o b4 # <<>>
  BY <1>2, <1>4, LenProperties, EmptySeq
<1>6. (b3 \o b4)[1] = b3[1] /\ (b3 \o b4)[2] = b3[2] /\ (b3 \o b4)[3] = b3[3]
  BY <1>2, <1>4
<1>7. Len(b4) = 1 => (b3 \o b4)[4] = b4[1]
  BY <1>4
<1>8. QED
  BY <1>1, <1>2, <1>3, <1>4, <1>5, <1>6, <1>7

-----------------------------------------------------------------------------
(* Types.                                                                   *)

(* An order that was placed is sent again.                                  *)
Resent(id, parent, role) ==
  /\ Among(placed, id, parent, role)
  /\ Place(id, parent, role, TRUE) \in ToGateway
  /\ to_tws' = Append(to_tws, Place(id, parent, role, TRUE))

(* The order the program changes is one it placed.                          *)
LEMMA OrderToChange ==
  ASSUME TypeOK, Typed, FromProgram, Reported, NEW id \in Ids, change_order(id)
  PROVE  /\ tws[id].state # "none"
         /\ \E parent \in 0..MaxOrders, role \in Roles : Resent(id, parent, role)
<1>1. tws[id].state # "none"
  BY DEF change_order, Reported
<1>2. PICK n \in DOMAIN placed :
        /\ placed[n].id = id
        /\ to_tws' = Append(to_tws, Place(id, placed[n].parent, placed[n].role, TRUE))
  BY DEF change_order, Range
<1> DEFINE order == placed[n]
<1>3. order \in [id : Ids, role : Roles, parent : 0..MaxOrders]
  BY <1>2, LenProperties DEF Typed
<1> HIDE DEF order
<1>4. order.parent \in 0..MaxOrders /\ order.role \in Roles
      /\ order = [id |-> order.id, role |-> order.role, parent |-> order.parent]
  BY <1>3
<1>5. Among(placed, id, order.parent, order.role)
  BY <1>2, <1>4 DEF Among, order
<1>6. Place(id, order.parent, order.role, TRUE) \in ToGateway
  BY <1>4, ProgramMessages
<1>7. Resent(id, order.parent, order.role)
  BY <1>2, <1>5, <1>6 DEF Resent, order
<1>8. QED
  BY <1>1, <1>4, <1>7

LEMMA ProgramTypes ==
  ASSUME TypeOK, Typed, FromProgram, Reported, Program
  PROVE  TypeOK' /\ Typed'
<1>1. ASSUME NEW orders \in Seq([role : Roles, transmit : BOOLEAN]), orders # <<>>, call(orders)
      PROVE  TypeOK' /\ Typed'
  BY <1>1, OrdersAssumption DEF call, TypeOK, Typed, clientVars, twsVars
<1>2. CASE place_order
  <2> DEFINE single == [role |-> "single", transmit |-> TRUE]
             O == [role : Roles, transmit : BOOLEAN]
  <2>1. single \in O
    BY DEF Roles
  <2>2. call(<<single>>)
    BY <1>2 DEF place_order
  <2> HIDE DEF single, O
  <2>3. <<single>> \in Seq(O) /\ <<single>> # <<>>
    BY <2>1
  <2>4. QED
    BY <1>1, <2>2, <2>3 DEF O
<1>3. CASE place_bracket_order
  <2>1. PICK eod \in BOOLEAN : call(Bracket(eod))
    BY <1>3 DEF place_bracket_order
  <2>2. Bracket(eod) \in Seq([role : Roles, transmit : BOOLEAN]) /\ Bracket(eod) # <<>>
    BY BracketOrders
  <2>3. QED
    BY <1>1, <2>1, <2>2
<1>4. CASE get_order_id
  <2>1. Append(to_tws, RequestIds) \in Seq(ToGateway)
    BY ProgramMessages, Longer DEF Typed
  <2>2. QED
    BY <1>4, <2>1 DEF get_order_id, TypeOK, Typed, clientVars, twsVars
<1>5. CASE order_id_got
  <2> DEFINE id == Head(next_order_id)
             order == Head(todo)
             m == Place(id, parent_id, order.role, order.transmit)
             e == [id |-> id, role |-> order.role, parent |-> parent_id]
  <2>1. id \in Ids /\ todo # <<>> /\ next_order_id # <<>> /\ pc = "wait"
    BY <1>5 DEF order_id_got, TypeOK
  <2>2. Tail(todo) \in Seq([role : Roles, transmit : BOOLEAN]) /\ order \in [role : Roles, transmit : BOOLEAN]
    BY <2>1, Shorter DEF Typed
  <2>3. Append(to_tws, m) \in Seq(ToGateway)
    <3>1. m \in ToGateway
      BY <2>1, <2>2, ProgramMessages DEF Typed
    <3>2. QED
      BY <3>1, Longer DEF Typed
  <2>4. Append(placed, e) \in Seq([id : Ids, role : Roles, parent : 0..MaxOrders])
    <3>1. e \in [id : Ids, role : Roles, parent : 0..MaxOrders]
      BY <2>1, <2>2 DEF Typed
    <3>2. QED
      BY <3>1, Longer DEF Typed
  <2>5. Tail(next_order_id) \in Seq(1..MaxOrders + 1) /\ Len(Tail(next_order_id)) <= 1
    BY <2>1, Shorter DEF TypeOK
  <2>6. Typed'
    <3>1. /\ to_tws' = Append(to_tws, m) /\ placed' = Append(placed, e) /\ todo' = Tail(todo)
          /\ parent_id' = (IF order.role = "entry" THEN id ELSE parent_id) /\ from_tws' = from_tws
      BY <1>5 DEF order_id_got
    <3>2. parent_id' \in 0..MaxOrders
      BY <2>1, <3>1 DEF Typed, Ids
    <3>3. QED
      BY <2>2, <2>3, <2>4, <3>1, <3>2 DEF Typed
  <2>7. TypeOK'
    BY <1>5, <2>5 DEF order_id_got, TypeOK, twsVars
  <2>8. QED
    BY <2>6, <2>7
<1>6. CASE order_id_timeout
  BY <1>6, OrdersAssumption DEF order_id_timeout, TypeOK, Typed, clientVars, twsVars
<1>7. ASSUME NEW id \in Ids, change_order(id)
      PROVE  TypeOK' /\ Typed'
  <2>1. PICK parent \in 0..MaxOrders, role \in Roles : Resent(id, parent, role)
    BY <1>7, OrderToChange
  <2>2. Append(to_tws, Place(id, parent, role, TRUE)) \in Seq(ToGateway)
    BY <2>1, Longer DEF Typed, Resent
  <2>3. to_tws' \in Seq(ToGateway) /\ changes' \in 0..MaxChanges
    <3>1. /\ to_tws' = Append(to_tws, Place(id, parent, role, TRUE))
          /\ changes' = changes + 1 /\ changes < MaxChanges
      BY <1>7, <2>1 DEF change_order, Resent
    <3>2. changes \in 0..MaxChanges
      BY DEF TypeOK
    <3>3. changes' \in 0..MaxChanges
      BY <3>1, <3>2, OrdersAssumption
    <3>4. QED
      BY <2>2, <3>1, <3>3
  <2>4. UNCHANGED <<clientVars, from_tws, twsVars, pc, todo, parent_id, placed, timeouts>>
    BY <1>7 DEF change_order
  <2>5. QED
    BY <2>3, <2>4 DEF TypeOK, Typed, clientVars, twsVars
<1>8. ASSUME NEW id \in Ids, cancel_order(id)
      PROVE  TypeOK' /\ Typed'
  <2>1. Append(to_tws, Cancel(id)) \in Seq(ToGateway)
    BY ProgramMessages, Longer DEF Typed
  <2>2. QED
    BY <1>8, <2>1, OrdersAssumption DEF cancel_order, TypeOK, Typed, clientVars, twsVars
<1>9. QED
  BY <1>2, <1>3, <1>4, <1>5, <1>6, <1>7, <1>8 DEF Program

-----------------------------------------------------------------------------
(* What the gateway does with orders, and what it reports of them.          *)

IsAbout(m, i) == m.type \in {"openOrder", "orderStatus"} /\ m.id = i
Silent(R, i) == \A k \in 1..Len(R) : ~IsAbout(R[k], i)
Tells(R, i, s) ==
  /\ \A k \in 1..Len(R) : IsAbout(R[k], i) => R[k] \in {OpenOrder(i), OrderStatus(i, s)}
  /\ \E k \in 1..Len(R) : R[k] = OpenOrder(i)
  /\ \A k \in 1..Len(R) : R[k] = OpenOrder(i) => k + 1 \in 1..Len(R) /\ R[k + 1] = OrderStatus(i, s)
OnlyOrders(R) == R \in Seq(FromGateway) /\ \A k \in 1..Len(R) : R[k].type # "nextValidId"

LEMMA ReportsTell ==
  ASSUME NEW S \in SUBSET Ids, NEW state \in {"live", "Filled", "Cancelled"}
  PROVE  LET R == Reports(S, state)
         IN /\ OnlyOrders(R)
            /\ \A i \in S : Tells(R, i, StatusOf(state))
            /\ \A i \in Ids \ S : Silent(R, i)
<1> DEFINE R == Reports(S, state)
           s == StatusOf(state)
<1>1. /\ R \in Seq(FromGateway)
      /\ \A k \in 1..Len(R) : \E i \in S : R[k] \in {OpenOrder(i), OrderStatus(i, s)}
      /\ \A i \in S : \E k \in 1..Len(R) : R[k] = OpenOrder(i)
      /\ \A i \in S : \A k \in 1..Len(R) : R[k] = OpenOrder(i) =>
           k + 1 \in 1..Len(R) /\ R[k + 1] = OrderStatus(i, s)
  BY ReportsOf
<1> HIDE DEF R, s
<1>2. \A k \in 1..Len(R) : \E i \in S : /\ R[k] \in {OpenOrder(i), OrderStatus(i, s)}
                                        /\ R[k].id = i /\ R[k].type # "nextValidId"
  BY <1>1 DEF OpenOrder, OrderStatus
<1>3. OnlyOrders(R)
  BY <1>1, <1>2 DEF OnlyOrders
<1>4. \A i \in S : Tells(R, i, s)
  BY <1>1, <1>2 DEF Tells, IsAbout
<1>5. \A i \in Ids \ S : Silent(R, i)
  BY <1>2 DEF Silent, IsAbout
<1>6. QED
  BY <1>3, <1>4, <1>5 DEF R, s

LEMMA ReportsJoined ==
  ASSUME NEW R1, NEW R2, OnlyOrders(R1), OnlyOrders(R2)
  PROVE  /\ OnlyOrders(R1 \o R2)
         /\ \A i \in Ids : Silent(R1, i) /\ Silent(R2, i) => Silent(R1 \o R2, i)
         /\ \A i \in Ids, s \in Statuses : Tells(R1, i, s) /\ Silent(R2, i) => Tells(R1 \o R2, i, s)
         /\ \A i \in Ids, s \in Statuses : Silent(R1, i) /\ Tells(R2, i, s) => Tells(R1 \o R2, i, s)
<1> DEFINE R == R1 \o R2
<1>1. /\ R \in Seq(FromGateway) /\ Len(R) = Len(R1) + Len(R2) /\ Len(R1) \in Nat /\ Len(R2) \in Nat
      /\ \A k \in 1..Len(R1) : R[k] = R1[k]
      /\ \A k \in 1..Len(R2) : R[Len(R1) + k] = R2[k]
      /\ DOMAIN R = 1..Len(R)
      /\ \A k \in DOMAIN R : k \in 1..Len(R1) \/ \E j \in 1..Len(R2) : k = Len(R1) + j
  BY Joined DEF OnlyOrders
<1> HIDE DEF R
<1>2. \A k \in 1..Len(R) : \/ k \in 1..Len(R1) /\ R[k] = R1[k]
                           \/ \E j \in 1..Len(R2) : k = Len(R1) + j /\ R[k] = R2[j]
  <2>1. TAKE k \in 1..Len(R)
  <2>2. CASE k \in 1..Len(R1)
    BY <1>1, <2>2
  <2>3. CASE \E j \in 1..Len(R2) : k = Len(R1) + j
    BY <1>1, <2>3
  <2>4. QED
    BY <1>1, <2>2, <2>3
<1>3. OnlyOrders(R)
  BY <1>1, <1>2 DEF OnlyOrders
<1>4. ASSUME NEW i \in Ids, Silent(R1, i), Silent(R2, i) PROVE Silent(R, i)
  BY <1>2, <1>4 DEF Silent
<1>5. ASSUME NEW i \in Ids, NEW s \in Statuses, Tells(R1, i, s), Silent(R2, i) PROVE Tells(R, i, s)
  <2>1. \A k \in 1..Len(R2) : R2[k] # OpenOrder(i)
    BY <1>5 DEF Silent, IsAbout, OpenOrder
  <2>2. \A k \in 1..Len(R) : IsAbout(R[k], i) => R[k] \in {OpenOrder(i), OrderStatus(i, s)}
    BY <1>1, <1>5 DEF Tells, Silent
  <2>3. \E k \in 1..Len(R) : R[k] = OpenOrder(i)
    <3>1. PICK k \in 1..Len(R1) : R1[k] = OpenOrder(i)
      BY <1>5 DEF Tells
    <3>2. k \in 1..Len(R) /\ R[k] = OpenOrder(i)
      BY <1>1, <3>1
    <3>3. QED
      BY <3>2
  <2>4. ASSUME NEW k \in 1..Len(R), R[k] = OpenOrder(i)
        PROVE  k + 1 \in 1..Len(R) /\ R[k + 1] = OrderStatus(i, s)
    <3>1. k \in 1..Len(R1) /\ R1[k] = OpenOrder(i)
      BY <1>2, <2>1, <2>4
    <3>2. k + 1 \in 1..Len(R1) /\ R1[k + 1] = OrderStatus(i, s)
      BY <1>5, <3>1 DEF Tells
    <3>3. QED
      BY <1>1, <3>2
  <2>5. QED
    BY <2>2, <2>3, <2>4 DEF Tells
<1>6. ASSUME NEW i \in Ids, NEW s \in Statuses, Silent(R1, i), Tells(R2, i, s) PROVE Tells(R, i, s)
  <2>1. \A k \in 1..Len(R1) : R1[k] # OpenOrder(i)
    BY <1>6 DEF Silent, IsAbout, OpenOrder
  <2>2. \A k \in 1..Len(R) : IsAbout(R[k], i) => R[k] \in {OpenOrder(i), OrderStatus(i, s)}
    BY <1>1, <1>6 DEF Tells, Silent
  <2>3. \E k \in 1..Len(R) : R[k] = OpenOrder(i)
    <3>1. PICK k \in 1..Len(R2) : R2[k] = OpenOrder(i)
      BY <1>6 DEF Tells
    <3>2. Len(R1) + k \in 1..Len(R) /\ R[Len(R1) + k] = OpenOrder(i)
      BY <1>1, <3>1
    <3>3. QED
      BY <3>2
  <2>4. ASSUME NEW k \in 1..Len(R), R[k] = OpenOrder(i)
        PROVE  k + 1 \in 1..Len(R) /\ R[k + 1] = OrderStatus(i, s)
    <3>1. PICK j \in 1..Len(R2) : k = Len(R1) + j
      BY <1>1, <2>1, <2>4
    <3>2. R2[j] = OpenOrder(i)
      BY <1>1, <2>4, <3>1
    <3>3. j + 1 \in 1..Len(R2) /\ R2[j + 1] = OrderStatus(i, s)
      BY <1>6, <3>2 DEF Tells
    <3>4. R[Len(R1) + (j + 1)] = OrderStatus(i, s) /\ k + 1 = Len(R1) + (j + 1)
      BY <1>1, <3>1, <3>3
    <3>5. QED
      BY <1>1, <3>3, <3>4
  <2>5. QED
    BY <2>2, <2>3, <2>4 DEF Tells
<1>7. QED
  BY <1>3, <1>4, <1>5, <1>6 DEF R

Order == [state : States, parent : 0..MaxOrders, role : Roles \union {"none"}]

(* The order at the head of the queue is dropped, kept or transmitted with  *)
(* what is held of its family.                                              *)
LEMMA OrderPlaced ==
  ASSUME TypeOK, Typed, order_placed
  PROVE  LET m   == Head(to_tws)
             top == Top(m.id, m.parent)
         IN /\ to_tws # <<>> /\ m \in ToGateway /\ m.type = "placeOrder" /\ to_tws' = Tail(to_tws)
            /\ UNCHANGED <<clientVars, programVars>>
            /\ tws[m.id].state \in Closed => UNCHANGED <<tws, next_valid, from_tws>>
            /\ tws[m.id].state \notin Closed =>
                 /\ next_valid' = IF m.id >= next_valid THEN m.id + 1 ELSE next_valid
                 /\ tws' \in [Ids -> Order] /\ tws'[m.id].parent = m.parent /\ tws'[m.id].role = m.role
                 /\ \A i \in Ids \ {m.id} : tws'[i].parent = tws[i].parent /\ tws'[i].role = tws[i].role
            /\ tws[m.id].state \notin Closed /\ ~m.transmit =>
                 /\ UNCHANGED from_tws /\ tws'[m.id].state = "held"
                 /\ \A i \in Ids \ {m.id} : tws'[i].state = tws[i].state
            /\ tws[m.id].state \notin Closed /\ m.transmit =>
                 \E live \in SUBSET Ids :
                   /\ m.id \in live /\ from_tws' = from_tws \o Reports(live, "live")
                   /\ \A i \in Ids : tws'[i].state = IF i \in live THEN "live" ELSE tws[i].state
                   /\ \A i \in live \ {m.id} :
                        tws[i].state = "held" /\ (i = top \/ tws[i].parent = top)
                   /\ \A i \in Ids : i = top \/ tws'[i].parent = top => tws'[i].state # "held"
<1> DEFINE m   == Head(to_tws)
           new == [tws EXCEPT ![m.id] = [state |-> "held", parent |-> m.parent, role |-> m.role]]
           top == Top(m.id, m.parent)
           live == {i \in {j \in Ids : j = top \/ new[j].parent = top} : new[i].state = "held"}
<1>1. to_tws # <<>> /\ m.type = "placeOrder" /\ to_tws' = Tail(to_tws) /\ UNCHANGED <<clientVars, programVars>>
  BY DEF order_placed
<1>2. m \in ToGateway
  BY <1>1, Shorter DEF Typed
<1>3. m.id \in Ids /\ m.parent \in 0..MaxOrders /\ m.role \in Roles /\ m.transmit \in BOOLEAN
  BY <1>1, <1>2, PlaceMessage
<1>4. tws \in [Ids -> Order]
  BY DEF TypeOK, Order
<1>5. /\ tws[m.id].state \in Closed => UNCHANGED <<tws, next_valid, from_tws>>
      /\ tws[m.id].state \notin Closed =>
           next_valid' = IF m.id >= next_valid THEN m.id + 1 ELSE next_valid
      /\ tws[m.id].state \notin Closed /\ ~m.transmit => tws' = new /\ UNCHANGED from_tws
      /\ tws[m.id].state \notin Closed /\ m.transmit =>
           /\ tws' = [i \in Ids |-> IF i \in live THEN [new[i] EXCEPT !.state = "live"] ELSE new[i]]
           /\ from_tws' = from_tws \o Reports(live, "live")
  BY DEF order_placed, Top
<1> HIDE DEF m
<1>6. /\ new \in [Ids -> Order] /\ new[m.id].state = "held"
      /\ new[m.id].parent = m.parent /\ new[m.id].role = m.role
      /\ \A i \in Ids \ {m.id} : new[i] = tws[i]
  BY <1>3, <1>4 DEF Order, States
<1> HIDE DEF new
<1>7. live \in SUBSET Ids /\ m.id \in live
  BY <1>3, <1>6 DEF Top
<1>8. \A i \in live \ {m.id} : tws[i].state = "held" /\ (i = top \/ tws[i].parent = top)
  BY <1>6
<1>9. CASE tws[m.id].state \in Closed
  BY <1>1, <1>2, <1>5, <1>9 DEF m
<1>10. CASE tws[m.id].state \notin Closed /\ ~m.transmit
  <2>1. tws' = new /\ UNCHANGED from_tws
    BY <1>5, <1>10
  <2>2. /\ tws' \in [Ids -> Order] /\ tws'[m.id].parent = m.parent /\ tws'[m.id].role = m.role
        /\ tws'[m.id].state = "held"
        /\ \A i \in Ids \ {m.id} : tws'[i] = tws[i]
    BY <1>6, <2>1
  <2>3. QED
    BY <1>1, <1>2, <1>5, <1>10, <2>1, <2>2 DEF m
<1>11. CASE tws[m.id].state \notin Closed /\ m.transmit
  <2>1. \A i \in Ids : tws'[i] = IF i \in live THEN [new[i] EXCEPT !.state = "live"] ELSE new[i]
    BY <1>5, <1>11
  <2>2. /\ \A i \in Ids : tws'[i] \in Order /\ tws'[i].parent = new[i].parent /\ tws'[i].role = new[i].role
        /\ \A i \in live : tws'[i].state = "live"
        /\ \A i \in Ids \ live : tws'[i].state = new[i].state
    <3>1. \A i \in Ids \ live : tws'[i] = new[i]
      BY <2>1
    <3>2. \A i \in live : tws'[i] = [new[i] EXCEPT !.state = "live"]
      BY <1>7, <2>1
    <3>3. ASSUME NEW i \in live
          PROVE  /\ tws'[i] \in Order /\ tws'[i].parent = new[i].parent /\ tws'[i].role = new[i].role
                 /\ tws'[i].state = "live"
      <4>1. new[i] \in Order
        BY <1>6, <1>7
      <4> HIDE DEF live
      <4>2. QED
        BY <3>2, <4>1 DEF Order, States
    <3> HIDE DEF live
    <3>4. QED
      BY <1>6, <1>7, <3>1, <3>3
  <2>3. tws' \in [Ids -> Order]
    <3>1. tws' = [i \in Ids |-> IF i \in live THEN [new[i] EXCEPT !.state = "live"] ELSE new[i]]
      BY <1>5, <1>11
    <3>2. QED
      BY <2>2, <3>1
  <2>4. \A i \in Ids : i = top \/ tws'[i].parent = top => tws'[i].state # "held"
    BY <2>2
  <2>5. \A i \in Ids : tws'[i].state = IF i \in live THEN "live" ELSE tws[i].state
    BY <1>6, <1>7, <2>2
  <2>6. /\ tws'[m.id].parent = m.parent /\ tws'[m.id].role = m.role
        /\ \A i \in Ids \ {m.id} : tws'[i].parent = tws[i].parent /\ tws'[i].role = tws[i].role
    BY <1>3, <1>6, <2>2
  <2> HIDE DEF live
  <2>7. from_tws' = from_tws \o Reports(live, "live")
    BY <1>5, <1>11
  <2>8. QED
    BY <1>1, <1>2, <1>5, <1>7, <1>8, <1>11, <2>3, <2>4, <2>5, <2>6, <2>7 DEF m
<1>12. QED
  BY <1>3, <1>9, <1>10, <1>11

(* A cancellation or a fill closes orders that are held or live, and        *)
(* reports each of them.                                                    *)
OrdersClose ==
  /\ UNCHANGED <<clientVars, next_valid, programVars>> /\ tws' \in [Ids -> Order]
  /\ \E R : /\ OnlyOrders(R) /\ from_tws' = from_tws \o R
            /\ \A i \in Ids :
                 /\ tws'[i].parent = tws[i].parent /\ tws'[i].role = tws[i].role
                 /\ \/ tws'[i].state = tws[i].state /\ Silent(R, i)
                    \/ /\ tws[i].state \in {"held", "live"} /\ tws'[i].state \in Closed
                       /\ tws'[i].state = "Filled" => tws[i].state = "live"
                       /\ Tells(R, i, tws'[i].state)

LEMMA SetCloses ==
  ASSUME TypeOK, NEW changed \in SUBSET Ids, NEW state \in Closed, SetStates(changed, state),
         UNCHANGED <<clientVars, next_valid, programVars>>,
         \A i \in changed : tws[i].state \in {"held", "live"},
         state = "Filled" => \A i \in changed : tws[i].state = "live"
  PROVE  OrdersClose
<1> DEFINE R == Reports(changed, state)
<1>1. tws \in [Ids -> Order]
  BY DEF TypeOK, Order
<1>2. /\ tws' = [i \in Ids |-> IF i \in changed THEN [tws[i] EXCEPT !.state = state] ELSE tws[i]]
      /\ from_tws' = from_tws \o R
  BY DEF SetStates
<1>3. OnlyOrders(R) /\ (\A i \in changed : Tells(R, i, state)) /\ \A i \in Ids \ changed : Silent(R, i)
  BY ReportsTell DEF StatusOf, Closed
<1> HIDE DEF R
<1>4. \A i \in Ids : /\ tws'[i] \in Order /\ tws'[i].parent = tws[i].parent /\ tws'[i].role = tws[i].role
                     /\ tws'[i].state = IF i \in changed THEN state ELSE tws[i].state
  BY <1>1, <1>2 DEF Order, States, Closed
<1>5. tws' \in [Ids -> Order]
  BY <1>2, <1>4
<1>6. QED
  BY <1>2, <1>3, <1>4, <1>5 DEF OrdersClose

LEMMA ChildCloses ==
  ASSUME TypeOK, NEW id \in Ids, fill_child(id)
  PROVE  OrdersClose
<1> DEFINE others == {i \in Family(id) : tws[i].state = "live"} \ {id}
           R1 == Reports({id}, "Filled")
           R2 == Reports(others, "Cancelled")
<1>1. tws \in [Ids -> Order] /\ tws[id].state = "live"
  BY DEF TypeOK, Order, fill_child
<1>2. others \in SUBSET Ids /\ id \notin others /\ \A i \in others : tws[i].state = "live"
  BY DEF Family
<1>3. /\ tws' = [i \in Ids |-> IF i = id THEN [tws[i] EXCEPT !.state = "Filled"]
                              ELSE IF i \in others THEN [tws[i] EXCEPT !.state = "Cancelled"]
                              ELSE tws[i]]
      /\ from_tws' = from_tws \o R1 \o R2
      /\ UNCHANGED <<clientVars, next_valid, programVars>>
  BY DEF fill_child
<1>4. /\ OnlyOrders(R1) /\ Tells(R1, id, "Filled") /\ \A i \in Ids \ {id} : Silent(R1, i)
      /\ OnlyOrders(R2) /\ (\A i \in others : Tells(R2, i, "Cancelled"))
      /\ \A i \in Ids \ others : Silent(R2, i)
  BY <1>2, ReportsTell DEF StatusOf
<1> HIDE DEF R1, R2, others
<1>5. /\ OnlyOrders(R1 \o R2) /\ Tells(R1 \o R2, id, "Filled")
      /\ \A i \in others : Tells(R1 \o R2, i, "Cancelled")
      /\ \A i \in Ids \ (others \union {id}) : Silent(R1 \o R2, i)
  BY <1>2, <1>4, ReportsJoined DEF Statuses, Closed
<1>6. \A i \in Ids : /\ tws'[i] \in Order /\ tws'[i].parent = tws[i].parent /\ tws'[i].role = tws[i].role
                     /\ tws'[i].state = IF i = id THEN "Filled" ELSE IF i \in others THEN "Cancelled"
                                       ELSE tws[i].state
  BY <1>1, <1>3 DEF Order, States
<1>7. tws' \in [Ids -> Order]
  BY <1>3, <1>6
<1>8. from_tws' = from_tws \o (R1 \o R2)
  BY <1>3, <1>4, ConcatAssociative
<1>9. ASSUME NEW i \in Ids
      PROVE  \/ tws'[i].state = tws[i].state /\ Silent(R1 \o R2, i)
             \/ /\ tws[i].state \in {"held", "live"} /\ tws'[i].state \in Closed
                /\ tws'[i].state = "Filled" => tws[i].state = "live"
                /\ Tells(R1 \o R2, i, tws'[i].state)
  <2>1. CASE i = id
    BY <1>1, <1>5, <1>6, <2>1 DEF Closed
  <2>2. CASE i \in others
    BY <1>2, <1>5, <1>6, <2>2 DEF Closed
  <2>3. CASE i \notin others \union {id}
    BY <1>5, <1>6, <2>3
  <2>4. QED
    BY <2>1, <2>2, <2>3
<1> DEFINE R == R1 \o R2
<1> HIDE DEF R
<1>10. QED
  BY <1>3, <1>5, <1>6, <1>7, <1>8, <1>9 DEF OrdersClose, R

LEMMA OrdersClosed ==
  ASSUME TypeOK, Typed, order_cancelled \/ \E id \in Ids : fill(id) \/ fill_child(id)
  PROVE  /\ OrdersClose
         /\ \/ UNCHANGED to_tws
            \/ to_tws # <<>> /\ Head(to_tws).type = "cancelOrder" /\ to_tws' = Tail(to_tws)
<1>1. CASE order_cancelled
  <2> DEFINE id == Head(to_tws).id
             changed == {i \in Ids : (i = id \/ tws[i].parent = id) /\ tws[i].state \in {"held", "live"}}
  <2>1. /\ SetStates(changed, "Cancelled") /\ UNCHANGED <<clientVars, next_valid, programVars>>
        /\ to_tws # <<>> /\ Head(to_tws).type = "cancelOrder" /\ to_tws' = Tail(to_tws)
    BY <1>1 DEF order_cancelled
  <2>2. changed \in SUBSET Ids /\ \A i \in changed : tws[i].state \in {"held", "live"}
    OBVIOUS
  <2> HIDE DEF changed
  <2>3. OrdersClose
    BY <2>1, <2>2, SetCloses DEF Closed
  <2>4. QED
    BY <2>1, <2>3
<1>2. ASSUME NEW id \in Ids, fill(id) PROVE OrdersClose /\ UNCHANGED to_tws
  <2>1. SetStates({id}, "Filled") /\ tws[id].state = "live" /\ UNCHANGED <<clientVars, next_valid, programVars>>
    BY <1>2 DEF fill
  <2>2. OrdersClose
    BY <2>1, SetCloses DEF Closed
  <2>3. QED
    BY <1>2, <2>2 DEF fill
<1>3. ASSUME NEW id \in Ids, fill_child(id) PROVE OrdersClose /\ UNCHANGED to_tws
  BY <1>3, ChildCloses DEF fill_child
<1>4. QED
  BY <1>1, <1>2, <1>3

LEMMA GatewayTypes ==
  ASSUME TypeOK, Typed, Gateway
  PROVE  TypeOK' /\ Typed'
<1>1. CASE ids_requested
  <2>1. Tail(to_tws) \in Seq(ToGateway)
    BY <1>1, Shorter DEF ids_requested, Typed
  <2>2. Append(from_tws, NextValidId(next_valid)) \in Seq(FromGateway)
    BY GatewayMessages, Longer DEF Typed, TypeOK
  <2>3. QED
    BY <1>1, <2>1, <2>2 DEF ids_requested, TypeOK, Typed, clientVars, twsVars, programVars
<1>2. CASE order_placed
  <2> DEFINE m == Head(to_tws)
  <2>1. /\ to_tws # <<>> /\ m \in ToGateway /\ m.type = "placeOrder" /\ to_tws' = Tail(to_tws)
        /\ UNCHANGED <<clientVars, programVars>>
        /\ tws[m.id].state \in Closed => UNCHANGED <<tws, next_valid, from_tws>>
        /\ tws[m.id].state \notin Closed =>
             /\ next_valid' = IF m.id >= next_valid THEN m.id + 1 ELSE next_valid
             /\ tws' \in [Ids -> Order]
        /\ tws[m.id].state \notin Closed /\ ~m.transmit => UNCHANGED from_tws
        /\ tws[m.id].state \notin Closed /\ m.transmit =>
             \E live \in SUBSET Ids : from_tws' = from_tws \o Reports(live, "live")
    BY <1>2, OrderPlaced
  <2>2. m.id \in Ids /\ m.transmit \in BOOLEAN
    BY <2>1, PlaceMessage
  <2>3. to_tws' \in Seq(ToGateway)
    BY <2>1, Shorter DEF Typed
  <2>4. from_tws' \in Seq(FromGateway)
    <3>1. \A live \in SUBSET Ids : from_tws \o Reports(live, "live") \in Seq(FromGateway)
      BY ReportsTell, Joined DEF OnlyOrders, Typed
    <3>2. QED
      BY <2>1, <2>2, <3>1 DEF Typed
  <2>5. tws' \in [Ids -> Order] /\ next_valid' \in 1..MaxOrders + 1
    BY <2>1, <2>2, OrdersAssumption DEF TypeOK, Order, Ids
  <2>6. QED
    BY <2>1, <2>3, <2>4, <2>5 DEF TypeOK, Typed, Order, clientVars, programVars
<1>3. CASE order_cancelled \/ \E id \in Ids : fill(id) \/ fill_child(id)
  <2>1. OrdersClose /\ to_tws' \in Seq(ToGateway)
    <3>1. to_tws # <<>> => Tail(to_tws) \in Seq(ToGateway)
      BY Shorter DEF Typed
    <3>2. QED
      BY <1>3, <3>1, OrdersClosed DEF Typed
  <2>2. from_tws' \in Seq(FromGateway)
    BY <2>1, Joined DEF OrdersClose, OnlyOrders, Typed
  <2>3. QED
    BY <2>1, <2>2 DEF OrdersClose, TypeOK, Typed, Order, clientVars, programVars
<1>4. QED
  BY <1>1, <1>2, <1>3 DEF Gateway

LEMMA DispatcherTypes ==
  ASSUME TypeOK, Typed, Dispatcher
  PROVE  TypeOK' /\ Typed'
<1> DEFINE m == Head(from_tws)
<1>1. from_tws # <<>> /\ from_tws' = Tail(from_tws) /\ UNCHANGED <<to_tws, twsVars, programVars>>
  BY DEF Dispatcher, handle_next_valid_id, handle_open_order, handle_order_status, Received
<1>2. m \in FromGateway /\ from_tws' \in Seq(FromGateway)
  BY <1>1, Shorter DEF Typed
<1>3. CASE handle_next_valid_id
  <2>1. m.id \in 1..MaxOrders + 1
    BY <1>2, <1>3, ReceivedMessage DEF handle_next_valid_id, Received
  <2>2. next_order_id' \in Seq(1..MaxOrders + 1) /\ Len(next_order_id') <= 1 /\ dispatching' \in BOOLEAN
    <3>1. ASSUME NEW id \in 1..MaxOrders + 1
          PROVE  <<id>> \in Seq(1..MaxOrders + 1) /\ Len(<<id>>) <= 1
      OBVIOUS
    <3>2. CASE next_order_id = <<>>
      <4>1. next_order_id' = <<m.id>> /\ dispatching' = dispatching
        BY <1>3, <3>2 DEF handle_next_valid_id
      <4>2. QED
        BY <2>1, <3>1, <4>1 DEF TypeOK
    <3>3. CASE next_order_id # <<>>
      BY <1>3, <3>3 DEF handle_next_valid_id, TypeOK
    <3>4. QED
      BY <3>2, <3>3
  <2>3. QED
    BY <1>1, <1>2, <1>3, <2>2 DEF handle_next_valid_id, TypeOK, Typed, twsVars, programVars
<1>4. CASE handle_open_order
  <2>1. m.id \in Ids
    BY <1>2, <1>4, ReceivedMessage DEF handle_open_order, Received
  <2>2. QED
    BY <1>1, <1>2, <1>4, <2>1 DEF handle_open_order, TypeOK, Typed, twsVars, programVars
<1>5. CASE handle_order_status
  <2>1. m.id \in Ids /\ m.status \in Statuses
    BY <1>2, <1>5, ReceivedMessage DEF handle_order_status, Received
  <2>2. QED
    BY <1>1, <1>2, <1>5, <2>1 DEF handle_order_status, TypeOK, Typed, twsVars, programVars
<1>6. QED
  BY <1>3, <1>4, <1>5 DEF Dispatcher

-----------------------------------------------------------------------------
(* What the program sends.                                                  *)

LEMMA OrderSent ==
  ASSUME TypeOK, Typed, order_id_got
  PROVE  \E id \in Ids, role \in Roles, transmit \in BOOLEAN :
           /\ pc = "wait" /\ next_order_id # <<>> /\ id = next_order_id[1]
           /\ next_order_id' = Tail(next_order_id)
           /\ todo # <<>> /\ 1 \in DOMAIN todo /\ todo' = Tail(todo)
           /\ todo[1].role = role /\ todo[1].transmit = transmit
           /\ to_tws' = Append(to_tws, Place(id, parent_id, role, transmit))
           /\ Place(id, parent_id, role, transmit) \in ToGateway
           /\ placed' = Append(placed, [id |-> id, role |-> role, parent |-> parent_id])
           /\ parent_id' = IF role = "entry" THEN id ELSE parent_id
<1> DEFINE id == Head(next_order_id)
           order == Head(todo)
<1>1. id \in Ids /\ todo # <<>> /\ next_order_id # <<>> /\ pc = "wait"
  BY DEF order_id_got, TypeOK
<1>2. order \in [role : Roles, transmit : BOOLEAN] /\ order = todo[1] /\ 1 \in DOMAIN todo
  <2> DEFINE O == [role : Roles, transmit : BOOLEAN]
  <2>1. todo \in Seq(O)
    BY DEF Typed
  <2> HIDE DEF O
  <2>2. Head(todo) \in O /\ Head(todo) = todo[1] /\ Len(todo) \in Nat \ {0} /\ DOMAIN todo = 1..Len(todo)
    BY <1>1, <2>1, Shorter
  <2>3. QED
    BY <2>2 DEF O
<1>3. id = next_order_id[1]
  BY <1>1, Shorter DEF TypeOK
<1>4. Place(id, parent_id, order.role, order.transmit) \in ToGateway
  BY <1>1, <1>2, ProgramMessages DEF Typed
<1>5. order.role \in Roles /\ order.transmit \in BOOLEAN
  BY <1>2
<1>6. /\ next_order_id' = Tail(next_order_id) /\ todo' = Tail(todo)
      /\ to_tws' = Append(to_tws, Place(id, parent_id, order.role, order.transmit))
      /\ placed' = Append(placed, [id |-> id, role |-> order.role, parent |-> parent_id])
      /\ parent_id' = IF order.role = "entry" THEN id ELSE parent_id
  BY DEF order_id_got
<1> HIDE DEF id, order
<1>7. QED
  BY <1>1, <1>2, <1>3, <1>4, <1>5, <1>6

LEMMA ProgramSends ==
  ASSUME TypeOK, Typed, FromProgram, Reported, Program
  PROVE  /\ UNCHANGED <<open_orders, order_status, dispatching, from_tws, twsVars>>
         /\ \/ UNCHANGED <<to_tws, placed>>
            \/ /\ UNCHANGED placed
               /\ \E m \in ToGateway : to_tws' = Append(to_tws, m) /\ m.type # "placeOrder"
            \/ /\ UNCHANGED placed
               /\ \E id \in open_orders :
                    /\ tws[id].state # "none"
                    /\ \E parent \in 0..MaxOrders, role \in Roles : Resent(id, parent, role)
            \/ order_id_got
<1>1. CASE place_order \/ place_bracket_order
  BY <1>1 DEF place_order, place_bracket_order, call, clientVars
<1>2. CASE get_order_id
  BY <1>2, ProgramMessages DEF get_order_id, clientVars
<1>3. CASE order_id_got
  BY <1>3 DEF order_id_got
<1>4. CASE order_id_timeout
  BY <1>4 DEF order_id_timeout, clientVars
<1>5. ASSUME NEW id \in Ids, change_order(id)
      PROVE  /\ UNCHANGED <<open_orders, order_status, dispatching, from_tws, twsVars, placed>>
             /\ id \in open_orders /\ tws[id].state # "none"
             /\ \E parent \in 0..MaxOrders, role \in Roles : Resent(id, parent, role)
  <2>1. /\ UNCHANGED <<open_orders, order_status, dispatching, from_tws, twsVars, placed>>
        /\ id \in open_orders
    BY <1>5 DEF change_order, clientVars
  <2>2. QED
    BY <1>5, <2>1, OrderToChange
<1>6. ASSUME NEW id \in Ids, cancel_order(id)
      PROVE  /\ UNCHANGED <<open_orders, order_status, dispatching, from_tws, twsVars, placed>>
             /\ to_tws' = Append(to_tws, Cancel(id))
             /\ Cancel(id) \in ToGateway /\ Cancel(id).type # "placeOrder"
  BY <1>6, ProgramMessages DEF cancel_order, clientVars
<1>7. QED
  BY <1>1, <1>2, <1>3, <1>4, <1>5, <1>6 DEF Program

(* What was placed stays placed.                                            *)
LEMMA PlacedStays ==
  ASSUME Typed, placed' = placed \/ \E e \in [id : Ids, role : Roles, parent : 0..MaxOrders] :
                                      placed' = Append(placed, e)
  PROVE  /\ DOMAIN placed = 1..Len(placed) /\ Len(placed) \in Nat
         /\ DOMAIN placed' = 1..Len(placed') /\ Len(placed') \in Nat
         /\ Len(placed) <= Len(placed')
         /\ \A n \in 1..Len(placed) : n \in 1..Len(placed') /\ placed'[n] = placed[n]
         /\ \A id, parent, role : Among(placed, id, parent, role) => Among(placed', id, parent, role)
         /\ IdIsOfTheOrder' => IdIsOfTheOrder
<1>1. /\ DOMAIN placed = 1..Len(placed) /\ Len(placed) \in Nat
      /\ DOMAIN placed' = 1..Len(placed') /\ Len(placed') \in Nat
      /\ Len(placed) <= Len(placed')
      /\ \A n \in 1..Len(placed) : n \in 1..Len(placed') /\ placed'[n] = placed[n]
  <2>1. DOMAIN placed = 1..Len(placed) /\ Len(placed) \in Nat
    BY LenProperties DEF Typed
  <2>2. CASE placed' = placed
    BY <2>1, <2>2
  <2>3. ASSUME NEW e \in [id : Ids, role : Roles, parent : 0..MaxOrders], placed' = Append(placed, e)
        PROVE  /\ DOMAIN placed' = 1..Len(placed') /\ Len(placed') \in Nat
               /\ Len(placed) <= Len(placed')
               /\ \A n \in 1..Len(placed) : n \in 1..Len(placed') /\ placed'[n] = placed[n]
    <3>1. /\ DOMAIN placed' = 1..Len(placed) + 1 /\ Len(placed') = Len(placed) + 1
          /\ \A k \in 1..Len(placed) : placed'[k] = placed[k]
      BY <2>3, Longer DEF Typed
    <3>2. QED
      BY <2>1, <3>1
  <2>4. QED
    BY <2>1, <2>2, <2>3
<1>2. QED
  BY <1>1 DEF Among, IdIsOfTheOrder

-----------------------------------------------------------------------------
(* The gateway has, and reports, what the program placed.                   *)

LEMMA FromProgramStep ==
  ASSUME TypeOK, Typed, FromProgram, Reported, Next, TypeOK', Typed'
  PROVE  FromProgram'
<1>1. \A k \in DOMAIN to_tws : to_tws[k].type = "placeOrder" =>
        Among(placed, to_tws[k].id, to_tws[k].parent, to_tws[k].role)
  BY DEF FromProgram
<1>2. \A i \in Ids : IF tws[i].state = "none" THEN tws[i].parent = 0
                    ELSE Among(placed, i, tws[i].parent, tws[i].role)
  BY DEF FromProgram
<1>3. CASE Program
  <2>1. /\ UNCHANGED tws
        /\ \/ UNCHANGED <<to_tws, placed>>
           \/ /\ UNCHANGED placed
              /\ \E m \in ToGateway : to_tws' = Append(to_tws, m) /\ m.type # "placeOrder"
           \/ /\ UNCHANGED placed
              /\ \E id \in open_orders, parent \in 0..MaxOrders, role \in Roles :
                   Resent(id, parent, role)
           \/ order_id_got
    BY <1>3, ProgramSends DEF twsVars
  <2>2. CASE UNCHANGED <<to_tws, placed>>
    BY <1>1, <1>2, <2>1, <2>2 DEF FromProgram, Among
  <2>3. ASSUME NEW m \in ToGateway, to_tws' = Append(to_tws, m),
               placed' = placed \/ \E e \in [id : Ids, role : Roles, parent : 0..MaxOrders] :
                                      placed' = Append(placed, e),
               m.type = "placeOrder" => Among(placed', m.id, m.parent, m.role)
        PROVE  FromProgram'
    <3>1. \A id, parent, role : Among(placed, id, parent, role) => Among(placed', id, parent, role)
      BY <2>3, PlacedStays
    <3>2. \A k \in DOMAIN to_tws' : (k \in DOMAIN to_tws /\ to_tws'[k] = to_tws[k]) \/ to_tws'[k] = m
      BY <2>3, Longer DEF Typed
    <3>3. \A k \in DOMAIN to_tws' : to_tws'[k].type = "placeOrder" =>
            Among(placed', to_tws'[k].id, to_tws'[k].parent, to_tws'[k].role)
      BY <1>1, <2>3, <3>1, <3>2
    <3>4. QED
      BY <1>2, <2>1, <3>1, <3>3 DEF FromProgram
  <2>4. ASSUME NEW m \in ToGateway, to_tws' = Append(to_tws, m), m.type # "placeOrder", UNCHANGED placed
        PROVE  FromProgram'
    BY <2>3, <2>4
  <2>5. ASSUME NEW id \in open_orders, NEW parent \in 0..MaxOrders, NEW role \in Roles,
               UNCHANGED placed, Resent(id, parent, role)
        PROVE  FromProgram'
    <3> DEFINE m == Place(id, parent, role, TRUE)
    <3>1. Among(placed', id, parent, role) /\ m \in ToGateway /\ to_tws' = Append(to_tws, m)
      BY <2>5, PlacedStays DEF Resent
    <3>2. m.id = id /\ m.parent = parent /\ m.role = role
      BY DEF Place
    <3> HIDE DEF m
    <3>3. QED
      BY <2>3, <2>5, <3>1, <3>2
  <2>6. CASE order_id_got
    <3>1. PICK id \in Ids, role \in Roles, transmit \in BOOLEAN :
            /\ to_tws' = Append(to_tws, Place(id, parent_id, role, transmit))
            /\ Place(id, parent_id, role, transmit) \in ToGateway
            /\ placed' = Append(placed, [id |-> id, role |-> role, parent |-> parent_id])
      BY <2>6, OrderSent
    <3> DEFINE e == [id |-> id, role |-> role, parent |-> parent_id]
    <3>2. e \in [id : Ids, role : Roles, parent : 0..MaxOrders]
      BY DEF Typed
    <3>3. Len(placed) + 1 \in DOMAIN placed' /\ placed'[Len(placed) + 1] = e
      BY <3>1, <3>2, Longer DEF Typed
    <3>4. Among(placed', id, parent_id, role)
      BY <3>3 DEF Among
    <3>5. LET m == Place(id, parent_id, role, transmit)
          IN m.id = id /\ m.parent = parent_id /\ m.role = role
      BY DEF Place
    <3> HIDE DEF e
    <3>6. placed' = Append(placed, e)
      BY <3>1 DEF e
    <3>7. QED
      BY <2>3, <3>1, <3>2, <3>4, <3>5, <3>6
  <2>7. QED
    BY <2>1, <2>2, <2>4, <2>5, <2>6
<1>4. ASSUME UNCHANGED placed,
             UNCHANGED to_tws \/ (to_tws # <<>> /\ to_tws' = Tail(to_tws)),
             \A i \in Ids : IF tws'[i].state = "none" THEN tws'[i].parent = 0
                           ELSE Among(placed, i, tws'[i].parent, tws'[i].role)
      PROVE  FromProgram'
  <2>1. \A id, parent, role : Among(placed, id, parent, role) => Among(placed', id, parent, role)
    BY <1>4 DEF Among
  <2>2. \A k \in DOMAIN to_tws' : \E j \in DOMAIN to_tws : to_tws'[k] = to_tws[j]
    <3>1. CASE UNCHANGED to_tws
      BY <3>1
    <3>2. CASE to_tws # <<>> /\ to_tws' = Tail(to_tws)
      <4>1. \A k \in DOMAIN to_tws' : k + 1 \in DOMAIN to_tws /\ to_tws'[k] = to_tws[k + 1]
        BY <3>2, Shorter DEF Typed
      <4>2. QED
        BY <4>1
    <3>3. QED
      BY <1>4, <3>1, <3>2
  <2>3. \A k \in DOMAIN to_tws' : to_tws'[k].type = "placeOrder" =>
          Among(placed', to_tws'[k].id, to_tws'[k].parent, to_tws'[k].role)
    BY <1>1, <2>1, <2>2
  <2>4. QED
    BY <1>4, <2>1, <2>3 DEF FromProgram
<1>5. CASE ids_requested \/ Dispatcher
  <2>1. UNCHANGED <<placed, tws>> /\ (UNCHANGED to_tws \/ (to_tws # <<>> /\ to_tws' = Tail(to_tws)))
    BY <1>5 DEF ids_requested, Dispatcher, handle_next_valid_id, handle_open_order, handle_order_status,
                programVars, twsVars
  <2>2. QED
    BY <1>2, <1>4, <2>1
<1>6. CASE order_placed
  <2> DEFINE m == Head(to_tws)
  <2>1. /\ to_tws # <<>> /\ m \in ToGateway /\ m.type = "placeOrder" /\ to_tws' = Tail(to_tws)
        /\ UNCHANGED placed
        /\ tws[m.id].state \in Closed => UNCHANGED tws
        /\ tws[m.id].state \notin Closed =>
             /\ tws'[m.id].parent = m.parent /\ tws'[m.id].role = m.role
             /\ \A i \in Ids \ {m.id} : tws'[i].parent = tws[i].parent /\ tws'[i].role = tws[i].role
    BY <1>6, OrderPlaced DEF programVars
  <2>2. tws[m.id].state \notin Closed =>
          \A i \in Ids \ {m.id} : tws'[i].state = "none" <=> tws[i].state = "none"
    <3>1. /\ tws[m.id].state \notin Closed /\ ~m.transmit =>
               \A i \in Ids \ {m.id} : tws'[i].state = tws[i].state
          /\ tws[m.id].state \notin Closed /\ m.transmit =>
               \E live \in SUBSET Ids :
                 /\ \A i \in Ids : tws'[i].state = IF i \in live THEN "live" ELSE tws[i].state
                 /\ \A i \in live \ {m.id} : tws[i].state = "held"
      BY <1>6, OrderPlaced
    <3>2. m.transmit \in BOOLEAN
      BY <2>1, PlaceMessage
    <3>3. QED
      BY <3>1, <3>2
  <2>3. m = to_tws[1] /\ 1 \in DOMAIN to_tws
    BY <2>1, Shorter DEF Typed
  <2>4. Among(placed, m.id, m.parent, m.role)
    BY <1>1, <2>1, <2>3
  <2>5. \A i \in Ids : IF tws'[i].state = "none" THEN tws'[i].parent = 0
                      ELSE Among(placed, i, tws'[i].parent, tws'[i].role)
    <3>1. CASE tws[m.id].state \in Closed
      BY <1>2, <2>1, <3>1
    <3>2. CASE tws[m.id].state \notin Closed
      <4>1. tws'[m.id].state # "none"
        <5>1. m.transmit \in BOOLEAN
          BY <2>1, PlaceMessage
        <5>2. /\ ~m.transmit => tws'[m.id].state = "held"
              /\ m.transmit => \E live \in SUBSET Ids :
                   /\ m.id \in live
                   /\ \A i \in Ids : tws'[i].state = IF i \in live THEN "live" ELSE tws[i].state
          BY <1>6, <3>2, OrderPlaced
        <5>3. QED
          BY <5>1, <5>2
      <4>2. QED
        BY <1>2, <2>1, <2>2, <2>4, <3>2, <4>1
    <3>3. QED
      BY <3>1, <3>2
  <2>6. QED
    BY <1>4, <2>1, <2>5
<1>7. CASE order_cancelled \/ \E id \in Ids : fill(id) \/ fill_child(id)
  <2>1. OrdersClose /\ (UNCHANGED to_tws \/ (to_tws # <<>> /\ to_tws' = Tail(to_tws)))
    BY <1>7, OrdersClosed
  <2>2. \A i \in Ids : /\ tws'[i].parent = tws[i].parent /\ tws'[i].role = tws[i].role
                       /\ tws'[i].state = "none" <=> tws[i].state = "none"
    BY <2>1 DEF OrdersClose, Closed
  <2>3. QED
    BY <1>2, <1>4, <2>1, <2>2 DEF OrdersClose, programVars
<1>8. QED
  BY <1>3, <1>5, <1>6, <1>7 DEF Next, Gateway

(* Orders and reports of them change together.                              *)
LEMMA OrdersReported ==
  ASSUME TypeOK, Typed, order_placed \/ order_cancelled \/ \E id \in Ids : fill(id) \/ fill_child(id)
  PROVE  /\ UNCHANGED <<clientVars, programVars>>
         /\ \E R : /\ OnlyOrders(R) /\ from_tws' = from_tws \o R
                   /\ \A i \in Ids :
                        \/ /\ Tells(R, i, StatusOf(tws'[i].state)) /\ tws[i].state \notin Closed
                           /\ tws'[i].state \in {"live"} \union Closed
                        \/ Silent(R, i) /\ tws'[i].state = tws[i].state
                        \/ /\ Silent(R, i) /\ tws'[i].state = "held" /\ order_placed
                           /\ i = Head(to_tws).id /\ ~Head(to_tws).transmit
<1>1. ASSUME UNCHANGED from_tws
      PROVE  \E R : OnlyOrders(R) /\ from_tws' = from_tws \o R /\ \A i \in Ids : Silent(R, i)
  <2>1. from_tws \o <<>> = from_tws
    BY ConcatEmptySeq DEF Typed
  <2>2. OnlyOrders(<<>>) /\ \A i \in Ids : Silent(<<>>, i)
    BY DEF OnlyOrders, Silent
  <2>3. QED
    BY <1>1, <2>1, <2>2
<1>2. CASE order_placed
  <2> DEFINE m == Head(to_tws)
  <2>1. /\ UNCHANGED <<clientVars, programVars>> /\ m \in ToGateway /\ m.type = "placeOrder"
        /\ tws[m.id].state \in Closed => UNCHANGED <<tws, from_tws>>
        /\ tws[m.id].state \notin Closed /\ ~m.transmit =>
             /\ UNCHANGED from_tws /\ tws'[m.id].state = "held"
             /\ \A i \in Ids \ {m.id} : tws'[i].state = tws[i].state
        /\ tws[m.id].state \notin Closed /\ m.transmit =>
             \E live \in SUBSET Ids :
               /\ m.id \in live /\ from_tws' = from_tws \o Reports(live, "live")
               /\ \A i \in Ids : tws'[i].state = IF i \in live THEN "live" ELSE tws[i].state
               /\ \A i \in live \ {m.id} : tws[i].state = "held"
    BY <1>2, OrderPlaced
  <2>2. m.transmit \in BOOLEAN
    BY <2>1, PlaceMessage
  <2>3. CASE tws[m.id].state \in Closed
    BY <1>1, <2>1, <2>3
  <2>4. CASE tws[m.id].state \notin Closed /\ ~m.transmit
    BY <1>1, <1>2, <2>1, <2>4
  <2>5. CASE tws[m.id].state \notin Closed /\ m.transmit
    <3>1. PICK live \in SUBSET Ids :
            /\ m.id \in live /\ from_tws' = from_tws \o Reports(live, "live")
            /\ \A i \in Ids : tws'[i].state = IF i \in live THEN "live" ELSE tws[i].state
            /\ \A i \in live \ {m.id} : tws[i].state = "held"
      BY <2>1, <2>5
    <3> DEFINE R == Reports(live, "live")
    <3>2. /\ OnlyOrders(R) /\ \A i \in live : Tells(R, i, StatusOf("live"))
          /\ \A i \in Ids \ live : Silent(R, i)
      BY ReportsTell
    <3> HIDE DEF R
    <3>3. ASSUME NEW i \in Ids
          PROVE  \/ /\ Tells(R, i, StatusOf(tws'[i].state)) /\ tws[i].state \notin Closed
                    /\ tws'[i].state \in {"live"} \union Closed
                 \/ Silent(R, i) /\ tws'[i].state = tws[i].state
      <4>1. CASE i \in live
        BY <2>5, <3>1, <3>2, <4>1 DEF Closed
      <4>2. CASE i \notin live
        BY <3>1, <3>2, <4>2
      <4>3. QED
        BY <4>1, <4>2
    <3>4. from_tws' = from_tws \o R
      BY <3>1 DEF R
    <3>5. QED
      BY <2>1, <3>2, <3>3, <3>4
  <2>6. QED
    BY <2>2, <2>3, <2>4, <2>5
<1>3. CASE order_cancelled \/ \E id \in Ids : fill(id) \/ fill_child(id)
  <2>1. OrdersClose
    BY <1>3, OrdersClosed
  <2>2. PICK R : /\ OnlyOrders(R) /\ from_tws' = from_tws \o R
                 /\ \A i \in Ids :
                      \/ tws'[i].state = tws[i].state /\ Silent(R, i)
                      \/ /\ tws[i].state \in {"held", "live"} /\ tws'[i].state \in Closed
                         /\ Tells(R, i, tws'[i].state)
    BY <2>1 DEF OrdersClose
  <2>3. \A i \in Ids : \/ /\ Tells(R, i, StatusOf(tws'[i].state)) /\ tws[i].state \notin Closed
                          /\ tws'[i].state \in {"live"} \union Closed
                       \/ Silent(R, i) /\ tws'[i].state = tws[i].state
    BY <2>2 DEF StatusOf, Closed
  <2>4. QED
    BY <2>1, <2>2, <2>3 DEF OrdersClose
<1>4. QED
  BY <1>2, <1>3

LEMMA ReportedStep ==
  ASSUME TypeOK, Typed, FromProgram, Reported, Next
  PROVE  Reported'
<1>1. /\ \A i \in open_orders : tws[i].state # "none"
      /\ \A k \in DOMAIN from_tws : from_tws[k].type \in {"openOrder", "orderStatus"} =>
           tws[from_tws[k].id].state # "none"
  BY DEF Reported
<1>2. CASE Program
  BY <1>1, <1>2, ProgramSends DEF Reported, twsVars
<1>3. CASE ids_requested
  <2>1. UNCHANGED <<open_orders, tws>> /\ from_tws' = Append(from_tws, NextValidId(next_valid))
    BY <1>3 DEF ids_requested, clientVars, twsVars
  <2>2. NextValidId(next_valid) \in FromGateway /\ NextValidId(next_valid).type = "nextValidId"
    BY GatewayMessages DEF TypeOK
  <2>3. \A k \in DOMAIN from_tws' : \/ k \in DOMAIN from_tws /\ from_tws'[k] = from_tws[k]
                                    \/ from_tws'[k] = NextValidId(next_valid)
    BY <2>1, <2>2, Longer DEF Typed
  <2>4. QED
    BY <1>1, <2>1, <2>2, <2>3 DEF Reported
<1>4. CASE order_placed \/ order_cancelled \/ \E id \in Ids : fill(id) \/ fill_child(id)
  <2>1. PICK R : /\ OnlyOrders(R) /\ from_tws' = from_tws \o R
                 /\ \A i \in Ids :
                      \/ /\ Tells(R, i, StatusOf(tws'[i].state)) /\ tws[i].state \notin Closed
                         /\ tws'[i].state \in {"live"} \union Closed
                      \/ Silent(R, i) /\ tws'[i].state = tws[i].state
                      \/ Silent(R, i) /\ tws'[i].state = "held"
    BY <1>4, OrdersReported
  <2>2. UNCHANGED open_orders
    BY <1>4, OrdersReported DEF clientVars
  <2>3. \A i \in Ids : tws[i].state # "none" => tws'[i].state # "none"
    BY <2>1 DEF Closed
  <2>4. /\ DOMAIN from_tws = 1..Len(from_tws) /\ \A k \in DOMAIN from_tws : from_tws'[k] = from_tws[k]
        /\ \A k \in DOMAIN from_tws' : \/ k \in 1..Len(from_tws)
                                       \/ \E j \in 1..Len(R) : from_tws'[k] = R[j]
    <3>1. /\ DOMAIN from_tws = 1..Len(from_tws)
          /\ \A k \in 1..Len(from_tws) : from_tws'[k] = from_tws[k]
          /\ \A k \in 1..Len(R) : from_tws'[Len(from_tws) + k] = R[k]
          /\ \A k \in DOMAIN from_tws' : k \in 1..Len(from_tws) \/ \E j \in 1..Len(R) : k = Len(from_tws) + j
      BY <2>1, Joined DEF OnlyOrders, Typed
    <3>2. QED
      BY <3>1
  <2>5. \A j \in 1..Len(R) : R[j].type \in {"openOrder", "orderStatus"} =>
          R[j].id \in Ids /\ tws'[R[j].id].state # "none"
    <3>1. SUFFICES ASSUME NEW j \in 1..Len(R), R[j].type \in {"openOrder", "orderStatus"}
                   PROVE  R[j].id \in Ids /\ tws'[R[j].id].state # "none"
      OBVIOUS
    <3>2. R[j] \in FromGateway
      BY <2>1, ElementOfSeq DEF OnlyOrders
    <3>3. R[j].id \in Ids
      BY <3>1, <3>2, ReceivedMessage
    <3>4. ~Silent(R, R[j].id)
      BY <3>1 DEF Silent, IsAbout
    <3>5. QED
      BY <2>1, <3>3, <3>4 DEF Closed
  <2>6. \A k \in DOMAIN from_tws : from_tws[k].type \in {"openOrder", "orderStatus"} => from_tws[k].id \in Ids
    BY ReceivedMessage, LenProperties, ElementOfSeq DEF Typed
  <2>7. \A i \in open_orders : i \in Ids
    BY DEF TypeOK
  <2>8. \A k \in DOMAIN from_tws' : from_tws'[k].type \in {"openOrder", "orderStatus"} =>
          tws'[from_tws'[k].id].state # "none"
    BY <1>1, <2>3, <2>4, <2>5, <2>6
  <2>9. QED
    BY <1>1, <2>2, <2>3, <2>7, <2>8 DEF Reported
<1>5. CASE Dispatcher
  <2>1. from_tws # <<>> /\ from_tws' = Tail(from_tws) /\ UNCHANGED tws
    BY <1>5 DEF Dispatcher, handle_next_valid_id, handle_open_order, handle_order_status, Received, twsVars
  <2>2. /\ \A k \in DOMAIN from_tws' : k + 1 \in DOMAIN from_tws /\ from_tws'[k] = from_tws[k + 1]
        /\ 1 \in DOMAIN from_tws /\ Head(from_tws) = from_tws[1]
    BY <2>1, Shorter DEF Typed
  <2>3. open_orders' \subseteq open_orders
          \union {i \in Ids : Head(from_tws).type = "openOrder" /\ Head(from_tws).id = i}
    <3>1. Head(from_tws) \in FromGateway
      BY <2>1, Shorter DEF Typed
    <3>2. CASE handle_open_order
      BY <3>1, <3>2, ReceivedMessage DEF handle_open_order, Received
    <3>3. CASE handle_next_valid_id \/ handle_order_status
      BY <3>3 DEF handle_next_valid_id, handle_order_status
    <3>4. QED
      BY <1>5, <3>2, <3>3 DEF Dispatcher
  <2>4. QED
    BY <1>1, <2>1, <2>2, <2>3 DEF Reported
<1>6. QED
  BY <1>2, <1>3, <1>4, <1>5 DEF Next, Gateway

LEMMA NumberedStep ==
  ASSUME TypeOK, Typed, FromProgram, Reported, Numbered, Next
  PROVE  Numbered' /\ next_valid <= next_valid'
<1>1. CASE Program
  <2>1. UNCHANGED <<tws, next_valid>>
    BY <1>1, ProgramSends DEF twsVars
  <2>2. QED
    BY <2>1 DEF Numbered, TypeOK
<1>2. CASE ids_requested \/ Dispatcher
  BY <1>2 DEF ids_requested, Dispatcher, handle_next_valid_id, handle_open_order, handle_order_status,
              twsVars, Numbered, TypeOK
<1>3. CASE order_placed
  <2> DEFINE m == Head(to_tws)
  <2>1. /\ m \in ToGateway /\ m.type = "placeOrder"
        /\ tws[m.id].state \in Closed => UNCHANGED <<tws, next_valid>>
        /\ tws[m.id].state \notin Closed =>
             next_valid' = IF m.id >= next_valid THEN m.id + 1 ELSE next_valid
        /\ tws[m.id].state \notin Closed /\ ~m.transmit =>
             \A i \in Ids \ {m.id} : tws'[i].state = tws[i].state
        /\ tws[m.id].state \notin Closed /\ m.transmit =>
             \E live \in SUBSET Ids :
               /\ \A i \in Ids : tws'[i].state = IF i \in live THEN "live" ELSE tws[i].state
               /\ \A i \in live \ {m.id} : tws[i].state = "held"
    BY <1>3, OrderPlaced
  <2>2. m.id \in Ids /\ m.transmit \in BOOLEAN
    BY <2>1, PlaceMessage
  <2>3. CASE tws[m.id].state \in Closed
    BY <2>1, <2>3 DEF Numbered, TypeOK
  <2>4. CASE tws[m.id].state \notin Closed
    <3>1. \A i \in Ids \ {m.id} : tws'[i].state # "none" => tws[i].state # "none"
      BY <2>1, <2>2, <2>4
    <3>2. m.id < next_valid' /\ next_valid <= next_valid' /\ next_valid' \in Nat
      BY <2>1, <2>2, <2>4 DEF TypeOK, Ids
    <3>3. ASSUME NEW i \in Ids, tws'[i].state # "none" PROVE i < next_valid'
      <4>1. CASE i = m.id
        BY <3>2, <4>1
      <4>2. CASE i # m.id
        BY <3>1, <3>2, <3>3, <4>2 DEF Numbered, TypeOK, Ids
      <4>3. QED
        BY <4>1, <4>2
    <3>4. QED
      BY <3>2, <3>3 DEF Numbered
  <2>5. QED
    BY <2>3, <2>4
<1>4. CASE order_cancelled \/ \E id \in Ids : fill(id) \/ fill_child(id)
  BY <1>4, OrdersClosed DEF OrdersClose, Numbered, TypeOK
<1>5. QED
  BY <1>1, <1>2, <1>3, <1>4 DEF Next, Gateway

-----------------------------------------------------------------------------
(* Brackets are placed in their order.                                      *)

(* A call begins with a single order or an entry, placed for no other.      *)
LEMMA CallInOrder ==
  ASSUME NEW orders \in Seq([role : Roles, transmit : BOOLEAN]), call(orders),
         \A k \in DOMAIN orders :
           /\ orders[k].role \in {"entry", "profit"} => ~orders[k].transmit
           /\ orders[k].role \in {"single", "entry"} <=> k = 1
           /\ k # 1 => /\ k - 1 \in DOMAIN orders /\ orders[k - 1].role # "single"
                       /\ Earlier(orders[k].role) = Earlier(orders[k - 1].role) \union {orders[k - 1].role}
  PROVE  TodoInOrder'
<1>1. todo' = orders /\ parent_id' = 0 /\ placed' = placed
  BY DEF call
<1>2. \A k \in DOMAIN orders : k = 1 => Earlier(orders[k].role) = {}
  BY DEF Earlier
<1>3. QED
  BY <1>1, <1>2 DEF TodoInOrder

LEMMA CallsInOrder ==
  ASSUME place_order \/ place_bracket_order
  PROVE  TodoInOrder' /\ UNCHANGED placed
<1>1. CASE place_order
  <2> DEFINE single == [role |-> "single", transmit |-> TRUE]
             O == [role : Roles, transmit : BOOLEAN]
  <2>1. single \in O /\ single.role = "single"
    BY DEF Roles
  <2>2. call(<<single>>)
    BY <1>1 DEF place_order
  <2> HIDE DEF single
  <2>3. /\ <<single>> \in Seq(O) /\ DOMAIN <<single>> = {1} /\ <<single>>[1] = single
    BY <2>1
  <2> DEFINE orders == <<single>>
  <2> HIDE DEF orders
  <2>4. /\ orders \in Seq(O) /\ call(orders) /\ DOMAIN orders = {1} /\ orders[1].role = "single"
    BY <2>1, <2>2, <2>3 DEF orders
  <2>5. QED
    BY <2>4, CallInOrder DEF call
<1>2. CASE place_bracket_order
  <2>1. PICK eod \in BOOLEAN : call(Bracket(eod))
    BY <1>2 DEF place_bracket_order
  <2> DEFINE orders == Bracket(eod)
  <2>2. /\ orders \in Seq([role : Roles, transmit : BOOLEAN])
        /\ DOMAIN orders = 1..Len(orders) /\ Len(orders) \in {3, 4}
        /\ orders[1].role = "entry" /\ orders[2].role = "profit" /\ orders[3].role = "stop"
        /\ ~orders[1].transmit /\ ~orders[2].transmit
        /\ Len(orders) = 4 => orders[4].role = "moc"
    BY BracketOrders
  <2> HIDE DEF orders
  <2>3. \A k \in DOMAIN orders : k = 1 \/ k = 2 \/ k = 3 \/ (k = 4 /\ orders[4].role = "moc")
    BY <2>2
  <2>4. /\ Earlier("profit") = Earlier("entry") \union {"entry"}
        /\ Earlier("stop") = Earlier("profit") \union {"profit"}
        /\ Earlier("moc") = Earlier("stop") \union {"stop"}
    BY DEF Earlier
  <2>5. ASSUME NEW k \in DOMAIN orders
        PROVE  /\ orders[k].role \in {"entry", "profit"} => ~orders[k].transmit
               /\ orders[k].role \in {"single", "entry"} <=> k = 1
               /\ k # 1 => /\ k - 1 \in DOMAIN orders /\ orders[k - 1].role # "single"
                           /\ Earlier(orders[k].role) = Earlier(orders[k - 1].role) \union {orders[k - 1].role}
    <3>1. CASE k = 1
      BY <2>2, <3>1
    <3>2. CASE k = 2
      BY <2>2, <2>4, <3>2
    <3>3. CASE k = 3
      BY <2>2, <2>4, <3>3
    <3>4. CASE k = 4 /\ orders[4].role = "moc"
      BY <2>2, <2>4, <3>4
    <3>5. QED
      BY <2>3, <3>1, <3>2, <3>3, <3>4
  <2>6. call(orders)
    BY <2>1 DEF orders
  <2>7. QED
    BY <2>2, <2>5, <2>6, CallInOrder DEF call
<1>3. QED
  BY <1>1, <1>2

LEMMA SentInOrder ==
  ASSUME TypeOK, Typed, PlacedInOrder, TodoInOrder, order_id_got, Typed'
  PROVE  PlacedInOrder' /\ TodoInOrder'
<1>1. PICK id \in Ids, role \in Roles, transmit \in BOOLEAN :
        /\ todo # <<>> /\ 1 \in DOMAIN todo /\ todo' = Tail(todo) /\ todo[1].role = role
        /\ placed' = Append(placed, [id |-> id, role |-> role, parent |-> parent_id])
        /\ parent_id' = IF role = "entry" THEN id ELSE parent_id
  BY OrderSent
<1> DEFINE e == [id |-> id, role |-> role, parent |-> parent_id]
           n == Len(placed)
<1>2. e \in [id : Ids, role : Roles, parent : 0..MaxOrders]
  BY DEF Typed
<1>3. /\ n \in Nat /\ DOMAIN placed = 1..n /\ DOMAIN placed' = 1..n + 1 /\ Len(placed') = n + 1
      /\ \A k \in 1..n : placed'[k] = placed[k]
      /\ placed'[n + 1] = e
  <2> HIDE DEF e
  <2>1. placed' = Append(placed, e)
    BY <1>1 DEF e
  <2>2. QED
    BY <1>2, <2>1, Longer DEF Typed
<1>4. /\ role \in {"single", "entry"} => parent_id = 0
      /\ role \notin {"single", "entry"} => parent_id # 0
      /\ \A r \in Earlier(role) : PlacedBefore(n + 1, r, parent_id)
  BY <1>1 DEF TodoInOrder
<1>5. \A k \in 1..n + 1 : \A r, top : PlacedBefore(k, r, top) => PlacedBefore(k, r, top)'
  BY <1>3 DEF PlacedBefore
<1>6. PlacedInOrder'
  <2>1. ASSUME NEW k \in 1..n
        PROVE  /\ placed'[k].role \in {"single", "entry"} <=> placed'[k].parent = 0
               /\ \A r \in Earlier(placed'[k].role) : \E m \in 1..k - 1 :
                    /\ placed'[m].role = r
                    /\ placed'[k].parent = (IF r = "entry" THEN placed'[m].id ELSE placed'[m].parent)
    BY <1>3 DEF PlacedInOrder, PlacedBefore
  <2>2. /\ e.role \in {"single", "entry"} <=> e.parent = 0
        /\ \A r \in Earlier(e.role) : \E m \in 1..n :
             placed[m].role = r /\ e.parent = (IF r = "entry" THEN placed[m].id ELSE placed[m].parent)
    BY <1>3, <1>4 DEF PlacedBefore
  <2> HIDE DEF e
  <2>3. ASSUME NEW k \in DOMAIN placed'
        PROVE  /\ placed'[k].role \in {"single", "entry"} <=> placed'[k].parent = 0
               /\ \A r \in Earlier(placed'[k].role) : \E m \in 1..k - 1 :
                    /\ placed'[m].role = r
                    /\ placed'[k].parent = (IF r = "entry" THEN placed'[m].id ELSE placed'[m].parent)
    <3>1. CASE k \in 1..n
      BY <2>1, <3>1
    <3>2. CASE k = n + 1
      <4>1. k - 1 = n /\ placed'[k] = e
        BY <1>3, <3>2
      <4>2. \A m \in 1..n : placed'[m] = placed[m]
        BY <1>3
      <4>3. QED
        BY <2>2, <4>1, <4>2
    <3>3. QED
      BY <1>3, <3>1, <3>2
  <2>4. QED
    BY <2>3 DEF PlacedInOrder, PlacedBefore
<1>7. TodoInOrder'
  <2> DEFINE O == [role : Roles, transmit : BOOLEAN]
  <2>1. /\ DOMAIN todo' = 1..Len(todo) - 1 /\ DOMAIN todo = 1..Len(todo) /\ Len(todo) \in Nat
        /\ \A k \in DOMAIN todo' : k + 1 \in DOMAIN todo /\ todo'[k] = todo[k + 1]
        /\ \A k \in DOMAIN todo : todo[k] \in O
    <3>1. todo \in Seq(O)
      BY DEF Typed
    <3> HIDE DEF O
    <3>2. QED
      BY <1>1, <3>1, Shorter, ElementOfSeq
  <2>2. ASSUME NEW k \in DOMAIN todo'
        PROVE  /\ todo'[k].role \in {"entry", "profit"} => ~todo'[k].transmit
               /\ todo'[k].role \notin {"single", "entry"}
               /\ todo[k].role # "single"
               /\ Earlier(todo'[k].role) = Earlier(todo[k].role) \union {todo[k].role}
    <3>1. k + 1 \in DOMAIN todo /\ todo'[k] = todo[k + 1] /\ k + 1 # 1 /\ (k + 1) - 1 = k
      BY <2>1
    <3>2. QED
      BY <3>1 DEF TodoInOrder
  <2>3. ASSUME NEW k \in DOMAIN todo', k # 1
        PROVE  todo[k] = todo'[k - 1]
    BY <2>1, <2>3
  <2>4. ASSUME 1 \in DOMAIN todo'
        PROVE  /\ parent_id' # 0
               /\ \A r \in Earlier(todo'[1].role) : \E m \in 1..n + 1 :
                    /\ placed'[m].role = r
                    /\ parent_id' = (IF r = "entry" THEN placed'[m].id ELSE placed'[m].parent)
    <3>1. Earlier(todo'[1].role) = Earlier(role) \union {role} /\ role # "single"
      BY <1>1, <2>2, <2>4
    <3>2. /\ placed'[n + 1].role = role /\ placed'[n + 1].id = id /\ placed'[n + 1].parent = parent_id
          /\ n + 1 \in 1..n + 1
      BY <1>3
    <3>3. CASE role = "entry"
      <4>1. Earlier(role) = {} /\ parent_id' = id /\ id # 0
        BY <1>1, <3>3 DEF Earlier, Ids
      <4>2. QED
        BY <3>1, <3>2, <3>3, <4>1
    <3>4. CASE role # "entry"
      <4>1. parent_id' = parent_id /\ parent_id # 0
        BY <1>1, <1>4, <3>1, <3>4
      <4>2. \A r \in Earlier(role) : \E m \in 1..n :
              placed'[m].role = r /\ parent_id = (IF r = "entry" THEN placed'[m].id ELSE placed'[m].parent)
        BY <1>3, <1>4 DEF PlacedBefore
      <4>3. \A m \in 1..n : m \in 1..n + 1
        BY <1>3
      <4>4. QED
        BY <3>1, <3>2, <3>4, <4>1, <4>2, <4>3
    <3>5. QED
      BY <3>3, <3>4
  <2>5. Len(placed') + 1 - 1 = n + 1
    BY <1>3
  <2>6. ASSUME NEW k \in DOMAIN todo'
        PROVE  IF k = 1 THEN \A r \in Earlier(todo'[k].role) : \E m \in 1..Len(placed') + 1 - 1 :
                               /\ placed'[m].role = r
                               /\ parent_id' = (IF r = "entry" THEN placed'[m].id ELSE placed'[m].parent)
               ELSE /\ todo'[k - 1].role # "single"
                    /\ Earlier(todo'[k].role) = Earlier(todo'[k - 1].role) \union {todo'[k - 1].role}
    <3>1. CASE k = 1
      BY <2>4, <2>5, <3>1
    <3>2. CASE k # 1
      BY <2>2, <2>3, <3>2
    <3>3. QED
      BY <3>1, <3>2
  <2>7. \A k \in DOMAIN todo' : k = 1 => parent_id' # 0
    BY <2>4
  <2>8. ASSUME NEW k \in DOMAIN todo'
        PROVE  /\ todo'[k].role \in {"entry", "profit"} => ~todo'[k].transmit
               /\ todo'[k].role \in {"single", "entry"} => k = 1 /\ parent_id' = 0
               /\ todo'[k].role \notin {"single", "entry"} /\ k = 1 => parent_id' # 0
               /\ IF k = 1 THEN \A r \in Earlier(todo'[k].role) : PlacedBefore(Len(placed) + 1, r, parent_id)'
                  ELSE /\ todo'[k - 1].role # "single"
                       /\ Earlier(todo'[k].role) = Earlier(todo'[k - 1].role) \union {todo'[k - 1].role}
    BY <2>2, <2>6, <2>7 DEF PlacedBefore
  <2>9. QED
    BY <2>8 DEF TodoInOrder
<1>8. QED
  BY <1>6, <1>7

LEMMA InOrderStep ==
  ASSUME TypeOK, Typed, PlacedInOrder, TodoInOrder, Next, Typed'
  PROVE  PlacedInOrder' /\ TodoInOrder'
<1>1. CASE place_order \/ place_bracket_order
  <2>1. TodoInOrder' /\ UNCHANGED placed
    BY <1>1, CallsInOrder
  <2>2. QED
    BY <2>1 DEF PlacedInOrder, PlacedBefore
<1>2. CASE order_id_got
  BY <1>2, SentInOrder
<1>3. CASE order_id_timeout
  <2>1. todo' = <<>> /\ UNCHANGED placed
    BY <1>3 DEF order_id_timeout
  <2>2. DOMAIN todo' = {}
    BY <2>1
  <2>3. QED
    BY <2>1, <2>2 DEF PlacedInOrder, PlacedBefore, TodoInOrder
<1>4. CASE UNCHANGED <<placed, todo, parent_id>>
  <2>1. placed' = placed /\ todo' = todo /\ parent_id' = parent_id
    BY <1>4
  <2>2. PlacedInOrder'
    BY <2>1 DEF PlacedInOrder, PlacedBefore
  <2>3. TodoInOrder'
    BY <2>1 DEF TodoInOrder, PlacedBefore
  <2>4. QED
    BY <2>2, <2>3
<1>5. get_order_id \/ (\E id \in Ids : change_order(id) \/ cancel_order(id)) =>
        UNCHANGED <<placed, todo, parent_id>>
  BY DEF get_order_id, change_order, cancel_order
<1>6. Gateway => UNCHANGED <<placed, todo, parent_id>>
  BY DEF Gateway, ids_requested, order_placed, order_cancelled, fill, fill_child, programVars
<1>7. Dispatcher => UNCHANGED <<placed, todo, parent_id>>
  BY DEF Dispatcher, handle_next_valid_id, handle_open_order, handle_order_status, programVars
<1>8. QED
  BY <1>1, <1>2, <1>3, <1>4, <1>5, <1>6, <1>7 DEF Next, Program

-----------------------------------------------------------------------------
(* One id at a time.                                                        *)

AllSeen == \A n \in DOMAIN placed : \/ placed[n].id < next_valid
                                    \/ \E k \in DOMAIN to_tws : Sends(k, placed[n].id)
AskedLast == \A k \in DOMAIN to_tws : to_tws[k].type = "reqIds" => k = Len(to_tws) /\ Waits
NoneAsked == \A k \in DOMAIN to_tws : to_tws[k].type # "reqIds"
GivenOnce == \A k \in DOMAIN from_tws : from_tws[k].type = "nextValidId" =>
  /\ Waits /\ Unused(from_tws[k].id) /\ NoneAsked
  /\ \A j \in DOMAIN from_tws : from_tws[j].type = "nextValidId" => j = k
NoneGiven == \A k \in DOMAIN from_tws : from_tws[k].type # "nextValidId"
QueuedUnused == \A k \in DOMAIN next_order_id : Unused(next_order_id[k])

LEMMA OneIdParts ==
  OneId <=> (timeouts = 0 => AllSeen /\ AskedLast /\ GivenOnce /\ QueuedUnused)
  BY DEF OneId, AllSeen, AskedLast, GivenOnce, QueuedUnused, NoneAsked

LEMMA NotWaiting ==
  ASSUME AskedLast, GivenOnce, ~Waits
  PROVE  NoneAsked /\ NoneGiven
  BY DEF AskedLast, GivenOnce, NoneAsked, NoneGiven

(* While the program does not wait, it may send an order the gateway has.   *)
LEMMA SendsKnown ==
  ASSUME Typed, AllSeen, NoneAsked, QueuedUnused, NEW m \in ToGateway, m.type # "reqIds",
         m.type = "placeOrder" => m.id < next_valid,
         to_tws' = Append(to_tws, m), UNCHANGED <<placed, next_valid, next_order_id>>
  PROVE  AllSeen' /\ NoneAsked' /\ QueuedUnused'
<1>1. /\ \A k \in DOMAIN to_tws : k \in DOMAIN to_tws' /\ to_tws'[k] = to_tws[k]
      /\ \A k \in DOMAIN to_tws' : (k \in DOMAIN to_tws /\ to_tws'[k] = to_tws[k]) \/ to_tws'[k] = m
  BY Longer DEF Typed
<1>2. AllSeen'
  BY <1>1 DEF AllSeen, Sends
<1>3. NoneAsked'
  BY <1>1 DEF NoneAsked
<1>4. ASSUME NEW v, Unused(v), v = next_valid
      PROVE  /\ \A n \in DOMAIN placed' : placed'[n].id < v
             /\ \A k \in DOMAIN to_tws' : to_tws'[k].type = "placeOrder" => to_tws'[k].id < v
  BY <1>1, <1>4 DEF Unused
<1>5. QueuedUnused'
  BY <1>4 DEF QueuedUnused, Unused
<1>6. QED
  BY <1>2, <1>3, <1>5

LEMMA ProgramOneId ==
  ASSUME TypeOK, Typed, FromProgram, Reported, Numbered, IdIsOfTheOrder,
         AllSeen, AskedLast, GivenOnce, QueuedUnused, Program, timeouts' = 0, timeouts = 0
  PROVE  AllSeen' /\ AskedLast' /\ GivenOnce' /\ QueuedUnused' /\ IdIsOfTheOrder'
<1>1. UNCHANGED <<from_tws, next_valid>>
  BY ProgramSends DEF twsVars
<1>2. CASE place_order \/ place_bracket_order
  <2>1. pc = "idle" /\ UNCHANGED <<to_tws, from_tws, next_valid, placed, next_order_id>>
    BY <1>2 DEF place_order, place_bracket_order, call, clientVars, twsVars
  <2>2. NoneAsked /\ NoneGiven
    BY <2>1, NotWaiting DEF Waits
  <2>3. AllSeen' /\ QueuedUnused' /\ IdIsOfTheOrder'
    BY <2>1 DEF AllSeen, QueuedUnused, Unused, Sends, IdIsOfTheOrder
  <2>4. NoneAsked' /\ NoneGiven'
    BY <2>1, <2>2 DEF NoneAsked, NoneGiven
  <2>5. QED
    BY <2>3, <2>4 DEF AskedLast, GivenOnce, NoneAsked, NoneGiven
<1>3. CASE get_order_id
  <2>1. /\ pc = "getId" /\ pc' = "wait" /\ UNCHANGED <<from_tws, next_valid, placed, next_order_id>>
        /\ to_tws' = IF next_order_id = <<>> THEN Append(to_tws, RequestIds) ELSE to_tws
    BY <1>3 DEF get_order_id, clientVars, twsVars
  <2>2. NoneAsked /\ NoneGiven
    BY <2>1, NotWaiting DEF Waits
  <2>3. IdIsOfTheOrder' /\ NoneGiven'
    BY <2>1, <2>2 DEF IdIsOfTheOrder, NoneGiven
  <2>4. GivenOnce'
    BY <2>3 DEF GivenOnce, NoneGiven
  <2>5. CASE next_order_id = <<>>
    <3>1. /\ RequestIds \in ToGateway /\ RequestIds.type = "reqIds"
      BY ProgramMessages
    <3>2. /\ \A k \in DOMAIN to_tws : k \in DOMAIN to_tws' /\ to_tws'[k] = to_tws[k]
          /\ \A k \in DOMAIN to_tws' : \/ k \in DOMAIN to_tws /\ to_tws'[k] = to_tws[k]
                                       \/ k = Len(to_tws')
      BY <2>1, <2>5, <3>1, Longer DEF Typed
    <3>3. AllSeen'
      BY <2>1, <3>2 DEF AllSeen, Sends
    <3>4. AskedLast'
      BY <2>1, <2>2, <2>5, <3>2 DEF AskedLast, NoneAsked, Waits
    <3>5. DOMAIN next_order_id' = {}
      BY <2>1, <2>5
    <3>6. QED
      BY <2>3, <2>4, <3>3, <3>4, <3>5 DEF QueuedUnused
  <2>6. CASE next_order_id # <<>>
    <3>1. to_tws' = to_tws
      BY <2>1, <2>6
    <3>2. AllSeen' /\ QueuedUnused' /\ NoneAsked'
      BY <2>1, <2>2, <3>1 DEF AllSeen, QueuedUnused, Unused, Sends, NoneAsked
    <3>3. QED
      BY <2>3, <2>4, <3>2 DEF AskedLast, NoneAsked
  <2>7. QED
    BY <2>5, <2>6
<1>4. CASE order_id_got
  <2>1. PICK id \in Ids, role \in Roles, transmit \in BOOLEAN :
          /\ next_order_id # <<>> /\ id = next_order_id[1] /\ next_order_id' = Tail(next_order_id)
          /\ to_tws' = Append(to_tws, Place(id, parent_id, role, transmit))
          /\ Place(id, parent_id, role, transmit) \in ToGateway
          /\ placed' = Append(placed, [id |-> id, role |-> role, parent |-> parent_id])
    BY <1>4, OrderSent
  <2> DEFINE m == Place(id, parent_id, role, transmit)
             e == [id |-> id, role |-> role, parent |-> parent_id]
             n == Len(placed)
  <2>2. m \in ToGateway /\ m.type = "placeOrder" /\ m.id = id
    BY <2>1 DEF Place
  <2>3. e \in [id : Ids, role : Roles, parent : 0..MaxOrders] /\ e.id = id
    BY DEF Typed
  <2>4. NoneAsked /\ NoneGiven
    BY <2>1, NotWaiting DEF Waits
  <2>5. Unused(id) /\ DOMAIN next_order_id' = {}
    <3>1. /\ 1 \in DOMAIN next_order_id /\ Len(next_order_id) \in Nat \ {0}
          /\ DOMAIN next_order_id' = 1..Len(next_order_id) - 1 /\ Len(next_order_id) <= 1
      BY <2>1, Shorter DEF TypeOK
    <3>2. QED
      BY <2>1, <3>1 DEF QueuedUnused
  <2> HIDE DEF m, e
  <2>6. /\ n \in Nat /\ DOMAIN placed = 1..n /\ DOMAIN placed' = 1..n + 1
        /\ \A k \in 1..n : placed'[k] = placed[k]
        /\ placed'[n + 1] = e
    <3>1. placed' = Append(placed, e)
      BY <2>1 DEF e
    <3>2. QED
      BY <2>3, <3>1, Longer DEF Typed
  <2>7. /\ \A k \in DOMAIN to_tws : k \in DOMAIN to_tws' /\ to_tws'[k] = to_tws[k]
        /\ \A k \in DOMAIN to_tws' : (k \in DOMAIN to_tws /\ to_tws'[k] = to_tws[k]) \/ to_tws'[k] = m
        /\ \E k \in DOMAIN to_tws' : to_tws'[k] = m
    <3>1. to_tws' = Append(to_tws, m)
      BY <2>1 DEF m
    <3>2. QED
      BY <2>2, <3>1, Longer DEF Typed
  <2>8. NoneAsked' /\ NoneGiven'
    BY <1>1, <2>2, <2>4, <2>7 DEF NoneAsked, NoneGiven
  <2>9. AllSeen'
    <3>1. ASSUME NEW k \in 1..n
          PROVE  \/ placed'[k].id < next_valid'
                 \/ \E j \in DOMAIN to_tws' : /\ to_tws'[j].type = "placeOrder"
                                              /\ to_tws'[j].id = placed'[k].id
      <4>1. placed'[k] = placed[k] /\ k \in DOMAIN placed
        BY <2>6
      <4>2. \/ placed[k].id < next_valid
            \/ \E j \in DOMAIN to_tws : to_tws[j].type = "placeOrder" /\ to_tws[j].id = placed[k].id
        BY <4>1 DEF AllSeen, Sends
      <4>3. QED
        BY <1>1, <2>7, <4>1, <4>2
    <3>2. \E j \in DOMAIN to_tws' : to_tws'[j].type = "placeOrder" /\ to_tws'[j].id = e.id
      BY <2>2, <2>3, <2>7
    <3>3. \A k \in DOMAIN placed' :
            \/ placed'[k].id < next_valid'
            \/ \E j \in DOMAIN to_tws' : to_tws'[j].type = "placeOrder" /\ to_tws'[j].id = placed'[k].id
      BY <2>6, <3>1, <3>2
    <3>4. QED
      BY <3>3 DEF AllSeen, Sends
  <2>10. IdIsOfTheOrder'
    <3>1. \A k \in 1..n : placed[k].id # id
      <4>1. \A k \in 1..n : placed[k].id < id
        BY <2>5, <2>6 DEF Unused
      <4>2. id \in Nat
        BY DEF Ids
      <4>3. QED
        BY <4>1, <4>2
    <3>2. \A k, j \in 1..n : k # j => placed[k].id # placed[j].id
      BY <2>6 DEF IdIsOfTheOrder
    <3>3. QED
      BY <2>3, <2>6, <3>1, <3>2 DEF IdIsOfTheOrder
  <2>11. QED
    BY <2>5, <2>8, <2>9, <2>10 DEF AskedLast, GivenOnce, NoneAsked, NoneGiven, QueuedUnused
<1>5. CASE order_id_timeout
  BY <1>5, OrdersAssumption DEF order_id_timeout, TypeOK
<1>6. ASSUME NEW m \in ToGateway, pc = "idle", pc' = pc, to_tws' = Append(to_tws, m), m.type # "reqIds",
             m.type = "placeOrder" => m.id < next_valid,
             UNCHANGED <<placed, next_order_id>>
      PROVE  AllSeen' /\ AskedLast' /\ GivenOnce' /\ QueuedUnused' /\ IdIsOfTheOrder'
  <2>1. NoneAsked /\ NoneGiven
    BY <1>6, NotWaiting DEF Waits
  <2>2. AllSeen' /\ NoneAsked' /\ QueuedUnused'
    BY <1>1, <1>6, <2>1, SendsKnown
  <2>3. NoneGiven' /\ IdIsOfTheOrder'
    BY <1>1, <1>6, <2>1 DEF NoneGiven, IdIsOfTheOrder
  <2>4. QED
    BY <2>2, <2>3 DEF AskedLast, GivenOnce, NoneAsked, NoneGiven
<1>7. ASSUME NEW id \in Ids, change_order(id)
      PROVE  AllSeen' /\ AskedLast' /\ GivenOnce' /\ QueuedUnused' /\ IdIsOfTheOrder'
  <2>5. PICK parent \in 0..MaxOrders, role \in Roles : Resent(id, parent, role)
    BY <1>7, OrderToChange
  <2> DEFINE m == Place(id, parent, role, TRUE)
  <2>1. m \in ToGateway /\ m.type = "placeOrder" /\ m.id = id /\ id < next_valid
    <3>1. tws[id].state # "none"
      BY <1>7, OrderToChange
    <3>2. m \in ToGateway
      BY <2>5 DEF Resent
    <3>3. m.type = "placeOrder" /\ m.id = id
      BY DEF Place
    <3>4. QED
      BY <3>1, <3>2, <3>3 DEF Numbered
  <2>2. pc = "idle" /\ pc' = pc /\ to_tws' = Append(to_tws, m) /\ UNCHANGED <<placed, next_order_id>>
    BY <1>7, <2>5 DEF change_order, clientVars, Resent
  <2> HIDE DEF m
  <2>3. QED
    BY <1>6, <2>1, <2>2
<1>8. ASSUME NEW id \in Ids, cancel_order(id)
      PROVE  AllSeen' /\ AskedLast' /\ GivenOnce' /\ QueuedUnused' /\ IdIsOfTheOrder'
  <2> DEFINE m == Cancel(id)
  <2>1. m \in ToGateway /\ m.type = "cancelOrder"
    BY ProgramMessages
  <2>2. pc = "idle" /\ pc' = pc /\ to_tws' = Append(to_tws, m) /\ UNCHANGED <<placed, next_order_id>>
    BY <1>8 DEF cancel_order, clientVars
  <2> HIDE DEF m
  <2>3. QED
    BY <1>6, <2>1, <2>2
<1>9. QED
  BY <1>2, <1>3, <1>4, <1>5, <1>7, <1>8 DEF Program

(* The answer to the only question is an id above all that are used.        *)
LEMMA AskedOneId ==
  ASSUME TypeOK, Typed, IdIsOfTheOrder, AllSeen, AskedLast, GivenOnce, QueuedUnused, ids_requested
  PROVE  AllSeen' /\ AskedLast' /\ GivenOnce' /\ QueuedUnused'
<1>1. /\ to_tws # <<>> /\ Head(to_tws).type = "reqIds" /\ to_tws' = Tail(to_tws)
      /\ from_tws' = Append(from_tws, NextValidId(next_valid))
      /\ UNCHANGED <<pc, next_order_id, next_valid, placed>>
  BY DEF ids_requested, clientVars, twsVars, programVars
<1>2. /\ 1 \in DOMAIN to_tws /\ to_tws[1].type = "reqIds" /\ Len(to_tws) \in Nat
      /\ DOMAIN to_tws = 1..Len(to_tws) /\ DOMAIN to_tws' = 1..Len(to_tws) - 1
  BY <1>1, Shorter DEF Typed
<1>3. Len(to_tws) = 1 /\ Waits
  BY <1>2 DEF AskedLast
<1>4. DOMAIN to_tws' = {} /\ \A k \in DOMAIN to_tws : to_tws[k].type = "reqIds"
  BY <1>2, <1>3
<1>5. \A n \in DOMAIN placed : placed[n].id < next_valid
  BY <1>4 DEF AllSeen, Sends
<1>6. NoneGiven /\ DOMAIN next_order_id = {}
  BY <1>2, <1>3 DEF GivenOnce, NoneAsked, NoneGiven, Waits
<1>7. Unused(next_valid)'
  BY <1>1, <1>4, <1>5 DEF Unused
<1>8. /\ NextValidId(next_valid) \in FromGateway /\ NextValidId(next_valid).id = next_valid
  BY GatewayMessages DEF TypeOK
<1>9. \A k \in DOMAIN from_tws' : \/ k \in DOMAIN from_tws /\ from_tws'[k] = from_tws[k]
                                  \/ k = Len(from_tws) + 1 /\ from_tws'[k] = NextValidId(next_valid)
  <2> DEFINE m == NextValidId(next_valid)
  <2>1. m \in FromGateway /\ from_tws' = Append(from_tws, m)
    BY <1>1, <1>8
  <2> HIDE DEF m
  <2>2. \A k \in DOMAIN from_tws' : \/ k \in DOMAIN from_tws /\ from_tws'[k] = from_tws[k]
                                    \/ k = Len(from_tws) + 1 /\ from_tws'[k] = m
    <3>1. /\ DOMAIN from_tws' = 1..Len(from_tws) + 1 /\ DOMAIN from_tws = 1..Len(from_tws)
          /\ Len(from_tws) \in Nat /\ from_tws'[Len(from_tws) + 1] = m
          /\ \A k \in 1..Len(from_tws) : from_tws'[k] = from_tws[k]
      BY <2>1, Longer DEF Typed
    <3>2. QED
      BY <3>1
  <2>3. QED
    BY <2>2 DEF m
<1>10. \A k \in DOMAIN from_tws' : from_tws'[k].type = "nextValidId" =>
         k = Len(from_tws) + 1 /\ from_tws'[k].id = next_valid'
  BY <1>1, <1>6, <1>8, <1>9 DEF NoneGiven
<1>11. GivenOnce'
  <2>1. Waits' /\ NoneAsked'
    BY <1>1, <1>3, <1>4 DEF Waits, NoneAsked
  <2>2. QED
    BY <1>7, <1>10, <2>1 DEF GivenOnce, Unused
<1>12. AllSeen' /\ AskedLast' /\ QueuedUnused'
  BY <1>1, <1>4, <1>5, <1>6 DEF AllSeen, AskedLast, QueuedUnused
<1>13. QED
  BY <1>11, <1>12

(* Other messages taken from the queue change nothing of it.                *)
LEMMA OrdersOneId ==
  ASSUME TypeOK, Typed, Numbered, AllSeen, AskedLast, GivenOnce, QueuedUnused,
         order_placed \/ order_cancelled \/ \E id \in Ids : fill(id) \/ fill_child(id)
  PROVE  AllSeen' /\ AskedLast' /\ GivenOnce' /\ QueuedUnused'
<1>1. /\ UNCHANGED <<pc, next_order_id, placed>>
      /\ \E R : OnlyOrders(R) /\ from_tws' = from_tws \o R
  BY OrdersReported DEF clientVars, programVars
<1>2. /\ \A k \in DOMAIN from_tws' : from_tws'[k].type = "nextValidId" =>
           k \in DOMAIN from_tws /\ from_tws'[k] = from_tws[k]
  <2>1. PICK R : OnlyOrders(R) /\ from_tws' = from_tws \o R
    BY <1>1
  <2>2. /\ DOMAIN from_tws = 1..Len(from_tws)
        /\ \A k \in 1..Len(from_tws) : from_tws'[k] = from_tws[k]
        /\ \A k \in 1..Len(R) : from_tws'[Len(from_tws) + k] = R[k]
        /\ \A k \in DOMAIN from_tws' : k \in 1..Len(from_tws) \/ \E j \in 1..Len(R) : k = Len(from_tws) + j
    BY <2>1, Joined DEF OnlyOrders, Typed
  <2>3. QED
    BY <2>1, <2>2 DEF OnlyOrders
<1>3. \/ UNCHANGED <<to_tws, next_valid>>
      \/ /\ to_tws # <<>> /\ Head(to_tws).type # "reqIds" /\ to_tws' = Tail(to_tws)
         /\ Head(to_tws).type # "placeOrder" => UNCHANGED next_valid
         /\ next_valid' \in Nat /\ next_valid <= next_valid'
         /\ Head(to_tws).type = "placeOrder" => /\ Head(to_tws).id < next_valid'
                                                /\ Head(to_tws).id < next_valid => UNCHANGED next_valid
  <2>1. CASE order_placed
    <3> DEFINE m == Head(to_tws)
    <3>1. /\ to_tws # <<>> /\ m \in ToGateway /\ m.type = "placeOrder" /\ to_tws' = Tail(to_tws)
          /\ tws[m.id].state \in Closed => UNCHANGED next_valid
          /\ tws[m.id].state \notin Closed =>
               next_valid' = IF m.id >= next_valid THEN m.id + 1 ELSE next_valid
      BY <2>1, OrderPlaced
    <3>2. m.id \in Ids
      BY <3>1, PlaceMessage
    <3>3. tws[m.id].state \in Closed => m.id < next_valid
      BY <3>2 DEF Numbered, Closed
    <3> HIDE DEF m
    <3>4. /\ next_valid' \in Nat /\ m.id < next_valid' /\ next_valid <= next_valid'
          /\ m.id < next_valid => UNCHANGED next_valid
      <4>1. m.id \in Nat /\ next_valid \in Nat
        BY <3>2 DEF TypeOK, Ids
      <4>2. QED
        BY <3>1, <3>3, <4>1
    <3>5. QED
      BY <3>1, <3>4 DEF m
  <2>2. CASE order_cancelled \/ \E id \in Ids : fill(id) \/ fill_child(id)
    <3>1. next_valid \in Nat
      BY DEF TypeOK
    <3>2. QED
      BY <2>2, <3>1, OrdersClosed DEF OrdersClose
  <2>3. QED
    BY <2>1, <2>2
<1>4. ASSUME UNCHANGED <<to_tws, next_valid>>
      PROVE  AllSeen' /\ AskedLast' /\ GivenOnce' /\ QueuedUnused'
  <2>1. AllSeen' /\ AskedLast' /\ QueuedUnused'
    BY <1>1, <1>4 DEF AllSeen, AskedLast, QueuedUnused, Unused, Sends, Waits
  <2>2. GivenOnce'
    BY <1>1, <1>2, <1>4 DEF GivenOnce, Unused, Waits, NoneAsked
  <2>3. QED
    BY <2>1, <2>2
<1>5. ASSUME to_tws # <<>>, Head(to_tws).type # "reqIds", to_tws' = Tail(to_tws),
             Head(to_tws).type # "placeOrder" => UNCHANGED next_valid,
             next_valid' \in Nat, next_valid <= next_valid',
             Head(to_tws).type = "placeOrder" => /\ Head(to_tws).id < next_valid'
                                                 /\ Head(to_tws).id < next_valid => UNCHANGED next_valid
      PROVE  AllSeen' /\ AskedLast' /\ GivenOnce' /\ QueuedUnused'
  <2>1. /\ Len(to_tws) \in Nat /\ DOMAIN to_tws = 1..Len(to_tws) /\ DOMAIN to_tws' = 1..Len(to_tws) - 1
        /\ Len(to_tws') = Len(to_tws) - 1
        /\ \A k \in DOMAIN to_tws' : k + 1 \in DOMAIN to_tws /\ to_tws'[k] = to_tws[k + 1]
        /\ Head(to_tws) = to_tws[1] /\ 1 \in DOMAIN to_tws
    BY <1>5, Shorter DEF Typed
  <2>2. AskedLast'
    BY <1>1, <2>1 DEF AskedLast, Waits
  <2>3. AllSeen'
    <3>1. ASSUME NEW n \in DOMAIN placed
          PROVE  \/ placed[n].id < next_valid'
                 \/ \E j \in DOMAIN to_tws' : to_tws'[j].type = "placeOrder" /\ to_tws'[j].id = placed[n].id
      <4>1. CASE placed[n].id < next_valid
        <5>1. placed[n] \in [id : Ids, role : Roles, parent : 0..MaxOrders]
          BY ElementOfSeq, LenProperties DEF Typed
        <5>2. placed[n].id \in Nat
          BY <5>1 DEF Ids
        <5>3. next_valid \in Nat
          BY DEF TypeOK
        <5>4. QED
          BY <1>5, <4>1, <5>2, <5>3
      <4>2. CASE \E k \in DOMAIN to_tws : Sends(k, placed[n].id)
        <5>1. PICK k \in DOMAIN to_tws : to_tws[k].type = "placeOrder" /\ to_tws[k].id = placed[n].id
          BY <4>2 DEF Sends
        <5>2. CASE k = 1
          <6>1. Head(to_tws).type = "placeOrder" /\ Head(to_tws).id = placed[n].id
            BY <2>1, <5>1, <5>2
          <6>2. Head(to_tws).id < next_valid'
            BY <1>5, <6>1
          <6>3. QED
            BY <6>1, <6>2
        <5>3. CASE k # 1
          <6>1. k - 1 \in DOMAIN to_tws' /\ to_tws'[k - 1] = to_tws[k]
            BY <2>1, <5>3
          <6>2. QED
            BY <5>1, <6>1
        <5>4. QED
          BY <5>2, <5>3
      <4>3. QED
        BY <4>1, <4>2 DEF AllSeen
    <3>2. QED
      BY <1>1, <3>1 DEF AllSeen, Sends
  <2>4. ASSUME NEW v, Unused(v)
        PROVE  /\ v = next_valid'
               /\ \A n \in DOMAIN placed' : placed'[n].id < v
               /\ \A k \in DOMAIN to_tws' : to_tws'[k].type = "placeOrder" => to_tws'[k].id < v
    <3>1. next_valid' = next_valid
      <4>1. Head(to_tws).type = "placeOrder" => Head(to_tws).id < next_valid
        BY <2>1, <2>4 DEF Unused
      <4>2. CASE Head(to_tws).type = "placeOrder"
        <5>1. Head(to_tws).id < next_valid
          BY <4>1, <4>2
        <5>2. QED
          BY <1>5, <4>2, <5>1
      <4>3. CASE Head(to_tws).type # "placeOrder"
        BY <1>5, <4>3
      <4>4. QED
        BY <4>2, <4>3
    <3>2. \A k \in DOMAIN to_tws' : to_tws'[k].type = "placeOrder" => to_tws'[k].id < v
      BY <2>1, <2>4 DEF Unused
    <3>3. QED
      BY <1>1, <2>4, <3>1, <3>2 DEF Unused
  <2>5. NoneAsked => NoneAsked'
    BY <2>1 DEF NoneAsked
  <2>6. GivenOnce'
    <3>1. ASSUME NEW k \in DOMAIN from_tws', from_tws'[k].type = "nextValidId"
          PROVE  /\ Waits' /\ NoneAsked' /\ from_tws'[k] = from_tws[k] /\ Unused(from_tws[k].id)
                 /\ \A j \in DOMAIN from_tws' : from_tws'[j].type = "nextValidId" => j = k
      BY <1>1, <1>2, <2>5, <3>1 DEF GivenOnce, Waits
    <3>2. ASSUME NEW k \in DOMAIN from_tws', from_tws'[k].type = "nextValidId"
          PROVE  /\ from_tws'[k].id = next_valid'
                 /\ \A n \in DOMAIN placed' : placed'[n].id < from_tws'[k].id
                 /\ \A j \in DOMAIN to_tws' : to_tws'[j].type = "placeOrder" => to_tws'[j].id < from_tws'[k].id
      BY <2>4, <3>1, <3>2
    <3>3. QED
      BY <3>1, <3>2 DEF GivenOnce, Unused
  <2>7. QueuedUnused'
    BY <1>1, <2>4 DEF QueuedUnused, Unused
  <2>8. QED
    BY <2>2, <2>3, <2>6, <2>7
<1>6. QED
  BY <1>3, <1>4, <1>5

LEMMA HandledOneId ==
  ASSUME TypeOK, Typed, AllSeen, AskedLast, GivenOnce, QueuedUnused, dispatching, Dispatcher
  PROVE  AllSeen' /\ AskedLast' /\ GivenOnce' /\ QueuedUnused' /\ dispatching'
<1>1. /\ from_tws # <<>> /\ from_tws' = Tail(from_tws)
      /\ UNCHANGED <<to_tws, pc, placed, next_valid>>
  BY DEF Dispatcher, handle_next_valid_id, handle_open_order, handle_order_status, Received, twsVars, programVars
<1>2. /\ \A k \in DOMAIN from_tws' : k + 1 \in DOMAIN from_tws /\ from_tws'[k] = from_tws[k + 1]
      /\ 1 \in DOMAIN from_tws /\ Head(from_tws) = from_tws[1] /\ DOMAIN from_tws = 1..Len(from_tws)
      /\ DOMAIN from_tws' = 1..Len(from_tws) - 1 /\ Len(from_tws) \in Nat
  BY <1>1, Shorter DEF Typed
<1>3. AllSeen'
  BY <1>1 DEF AllSeen, Sends
<1>4. CASE handle_next_valid_id
  <2> DEFINE v == Head(from_tws).id
  <2>1. Head(from_tws).type = "nextValidId"
    BY <1>4 DEF handle_next_valid_id, Received
  <2>2. /\ Waits /\ Unused(v) /\ NoneAsked
        /\ \A k \in DOMAIN from_tws : from_tws[k].type = "nextValidId" => k = 1
    BY <1>2, <2>1 DEF GivenOnce
  <2>3. next_order_id' = <<v>> /\ dispatching' = dispatching
    BY <1>4, <2>2 DEF handle_next_valid_id, Waits
  <2>4. NoneGiven' /\ NoneAsked'
    <3>1. \A k \in DOMAIN from_tws' : k + 1 # 1
      BY <1>2
    <3>2. QED
      BY <1>1, <1>2, <2>2, <3>1 DEF NoneGiven, NoneAsked
  <2>5. QueuedUnused'
    <3>1. DOMAIN next_order_id' = {1} /\ next_order_id'[1] = v
      BY <2>3
    <3>2. /\ v = next_valid'
          /\ \A n \in DOMAIN placed' : placed'[n].id < v
          /\ \A k \in DOMAIN to_tws' : to_tws'[k].type = "placeOrder" => to_tws'[k].id < v
      BY <1>1, <2>2 DEF Unused
    <3> HIDE DEF v
    <3>3. QED
      BY <3>1, <3>2 DEF QueuedUnused, Unused
  <2>6. QED
    BY <1>3, <2>3, <2>4, <2>5 DEF AskedLast, GivenOnce, NoneAsked, NoneGiven
<1>5. CASE handle_open_order \/ handle_order_status
  <2>1. UNCHANGED <<next_order_id, dispatching>> /\ Head(from_tws).type # "nextValidId"
    BY <1>5 DEF handle_open_order, handle_order_status, Received
  <2>2. AskedLast' /\ QueuedUnused'
    BY <1>1, <2>1 DEF AskedLast, QueuedUnused, Unused, Waits
  <2>3. GivenOnce'
    <3>1. ASSUME NEW k \in DOMAIN from_tws', from_tws'[k].type = "nextValidId"
          PROVE  /\ Waits' /\ NoneAsked' /\ from_tws'[k].id = next_valid'
                 /\ \A n \in DOMAIN placed' : placed'[n].id < from_tws'[k].id
                 /\ \A j \in DOMAIN to_tws' : to_tws'[j].type = "placeOrder" => to_tws'[j].id < from_tws'[k].id
                 /\ \A j \in DOMAIN from_tws' : from_tws'[j].type = "nextValidId" => j = k
      <4>1. /\ k + 1 \in DOMAIN from_tws /\ from_tws'[k] = from_tws[k + 1] /\ Waits /\ NoneAsked
            /\ Unused(from_tws[k + 1].id)
            /\ \A j \in DOMAIN from_tws : from_tws[j].type = "nextValidId" => j = k + 1
        BY <1>2, <3>1 DEF GivenOnce
      <4>2. \A j \in DOMAIN from_tws' : from_tws'[j].type = "nextValidId" => j = k
        BY <1>2, <4>1
      <4>3. QED
        BY <1>1, <2>1, <4>1, <4>2 DEF Unused, Waits, NoneAsked
    <3>2. QED
      BY <3>1 DEF GivenOnce, Unused
  <2>4. QED
    BY <1>3, <2>1, <2>2, <2>3
<1>6. QED
  BY <1>4, <1>5 DEF Dispatcher

LEMMA OneIdStep ==
  ASSUME TypeOK, Typed, FromProgram, Reported, Numbered, OneId, InTimeIdsWork, Next
  PROVE  OneId' /\ InTimeIdsWork'
<1>1. timeouts' = 0 => timeouts = 0
  <2>1. timeouts \in Nat
    BY OrdersAssumption DEF TypeOK
  <2>2. Program => timeouts' = timeouts \/ timeouts' = timeouts + 1
    BY DEF Program, place_order, place_bracket_order, call, get_order_id, order_id_got, order_id_timeout,
           change_order, cancel_order
  <2>3. Gateway \/ Dispatcher => timeouts' = timeouts
    BY DEF Gateway, Dispatcher, ids_requested, order_placed, order_cancelled, fill, fill_child,
           handle_next_valid_id, handle_open_order, handle_order_status, programVars
  <2>4. QED
    BY <2>1, <2>2, <2>3 DEF Next
<1>2. SUFFICES ASSUME timeouts' = 0
               PROVE  /\ AllSeen' /\ AskedLast' /\ GivenOnce' /\ QueuedUnused'
                      /\ IdIsOfTheOrder' /\ dispatching'
  <2>1. (OneId <=> (timeouts = 0 => AllSeen /\ AskedLast /\ GivenOnce /\ QueuedUnused))'
    BY OneIdParts, PTL
  <2>2. QED
    BY <2>1 DEF InTimeIdsWork
<1>3. /\ timeouts = 0 /\ AllSeen /\ AskedLast /\ GivenOnce /\ QueuedUnused
      /\ IdIsOfTheOrder /\ dispatching
  BY <1>1, <1>2, OneIdParts DEF InTimeIdsWork
<1>4. CASE Program
  <2>1. UNCHANGED dispatching
    BY <1>4, ProgramSends
  <2>2. QED
    BY <1>2, <1>3, <1>4, <2>1, ProgramOneId
<1>5. CASE ids_requested
  <2>1. UNCHANGED <<dispatching, placed>>
    BY <1>5 DEF ids_requested, clientVars, programVars
  <2>2. IdIsOfTheOrder'
    BY <1>3, <2>1 DEF IdIsOfTheOrder
  <2>3. QED
    BY <1>3, <1>5, <2>1, <2>2, AskedOneId
<1>6. CASE order_placed \/ order_cancelled \/ \E id \in Ids : fill(id) \/ fill_child(id)
  <2>1. UNCHANGED <<dispatching, placed>>
    BY <1>6, OrdersReported DEF clientVars, programVars
  <2>2. IdIsOfTheOrder'
    BY <1>3, <2>1 DEF IdIsOfTheOrder
  <2>3. QED
    BY <1>3, <1>6, <2>1, <2>2, OrdersOneId
<1>7. CASE Dispatcher
  <2>1. UNCHANGED placed
    BY <1>7 DEF Dispatcher, handle_next_valid_id, handle_open_order, handle_order_status, programVars
  <2>2. IdIsOfTheOrder'
    BY <1>3, <2>1 DEF IdIsOfTheOrder
  <2>3. QED
    BY <1>3, <1>7, <2>2, HandledOneId
<1>8. QED
  BY <1>4, <1>5, <1>6, <1>7 DEF Next, Gateway

-----------------------------------------------------------------------------
(* The queue to the gateway keeps the order of what is placed.              *)

(* A step leaves the queue alone, adds a message to it or takes one.        *)
Takes ==
  /\ to_tws # <<>> /\ to_tws' = Tail(to_tws)
  /\ Head(to_tws).type = "placeOrder" => tws'[Head(to_tws).id].state # "none"
  /\ \A i \in Ids : (tws'[i].state = "none") = (tws[i].state = "none")
                    \/ (Head(to_tws).type = "placeOrder" /\ i = Head(to_tws).id)
Changes(id) ==
  /\ UNCHANGED tws /\ tws[id].state # "none"
  /\ \E parent \in 0..MaxOrders, role \in Roles : Resent(id, parent, role)

LEMMA QueueSteps ==
  ASSUME TypeOK, Typed, FromProgram, Reported, Next
  PROVE  \/ order_id_got /\ UNCHANGED tws
         \/ /\ UNCHANGED placed
            /\ \/ /\ UNCHANGED to_tws
                  /\ \A i \in Ids : (tws'[i].state = "none") = (tws[i].state = "none")
               \/ UNCHANGED tws /\ \E m \in ToGateway : to_tws' = Append(to_tws, m) /\ m.type # "placeOrder"
               \/ \E id \in open_orders : Changes(id)
               \/ Takes
<1>1. CASE Program
  BY <1>1, ProgramSends DEF twsVars, Changes
<1>2. CASE ids_requested
  BY <1>2 DEF ids_requested, twsVars, programVars, Takes
<1>3. CASE Dispatcher
  BY <1>3 DEF Dispatcher, handle_next_valid_id, handle_open_order, handle_order_status, twsVars, programVars
<1>4. CASE order_cancelled \/ \E id \in Ids : fill(id) \/ fill_child(id)
  <2>1. \A i \in Ids : (tws'[i].state = "none") = (tws[i].state = "none")
    BY <1>4, OrdersClosed DEF OrdersClose, Closed
  <2>2. /\ UNCHANGED placed
        /\ \/ UNCHANGED to_tws
           \/ to_tws # <<>> /\ Head(to_tws).type = "cancelOrder" /\ to_tws' = Tail(to_tws)
    BY <1>4, OrdersClosed DEF OrdersClose, programVars
  <2>3. QED
    BY <2>1, <2>2 DEF Takes
<1>5. CASE order_placed
  <2> DEFINE m == Head(to_tws)
  <2>1. /\ to_tws # <<>> /\ m \in ToGateway /\ m.type = "placeOrder" /\ to_tws' = Tail(to_tws)
        /\ UNCHANGED programVars
        /\ tws[m.id].state \in Closed => UNCHANGED tws
        /\ tws[m.id].state \notin Closed /\ ~m.transmit =>
             tws'[m.id].state = "held" /\ \A i \in Ids \ {m.id} : tws'[i].state = tws[i].state
        /\ tws[m.id].state \notin Closed /\ m.transmit =>
             \E live \in SUBSET Ids :
               /\ m.id \in live
               /\ \A i \in Ids : tws'[i].state = IF i \in live THEN "live" ELSE tws[i].state
               /\ \A i \in live \ {m.id} : tws[i].state = "held"
    BY <1>5, OrderPlaced
  <2>2. m.transmit \in BOOLEAN /\ m.id \in Ids
    BY <2>1, PlaceMessage
  <2>3. tws'[m.id].state # "none"
    BY <2>1, <2>2 DEF Closed
  <2>4. \A i \in Ids : (tws'[i].state = "none") = (tws[i].state = "none") \/ i = m.id
    BY <2>1, <2>2
  <2>5. UNCHANGED placed
    BY <2>1 DEF programVars
  <2>6. QED
    BY <2>1, <2>3, <2>4, <2>5 DEF Takes
<1>6. QED
  BY <1>1, <1>2, <1>3, <1>4, <1>5 DEF Next, Gateway

LEMMA PlacedStep ==
  ASSUME TypeOK, Typed, FromProgram, Reported, Next
  PROVE  placed' = placed \/ \E e \in [id : Ids, role : Roles, parent : 0..MaxOrders] :
                               placed' = Append(placed, e)
<1>1. CASE order_id_got
  <2>1. PICK id \in Ids, role \in Roles, transmit \in BOOLEAN :
          placed' = Append(placed, [id |-> id, role |-> role, parent |-> parent_id])
    BY <1>1, OrderSent
  <2>2. [id |-> id, role |-> role, parent |-> parent_id] \in [id : Ids, role : Roles, parent : 0..MaxOrders]
    BY DEF Typed
  <2>3. QED
    BY <2>1, <2>2
<1>2. QED
  BY <1>1, QueueSteps

(* An order that got an id of its own is new to the gateway and the queue.  *)
LEMMA NewOrder ==
  ASSUME TypeOK, Typed, FromProgram, order_id_got, IdIsOfTheOrder'
  PROVE  \E m \in ToGateway :
           /\ m.type = "placeOrder" /\ m.id \in Ids
           /\ to_tws' = Append(to_tws, m)
           /\ Len(placed) \in Nat /\ DOMAIN placed = 1..Len(placed) /\ DOMAIN placed' = 1..Len(placed) + 1
           /\ \A n \in 1..Len(placed) : placed'[n] = placed[n]
           /\ placed'[Len(placed) + 1] = [id |-> m.id, role |-> m.role, parent |-> m.parent]
           /\ m.parent = parent_id /\ m.role = todo[1].role /\ m.transmit = todo[1].transmit
           /\ 1 \in DOMAIN todo
           /\ tws[m.id].state = "none"
           /\ \A k \in DOMAIN to_tws : ~Sends(k, m.id)
           /\ \A n \in DOMAIN placed : placed[n].id # m.id
<1>1. PICK id \in Ids, role \in Roles, transmit \in BOOLEAN :
        /\ 1 \in DOMAIN todo /\ todo[1].role = role /\ todo[1].transmit = transmit
        /\ to_tws' = Append(to_tws, Place(id, parent_id, role, transmit))
        /\ Place(id, parent_id, role, transmit) \in ToGateway
        /\ placed' = Append(placed, [id |-> id, role |-> role, parent |-> parent_id])
  BY OrderSent
<1> DEFINE m == Place(id, parent_id, role, transmit)
           e == [id |-> id, role |-> role, parent |-> parent_id]
           n == Len(placed)
<1>2. /\ m.type = "placeOrder" /\ m.id = id /\ m.role = role /\ m.parent = parent_id
      /\ m.transmit = transmit
  BY DEF Place
<1>3. e \in [id : Ids, role : Roles, parent : 0..MaxOrders] /\ e.id = id
  BY DEF Typed
<1>4. /\ n \in Nat /\ DOMAIN placed = 1..n /\ DOMAIN placed' = 1..n + 1
      /\ \A k \in 1..n : placed'[k] = placed[k]
      /\ placed'[n + 1] = e
  <2> HIDE DEF e
  <2>1. placed' = Append(placed, e)
    BY <1>1 DEF e
  <2>2. QED
    BY <1>3, <2>1, Longer DEF Typed
<1>5. \A k \in DOMAIN placed : placed[k].id # id
  <2>1. SUFFICES ASSUME NEW k \in 1..n PROVE placed[k].id # id
    BY <1>4
  <2>2. k # n + 1 /\ k \in DOMAIN placed' /\ n + 1 \in DOMAIN placed'
    BY <1>4
  <2>3. placed'[k].id # placed'[n + 1].id
    BY <2>2 DEF IdIsOfTheOrder
  <2>4. QED
    BY <1>3, <1>4, <2>3
<1>6. ~\E parent, r : Among(placed, id, parent, r)
  BY <1>5 DEF Among
<1>7. tws[id].state = "none" /\ \A k \in DOMAIN to_tws : ~Sends(k, id)
  BY <1>6 DEF FromProgram, Sends
<1>8. e = [id |-> m.id, role |-> m.role, parent |-> m.parent]
  BY <1>2
<1> HIDE DEF m, e
<1>9. m \in ToGateway /\ to_tws' = Append(to_tws, m)
  BY <1>1 DEF m
<1>10. QED
  BY <1>1, <1>2, <1>4, <1>5, <1>7, <1>8, <1>9

LEMMA ArriveInOrderStep ==
  ASSUME TypeOK, Typed, FromProgram, Reported, ArriveInOrder, Next, IdIsOfTheOrder'
  PROVE  ArriveInOrder'
<1> DEFINE N == Len(placed)
           L == Len(to_tws)
           Came(n) == tws'[placed'[n].id].state # "none"
           Sent(k, id) == k \in DOMAIN to_tws' /\ to_tws'[k].type = "placeOrder" /\ to_tws'[k].id = id
<1>1. /\ DOMAIN placed = 1..N /\ N \in Nat /\ IdIsOfTheOrder
      /\ DOMAIN to_tws = 1..L /\ L \in Nat
  BY PlacedStep, PlacedStays, LenProperties DEF Typed
<1>2. \A n \in 1..N :
        /\ Arrived(n) \/ \E k \in 1..L : Sends(k, placed[n].id)
        /\ Arrived(n) => \A l \in 1..n - 1 : Arrived(l)
        /\ \A k \in 1..L : Sends(k, placed[n].id) =>
             \A l \in 1..n - 1 : Arrived(l) \/ \E j \in 1..k - 1 : Sends(j, placed[l].id)
  BY <1>1 DEF ArriveInOrder
<1>3. \A n \in 1..N : placed[n].id \in Ids
  <2>1. \A n \in 1..N : placed[n] \in [id : Ids, role : Roles, parent : 0..MaxOrders]
    BY ElementOfSeq DEF Typed
  <2>2. QED
    BY <2>1
<1>4. SUFFICES ASSUME NEW n \in DOMAIN placed'
               PROVE  /\ Came(n) \/ \E k \in DOMAIN to_tws' : Sent(k, placed'[n].id)
                      /\ Came(n) => \A l \in 1..n - 1 : Came(l)
                      /\ \A k \in DOMAIN to_tws' : Sent(k, placed'[n].id) =>
                           \A l \in 1..n - 1 : Came(l) \/ \E j \in 1..k - 1 : Sent(j, placed'[l].id)
  BY DEF ArriveInOrder, Arrived, Sends
<1>5. CASE /\ UNCHANGED <<placed, to_tws>>
           /\ \A i \in Ids : (tws'[i].state = "none") = (tws[i].state = "none")
  <2>1. n \in 1..N /\ \A l \in 1..N : Came(l) <=> Arrived(l)
    BY <1>1, <1>3, <1>5 DEF Arrived
  <2>2. \A k, id : Sent(k, id) <=> Sends(k, id)
    BY <1>5 DEF Sends
  <2>3. placed' = placed /\ DOMAIN to_tws' = 1..L /\ \A l \in 1..n - 1 : l \in 1..N
    BY <1>1, <1>5, <2>1
  <2> HIDE DEF Came, Sent, N, L
  <2>4. Came(n) \/ \E k \in DOMAIN to_tws' : Sent(k, placed'[n].id)
    BY <1>2, <2>1, <2>2, <2>3
  <2>5. Came(n) => \A l \in 1..n - 1 : Came(l)
    BY <1>2, <2>1, <2>3
  <2>6. \A k \in 1..L : Sent(k, placed'[n].id) =>
          \A l \in 1..n - 1 : Came(l) \/ \E j \in 1..k - 1 : Sent(j, placed'[l].id)
    BY <1>2, <2>1, <2>2, <2>3
  <2>7. QED
    BY <2>3, <2>4, <2>5, <2>6
<1>6. ASSUME NEW m \in ToGateway, UNCHANGED <<placed, tws>>, to_tws' = Append(to_tws, m),
             m.type = "placeOrder" => m.id \in Ids /\ tws[m.id].state # "none"
      PROVE  /\ Came(n) \/ \E k \in DOMAIN to_tws' : Sent(k, placed'[n].id)
             /\ Came(n) => \A l \in 1..n - 1 : Came(l)
             /\ \A k \in DOMAIN to_tws' : Sent(k, placed'[n].id) =>
                  \A l \in 1..n - 1 : Came(l) \/ \E j \in 1..k - 1 : Sent(j, placed'[l].id)
  <2>1. /\ DOMAIN to_tws' = 1..L + 1 /\ \A k \in 1..L : to_tws'[k] = to_tws[k]
        /\ to_tws'[L + 1] = m
    BY <1>6, Longer DEF Typed
  <2>2. n \in 1..N /\ placed' = placed /\ \A l \in 1..N : Came(l) <=> Arrived(l)
    BY <1>1, <1>6 DEF Arrived
  <2>3. \A k \in 1..L : \A id : Sent(k, id) <=> Sends(k, id)
    BY <1>1, <2>1 DEF Sends
  <2>4. \A l \in 1..N : Sent(L + 1, placed[l].id) => Arrived(l)
    BY <1>6, <2>1 DEF Arrived
  <2> HIDE DEF Came, Sent, N, L
  <2>5. Came(n) \/ \E k \in DOMAIN to_tws' : Sent(k, placed'[n].id)
    BY <1>1, <1>2, <2>1, <2>2, <2>3
  <2>6. Came(n) => \A l \in 1..n - 1 : Came(l)
    BY <1>1, <1>2, <2>2
  <2>7. ASSUME NEW k \in 1..L + 1, Sent(k, placed'[n].id), NEW l \in 1..n - 1
        PROVE  Came(l) \/ \E j \in 1..k - 1 : Sent(j, placed'[l].id)
    <3>1. l \in 1..N
      BY <1>1, <2>2
    <3>2. CASE k \in 1..L
      <4>1. Arrived(l) \/ \E j \in 1..k - 1 : Sends(j, placed[l].id)
        BY <1>2, <2>2, <2>3, <2>7, <3>2
      <4>2. \A j \in 1..k - 1 : j \in 1..L
        BY <1>1, <3>2
      <4>3. QED
        BY <2>2, <2>3, <3>1, <4>1, <4>2
    <3>3. CASE k = L + 1
      BY <1>2, <2>2, <2>4, <2>7, <3>1, <3>3
    <3>4. QED
      BY <1>1, <3>2, <3>3
  <2>8. QED
    BY <2>1, <2>5, <2>6, <2>7
<1>7. CASE order_id_got /\ UNCHANGED tws
  <2>1. PICK m \in ToGateway :
          /\ m.type = "placeOrder" /\ m.id \in Ids
          /\ to_tws' = Append(to_tws, m)
          /\ DOMAIN placed' = 1..N + 1
          /\ \A l \in 1..N : placed'[l] = placed[l]
          /\ placed'[N + 1] = [id |-> m.id, role |-> m.role, parent |-> m.parent]
          /\ tws[m.id].state = "none"
          /\ \A k \in DOMAIN to_tws : ~Sends(k, m.id)
          /\ \A l \in DOMAIN placed : placed[l].id # m.id
    <3>1. order_id_got
      BY <1>7
    <3>2. QED
      BY <3>1, NewOrder
  <2>2. /\ DOMAIN to_tws' = 1..L + 1 /\ \A k \in 1..L : to_tws'[k] = to_tws[k]
        /\ to_tws'[L + 1] = m
    BY <2>1, Longer DEF Typed
  <2>3. ~Came(N + 1) /\ \A l \in 1..N : Came(l) <=> Arrived(l)
    BY <1>7, <2>1 DEF Arrived
  <2>4. \A k \in 1..L : \A id : Sent(k, id) <=> Sends(k, id)
    BY <1>1, <2>2 DEF Sends
  <2>5. \A id : Sent(L + 1, id) <=> id = m.id
    BY <1>1, <2>1, <2>2
  <2> HIDE DEF Came, Sent, N, L
  <2>6. CASE n \in 1..N
    <3>1. Came(n) \/ \E k \in DOMAIN to_tws' : Sent(k, placed'[n].id)
      BY <1>1, <1>2, <2>1, <2>2, <2>3, <2>4, <2>6
    <3>2. \A l \in 1..n - 1 : l \in 1..N
      BY <1>1, <2>6
    <3>3. Came(n) => \A l \in 1..n - 1 : Came(l)
      BY <1>2, <2>3, <2>6, <3>2
    <3>4. ASSUME NEW k \in 1..L + 1, Sent(k, placed'[n].id), NEW l \in 1..n - 1
          PROVE  Came(l) \/ \E j \in 1..k - 1 : Sent(j, placed'[l].id)
      <4>1. k \in 1..L
        <5>1. placed'[n].id # m.id
          BY <1>1, <2>1, <2>6
        <5>2. QED
          BY <1>1, <2>5, <3>4, <5>1
      <4>2. Arrived(l) \/ \E j \in 1..k - 1 : Sends(j, placed[l].id)
        BY <1>2, <2>1, <2>4, <2>6, <3>4, <4>1
      <4>3. \A j \in 1..k - 1 : j \in 1..L
        BY <1>1, <4>1
      <4>4. QED
        BY <2>1, <2>3, <2>4, <3>2, <4>2, <4>3
    <3>5. QED
      BY <2>2, <3>1, <3>3, <3>4
  <2>7. CASE n = N + 1
    <3>1. placed'[n].id = m.id /\ ~Came(n) /\ Sent(L + 1, m.id) /\ L + 1 \in 1..L + 1
      BY <1>1, <2>1, <2>3, <2>5, <2>7
    <3>2. ASSUME NEW k \in 1..L + 1, Sent(k, placed'[n].id), NEW l \in 1..n - 1
          PROVE  Came(l) \/ \E j \in 1..k - 1 : Sent(j, placed'[l].id)
      <4>1. k = L + 1
        BY <1>1, <2>1, <2>4, <3>1, <3>2
      <4>2. l \in 1..N /\ 1..k - 1 = 1..L
        BY <1>1, <2>7, <4>1
      <4>3. QED
        BY <1>2, <2>1, <2>3, <2>4, <4>2
    <3>3. QED
      BY <2>2, <3>1, <3>2
  <2>8. QED
    BY <1>1, <2>1, <2>6, <2>7
<1>8. CASE UNCHANGED placed /\ Takes
  <2>1. /\ DOMAIN to_tws' = 1..L - 1 /\ \A k \in 1..L - 1 : to_tws'[k] = to_tws[k + 1]
        /\ L \in Nat \ {0} /\ Head(to_tws) = to_tws[1]
    BY <1>8, Shorter DEF Typed, Takes
  <2>2. n \in 1..N /\ placed' = placed
    BY <1>1, <1>8
  <2>3. \A l \in 1..N : /\ Arrived(l) \/ Sends(1, placed[l].id) => Came(l)
                        /\ Came(l) => Arrived(l) \/ Sends(1, placed[l].id)
    <3>1. ASSUME NEW l \in 1..N
          PROVE  (Arrived(l) \/ Sends(1, placed[l].id)) <=> Came(l)
      <4> DEFINE i == placed[l].id
      <4>1. i \in Ids /\ (Arrived(l) <=> tws[i].state # "none") /\ (Came(l) <=> tws'[i].state # "none")
        BY <1>3, <2>2 DEF Arrived
      <4>2. Sends(1, i) <=> Head(to_tws).type = "placeOrder" /\ Head(to_tws).id = i
        BY <1>1, <2>1 DEF Sends
      <4> HIDE DEF i
      <4>3. /\ Sends(1, i) => tws'[i].state # "none"
            /\ ~Sends(1, i) => (tws'[i].state = "none") = (tws[i].state = "none")
        BY <1>8, <4>1, <4>2 DEF Takes
      <4>4. QED
        BY <4>1, <4>3 DEF i
    <3>2. QED
      BY <3>1
  <2>4. \A k \in 1..L - 1 : \A id : Sent(k, id) <=> Sends(k + 1, id)
    BY <1>1, <2>1 DEF Sends
  <2> HIDE DEF Came, Sent, N, L
  <2>5. \A l \in 1..n - 1 : l \in 1..N
    BY <1>1, <2>2
  <2>6. Came(n) \/ \E k \in DOMAIN to_tws' : Sent(k, placed'[n].id)
    <3>1. CASE Arrived(n)
      BY <2>2, <2>3, <3>1
    <3>2. CASE \E k \in 1..L : Sends(k, placed[n].id)
      <4>1. PICK k \in 1..L : Sends(k, placed[n].id)
        BY <3>2
      <4>2. CASE k = 1
        BY <2>2, <2>3, <4>1, <4>2
      <4>3. CASE k # 1
        <5>1. k - 1 \in 1..L - 1 /\ (k - 1) + 1 = k
          BY <2>1, <4>3
        <5>2. QED
          BY <2>1, <2>2, <2>4, <4>1, <5>1
      <4>4. QED
        BY <4>2, <4>3
    <3>3. QED
      BY <1>2, <2>2, <3>1, <3>2
  <2>7. ASSUME Came(n), NEW l \in 1..n - 1
        PROVE  Came(l)
    <3>1. Arrived(n) \/ Sends(1, placed[n].id)
      BY <2>2, <2>3, <2>7
    <3>2. Arrived(l)
      <4>1. 1 \in 1..L /\ 1..1 - 1 = {}
        BY <2>1
      <4>2. QED
        BY <1>2, <2>2, <2>7, <3>1, <4>1
    <3>3. QED
      BY <2>3, <2>5, <3>2
  <2>8. ASSUME NEW k \in 1..L - 1, Sent(k, placed'[n].id), NEW l \in 1..n - 1
        PROVE  Came(l) \/ \E j \in 1..k - 1 : Sent(j, placed'[l].id)
    <3>1. k + 1 \in 1..L /\ k + 1 - 1 = k
      BY <2>1
    <3>2. Sends(k + 1, placed[n].id)
      BY <2>2, <2>4, <2>8
    <3>3. Arrived(l) \/ \E j \in 1..k : Sends(j, placed[l].id)
      <4>1. \A q \in 1..n - 1 : Arrived(q) \/ \E j \in 1..k + 1 - 1 : Sends(j, placed[q].id)
        BY <1>2, <2>2, <3>1, <3>2
      <4>2. QED
        BY <3>1, <4>1
    <3>4. CASE Arrived(l)
      BY <2>3, <2>5, <3>4
    <3>5. ASSUME NEW j \in 1..k, Sends(j, placed[l].id)
          PROVE  Came(l) \/ \E i \in 1..k - 1 : Sent(i, placed'[l].id)
      <4>1. CASE j = 1
        BY <2>3, <2>5, <3>5, <4>1
      <4>2. CASE j # 1
        <5>1. j - 1 \in 1..k - 1 /\ j - 1 \in 1..L - 1 /\ (j - 1) + 1 = j
          BY <2>1, <4>2
        <5>2. QED
          BY <2>2, <2>4, <3>5, <5>1
      <4>3. QED
        BY <4>1, <4>2
    <3>6. QED
      BY <3>3, <3>4, <3>5
  <2>9. QED
    BY <2>1, <2>6, <2>7, <2>8
<1>9. ASSUME NEW id \in open_orders, Changes(id), UNCHANGED placed
      PROVE  /\ Came(n) \/ \E k \in DOMAIN to_tws' : Sent(k, placed'[n].id)
             /\ Came(n) => \A l \in 1..n - 1 : Came(l)
             /\ \A k \in DOMAIN to_tws' : Sent(k, placed'[n].id) =>
                  \A l \in 1..n - 1 : Came(l) \/ \E j \in 1..k - 1 : Sent(j, placed'[l].id)
  <2>3. PICK parent \in 0..MaxOrders, role \in Roles : Resent(id, parent, role)
    BY <1>9 DEF Changes
  <2> DEFINE m == Place(id, parent, role, TRUE)
  <2>1. /\ m \in ToGateway /\ to_tws' = Append(to_tws, m) /\ m.id = id /\ m.id \in Ids
        /\ tws[m.id].state # "none" /\ UNCHANGED tws
    BY <1>9, <2>3 DEF Changes, Resent, Place, TypeOK
  <2> HIDE DEF m, Came, Sent, N, L
  <2>2. QED
    BY <1>6, <1>9, <2>1
<1>10. QED
  <2> HIDE DEF Came, Sent, N, L
  <2>1. QED
    BY <1>5, <1>6, <1>7, <1>8, <1>9, QueueSteps

LEMMA HeldIsNewStep ==
  ASSUME TypeOK, Typed, FromProgram, Reported, HeldIsNew, Next, IdIsOfTheOrder'
  PROVE  HeldIsNew'
<1> DEFINE L == Len(to_tws)
           Sent(k, id) == k \in DOMAIN to_tws' /\ to_tws'[k].type = "placeOrder" /\ to_tws'[k].id = id
<1>1. IdIsOfTheOrder /\ DOMAIN to_tws = 1..L /\ L \in Nat
  BY PlacedStep, PlacedStays, LenProperties DEF Typed
<1>2. \A k \in 1..L : to_tws[k].type = "placeOrder" /\ ~to_tws[k].transmit =>
        tws[to_tws[k].id].state = "none" /\ \A j \in 1..k - 1 : ~Sends(j, to_tws[k].id)
  BY <1>1 DEF HeldIsNew
<1>3. \A k \in 1..L : to_tws[k] \in ToGateway
  BY <1>1, ElementOfSeq DEF Typed
<1>4. \A k \in 1..L : to_tws[k].type = "placeOrder" => to_tws[k].id \in Ids
  BY <1>3, PlaceMessage
<1>5. SUFFICES ASSUME NEW k \in DOMAIN to_tws', to_tws'[k].type = "placeOrder", ~to_tws'[k].transmit
               PROVE  tws'[to_tws'[k].id].state = "none" /\ \A j \in 1..k - 1 : ~Sent(j, to_tws'[k].id)
  BY DEF HeldIsNew, Sends
<1>6. CASE /\ UNCHANGED to_tws
           /\ \A i \in Ids : (tws'[i].state = "none") = (tws[i].state = "none")
  BY <1>1, <1>2, <1>4, <1>5, <1>6 DEF Sends
<1>7. ASSUME NEW m \in ToGateway, UNCHANGED tws, to_tws' = Append(to_tws, m),
             m.type = "placeOrder" /\ ~m.transmit =>
               tws[m.id].state = "none" /\ \A j \in DOMAIN to_tws : ~Sends(j, m.id)
      PROVE  tws'[to_tws'[k].id].state = "none" /\ \A j \in 1..k - 1 : ~Sent(j, to_tws'[k].id)
  <2>1. /\ DOMAIN to_tws' = 1..L + 1 /\ \A j \in 1..L : to_tws'[j] = to_tws[j]
        /\ to_tws'[L + 1] = m
    BY <1>7, Longer DEF Typed
  <2>2. \A j \in 1..L : \A id : Sent(j, id) <=> Sends(j, id)
    BY <1>1, <2>1 DEF Sends
  <2>3. \A j \in 1..k - 1 : j \in 1..L
    BY <1>1, <2>1
  <2>4. CASE k \in 1..L
    <3>1. to_tws'[k] = to_tws[k]
      BY <2>1, <2>4
    <3> HIDE DEF Sent, L
    <3>2. QED
      BY <1>2, <1>5, <1>7, <2>2, <2>3, <2>4, <3>1
  <2>5. CASE k = L + 1
    <3>1. to_tws'[k] = m
      BY <2>1, <2>5
    <3> HIDE DEF Sent, L
    <3>2. QED
      BY <1>1, <1>5, <1>7, <2>2, <2>3, <3>1
  <2>6. QED
    BY <1>1, <2>1, <2>4, <2>5
<1>8. CASE order_id_got /\ UNCHANGED tws
  <2>1. order_id_got
    BY <1>8
  <2>2. PICK m \in ToGateway : /\ to_tws' = Append(to_tws, m) /\ tws[m.id].state = "none"
                               /\ \A j \in DOMAIN to_tws : ~Sends(j, m.id)
    BY <2>1, NewOrder
  <2> HIDE DEF Sent
  <2>3. QED
    BY <1>7, <1>8, <2>2
<1>9. CASE Takes
  <2>1. /\ DOMAIN to_tws' = 1..L - 1 /\ \A j \in 1..L - 1 : to_tws'[j] = to_tws[j + 1]
        /\ L \in Nat \ {0} /\ Head(to_tws) = to_tws[1]
    BY <1>9, Shorter DEF Typed, Takes
  <2>2. k + 1 \in 1..L /\ to_tws'[k] = to_tws[k + 1] /\ k + 1 - 1 = k
    BY <2>1
  <2>3. tws[to_tws[k + 1].id].state = "none" /\ \A j \in 1..k : ~Sends(j, to_tws[k + 1].id)
    <3>1. to_tws[k + 1].type = "placeOrder" /\ ~to_tws[k + 1].transmit
      BY <1>5, <2>2
    <3>2. \A i \in 1..L : i = k + 1 =>
            tws[to_tws[i].id].state = "none" /\ \A j \in 1..i - 1 : ~Sends(j, to_tws[i].id)
      BY <1>2, <3>1
    <3>3. ASSUME NEW i \in 1..L, i = k + 1
          PROVE  tws[to_tws[i].id].state = "none" /\ \A j \in 1..k : ~Sends(j, to_tws[i].id)
      <4>1. 1..i - 1 = 1..k
        BY <2>2, <3>3
      <4>2. QED
        BY <3>2, <3>3, <4>1
    <3>4. QED
      BY <2>2, <3>3
  <2>4. ~Sends(1, to_tws[k + 1].id) /\ to_tws[k + 1].id \in Ids
    BY <1>4, <1>5, <2>1, <2>2, <2>3
  <2>5. ~(Head(to_tws).type = "placeOrder" /\ Head(to_tws).id = to_tws[k + 1].id)
    BY <1>1, <2>1, <2>4 DEF Sends
  <2>6. tws'[to_tws[k + 1].id].state = "none"
    BY <1>9, <2>3, <2>4, <2>5 DEF Takes
  <2>7. \A j \in 1..k - 1 : Sent(j, to_tws[k + 1].id) => Sends(j + 1, to_tws[k + 1].id) /\ j + 1 \in 1..k
    BY <1>1, <2>1 DEF Sends
  <2>8. QED
    BY <2>2, <2>3, <2>6, <2>7
<1>10. ASSUME NEW id \in open_orders, Changes(id)
       PROVE  tws'[to_tws'[k].id].state = "none" /\ \A j \in 1..k - 1 : ~Sent(j, to_tws'[k].id)
  <2>3. PICK parent \in 0..MaxOrders, role \in Roles : Resent(id, parent, role)
    BY <1>10 DEF Changes
  <2> DEFINE m == Place(id, parent, role, TRUE)
  <2>1. m \in ToGateway /\ to_tws' = Append(to_tws, m) /\ m.transmit = TRUE /\ UNCHANGED tws
    BY <1>10, <2>3 DEF Changes, Resent, Place
  <2> HIDE DEF m, Sent
  <2>2. QED
    BY <1>7, <2>1
<1>11. QED
  <2> HIDE DEF Sent
  <2>1. QED
    BY <1>6, <1>7, <1>8, <1>9, <1>10, QueueSteps

-----------------------------------------------------------------------------
(* What the client knows and what is reported add up to what there is.      *)

ViewOf(i) ==
  /\ tws[i].state \in {"none", "held"} => Unseen(i)
  /\ tws[i].state = "live" => SeenLive(i)
  /\ tws[i].state \in Closed => SeenClosed(i)

LEMMA OrderMessages ==
  ASSUME NEW i, NEW s
  PROVE  /\ IsAbout(OpenOrder(i), i) /\ IsAbout(OrderStatus(i, s), i)
         /\ OpenOrder(i) # OrderStatus(i, s) /\ OrderStatus(i, s).status = s
         /\ OpenOrder(i).type = "openOrder" /\ OrderStatus(i, s).type = "orderStatus"
         /\ OpenOrder(i).id = i /\ OrderStatus(i, s).id = i
  BY DEF IsAbout, OpenOrder, OrderStatus

(* Nothing was said of the order, nothing was done about it.                *)
LEMMA NothingTold ==
  ASSUME NEW i \in Ids, ViewOf(i), Typed, TypeOK, Typed',
         \A k \in DOMAIN from_tws : k \in DOMAIN from_tws' /\ from_tws'[k] = from_tws[k],
         \A k \in DOMAIN from_tws' : k \in DOMAIN from_tws \/ ~IsAbout(from_tws'[k], i),
         UNCHANGED <<open_orders, order_status>>,
         \/ tws'[i].state = tws[i].state
         \/ tws[i].state \in {"none", "held"} /\ tws'[i].state \in {"none", "held"}
  PROVE  ViewOf(i)'
<1>1. \A k \in DOMAIN from_tws' : IsAbout(from_tws'[k], i) <=> k \in DOMAIN from_tws /\ IsAbout(from_tws[k], i)
  OBVIOUS
<1>2. Unseen(i) => Unseen(i)'
  BY <1>1 DEF Unseen, About, IsAbout
<1>3. SeenLive(i) => SeenLive(i)'
  <2>1. SUFFICES ASSUME SeenLive(i) PROVE SeenLive(i)'
    OBVIOUS
  <2>2. /\ i \in open_orders \/ \E k \in DOMAIN from_tws' : from_tws'[k] = OpenOrder(i)
        /\ order_status[i] = "Submitted" \/ \E k \in DOMAIN from_tws' : from_tws'[k] = OrderStatus(i, "Submitted")
    BY <2>1 DEF SeenLive
  <2>3. \A k \in DOMAIN from_tws' : IsAbout(from_tws'[k], i) =>
          from_tws'[k] \in {OpenOrder(i), OrderStatus(i, "Submitted")}
    BY <1>1, <2>1 DEF SeenLive, About, IsAbout
  <2>4. QED
    BY <2>2, <2>3 DEF SeenLive, About, IsAbout
<1>4. SeenClosed(i) /\ tws'[i].state = tws[i].state => SeenClosed(i)'
  <2>1. SUFFICES ASSUME SeenClosed(i), tws'[i].state = tws[i].state PROVE SeenClosed(i)'
    OBVIOUS
  <2>2. \A k \in DOMAIN from_tws' : IsAbout(from_tws'[k], i) =>
          \E j \in DOMAIN from_tws' : j >= k /\ from_tws'[j] = OrderStatus(i, tws'[i].state)
    <3>1. \A k \in DOMAIN from_tws : IsAbout(from_tws[k], i) =>
            \E j \in DOMAIN from_tws : j >= k /\ from_tws[j] = OrderStatus(i, tws[i].state)
      BY <2>1 DEF SeenClosed, About, IsAbout
    <3>2. QED
      BY <1>1, <2>1, <3>1
  <2>3. (\A k \in DOMAIN from_tws' : ~IsAbout(from_tws'[k], i)) =>
          i \notin open_orders' /\ order_status'[i] = tws'[i].state
    BY <1>1, <2>1 DEF SeenClosed, About, IsAbout
  <2>4. QED
    BY <2>2, <2>3 DEF SeenClosed, About, IsAbout
<1>5. QED
  BY <1>2, <1>3, <1>4 DEF ViewOf, Closed

(* The order was reported live or closed.                                   *)
LEMMA StateTold ==
  ASSUME NEW i \in Ids, ViewOf(i), Typed, TypeOK, NEW R, OnlyOrders(R), from_tws' = from_tws \o R,
         UNCHANGED <<open_orders, order_status>>,
         Tells(R, i, StatusOf(tws'[i].state)), tws[i].state \notin Closed,
         tws'[i].state \in {"live"} \union Closed
  PROVE  ViewOf(i)'
<1> DEFINE L == Len(from_tws)
<1>1. /\ DOMAIN from_tws' = 1..L + Len(R) /\ DOMAIN from_tws = 1..L /\ L \in Nat /\ Len(R) \in Nat
      /\ \A k \in 1..L : from_tws'[k] = from_tws[k]
      /\ \A k \in 1..Len(R) : from_tws'[L + k] = R[k]
      /\ \A k \in DOMAIN from_tws' : k \in 1..L \/ \E j \in 1..Len(R) : k = L + j
  BY Joined DEF OnlyOrders, Typed
<1>2. PICK p \in 1..Len(R) : R[p] = OpenOrder(i)
  BY DEF Tells
<1>3. p + 1 \in 1..Len(R) /\ R[p + 1] = OrderStatus(i, StatusOf(tws'[i].state))
  BY <1>2 DEF Tells
<1>4. \A k \in 1..Len(R) : IsAbout(R[k], i) => R[k] \in {OpenOrder(i), OrderStatus(i, StatusOf(tws'[i].state))}
  BY DEF Tells
<1>5. /\ L + p \in DOMAIN from_tws' /\ from_tws'[L + p] = OpenOrder(i)
      /\ L + (p + 1) \in DOMAIN from_tws' /\ from_tws'[L + (p + 1)] = OrderStatus(i, StatusOf(tws'[i].state))
  BY <1>1, <1>2, <1>3
<1>6. CASE tws'[i].state = "live"
  <2>1. StatusOf(tws'[i].state) = "Submitted"
    BY <1>6 DEF StatusOf
  <2>2. \A k \in 1..L : IsAbout(from_tws[k], i) => from_tws[k] \in {OpenOrder(i), OrderStatus(i, "Submitted")}
    <3>1. tws[i].state \in {"none", "held"} \/ tws[i].state = "live"
      BY DEF TypeOK, States, Closed
    <3>2. CASE tws[i].state \in {"none", "held"}
      BY <1>1, <3>2 DEF ViewOf, Unseen, About, IsAbout
    <3>3. CASE tws[i].state = "live"
      BY <1>1, <3>3 DEF ViewOf, SeenLive, About, IsAbout
    <3>4. QED
      BY <3>1, <3>2, <3>3
  <2>3. \A k \in DOMAIN from_tws' : IsAbout(from_tws'[k], i) =>
          from_tws'[k] \in {OpenOrder(i), OrderStatus(i, "Submitted")}
    BY <1>1, <1>4, <2>1, <2>2
  <2>4. SeenLive(i)'
    BY <1>5, <2>1, <2>3 DEF SeenLive, About, IsAbout
  <2>5. QED
    BY <1>6, <2>4 DEF ViewOf, Closed
<1>7. CASE tws'[i].state \in Closed
  <2>1. StatusOf(tws'[i].state) = tws'[i].state
    BY <1>7 DEF StatusOf, Closed
  <2>2. ASSUME NEW k \in DOMAIN from_tws', IsAbout(from_tws'[k], i)
        PROVE  \E j \in DOMAIN from_tws' : j >= k /\ from_tws'[j] = OrderStatus(i, tws'[i].state)
    <3>1. CASE k \in 1..L
      <4>1. L + (p + 1) >= k
        BY <1>1, <1>2, <3>1
      <4>2. QED
        BY <1>5, <2>1, <4>1
    <3>2. ASSUME NEW j \in 1..Len(R), k = L + j
          PROVE  \E q \in DOMAIN from_tws' : q >= k /\ from_tws'[q] = OrderStatus(i, tws'[i].state)
      <4>1. from_tws'[k] = R[j]
        BY <1>1, <3>2
      <4>2. CASE R[j] = OpenOrder(i)
        <5>1. j + 1 \in 1..Len(R) /\ R[j + 1] = OrderStatus(i, tws'[i].state)
          BY <2>1, <4>2 DEF Tells
        <5>2. L + (j + 1) \in DOMAIN from_tws' /\ L + (j + 1) >= k /\ from_tws'[L + (j + 1)] = R[j + 1]
          BY <1>1, <3>2, <5>1
        <5>3. QED
          BY <5>1, <5>2
      <4>3. CASE R[j] = OrderStatus(i, tws'[i].state)
        <5>1. k >= k
          BY <1>1, <3>2
        <5>2. QED
          BY <4>1, <4>3, <5>1
      <4>4. QED
        BY <1>4, <2>1, <2>2, <4>1, <4>2, <4>3
    <3>3. QED
      BY <1>1, <3>1, <3>2
  <2>3. \E k \in DOMAIN from_tws' : IsAbout(from_tws'[k], i)
    BY <1>5, OrderMessages
  <2>4. SeenClosed(i)'
    BY <2>2, <2>3 DEF SeenClosed, About, IsAbout
  <2>5. QED
    BY <1>7, <2>4 DEF ViewOf, Closed
<1>8. QED
  BY <1>6, <1>7

(* The dispatcher handled a message.                                        *)
LEMMA ReportHandled ==
  ASSUME NEW i \in Ids, ViewOf(i), Typed, TypeOK, Dispatcher
  PROVE  ViewOf(i)'
<1> DEFINE m == Head(from_tws)
<1>1. from_tws # <<>> /\ from_tws' = Tail(from_tws) /\ UNCHANGED tws
  BY DEF Dispatcher, handle_next_valid_id, handle_open_order, handle_order_status, Received, twsVars
<1>2. /\ \A k \in DOMAIN from_tws' : k + 1 \in DOMAIN from_tws /\ from_tws'[k] = from_tws[k + 1]
      /\ \A k \in DOMAIN from_tws : k # 1 => k - 1 \in DOMAIN from_tws' /\ from_tws'[k - 1] = from_tws[k]
      /\ 1 \in DOMAIN from_tws /\ m = from_tws[1] /\ DOMAIN from_tws = 1..Len(from_tws)
      /\ DOMAIN from_tws' = 1..Len(from_tws) - 1 /\ Len(from_tws) \in Nat /\ m \in FromGateway
  BY <1>1, Shorter DEF Typed
<1>3. /\ m.type = "nextValidId" => UNCHANGED <<open_orders, order_status>>
      /\ m.type = "openOrder" => open_orders' = open_orders \union {m.id} /\ UNCHANGED order_status
      /\ m.type = "orderStatus" =>
           /\ order_status' = [order_status EXCEPT ![m.id] = m.status]
           /\ open_orders' = IF m.status \in Closed THEN open_orders \ {m.id} ELSE open_orders
      /\ m.type \in {"nextValidId", "openOrder", "orderStatus"}
  BY DEF Dispatcher, handle_next_valid_id, handle_open_order, handle_order_status, Received
<1>4. /\ m.type = "openOrder" => m = OpenOrder(m.id)
      /\ m.type = "orderStatus" => m = OrderStatus(m.id, m.status) /\ m.status \in Statuses
  BY <1>2, ReceivedMessage
<1> HIDE DEF m
<1>5. ~IsAbout(m, i) => (i \in open_orders' <=> i \in open_orders) /\ order_status'[i] = order_status[i]
  BY <1>3 DEF IsAbout, TypeOK
<1>6. Unseen(i) => Unseen(i)'
  <2>1. SUFFICES ASSUME Unseen(i) PROVE Unseen(i)'
    OBVIOUS
  <2>2. ~IsAbout(m, i)
    BY <1>2, <2>1 DEF Unseen, About, IsAbout
  <2>3. \A k \in DOMAIN from_tws' : ~IsAbout(from_tws'[k], i)
    BY <1>2, <2>1 DEF Unseen, About, IsAbout
  <2>4. QED
    BY <1>5, <2>1, <2>2, <2>3 DEF Unseen, About, IsAbout
<1>7. SeenLive(i) => SeenLive(i)'
  <2>1. SUFFICES ASSUME SeenLive(i) PROVE SeenLive(i)'
    OBVIOUS
  <2>2. /\ i \in open_orders \/ \E k \in DOMAIN from_tws : from_tws[k] = OpenOrder(i)
        /\ order_status[i] = "Submitted" \/ \E k \in DOMAIN from_tws : from_tws[k] = OrderStatus(i, "Submitted")
        /\ \A k \in DOMAIN from_tws : IsAbout(from_tws[k], i) =>
             from_tws[k] \in {OpenOrder(i), OrderStatus(i, "Submitted")}
    BY <2>1 DEF SeenLive, About, IsAbout
  <2>3. \A k \in DOMAIN from_tws' : IsAbout(from_tws'[k], i) =>
          from_tws'[k] \in {OpenOrder(i), OrderStatus(i, "Submitted")}
    BY <1>2, <2>2
  <2>4. /\ m = OpenOrder(i) => i \in open_orders' /\ order_status'[i] = order_status[i]
        /\ m = OrderStatus(i, "Submitted") =>
             (i \in open_orders' <=> i \in open_orders) /\ order_status'[i] = "Submitted"
    BY <1>3, OrderMessages DEF TypeOK, Closed
  <2>5. i \in open_orders' \/ \E k \in DOMAIN from_tws' : from_tws'[k] = OpenOrder(i)
    <3>1. CASE i \in open_orders
      BY <1>2, <1>5, <2>2, <2>4, <3>1
    <3>2. ASSUME NEW k \in DOMAIN from_tws, from_tws[k] = OpenOrder(i)
          PROVE  i \in open_orders' \/ \E j \in DOMAIN from_tws' : from_tws'[j] = OpenOrder(i)
      BY <1>2, <2>4, <3>2
    <3>3. QED
      BY <2>2, <3>1, <3>2
  <2>6. order_status'[i] = "Submitted" \/ \E k \in DOMAIN from_tws' : from_tws'[k] = OrderStatus(i, "Submitted")
    <3>1. CASE order_status[i] = "Submitted"
      BY <1>2, <1>5, <2>2, <2>4, <3>1
    <3>2. ASSUME NEW k \in DOMAIN from_tws, from_tws[k] = OrderStatus(i, "Submitted")
          PROVE  order_status'[i] = "Submitted" \/ \E j \in DOMAIN from_tws' : from_tws'[j] = OrderStatus(i, "Submitted")
      BY <1>2, <2>4, <3>2
    <3>3. QED
      BY <2>2, <3>1, <3>2
  <2>7. QED
    BY <2>3, <2>5, <2>6 DEF SeenLive, About, IsAbout
<1>8. tws[i].state \in Closed /\ SeenClosed(i) => SeenClosed(i)'
  <2> DEFINE s == tws[i].state
  <2>1. SUFFICES ASSUME s \in Closed, SeenClosed(i) PROVE SeenClosed(i)'
    OBVIOUS
  <2>2. /\ \A k \in DOMAIN from_tws : IsAbout(from_tws[k], i) =>
             \E j \in DOMAIN from_tws : j >= k /\ from_tws[j] = OrderStatus(i, s)
        /\ (\A k \in DOMAIN from_tws : ~IsAbout(from_tws[k], i)) => i \notin open_orders /\ order_status[i] = s
    BY <2>1 DEF SeenClosed, About, IsAbout
  <2>3. \A j \in DOMAIN from_tws : from_tws[j] = OrderStatus(i, s) => IsAbout(from_tws[j], i)
    BY OrderMessages
  <2>4. m = OrderStatus(i, s) => i \notin open_orders' /\ order_status'[i] = s
    BY <1>3, <2>1, OrderMessages DEF TypeOK
  <2>5. UNCHANGED s
    BY <1>1
  <2> HIDE DEF s
  <2>6. ASSUME NEW k \in DOMAIN from_tws', IsAbout(from_tws'[k], i)
        PROVE  \E j \in DOMAIN from_tws' : j >= k /\ from_tws'[j] = OrderStatus(i, s)
    <3>1. k + 1 \in DOMAIN from_tws /\ IsAbout(from_tws[k + 1], i)
      BY <1>2, <2>6
    <3>2. PICK j \in DOMAIN from_tws : j >= k + 1 /\ from_tws[j] = OrderStatus(i, s)
      BY <2>2, <3>1
    <3>3. j # 1 /\ j - 1 >= k
      BY <1>2, <3>2
    <3>4. QED
      BY <1>2, <3>2, <3>3
  <2>7. ASSUME \A k \in DOMAIN from_tws' : ~IsAbout(from_tws'[k], i)
        PROVE  i \notin open_orders' /\ order_status'[i] = s
    <3>1. \A k \in DOMAIN from_tws : k # 1 => ~IsAbout(from_tws[k], i)
      BY <1>2, <2>7
    <3>2. CASE IsAbout(m, i)
      <4>1. \E j \in DOMAIN from_tws : from_tws[j] = OrderStatus(i, s)
        BY <1>2, <2>2, <3>2
      <4>2. m = OrderStatus(i, s)
        BY <1>2, <2>3, <3>1, <4>1
      <4>3. QED
        BY <2>4, <4>2
    <3>3. CASE ~IsAbout(m, i)
      BY <1>2, <1>5, <2>2, <3>1, <3>3
    <3>4. QED
      BY <3>2, <3>3
  <2>8. QED
    BY <2>5, <2>6, <2>7 DEF SeenClosed, About, IsAbout, s
<1>9. QED
  BY <1>1, <1>6, <1>7, <1>8 DEF ViewOf

LEMMA ViewsAddUpStep ==
  ASSUME TypeOK, Typed, FromProgram, Reported, HeldIsNew, ViewsAddUp, Next, Typed', IdIsOfTheOrder'
  PROVE  ViewsAddUp'
<1>1. IdIsOfTheOrder
  BY PlacedStep, PlacedStays
<1>2. SUFFICES ASSUME NEW i \in Ids, ViewOf(i) PROVE ViewOf(i)'
  <2>1. \A i \in Ids : ViewOf(i)
    BY <1>1 DEF ViewsAddUp, ViewOf
  <2>2. QED
    BY <1>2, <2>1 DEF ViewsAddUp, ViewOf
<1>3. CASE Program
  <2>1. UNCHANGED <<open_orders, order_status, from_tws, tws>>
    BY <1>3, ProgramSends DEF twsVars
  <2>2. QED
    BY <1>2, <2>1, NothingTold
<1>4. CASE ids_requested
  <2> DEFINE m == NextValidId(next_valid)
  <2>1. /\ UNCHANGED <<open_orders, order_status, tws>> /\ from_tws' = Append(from_tws, m)
    BY <1>4 DEF ids_requested, clientVars, twsVars
  <2>2. m \in FromGateway /\ ~IsAbout(m, i)
    BY GatewayMessages DEF TypeOK, IsAbout
  <2> HIDE DEF m
  <2>3. /\ DOMAIN from_tws' = 1..Len(from_tws) + 1 /\ DOMAIN from_tws = 1..Len(from_tws)
        /\ Len(from_tws) \in Nat /\ from_tws'[Len(from_tws) + 1] = m
        /\ \A k \in 1..Len(from_tws) : from_tws'[k] = from_tws[k]
    BY <2>1, <2>2, Longer DEF Typed
  <2>4. /\ \A k \in DOMAIN from_tws : k \in DOMAIN from_tws' /\ from_tws'[k] = from_tws[k]
        /\ \A k \in DOMAIN from_tws' : k \in DOMAIN from_tws \/ ~IsAbout(from_tws'[k], i)
    BY <2>2, <2>3
  <2>5. QED
    BY <1>2, <2>1, <2>4, NothingTold
<1>5. CASE order_placed \/ order_cancelled \/ \E id \in Ids : fill(id) \/ fill_child(id)
  <2>1. PICK R :
          /\ OnlyOrders(R) /\ from_tws' = from_tws \o R
          /\ \A j \in Ids :
               \/ /\ Tells(R, j, StatusOf(tws'[j].state)) /\ tws[j].state \notin Closed
                  /\ tws'[j].state \in {"live"} \union Closed
               \/ Silent(R, j) /\ tws'[j].state = tws[j].state
               \/ /\ Silent(R, j) /\ tws'[j].state = "held" /\ order_placed
                  /\ j = Head(to_tws).id /\ ~Head(to_tws).transmit
    BY <1>5, OrdersReported
  <2>2. UNCHANGED <<open_orders, order_status>>
    BY <1>5, OrdersReported DEF clientVars
  <2>3. CASE /\ Tells(R, i, StatusOf(tws'[i].state)) /\ tws[i].state \notin Closed
             /\ tws'[i].state \in {"live"} \union Closed
    BY <1>2, <2>1, <2>2, <2>3, StateTold
  <2>4. CASE Silent(R, i) /\ (\/ tws'[i].state = tws[i].state
                              \/ tws[i].state \in {"none", "held"} /\ tws'[i].state \in {"none", "held"})
    <3>1. /\ \A k \in DOMAIN from_tws : k \in DOMAIN from_tws' /\ from_tws'[k] = from_tws[k]
          /\ \A k \in DOMAIN from_tws' : k \in DOMAIN from_tws \/ ~IsAbout(from_tws'[k], i)
      <4>1. /\ DOMAIN from_tws' = 1..Len(from_tws) + Len(R) /\ DOMAIN from_tws = 1..Len(from_tws)
            /\ Len(from_tws) \in Nat /\ Len(R) \in Nat
            /\ \A k \in 1..Len(from_tws) : from_tws'[k] = from_tws[k]
            /\ \A k \in 1..Len(R) : from_tws'[Len(from_tws) + k] = R[k]
            /\ \A k \in DOMAIN from_tws' : k \in 1..Len(from_tws) \/ \E j \in 1..Len(R) : k = Len(from_tws) + j
        BY <2>1, Joined DEF OnlyOrders, Typed
      <4>2. \A j \in 1..Len(R) : ~IsAbout(R[j], i)
        BY <2>4 DEF Silent
      <4>3. QED
        BY <4>1, <4>2
    <3>2. QED
      BY <1>2, <2>2, <2>4, <3>1, NothingTold
  <2>5. CASE /\ Silent(R, i) /\ tws'[i].state = "held" /\ order_placed
             /\ i = Head(to_tws).id /\ ~Head(to_tws).transmit
    <3>1. /\ 1 \in DOMAIN to_tws /\ Head(to_tws) = to_tws[1] /\ to_tws[1].type = "placeOrder"
      <4>1. to_tws # <<>> /\ Head(to_tws).type = "placeOrder"
        BY <2>5, OrderPlaced
      <4>2. QED
        BY <4>1, Shorter DEF Typed
    <3>2. tws[i].state = "none"
      BY <1>1, <2>5, <3>1 DEF HeldIsNew
    <3>3. QED
      BY <2>4, <2>5, <3>2
  <2>6. QED
    BY <2>1, <2>3, <2>4, <2>5
<1>6. CASE Dispatcher
  BY <1>2, <1>6, ReportHandled
<1>7. QED
  BY <1>3, <1>4, <1>5, <1>6 DEF Next, Gateway

-----------------------------------------------------------------------------
(* A bracket is transmitted whole.                                          *)

LEMMA PlacedOrders ==
  ASSUME Typed
  PROVE  /\ DOMAIN placed = 1..Len(placed) /\ Len(placed) \in Nat
         /\ \A n \in DOMAIN placed : placed[n].id \in Ids /\ placed[n].role \in Roles /\ placed[n].parent \in 0..MaxOrders
<1>1. /\ DOMAIN placed = 1..Len(placed) /\ Len(placed) \in Nat
  BY LenProperties DEF Typed
<1>2. \A n \in DOMAIN placed : placed[n] \in [id : Ids, role : Roles, parent : 0..MaxOrders]
  BY <1>1, ElementOfSeq DEF Typed
<1>3. QED
  BY <1>1, <1>2

(* What the gateway has of an order is what was placed.                     *)
LEMMA OrderHas ==
  ASSUME Typed, FromProgram, IdIsOfTheOrder, NEW n \in DOMAIN placed, Arrived(n)
  PROVE  tws[placed[n].id].parent = placed[n].parent /\ tws[placed[n].id].role = placed[n].role
<1> DEFINE i == placed[n].id
<1>1. i \in Ids
  BY PlacedOrders
<1>2. Among(placed, i, tws[i].parent, tws[i].role)
  BY <1>1 DEF FromProgram, Arrived
<1>3. PICK l \in DOMAIN placed : placed[l] = [id |-> i, role |-> tws[i].role, parent |-> tws[i].parent]
  BY <1>2 DEF Among
<1>4. l = n
  BY <1>3 DEF IdIsOfTheOrder
<1>5. QED
  BY <1>3, <1>4

LEMMA ParentIsEntry ==
  ASSUME Typed, PlacedInOrder, NEW n \in DOMAIN placed, placed[n].parent # 0
  PROVE  /\ placed[n].role \in {"profit", "stop", "moc"}
         /\ \E l \in DOMAIN placed : /\ placed[l].role = "entry" /\ placed[l].id = placed[n].parent
                                     /\ placed[l].parent = 0
<1>1. placed[n].role \in {"profit", "stop", "moc"}
  <2>1. placed[n].role \notin {"single", "entry"}
    BY DEF PlacedInOrder
  <2>2. placed[n].role \in Roles
    BY PlacedOrders
  <2>3. QED
    BY <2>1, <2>2 DEF Roles
<1>2. "entry" \in Earlier(placed[n].role)
  BY <1>1 DEF Earlier
<1>3. PlacedBefore(n, "entry", placed[n].parent)
  BY <1>2 DEF PlacedInOrder
<1>4. PICK l \in 1..n - 1 : placed[l].role = "entry" /\ placed[n].parent = placed[l].id
  BY <1>3 DEF PlacedBefore
<1>5. l \in DOMAIN placed
  BY PlacedOrders
<1>6. placed[l].parent = 0
  BY <1>4, <1>5 DEF PlacedInOrder
<1>7. QED
  BY <1>1, <1>4, <1>5, <1>6

(* The order at the head of the queue is the placed one of its id.          *)
LEMMA HeadPlaced ==
  ASSUME TypeOK, Typed, FromProgram, order_placed
  PROVE  LET m == Head(to_tws)
         IN /\ m.id \in Ids /\ m.parent \in 0..MaxOrders /\ m.role \in Roles /\ m.transmit \in BOOLEAN
            /\ Sends(1, m.id) /\ 1 \in DOMAIN to_tws /\ m = to_tws[1]
            /\ \E n \in DOMAIN placed : placed[n] = [id |-> m.id, role |-> m.role, parent |-> m.parent]
<1> DEFINE m == Head(to_tws)
<1>1. to_tws # <<>> /\ m \in ToGateway /\ m.type = "placeOrder"
  BY OrderPlaced
<1>2. 1 \in DOMAIN to_tws /\ m = to_tws[1]
  BY <1>1, Shorter DEF Typed
<1>3. Among(placed, m.id, m.parent, m.role)
  BY <1>1, <1>2 DEF FromProgram
<1>4. m.id \in Ids /\ m.parent \in 0..MaxOrders /\ m.role \in Roles /\ m.transmit \in BOOLEAN
  BY <1>1, PlaceMessage
<1>5. QED
  BY <1>1, <1>2, <1>3, <1>4 DEF Among, Sends

(* An order that is transmitted or closed stays what it is.                 *)
LEMMA KnownStays ==
  ASSUME TypeOK, Typed, FromProgram, Reported, HeldIsNew, IdIsOfTheOrder, Next,
         NEW j \in Ids, tws[j].state \notin {"none", "held"}
  PROVE  /\ tws'[j].parent = tws[j].parent /\ tws'[j].role = tws[j].role
         /\ tws'[j].state \notin {"none", "held"}
         /\ tws[j].state \in Closed => tws'[j].state = tws[j].state
<1>1. CASE UNCHANGED tws
  BY <1>1
<1>2. CASE OrdersClose
  BY <1>2 DEF OrdersClose, Closed
<1>3. CASE order_placed
  <2> DEFINE m == Head(to_tws)
  <2>1. /\ tws[m.id].state \in Closed => UNCHANGED tws
        /\ tws[m.id].state \notin Closed =>
             /\ tws'[m.id].parent = m.parent /\ tws'[m.id].role = m.role
             /\ \A i \in Ids \ {m.id} : tws'[i].parent = tws[i].parent /\ tws'[i].role = tws[i].role
        /\ tws[m.id].state \notin Closed /\ ~m.transmit =>
             /\ tws'[m.id].state = "held"
             /\ \A i \in Ids \ {m.id} : tws'[i].state = tws[i].state
        /\ tws[m.id].state \notin Closed /\ m.transmit =>
             \E live \in SUBSET Ids :
               /\ m.id \in live
               /\ \A i \in Ids : tws'[i].state = IF i \in live THEN "live" ELSE tws[i].state
               /\ \A i \in live \ {m.id} : tws[i].state = "held"
    BY <1>3, OrderPlaced
  <2>2. /\ m.id \in Ids /\ m.transmit \in BOOLEAN /\ 1 \in DOMAIN to_tws /\ m = to_tws[1] /\ m.type = "placeOrder"
        /\ \E n \in DOMAIN placed : placed[n] = [id |-> m.id, role |-> m.role, parent |-> m.parent]
    BY <1>3, HeadPlaced DEF Sends
  <2>3. j = m.id => tws[j].parent = m.parent /\ tws[j].role = m.role
    <3>1. PICK n \in DOMAIN placed : placed[n] = [id |-> m.id, role |-> m.role, parent |-> m.parent]
      BY <2>2
    <3>2. j = m.id => Arrived(n)
      BY <3>1 DEF Arrived
    <3>3. QED
      BY <3>1, <3>2, OrderHas
  <2>4. j = m.id => m.transmit
    BY <2>2 DEF HeldIsNew
  <2> HIDE DEF m
  <2>5. CASE tws[m.id].state \in Closed
    BY <2>1, <2>5
  <2>6. CASE tws[m.id].state \notin Closed
    <3>1. tws'[j].parent = tws[j].parent /\ tws'[j].role = tws[j].role
      BY <2>1, <2>3, <2>6
    <3>2. CASE ~m.transmit
      BY <2>1, <2>4, <2>6, <3>1, <3>2
    <3>3. CASE m.transmit
      <4>1. PICK live \in SUBSET Ids :
               /\ m.id \in live
               /\ \A i \in Ids : tws'[i].state = IF i \in live THEN "live" ELSE tws[i].state
               /\ \A i \in live \ {m.id} : tws[i].state = "held"
        BY <2>1, <2>6, <3>3
      <4>2. tws'[j].state \notin {"none", "held"}
        BY <4>1
      <4>3. tws[j].state \in Closed => j \notin live
        BY <2>6, <4>1 DEF Closed
      <4>4. QED
        BY <3>1, <4>1, <4>2, <4>3
    <3>4. QED
      BY <3>2, <3>3
  <2>7. QED
    BY <2>5, <2>6
<1>4. QED
  <2>1. CASE Program
    BY <1>1, <2>1, ProgramSends DEF twsVars
  <2>2. CASE ids_requested \/ Dispatcher
    BY <1>1, <2>2 DEF ids_requested, Dispatcher, handle_next_valid_id, handle_open_order, handle_order_status, twsVars
  <2>3. CASE order_cancelled \/ \E id \in Ids : fill(id) \/ fill_child(id)
    BY <1>2, <2>3, OrdersClosed
  <2>4. QED
    BY <1>3, <2>1, <2>2, <2>3 DEF Next, Gateway

LEMMA ProtectedStays ==
  ASSUME TypeOK, Typed, FromProgram, Reported, HeldIsNew, IdIsOfTheOrder, Next,
         NEW i \in Ids, Protected(i)
  PROVE  Protected(i)'
<1>1. SUFFICES ASSUME NEW role \in {"profit", "stop"}
               PROVE  \E j \in Ids : tws'[j].parent = i /\ tws'[j].role = role /\ tws'[j].state # "held"
  BY DEF Protected
<1>2. PICK j \in Ids : tws[j].parent = i /\ tws[j].role = role /\ tws[j].state # "held"
  BY DEF Protected
<1>3. i # 0
  BY DEF Ids
<1>4. tws[j].state # "none"
  BY <1>2, <1>3 DEF FromProgram
<1>5. QED
  BY <1>2, <1>4, KnownStays

(* What a transmitted order makes live belongs to a bracket that is whole.  *)
LEMMA TransmittedWhole ==
  ASSUME TypeOK, Typed, FromProgram, Reported, PlacedInOrder, ArriveInOrder, HeldIsNew, WholeOrNothing,
         IdIsOfTheOrder, order_placed, NEW i \in Ids,
         tws[i].state \notin {"live", "Filled"}, tws'[i].state \in {"live", "Filled"},
         tws'[i].role \in {"entry", "profit"}
  PROVE  \A role \in {"profit", "stop"} : \E j \in Ids :
           tws'[j].parent = Top(i, tws'[i].parent) /\ tws'[j].role = role /\ tws'[j].state # "held"
<1> DEFINE m == Head(to_tws)
           top == Top(m.id, m.parent)
<1>1. Next
  BY DEF Next, Gateway
<1>2. /\ m.id \in Ids /\ m.parent \in 0..MaxOrders /\ m.role \in Roles /\ m.transmit \in BOOLEAN
      /\ Sends(1, m.id) /\ 1 \in DOMAIN to_tws /\ m = to_tws[1]
      /\ \E n \in DOMAIN placed : placed[n] = [id |-> m.id, role |-> m.role, parent |-> m.parent]
  BY HeadPlaced
<1>3. /\ tws[m.id].state \notin Closed /\ m.transmit
  <2>1. tws[m.id].state \in Closed => UNCHANGED tws
    BY OrderPlaced
  <2>2. tws[m.id].state \notin Closed /\ ~m.transmit =>
          tws'[m.id].state = "held" /\ \A j \in Ids \ {m.id} : tws'[j].state = tws[j].state
    BY OrderPlaced
  <2> HIDE DEF m
  <2>3. QED
    BY <1>2, <2>1, <2>2
<1>4. /\ tws'[m.id].parent = m.parent /\ tws'[m.id].role = m.role
      /\ \A j \in Ids \ {m.id} : tws'[j].parent = tws[j].parent /\ tws'[j].role = tws[j].role
  BY <1>3, OrderPlaced
<1>5. PICK live \in SUBSET Ids :
        /\ m.id \in live
        /\ \A j \in Ids : tws'[j].state = IF j \in live THEN "live" ELSE tws[j].state
        /\ \A j \in live \ {m.id} : tws[j].state = "held" /\ (j = top \/ tws[j].parent = top)
        /\ \A j \in Ids : j = top \/ tws'[j].parent = top => tws'[j].state # "held"
  BY <1>3, OrderPlaced
<1>6. PICK n \in DOMAIN placed : placed[n] = [id |-> m.id, role |-> m.role, parent |-> m.parent]
  BY <1>2
<1> HIDE DEF m
<1>7. i \in live
  BY <1>5
<1>8. placed[n].id = m.id /\ placed[n].role = m.role /\ placed[n].parent = m.parent
  BY <1>6
<1>9. m.parent # 0 => /\ m.role \in {"profit", "stop", "moc"}
                      /\ \E l \in DOMAIN placed : /\ placed[l].role = "entry" /\ placed[l].id = m.parent
                                                  /\ placed[l].parent = 0
  BY <1>8, ParentIsEntry
<1>10. m.parent = 0 => m.role \in {"single", "entry"}
  BY <1>8 DEF PlacedInOrder
<1>11. Top(i, tws'[i].parent) = top
  <2>1. CASE i = m.id
    BY <1>4, <2>1
  <2>2. CASE i # m.id /\ i = top
    <3>1. m.parent # 0 /\ i = m.parent
      BY <2>2 DEF Top
    <3>2. PICK l \in DOMAIN placed : placed[l].id = m.parent /\ placed[l].parent = 0
      BY <1>9, <3>1
    <3>3. tws[i].state = "held"
      BY <1>5, <1>7, <2>2
    <3>4. Arrived(l)
      BY <3>1, <3>2, <3>3 DEF Arrived
    <3>5. tws[i].parent = 0
      BY <3>1, <3>2, <3>4, OrderHas
    <3>6. QED
      BY <1>4, <2>2, <3>5 DEF Top
  <2>3. CASE i # m.id /\ i # top
    <3>1. tws'[i].parent = top
      BY <1>4, <1>5, <1>7, <2>3
    <3>2. top # 0
      BY <1>2 DEF Top, Ids
    <3>3. QED
      BY <3>1, <3>2 DEF Top
  <2>4. QED
    BY <2>1, <2>2, <2>3
<1>12. top \in Ids
  BY <1>2 DEF Top, Ids
<1>13. ASSUME NEW role \in {"profit", "stop"}, role \in Earlier(m.role)
       PROVE  \E j \in Ids : tws'[j].parent = top /\ tws'[j].role = role /\ tws'[j].state # "held"
  <2>1. m.parent # 0
    <3>1. m.role \notin {"single", "entry"}
      BY <1>13 DEF Earlier
    <3>2. QED
      BY <1>10, <3>1
  <2>2. top = m.parent
    BY <2>1 DEF Top
  <2>3. PlacedBefore(n, role, m.parent)
    BY <1>8, <1>13 DEF PlacedInOrder
  <2>4. PICK l \in 1..n - 1 : placed[l].role = role /\ placed[l].parent = top
    BY <2>2, <2>3 DEF PlacedBefore
  <2>5. l \in DOMAIN placed /\ l # n
    BY PlacedOrders
  <2>6. Arrived(l)
    <3>1. \A k \in DOMAIN to_tws : Sends(k, placed[n].id) =>
            \A q \in 1..n - 1 : Arrived(q) \/ \E j \in 1..k - 1 : Sends(j, placed[q].id)
      BY DEF ArriveInOrder
    <3>2. Arrived(l) \/ \E j \in 1..1 - 1 : Sends(j, placed[l].id)
      BY <1>2, <1>8, <3>1
    <3>3. QED
      BY <3>2
  <2>7. placed[l].id \in Ids /\ placed[l].id # m.id
    BY <1>8, <2>5, PlacedOrders DEF IdIsOfTheOrder
  <2>8. tws[placed[l].id].parent = top /\ tws[placed[l].id].role = role
    BY <2>4, <2>5, <2>6, OrderHas
  <2>9. QED
    BY <1>4, <1>5, <2>7, <2>8
<1>14. CASE m.role \in {"entry", "profit"}
  <2>1. Protected(top)
    <3>1. \A k \in DOMAIN to_tws :
            to_tws[k].type = "placeOrder" /\ to_tws[k].transmit /\ to_tws[k].role \in {"entry", "profit"} =>
              \/ Protected(Top(to_tws[k].id, to_tws[k].parent))
              \/ tws[to_tws[k].id].state \in Closed
      BY DEF WholeOrNothing
    <3>2. QED
      BY <1>2, <1>3, <1>14, <3>1 DEF Sends
  <2>2. \A e \in Ids : Protected(e) => Protected(e)'
    BY <1>1, ProtectedStays
  <2>3. \A role \in {"profit", "stop"} : \E j \in Ids :
          tws'[j].parent = top /\ tws'[j].role = role /\ tws'[j].state # "held"
    BY <1>12, <2>1, <2>2 DEF Protected
  <2>4. QED
    BY <1>11, <2>3
<1>15. CASE m.role = "single"
  <2>1. m.parent = 0 /\ top = m.id
    BY <1>9, <1>15 DEF Top
  <2>2. i # m.id
    BY <1>4, <1>15
  <2>3. tws[i].state = "held" /\ tws[i].parent = m.id
    BY <1>5, <1>7, <2>1, <2>2
  <2>4. Among(placed, i, tws[i].parent, tws[i].role)
    BY <2>3 DEF FromProgram
  <2>5. PICK l \in DOMAIN placed : placed[l].parent = m.id
    BY <2>3, <2>4 DEF Among
  <2>6. m.id # 0
    BY <1>2 DEF Ids
  <2>7. PICK q \in DOMAIN placed : placed[q].role = "entry" /\ placed[q].id = m.id
    BY <2>5, <2>6, ParentIsEntry
  <2>8. q = n
    BY <1>8, <2>7 DEF IdIsOfTheOrder
  <2>9. QED
    BY <1>8, <1>15, <2>7, <2>8
<1>16. CASE m.role \in {"stop", "moc"}
  <2>1. "profit" \in Earlier(m.role) /\ (m.role = "moc" => "stop" \in Earlier(m.role))
    BY <1>16 DEF Earlier
  <2>2. m.role = "stop" => tws'[m.id].parent = top /\ tws'[m.id].role = "stop" /\ tws'[m.id].state # "held"
    BY <1>4, <1>5, <1>2, <1>10, <1>16 DEF Top
  <2>3. \A role \in {"profit", "stop"} : \E j \in Ids :
          tws'[j].parent = top /\ tws'[j].role = role /\ tws'[j].state # "held"
    BY <1>2, <1>13, <1>16, <2>1, <2>2
  <2>4. QED
    BY <1>11, <2>3
<1>17. QED
  BY <1>2, <1>14, <1>15, <1>16 DEF Roles

LEMMA WholeOrNothingStep ==
  ASSUME TypeOK, Typed, FromProgram, Reported, PlacedInOrder, TodoInOrder, ArriveInOrder, HeldIsNew,
         WholeOrNothing, ViewsAddUp, Next, IdIsOfTheOrder'
  PROVE  WholeOrNothing'
<1> DEFINE Guards(i) == \A role \in {"profit", "stop"} : \E j \in Ids :
             tws'[j].parent = i /\ tws'[j].role = role /\ tws'[j].state # "held"
           L == Len(to_tws)
<1>1. IdIsOfTheOrder
  BY PlacedStep, PlacedStays
<1>2. /\ \A k \in DOMAIN to_tws :
           to_tws[k].type = "placeOrder" /\ to_tws[k].transmit /\ to_tws[k].role \in {"entry", "profit"} =>
             \/ Protected(Top(to_tws[k].id, to_tws[k].parent))
             \/ tws[to_tws[k].id].state \in Closed
      /\ \A i \in Ids : tws[i].state \in {"live", "Filled"} /\ tws[i].role \in {"entry", "profit"} =>
           Protected(Top(i, tws[i].parent))
  BY <1>1 DEF WholeOrNothing
<1>3. \A i \in Ids : Protected(i) => Guards(i)
  <2>1. \A i \in Ids : Protected(i) => Protected(i)'
    BY <1>1, ProtectedStays
  <2>2. QED
    BY <2>1 DEF Protected
<1>4. \A i \in Ids : tws[i].state \notin {"none", "held"} =>
        /\ tws'[i].parent = tws[i].parent /\ tws'[i].role = tws[i].role
        /\ tws[i].state \in Closed => tws'[i].state = tws[i].state
  BY <1>1, KnownStays
<1>5. \A i \in Ids, parent \in 0..MaxOrders : Top(i, parent) \in Ids
  BY DEF Top, Ids
<1>6. ASSUME NEW i \in Ids, tws'[i].state \in {"live", "Filled"}, tws'[i].role \in {"entry", "profit"}
      PROVE  Guards(Top(i, tws'[i].parent))
  <2>1. CASE tws[i].state \in {"live", "Filled"}
    <3>1. tws[i].parent \in 0..MaxOrders
      BY DEF TypeOK
    <3>2. tws'[i].parent = tws[i].parent /\ tws'[i].role = tws[i].role
      BY <1>4, <2>1
    <3>3. Protected(Top(i, tws[i].parent)) /\ Top(i, tws[i].parent) \in Ids
      BY <1>2, <1>5, <1>6, <2>1, <3>1, <3>2
    <3> HIDE DEF Guards
    <3>4. QED
      BY <1>3, <3>2, <3>3
  <2>2. CASE tws[i].state \notin {"live", "Filled"}
    <3>1. CASE order_placed
      BY <1>1, <1>6, <2>2, <3>1, TransmittedWhole
    <3>2. CASE OrdersClose
      BY <1>6, <2>2, <3>2 DEF OrdersClose, Closed
    <3>3. CASE UNCHANGED tws
      BY <1>6, <2>2, <3>3
    <3>4. QED
      <4>1. CASE Program
        BY <3>3, <4>1, ProgramSends DEF twsVars
      <4>2. CASE ids_requested \/ Dispatcher
        BY <3>3, <4>2 DEF ids_requested, Dispatcher, handle_next_valid_id, handle_open_order, handle_order_status, twsVars
      <4>3. CASE order_cancelled \/ \E id \in Ids : fill(id) \/ fill_child(id)
        BY <3>2, <4>3, OrdersClosed
      <4>4. QED
        BY <3>1, <4>1, <4>2, <4>3 DEF Next, Gateway
  <2>3. QED
    BY <2>1, <2>2
<1> DEFINE Safe(m) == m.type = "placeOrder" /\ m.transmit /\ m.role \in {"entry", "profit"} =>
                        Guards(Top(m.id, m.parent)) \/ tws'[m.id].state \in Closed
<1>7. \A k \in DOMAIN to_tws : Safe(to_tws[k])
  <2>1. SUFFICES ASSUME NEW k \in DOMAIN to_tws, to_tws[k].type = "placeOrder", to_tws[k].transmit,
                        to_tws[k].role \in {"entry", "profit"}
                 PROVE  Guards(Top(to_tws[k].id, to_tws[k].parent)) \/ tws'[to_tws[k].id].state \in Closed
    OBVIOUS
  <2>2. to_tws[k].id \in Ids /\ to_tws[k].parent \in 0..MaxOrders
    <3>1. to_tws[k] \in ToGateway
      BY ElementOfSeq, LenProperties DEF Typed
    <3>2. QED
      BY <2>1, <3>1, PlaceMessage
  <2>3. CASE Protected(Top(to_tws[k].id, to_tws[k].parent))
    <3> HIDE DEF Guards
    <3>1. QED
      BY <1>3, <1>5, <2>2, <2>3
  <2>4. CASE tws[to_tws[k].id].state \in Closed
    BY <1>4, <2>2, <2>4 DEF Closed
  <2>5. QED
    BY <1>2, <2>1, <2>3, <2>4
<1>8. ASSUME NEW m \in ToGateway, to_tws' = Append(to_tws, m), Safe(m)
      PROVE  \A k \in DOMAIN to_tws' : Safe(to_tws'[k])
  <2>1. /\ DOMAIN to_tws' = 1..L + 1 /\ \A k \in 1..L : to_tws'[k] = to_tws[k]
        /\ to_tws'[L + 1] = m /\ DOMAIN to_tws = 1..L /\ L \in Nat
    BY <1>8, Longer DEF Typed
  <2> HIDE DEF Safe
  <2>2. QED
    BY <1>7, <1>8, <2>1
<1>9. \A k \in DOMAIN to_tws' : Safe(to_tws'[k])
  <2>1. CASE UNCHANGED to_tws
    <3> HIDE DEF Safe
    <3>1. QED
      BY <1>7, <2>1
  <2>2. CASE order_id_got
    <3>1. PICK m \in ToGateway : /\ to_tws' = Append(to_tws, m) /\ 1 \in DOMAIN todo
                                 /\ m.role = todo[1].role /\ m.transmit = todo[1].transmit
      BY <2>2, NewOrder
    <3>2. m.role \in {"entry", "profit"} => ~m.transmit
      BY <3>1 DEF TodoInOrder
    <3>3. Safe(m)
      BY <3>2
    <3> HIDE DEF Safe
    <3>4. QED
      BY <1>8, <3>1, <3>3
  <2>3. ASSUME NEW m \in ToGateway, to_tws' = Append(to_tws, m), m.type # "placeOrder"
        PROVE  \A k \in DOMAIN to_tws' : Safe(to_tws'[k])
    <3>1. Safe(m)
      BY <2>3
    <3> HIDE DEF Safe
    <3>2. QED
      BY <1>8, <2>3, <3>1
  <2>4. ASSUME NEW id \in open_orders, Changes(id)
        PROVE  \A k \in DOMAIN to_tws' : Safe(to_tws'[k])
    <3>7. PICK parent \in 0..MaxOrders, role \in Roles : Resent(id, parent, role)
      BY <2>4 DEF Changes
    <3>8. tws[id].state # "none" /\ parent = tws[id].parent /\ role = tws[id].role
      <4>1. tws[id].state # "none" /\ id \in Ids
        BY <2>4 DEF Changes, TypeOK
      <4>2. PICK n \in DOMAIN placed : placed[n] = [id |-> id, role |-> role, parent |-> parent]
        BY <3>7 DEF Resent, Among
      <4>3. PICK k \in DOMAIN placed :
              placed[k] = [id |-> id, role |-> tws[id].role, parent |-> tws[id].parent]
        BY <4>1 DEF FromProgram, Among
      <4>4. n = k
        <5>1. placed[n].id = id /\ placed[k].id = id
          BY <4>2, <4>3
        <5>2. QED
          BY <1>1, <5>1 DEF IdIsOfTheOrder
      <4>5. placed[n].role = role /\ placed[n].parent = parent
            /\ placed[k].role = tws[id].role /\ placed[k].parent = tws[id].parent
        BY <4>2, <4>3
      <4>6. QED
        BY <4>1, <4>4, <4>5
    <3> DEFINE m == Place(id, parent, role, TRUE)
    <3>1. /\ m \in ToGateway /\ to_tws' = Append(to_tws, m) /\ UNCHANGED tws /\ tws[id].state # "none"
          /\ m.id = id /\ m.parent = tws[id].parent /\ m.role = tws[id].role
      BY <2>4, <3>7, <3>8 DEF Changes, Resent, Place
    <3>2. id \in Ids /\ tws[id].state \in States /\ tws[id].parent \in 0..MaxOrders
      BY DEF TypeOK
    <3>3. tws[id].state \notin {"none", "held"}
      BY <1>1, <3>2 DEF ViewsAddUp, Unseen
    <3>4. CASE tws[id].state = "live"
      <4>1. m.role \in {"entry", "profit"} => Protected(Top(m.id, m.parent)) /\ Top(m.id, m.parent) \in Ids
        BY <1>2, <1>5, <3>1, <3>2, <3>4
      <4> HIDE DEF m, Guards
      <4>2. Safe(m)
        BY <1>3, <4>1
      <4> HIDE DEF Safe
      <4>3. QED
        BY <1>8, <3>1, <4>2
    <3>5. CASE tws[id].state \in Closed
      <4> HIDE DEF m, Guards
      <4>1. Safe(m)
        BY <3>1, <3>5
      <4> HIDE DEF Safe
      <4>2. QED
        BY <1>8, <3>1, <4>1
    <3>6. QED
      BY <3>2, <3>3, <3>4, <3>5 DEF States, Closed
  <2>5. CASE Takes
    <3>1. \A k \in DOMAIN to_tws' : k + 1 \in DOMAIN to_tws /\ to_tws'[k] = to_tws[k + 1]
      BY <2>5, Shorter DEF Takes, Typed
    <3> HIDE DEF Safe
    <3>2. QED
      BY <1>7, <3>1
  <2> HIDE DEF Safe
  <2>6. QED
    BY <2>1, <2>2, <2>3, <2>4, <2>5, QueueSteps
<1>10. QED
  BY <1>6, <1>9 DEF WholeOrNothing, Protected

-----------------------------------------------------------------------------
(* The invariant and what follows from it.                                  *)

LEMMA InitInv == Init => OrdersInv
<1> SUFFICES ASSUME Init PROVE OrdersInv
  OBVIOUS
<1>1. TypeOK
  BY OrdersAssumption DEF Init, TypeOK, Ids, States
<1>2. Typed
  BY OrdersAssumption DEF Init, Typed
<1>3. /\ DOMAIN placed = {} /\ DOMAIN to_tws = {} /\ DOMAIN from_tws = {} /\ DOMAIN todo = {}
      /\ next_order_id = <<1>> /\ next_valid = 1 /\ open_orders = {} /\ dispatching
      /\ \A i \in Ids : tws[i].state = "none" /\ tws[i].parent = 0
  BY DEF Init
<1>4. FromProgram /\ Reported /\ Numbered /\ InTimeIdsWork
  BY <1>3 DEF FromProgram, Reported, Numbered, InTimeIdsWork, IdIsOfTheOrder
<1>5. OneId
  <2>1. \A k \in DOMAIN next_order_id : next_order_id[k] = 1
    BY <1>3
  <2>2. QED
    BY <1>3, <2>1 DEF OneId, Unused
<1>6. PlacedInOrder /\ TodoInOrder /\ ArriveInOrder /\ HeldIsNew /\ WholeOrNothing
  BY <1>3 DEF PlacedInOrder, TodoInOrder, ArriveInOrder, HeldIsNew, WholeOrNothing
<1>7. ViewsAddUp
  BY <1>3 DEF ViewsAddUp, Unseen, Closed
<1>8. QED
  BY <1>1, <1>2, <1>4, <1>5, <1>6, <1>7 DEF OrdersInv

LEMMA NextInv == OrdersInv /\ Next => OrdersInv'
<1> SUFFICES ASSUME OrdersInv, Next PROVE OrdersInv'
  OBVIOUS
<1>1. /\ TypeOK /\ InTimeIdsWork
      /\ Typed /\ FromProgram /\ Reported /\ Numbered /\ OneId /\ PlacedInOrder /\ TodoInOrder
      /\ ArriveInOrder /\ HeldIsNew /\ WholeOrNothing /\ ViewsAddUp
  BY DEF OrdersInv
<1>2. TypeOK' /\ Typed'
  BY <1>1, ProgramTypes, GatewayTypes, DispatcherTypes DEF Next
<1>3. FromProgram' /\ Reported' /\ Numbered' /\ OneId' /\ InTimeIdsWork'
  BY <1>1, <1>2, FromProgramStep, ReportedStep, NumberedStep, OneIdStep
<1>4. PlacedInOrder' /\ TodoInOrder'
  BY <1>1, <1>2, InOrderStep
<1>5. ArriveInOrder' /\ HeldIsNew' /\ WholeOrNothing' /\ ViewsAddUp'
  <2>1. CASE IdIsOfTheOrder'
    BY <1>1, <1>2, <2>1, ArriveInOrderStep, HeldIsNewStep, WholeOrNothingStep, ViewsAddUpStep
  <2>2. CASE ~IdIsOfTheOrder'
    BY <2>2 DEF ArriveInOrder, HeldIsNew, WholeOrNothing, ViewsAddUp
  <2>3. QED
    BY <2>1, <2>2
<1>6. QED
  BY <1>2, <1>3, <1>4, <1>5 DEF OrdersInv

LEMMA StutterInv == OrdersInv /\ UNCHANGED vars => OrdersInv'
<1> SUFFICES ASSUME OrdersInv, UNCHANGED vars PROVE OrdersInv'
  OBVIOUS
<1> USE DEF vars, clientVars, twsVars, programVars
<1>1. TypeOK' /\ InTimeIdsWork' /\ Typed'
  BY DEF OrdersInv, TypeOK, InTimeIdsWork, IdIsOfTheOrder, Typed
<1>2. FromProgram' /\ Reported' /\ Numbered' /\ OneId'
  BY DEF OrdersInv, FromProgram, Among, Reported, Numbered, OneId, Sends, Waits, Unused
<1>3. PlacedInOrder' /\ TodoInOrder' /\ ArriveInOrder' /\ HeldIsNew'
  <2>1. PlacedInOrder'
    BY DEF OrdersInv, PlacedInOrder, PlacedBefore
  <2>2. TodoInOrder'
    <3>1. TodoInOrder /\ todo' = todo /\ placed' = placed /\ parent_id' = parent_id
      BY DEF OrdersInv
    <3>2. \A n, role, top : PlacedBefore(n, role, top)' <=> PlacedBefore(n, role, top)
      BY <3>1 DEF PlacedBefore
    <3>3. QED
      BY <3>1, <3>2 DEF TodoInOrder
  <2>3. ArriveInOrder'
    BY DEF OrdersInv, ArriveInOrder, Arrived, Sends, IdIsOfTheOrder
  <2>4. HeldIsNew'
    BY DEF OrdersInv, HeldIsNew, Sends, IdIsOfTheOrder
  <2>5. QED
    BY <2>1, <2>2, <2>3, <2>4
<1>4. WholeOrNothing' /\ ViewsAddUp'
  BY DEF OrdersInv, WholeOrNothing, Protected, ViewsAddUp, Unseen, SeenLive, SeenClosed, About, IdIsOfTheOrder
<1>5. QED
  BY <1>1, <1>2, <1>3, <1>4 DEF OrdersInv

(* Program, dispatcher and gateway agree at every step on the ids, on whose *)
(* turn it is and on the orders (TWSClient.py: get_order_id, place_order,   *)
(* place_bracket_order; TWSClientServerMessages.py: the message handlers).  *)
THEOREM OrdersSafety == Spec => []OrdersInv
<1>1. OrdersInv /\ [Next]_vars => OrdersInv'
  BY NextInv, StutterInv
<1>2. QED
  BY InitInv, <1>1, PTL DEF Spec

(* No entry order works in the market without the orders that close its     *)
(* trade, whatever call of place_bracket_order fails half way, as long as   *)
(* no order id was given twice.                                             *)
THEOREM BracketsAreWhole == Spec => []BracketIsWhole
<1>1. OrdersInv => BracketIsWhole
  <2>1. SUFFICES ASSUME OrdersInv, IdIsOfTheOrder, NEW i \in Ids,
                        tws[i].role = "entry", tws[i].state \in {"live", "Filled"}
                 PROVE  Protected(i)
    BY DEF BracketIsWhole
  <2>2. Protected(Top(i, tws[i].parent))
    BY <2>1 DEF OrdersInv, WholeOrNothing
  <2>3. Among(placed, i, tws[i].parent, tws[i].role)
    BY <2>1 DEF OrdersInv, FromProgram
  <2>4. PICK n \in DOMAIN placed : placed[n] = [id |-> i, role |-> tws[i].role, parent |-> tws[i].parent]
    BY <2>3 DEF Among
  <2>5. placed[n].role = "entry" /\ placed[n].parent = tws[i].parent
    BY <2>1, <2>4
  <2>6. tws[i].parent = 0
    BY <2>1, <2>5 DEF OrdersInv, PlacedInOrder
  <2>7. QED
    BY <2>2, <2>6 DEF Top
<1>2. QED
  BY <1>1, OrdersSafety, PTL

(* When the dispatcher has handled every openOrder and orderStatus message  *)
(* the client's open orders and their status are the gateway's.             *)
THEOREM ViewsAreTrue == Spec => []ViewIsTrue
<1>1. OrdersInv => ViewIsTrue
  <2>1. SUFFICES ASSUME OrdersInv, IdIsOfTheOrder, from_tws = <<>>, NEW i \in Ids
                 PROVE  /\ i \in open_orders <=> tws[i].state = "live"
                        /\ tws[i].state = "live" => order_status[i] = "Submitted"
                        /\ tws[i].state \in Closed => order_status[i] = tws[i].state
    BY DEF ViewIsTrue
  <2>2. DOMAIN from_tws = {}
    BY <2>1
  <2>3. /\ tws[i].state \in {"none", "held"} => i \notin open_orders
        /\ tws[i].state = "live" => i \in open_orders /\ order_status[i] = "Submitted"
        /\ tws[i].state \in Closed => i \notin open_orders /\ order_status[i] = tws[i].state
    BY <2>1, <2>2 DEF OrdersInv, ViewsAddUp, Unseen, SeenLive, SeenClosed
  <2>4. tws[i].state \in States
    BY <2>1 DEF OrdersInv, TypeOK
  <2>5. QED
    BY <2>3, <2>4 DEF States, Closed
<1>2. QED
  BY <1>1, OrdersSafety, PTL
=============================================================================
