------------------------------- MODULE Trader -------------------------------
(***************************************************************************)
(* trader.Trader with the managers of the strategies in strategies.py, on  *)
(* top of one virtual market.  A request is armed into an order group      *)
(* (group r of module Market) and a list of managers; running a manager    *)
(* asks the market for status reports, each of which first moves the       *)
(* market to the trader's time.                                            *)
(***************************************************************************)
EXTENDS Market

VARIABLES
  env_time,   \* Trader._env_time, None before the first call
  where,      \* the list that holds the request: active, unfilled, ...
  managers,   \* FullRequest.managers of each request
  tpc,        \* where the running method of the trader is
  cur,        \* the request worked on
  todo,       \* requests whose managers this pass still has to run
  signals,    \* orders set_signal_in_active_request still has to signal
  queue,      \* managers of request cur not yet run
  kept,       \* new_manager_list of request cur
  noted,      \* stop_stopped of exit_manager_2
  unread      \* orders of request cur not yet asked for by the filing

listVars   == <<env_time, where, managers>>
methodVars == <<tpc, cur, todo, signals, queue, kept, noted, unread>>
traderVars == <<listVars, methodVars>>
vars       == <<marketVars, traderVars>>

None == -1

Managers == {"enter", "exit_1", "exit_2", "trail_1", "trail_2", "trail_3", "cos", "eod"}
Lists    == {"none", "active", "unfilled", "finished", "erroneous"}

Active == {r \in Requests : where[r] = "active"}

(* The managers that the enter strategy and the exit strategies of group r *)
(* return from arm(); SingleStopProfitTaker has one for its two orders.    *)
FirstManager == [k \in ChildKinds |->
  CASE k = "stop" -> "exit_1" [] k = "trail" -> "trail_1" [] OTHER -> k]
Without(kids, k) ==
  LET n == CHOOSE i \in DOMAIN kids : kids[i] = k
  IN IF k \notin Range(kids) THEN kids
     ELSE [i \in 1..(Len(kids) - 1) |-> kids[IF i < n THEN i ELSE i + 1]]
arm(g) ==
  LET kids == Without(g.kids, "profit")
  IN <<"enter">> \o [i \in DOMAIN kids |-> FirstManager[kids[i]]]

-----------------------------------------------------------------------------
(* Calls on the trader, made by the program's main loop one at a time.     *)

TraderIdle == Running /\ tpc = "idle"

(* set_environment: the caller's time may not move backward.               *)
set_environment(at_time) == at_time >= env_time /\ env_time' = at_time

TimeReversed(at_time) ==
  /\ TraderIdle /\ at_time < env_time
  /\ err' = "time moved backward"
  /\ UNCHANGED <<group, orderVars, clockVars, flowVars, traderVars>>

(* add_requests with one request: its orders go to the market, which then  *)
(* activates them; only after that the request is on the active list.      *)
add_request(r, at_time) ==
  /\ TraderIdle /\ where[r] = "none"
  /\ set_environment(at_time)
  /\ new_order(r)
  /\ tpc' = "sending" /\ cur' = r
  /\ UNCHANGED <<where, managers, todo, signals, queue, kept, noted, unread>>

send_orders ==
  /\ tpc = "sending"
  /\ sync_with_trader("activate", env_time)
  /\ tpc' = "sent"
  /\ UNCHANGED <<listVars, cur, todo, signals, queue, kept, noted, unread>>

RequestAdded ==
  /\ Idle /\ tpc = "sent"
  /\ where' = [where EXCEPT ![cur] = "active"]
  /\ managers' = [managers EXCEPT ![cur] = arm(group[cur])]
  /\ tpc' = "idle" /\ cur' = None
  /\ UNCHANGED <<marketVars, env_time, todo, signals, queue, kept, noted, unread>>

(* check_active_requests, and status_report of the trader: nothing happens *)
(* (no step) when the time has not moved since the last call.              *)
check_active_requests(at_time) ==
  /\ TraderIdle /\ at_time # env_time
  /\ set_environment(at_time)
  /\ tpc' = "pass" /\ todo' = Active
  /\ UNCHANGED <<marketVars, where, managers, cur, signals, queue, kept, noted, unread>>

(* set_signal_in_active_request for one request or for 'all': one pass     *)
(* over all managers after each order that was signalled.                  *)
set_signal_in_active_request(S, at_time) ==
  /\ TraderIdle
  /\ set_environment(at_time)
  /\ tpc' = "pass" /\ todo' = {}
  /\ signals' = UNION {Members(r) : r \in S}
  /\ UNCHANGED <<marketVars, where, managers, cur, queue, kept, noted, unread>>

-----------------------------------------------------------------------------
(* run_all_request_managers: the active requests in the order of their ids.*)

RunRequest(r) ==
  /\ Idle /\ tpc = "pass"
  /\ r \in todo /\ \A q \in todo : r <= q
  /\ todo' = todo \ {r}
  /\ cur' = r /\ queue' = managers[r] /\ kept' = <<>>
  /\ tpc' = "managers"
  /\ UNCHANGED <<marketVars, listVars, signals, noted, unread>>

(* The orders of one request after the other, in the order the requests    *)
(* were added, which need not be that of their ids.                        *)
HalfSignalled == {q \in Requests : /\ Members(q) \intersect signals # {}
                                   /\ ~(Members(q) \subseteq signals)}

SignalOrder(o) ==
  /\ tpc = "pass" /\ todo = {}
  /\ o \in signals /\ HalfSignalled \subseteq {Req(o)}
  /\ \A p \in signals \ {o} : Req(p) = Req(o) => Before(o, p)
  /\ signals' = signals \ {o}
  /\ todo' = Active
  /\ IF Kind(o) = "cos" THEN \E s \in BOOLEAN : SetSignal(Req(o), s)
                        ELSE Idle /\ UNCHANGED marketVars
  /\ UNCHANGED <<listVars, tpc, cur, queue, kept, noted, unread>>

(* Ask the market about one order: the market moves to env_time first.     *)
Ask(next) ==
  /\ status_report(env_time)
  /\ tpc' = next

RunManager ==
  /\ tpc = "managers" /\ queue # <<>>
  /\ Ask("asked")
  /\ UNCHANGED <<listVars, cur, todo, signals, queue, kept, noted, unread>>

(* The manager of request cur is done, or will run again as m.             *)
Return(ms) ==
  /\ kept' = kept \o ms
  /\ queue' = Tail(queue)
  /\ tpc' = "managers"
  /\ noted' = FALSE
  /\ UNCHANGED <<marketVars, listVars, cur, todo, signals, unread>>

Own(k)  == <<cur, k>>
Ended(o) == stopped[o]

AfterEntry_StoppedFirst(m, next) ==
  /\ Head(queue) = m
  /\ Return(IF Ended(Own("enter")) THEN <<>>
            ELSE IF filled[Own("enter")] THEN <<next>> ELSE <<m>>)
AfterEntry(m, next) ==
  /\ Head(queue) = m
  /\ Return(IF filled[Own("enter")] THEN <<next>>
            ELSE IF Ended(Own("enter")) THEN <<>> ELSE <<m>>)

EnterManager ==
  /\ Head(queue) = "enter"
  /\ Return(IF Ended(Own("enter")) THEN <<>> ELSE <<"enter">>)

(* watch_cos_order; watch_eod_order has no return statement, so that its   *)
(* manager is dropped after its first run.                                 *)
CosManager ==
  /\ Head(queue) = "cos"
  /\ Return(IF Ended(Own("cos")) THEN <<>> ELSE <<"cos">>)
EodManager == Head(queue) = "eod" /\ Return(<<>>)

(* Managers that go on to a second status report.                          *)
SecondReport ==
  /\ Head(queue) \in {"exit_2", "trail_2", "trail_3"}
  /\ Head(queue) = "trail_2" => ~Ended(Own("trail"))
  /\ noted' = Ended(Own("stop"))
  /\ Ask("asked2")
  /\ UNCHANGED <<listVars, cur, todo, signals, queue, kept, unread>>

TrailEnded == Head(queue) = "trail_2" /\ Ended(Own("trail")) /\ Return(<<>>)

ManagerReturns ==
  /\ Idle /\ tpc = "asked"
  /\ \/ EnterManager
     \/ AfterEntry("exit_1", "exit_2")
     \/ AfterEntry("trail_1", "trail_2")
     \/ TrailEnded
     \/ CosManager
     \/ EodManager

ManagerAsksAgain == Idle /\ tpc = "asked" /\ SecondReport

(* The trail is triggered, and moved, at prices left open here.            *)
SecondReturns ==
  /\ Idle /\ tpc = "asked2"
  /\ \/ /\ Head(queue) = "exit_2"
        /\ Return(IF noted \/ Ended(Own("profit")) THEN <<>> ELSE <<"exit_2">>)
     \/ /\ Head(queue) = "trail_2"
        /\ \E m \in {"trail_2", "trail_3"} : Return(<<m>>)
     \/ /\ Head(queue) = "trail_3"
        /\ Return(IF Ended(Own("trail")) THEN <<>> ELSE <<"trail_3">>)

MayMove_Unchecked == TRUE
MayMove == ~Ended(Own("trail"))

MoveTrail ==
  /\ tpc = "asked2" /\ Head(queue) = "trail_3" /\ MayMove
  /\ sync_with_trader("change", env_time)
  /\ tpc' = "changing"
  /\ UNCHANGED <<listVars, cur, todo, signals, queue, kept, noted, unread>>

TrailMoved ==
  /\ Idle /\ tpc = "changing"
  /\ Return(<<"trail_3">>)

NewManagers_Old == managers[cur]
NewManagers == kept

RequestDone ==
  /\ Idle /\ tpc = "managers" /\ queue = <<>>
  /\ managers' = [managers EXCEPT ![cur] = NewManagers]
  /\ kept' = <<>>
  /\ tpc' = "pass"
  /\ UNCHANGED <<marketVars, env_time, where, cur, todo, signals, queue, noted, unread>>

-----------------------------------------------------------------------------
(* remove_requests_without_managers_from_active_list.                      *)

Finishable == {r \in Active : managers[r] = <<>>}

(* find_final_destination_and_order_info_for asks for every order.  The    *)
(* market is at env_time already, so nothing fills between the reports.    *)
FileRequest(r) ==
  /\ Idle /\ tpc = "pass" /\ todo = {} /\ signals = {}
  /\ r \in Finishable
  /\ cur' = r /\ unread' = Members(r)
  /\ tpc' = "filing"
  /\ UNCHANGED <<marketVars, listVars, todo, signals, queue, kept, noted>>

ReadOrder(o) ==
  /\ tpc = "filing"
  /\ o \in unread /\ \A p \in unread \ {o} : Before(o, p)
  /\ unread' = unread \ {o}
  /\ Ask("filing")
  /\ UNCHANGED <<listVars, cur, todo, signals, queue, kept, noted>>

find_final_destination_LastFill(r) ==
  IF ~filled[<<r, group[r].kids[Len(group[r].kids)]>>] THEN "unfilled"
  ELSE IF positions_in_group(size, r) # 0 THEN "erroneous" ELSE "finished"
find_final_destination(r) ==
  IF ~\E o \in Members(r) : filled[o] THEN "unfilled"
  ELSE IF positions_in_group(size, r) # 0 THEN "erroneous" ELSE "finished"

RequestFiled ==
  /\ Idle /\ tpc = "filing" /\ unread = {}
  /\ where' = [where EXCEPT ![cur] = find_final_destination(cur)]
  /\ tpc' = "pass"
  /\ UNCHANGED <<marketVars, env_time, managers, cur, todo, signals, queue, kept, noted, unread>>

PassDone ==
  /\ Idle /\ tpc = "pass" /\ todo = {} /\ signals = {} /\ Finishable = {}
  /\ tpc' = "idle" /\ cur' = None
  /\ UNCHANGED <<marketVars, listVars, todo, signals, queue, kept, noted, unread>>

-----------------------------------------------------------------------------
(* The market, while a call of the trader is in it.                        *)
MarketWorks ==
  /\ SyncStep \/ activate_new_orders \/ change_existing_order(Own("trail"))
  /\ UNCHANGED traderVars

TInit ==
  /\ Init
  /\ env_time = None
  /\ where = [r \in Requests |-> "none"]
  /\ managers = [r \in Requests |-> <<>>]
  /\ tpc = "idle" /\ cur = None
  /\ todo = {} /\ signals = {}
  /\ queue = <<>> /\ kept = <<>>
  /\ noted = FALSE
  /\ unread = {}

TraderWorks ==
  \/ send_orders \/ RequestAdded
  \/ \E r \in Requests : RunRequest(r) \/ FileRequest(r)
  \/ \E o \in Orders : SignalOrder(o) \/ ReadOrder(o)
  \/ RunManager \/ ManagerReturns \/ ManagerAsksAgain \/ SecondReturns
  \/ MoveTrail \/ TrailMoved \/ RequestDone
  \/ RequestFiled \/ PassDone

CheckSome == \E t \in 0..MaxTime : check_active_requests(t)

Caller ==
  \/ \E t \in 0..MaxTime :
       \/ TimeReversed(t)
       \/ \E r \in Requests : add_request(r, t)
       \/ \E S \in {Active} \union {{r} : r \in Active} :
            set_signal_in_active_request(S, t)
  \/ CheckSome

TNext ==
  \/ Caller
  \/ TraderWorks
  \/ MarketWorks
  \/ Halted /\ UNCHANGED traderVars

(* The program's main loop calls check_active_requests with every new bar. *)
TSpec ==
  /\ TInit /\ [][TNext]_vars
  /\ WF_vars(TraderWorks) /\ WF_vars(MarketWorks) /\ WF_vars(CheckSome)

-----------------------------------------------------------------------------
TraderTypeOK ==
  /\ TypeOK
  /\ env_time \in Nat \union {None}
  /\ where \in [Requests -> Lists]
  /\ managers \in [Requests -> Seq(Managers)]
  /\ tpc \in {"idle", "sending", "sent", "pass", "managers", "asked", "asked2",
              "changing", "filing"}
  /\ cur \in Requests \union {None}
  /\ todo \subseteq Requests
  /\ signals \subseteq Orders
  /\ queue \in Seq(Managers)
  /\ kept \in Seq(Managers)
  /\ noted \in BOOLEAN
  /\ unread \subseteq Orders

(* A request is filed once and for good, so what its list says must stay   *)
(* true while the market goes on: a finished request has traded and holds  *)
(* nothing, an unfilled one never traded and never will                    *)
(* (trader.py:762-787).                                                    *)
FiledIsTrue ==
  \A r \in Requests :
    /\ where[r] = "finished" =>
         filled[<<r, "enter">>] /\ positions_in_group(size, r) = 0
    /\ where[r] = "unfilled" => \A o \in Members(r) : size[o] = 0

(* An active request is never left without an order that can still close   *)
(* its position: the trader would hold it unwatched.                       *)
PositionIsWatched ==
  \A r \in Requests :
    positions_in_group(size, r) # 0 =>
      /\ \E o \in children(r) : place[o] = "active" /\ until[o]
      /\ where[r] = "active"

(* "If filled and it still has open positions with all managers finished,  *)
(* it's moved to the erroneous list, this should never happen."            *)
(* (trader.py:309-311)                                                     *)
NoErroneousRequest == \A r \in Requests : where[r] # "erroneous"

(* The trader only asks the market to go forward, and only moves a trail   *)
(* whose order is still active: change_existing_order has no answer for    *)
(* an order that is not (market.py:424-432).                               *)
TraderKeepsContract == err \notin {"time reversed", "no such active order"}

(* A closed request leaves the active list, as long as the trader goes on  *)
(* being called: by its managers, each of which looks at its own order and *)
(* may call for another look at the same time.  The bounded time ends the  *)
(* claim, which does not say how many calls it takes.                      *)
ClosedIsFiled ==
  \A r \in Requests :
    (where[r] = "active" /\ (\A o \in Members(r) : stopped[o]) /\ env_time < MaxTime - 1)
      ~> (where[r] # "active" \/ err # "none" \/ env_time = MaxTime)
=============================================================================
