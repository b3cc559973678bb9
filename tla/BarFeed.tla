------------------------------ MODULE BarFeed ------------------------------
(***************************************************************************)
(* The real-time bar server (tws_realbar_request_gscLib.py) for one kind   *)
(* of bars: subscribers share one feed thread, which reads the bars of one *)
(* request of the TWS client and hands them over in one slot under a named *)
(* condition.  A feed that is stopped and started again has another        *)
(* condition object under the same name.                                   *)
(***************************************************************************)
EXTENDS Naturals, Sequences

CONSTANTS
  Clients,    \* subscribers; each may once have its own thread start a feed
  Nobody,     \* holder of a condition's free lock
  MaxBars,    \* bound on the bars the gateway sends
  MaxFeeds,   \* bound on the feeds that are started
  IdleLimit   \* unread bars after which a feed stops: max_time_without_clients / wait

ASSUME FeedAssumption ==
  /\ Nobody \notin Clients
  /\ MaxBars \in Nat /\ MaxFeeds \in Nat /\ IdleLimit \in Nat \ {0}

VARIABLES
  condition,  \* the condition object of the namespace, 0 without one
  feeds,      \* condition objects made so far
  lock,       \* who holds the lock of each condition object
  slot,       \* real_time_bar[data], 0 for None
  used,       \* its flag: somebody has read the slot (DictWithAccessedFlag)
  request,    \* the client whose feed's request the gateway answers, or Nobody
  arrived,    \* bars of that request the feed has not yet read
  sent,       \* bars sent so far
  connected,  \* the TWS client is connected with the gateway
  failed,     \* the status of the request is ERROR
  feed,       \* where the feed thread started for a client is
  bar,        \* the bar a feed thread has read
  idle,       \* its time_without_clients, in bars
  sub,        \* where the handler thread of a subscriber is
  mine,       \* the condition it has entered
  notified,   \* it has been notified
  old,        \* old_bar
  dropped     \* history: why the feed stopped, or left its condition

nameVars == <<condition, feeds, lock>>
slotVars == <<slot, used>>
linkVars == <<connected, failed>>
twsVars  == <<request, arrived, sent, linkVars>>
feedVars == <<feed, bar, idle, dropped>>
subVars  == <<sub, mine, notified, old>>
vars == <<nameVars, slotVars, twsVars, feedVars, subVars>>

SubStates  == {"off", "ask", "check", "starting", "enter", "acquire", "loop", "waiting",
               "read", "send", "blocked", "timed_out", "error"}
FeedStates == {"none", "add", "request", "init", "bar", "used", "publish", "cancel", "remove"}

Init ==
  /\ condition = 0 /\ feeds = 0 /\ lock = [k \in 1..MaxFeeds |-> Nobody]
  /\ slot = 0 /\ used = FALSE
  /\ request = Nobody /\ arrived = <<>> /\ sent = 0 /\ connected = TRUE /\ failed = FALSE
  /\ feed = [c \in Clients |-> "none"] /\ bar = [c \in Clients |-> 0]
  /\ idle = [c \in Clients |-> 0] /\ dropped = "none"
  /\ sub = [c \in Clients |-> "off"] /\ mine = [c \in Clients |-> 0]
  /\ notified = {} /\ old = [c \in Clients |-> 0]

-----------------------------------------------------------------------------
(* The gateway (external): a bar or an error for the running request, or   *)
(* the end of the connection.  An error is the last that comes.            *)
send_bar ==
  /\ request # Nobody /\ connected /\ ~failed /\ sent < MaxBars
  /\ sent' = sent + 1 /\ arrived' = Append(arrived, sent + 1)
  /\ UNCHANGED <<nameVars, slotVars, request, linkVars, feedVars, subVars>>

send_error ==
  /\ request # Nobody /\ connected /\ failed' = TRUE
  /\ UNCHANGED <<nameVars, slotVars, request, arrived, sent, connected, feedVars, subVars>>

lose_connection ==
  /\ connected
  /\ connected' = FALSE
  /\ UNCHANGED <<nameVars, slotVars, request, arrived, sent, failed, feedVars, subVars>>

-----------------------------------------------------------------------------
(* The handler of a real_time_bars request.                                *)

Sub(c, from, to) == sub[c] = from /\ sub' = [sub EXCEPT ![c] = to]

(* An exception is sent to the client; leaving the with block frees the    *)
(* lock, if it was entered.                                                *)
FreeLock_Not(c) == UNCHANGED lock
FreeLock(c) == lock' = [k \in DOMAIN lock |-> IF lock[k] = c THEN Nobody ELSE lock[k]]

subscribe(c) ==
  /\ sub[c] \in {"off", "timed_out", "error"} /\ feed[c] = "none" /\ c \notin {request}
  /\ sub' = [sub EXCEPT ![c] = "ask"]
  /\ old' = [old EXCEPT ![c] = 0]
  /\ UNCHANGED <<nameVars, slotVars, twsVars, feedVars, mine, notified>>

is_connected(c) ==
  /\ Sub(c, "ask", IF connected THEN "check" ELSE "error")
  /\ UNCHANGED <<nameVars, slotVars, twsVars, feedVars, mine, notified, old>>

(* Without a condition the handler sends _start_real_time_bars_feed, whose *)
(* own handler thread becomes the feed, and waits for its 'Done'.          *)
has_condition(c) ==
  /\ sub[c] = "check"
  /\ IF condition # 0
       THEN Sub(c, "check", "enter") /\ UNCHANGED feed
       ELSE /\ feeds < MaxFeeds
            /\ Sub(c, "check", "starting") /\ feed' = [feed EXCEPT ![c] = "add"]
  /\ UNCHANGED <<nameVars, slotVars, twsVars, bar, idle, dropped, mine, notified, old>>

(* with condition(...): the object is looked up, then its lock acquired.   *)
enter(c) ==
  /\ IF condition = 0
       THEN Sub(c, "enter", "error") /\ UNCHANGED mine
       ELSE Sub(c, "enter", "acquire") /\ mine' = [mine EXCEPT ![c] = condition]
  /\ UNCHANGED <<nameVars, slotVars, twsVars, feedVars, notified, old>>

Acquire(c, from, to) ==
  /\ Sub(c, from, to)
  /\ lock[mine[c]] = Nobody
  /\ lock' = [lock EXCEPT ![mine[c]] = c] /\ notified' = notified \ {c}
  /\ UNCHANGED <<condition, feeds, slotVars, twsVars, feedVars, mine, old>>

acquire(c) == Acquire(c, "acquire", "loop")

(* condition(...).wait(30): the name is looked up anew.  It may be gone    *)
(* (the except clause then names an exception that is not imported) or be  *)
(* another object, whose lock this thread does not hold.                   *)
wait(c) ==
  /\ sub[c] = "loop"
  /\ IF condition = mine[c]
       THEN Sub(c, "loop", "waiting")
       ELSE Sub(c, "loop", "error")
  /\ FreeLock(c)
  /\ UNCHANGED <<condition, feeds, slotVars, twsVars, feedVars, mine, notified, old>>

(* The wait ends with a notification, or after thirty seconds at any       *)
(* moment; either way the lock is acquired again.                          *)
wake(c) == c \in notified /\ Acquire(c, "waiting", "read")

wake_timeout(c) == c \notin notified /\ Acquire(c, "waiting", "read")

read_slot(c) ==
  /\ sub[c] = "read"
  /\ used' = TRUE
  /\ IF slot = 0 \/ slot = old[c]
       THEN Sub(c, "read", "timed_out") /\ FreeLock(c) /\ UNCHANGED old
       ELSE Sub(c, "read", "send") /\ old' = [old EXCEPT ![c] = slot] /\ UNCHANGED lock
  /\ UNCHANGED <<condition, feeds, slot, twsVars, feedVars, mine, notified>>

(* send(new_bar) with the lock held, on a socket that blocks while the     *)
(* client does not read.                                                   *)
send(c) ==
  /\ Sub(c, "send", "loop")
  /\ UNCHANGED <<nameVars, slotVars, twsVars, feedVars, mine, notified, old>>

blocks(c) ==
  /\ Sub(c, "send", "blocked")
  /\ UNCHANGED <<nameVars, slotVars, twsVars, feedVars, mine, notified, old>>

reads_on(c) ==
  /\ Sub(c, "blocked", "send")
  /\ UNCHANGED <<nameVars, slotVars, twsVars, feedVars, mine, notified, old>>

(* The client has closed its connection: the send raises.                  *)
client_gone(c) ==
  /\ sub[c] \in {"send", "blocked"} /\ sub' = [sub EXCEPT ![c] = "off"]
  /\ FreeLock(c)
  /\ UNCHANGED <<condition, feeds, slotVars, twsVars, feedVars, mine, notified, old>>

Subscriber(c) ==
  \/ is_connected(c) \/ has_condition(c) \/ enter(c) \/ acquire(c)
  \/ wait(c) \/ wake(c) \/ wake_timeout(c) \/ read_slot(c) \/ send(c)

-----------------------------------------------------------------------------
(* The feed thread: _start_real_time_bars_feed.                            *)

Feed(c, from, to) == feed[c] = from /\ feed' = [feed EXCEPT ![c] = to]

(* One atomic_action: is there a feed already, else make the condition.    *)
Done(c) == sub' = [sub EXCEPT ![c] = "enter"]
add_condition_Blind(c) ==
  /\ feeds < MaxFeeds
  /\ Feed(c, "add", "request")
  /\ condition' = feeds + 1 /\ feeds' = feeds + 1 /\ dropped' = "none"
  /\ UNCHANGED <<lock, slotVars, twsVars, bar, idle, subVars>>
add_condition(c) ==
  /\ feed[c] = "add"
  /\ IF condition # 0
       THEN Feed(c, "add", "none") /\ Done(c) /\ UNCHANGED <<condition, feeds, dropped>>
       ELSE /\ feeds < MaxFeeds
            /\ Feed(c, "add", "request") /\ UNCHANGED sub
            /\ condition' = feeds + 1 /\ feeds' = feeds + 1 /\ dropped' = "none"
  /\ UNCHANGED <<lock, slotVars, twsVars, bar, idle, mine, notified, old>>

req_real_time_bars(c) ==
  /\ connected
  /\ Feed(c, "request", "init")
  /\ request' = c /\ arrived' = <<>> /\ failed' = FALSE
  /\ UNCHANGED <<nameVars, slotVars, sent, connected, bar, idle, dropped, subVars>>

(* NoConnection goes to the handler that asked; the condition stays.       *)
request_raises(c) ==
  /\ ~connected
  /\ Feed(c, "request", "none")
  /\ sub' = [sub EXCEPT ![c] = "error"] /\ dropped' = "raised"
  /\ UNCHANGED <<nameVars, slotVars, twsVars, bar, idle, mine, notified, old>>

init_slot(c) ==
  /\ Feed(c, "init", "bar")
  /\ slot' = 0 /\ used' = FALSE /\ idle' = [idle EXCEPT ![c] = 0]
  /\ Done(c)
  /\ UNCHANGED <<nameVars, twsVars, bar, dropped, mine, notified, old>>

real_bar_from(c) ==
  /\ request = c /\ arrived # <<>> /\ ~failed
  /\ Feed(c, "bar", "used")
  /\ bar' = [bar EXCEPT ![c] = Head(arrived)] /\ arrived' = Tail(arrived)
  /\ UNCHANGED <<nameVars, slotVars, request, sent, linkVars, idle, dropped, subVars>>

(* No bar within the wait, or the error of the request: the feed stops.    *)
feed_timeout(c) ==
  /\ arrived = <<>> \/ failed
  /\ Feed(c, "bar", "cancel") /\ dropped' = "no_data"
  /\ UNCHANGED <<nameVars, slotVars, twsVars, bar, idle, subVars>>

(* time_without_clients grows by the wait for every bar nobody has read.   *)
key_used_for_reading(c) ==
  /\ feed[c] = "used"
  /\ idle' = [idle EXCEPT ![c] = IF used THEN 0 ELSE @ + 1]
  /\ IF idle'[c] >= IdleLimit
       THEN Feed(c, "used", "cancel") /\ dropped' = "no_clients"
       ELSE Feed(c, "used", "publish") /\ UNCHANGED dropped
  /\ UNCHANGED <<nameVars, slotVars, twsVars, bar, subVars>>

(* Slot and notify_all under the condition's lock.                         *)
publish_Unlocked(c) ==
  /\ Feed(c, "publish", "bar")
  /\ condition # 0
  /\ slot' = bar[c] /\ used' = FALSE
  /\ notified' = notified \union {d \in Clients : sub[d] = "waiting" /\ mine[d] = condition}
  /\ UNCHANGED <<nameVars, twsVars, bar, idle, dropped, sub, mine, old>>
publish(c) ==
  /\ Feed(c, "publish", "bar")
  /\ condition # 0 /\ lock[condition] = Nobody
  /\ slot' = bar[c] /\ used' = FALSE
  /\ notified' = notified \union {d \in Clients : sub[d] = "waiting" /\ mine[d] = condition}
  /\ UNCHANGED <<nameVars, twsVars, bar, idle, dropped, sub, mine, old>>

(* _stop_real_time_bars, in a handler of its own the feed waits for: first *)
(* the request is cancelled, then the condition removed.                   *)
stop_real_time_bars(c) ==
  /\ connected /\ ~failed
  /\ Feed(c, "cancel", "remove")
  /\ request' = Nobody /\ arrived' = <<>>
  /\ UNCHANGED <<nameVars, slotVars, sent, linkVars, bar, idle, dropped, subVars>>

(* NoConnection, or the error of the request again: the request is over    *)
(* without a cancellation, and the condition stays.                        *)
stop_raises(c) ==
  /\ ~connected \/ failed
  /\ Feed(c, "cancel", "none")
  /\ request' = Nobody /\ arrived' = <<>> /\ dropped' = "stop_raised"
  /\ UNCHANGED <<nameVars, slotVars, sent, linkVars, bar, idle, subVars>>

remove_condition(c) ==
  /\ Feed(c, "remove", "none")
  /\ condition' = 0
  /\ UNCHANGED <<feeds, lock, slotVars, twsVars, bar, idle, dropped, subVars>>

FeedThread(c) ==
  \/ add_condition(c) \/ req_real_time_bars(c) \/ request_raises(c) \/ init_slot(c)
  \/ real_bar_from(c) \/ feed_timeout(c) \/ key_used_for_reading(c) \/ publish(c)
  \/ stop_real_time_bars(c) \/ stop_raises(c) \/ remove_condition(c)

Next ==
  \/ send_bar \/ send_error \/ lose_connection
  \/ \E c \in Clients :
       \/ subscribe(c) \/ blocks(c) \/ reads_on(c) \/ client_gone(c)
       \/ Subscriber(c) \/ FeedThread(c)

(* Handlers that can run do run, but a send that blocks goes on only when  *)
(* its client reads on, which nobody obliges it to; a subscriber whose     *)
(* wait is over gets the lock in the end, if it is free again and again:   *)
(* the others free it while they wait up to 30 seconds.                    *)
Fairness == \A c \in Clients :
  WF_vars(Subscriber(c)) /\ SF_vars(acquire(c) \/ wake(c) \/ wake_timeout(c))

Spec == Init /\ [][Next]_vars
FairSpec == Spec /\ Fairness

-----------------------------------------------------------------------------
Feeding(c) == feed[c] \in {"request", "init", "bar", "used", "publish", "cancel", "remove"}

(* Type invariant; a thread is where its locks say it is.                  *)
TypeOK ==
  /\ condition \in 0..feeds /\ feeds \in 0..MaxFeeds
  /\ lock \in [1..MaxFeeds -> Clients \union {Nobody}]
  /\ slot \in 0..MaxBars /\ used \in BOOLEAN /\ sent \in 0..MaxBars
  /\ request \in Clients \union {Nobody} /\ connected \in BOOLEAN /\ failed \in BOOLEAN
  /\ arrived \in Seq(1..MaxBars)
  /\ feed \in [Clients -> FeedStates] /\ sub \in [Clients -> SubStates]
  /\ bar \in [Clients -> 0..MaxBars] /\ idle \in [Clients -> 0..IdleLimit]
  /\ mine \in [Clients -> 0..MaxFeeds] /\ notified \subseteq Clients
  /\ old \in [Clients -> 0..MaxBars]

(* Two clients that ask for the same bars at the same time get one feed:   *)
(* only one thread reads the request and writes the slot.                  *)
OneFeed == \A c, d \in Clients : Feeding(c) /\ Feeding(d) => c = d

(* Whoever holds the lock of a condition is in its with block, and nobody  *)
(* else is: slot and notification change together.                         *)
Inside == {"loop", "read", "send", "blocked"}
LockIsMine == \A c \in Clients, k \in 1..MaxFeeds :
  lock[k] = c <=> sub[c] \in Inside /\ mine[c] = k

(* The gateway sends bars only for a request that a feed thread will read  *)
(* or cancel: no request is left behind running.                           *)
RequestsAreRead == request # Nobody => feed[request] \in {"init", "bar", "used", "publish", "cancel"}

(* "Start the feed and add a threading.condition so other threads can      *)
(* check availability of new data" (tws_realbar_request_gscLib.py:122-123): *)
(* a condition in the namespace means there is a feed to notify it; a      *)
(* subscriber that finds it starts none of its own.  Only when the request *)
(* of the feed raised, or its cancellation did, which ends without the     *)
(* connection or with an ERROR, does the condition stay without a feed.    *)
Orphaned == dropped \in {"raised", "stop_raised"}
FeedBehindCondition ==
  /\ condition # 0 => Orphaned \/ \E c \in Clients : Feeding(c)
  /\ Orphaned => ~connected \/ failed

(* A subscriber waits unnotified only while the slot holds what it has     *)
(* already been sent: no bar is published between its reading and its      *)
(* waiting, even while a slow client takes the send.                       *)
NoLostWakeup == \A c \in Clients :
  sub[c] = "waiting" /\ mine[c] = condition /\ old[c] # 0 /\ c \notin notified => slot \in {0, old[c]}

(* How the threads of a client go together: its subscriber waits while its *)
(* feed thread starts, a feed has a condition and no raised request, and a *)
(* subscriber that is about to wait has been sent what the slot holds.     *)
ThreadsFit == \A c \in Clients :
  /\ sub[c] = "starting" <=> feed[c] \in {"add", "request", "init"}
  /\ sub[c] \in {"ask", "check"} => feed[c] = "none"
  /\ sub[c] \in {"ask", "check", "starting", "enter", "acquire"} => old[c] = 0
  /\ sub[c] \in {"send", "blocked"} => old[c] # 0
  /\ sub[c] \in Inside \union {"acquire", "waiting"} => mine[c] # 0
  /\ mine[c] <= feeds
  /\ feed[c] \in {"bar", "used", "publish"} => idle[c] < IdleLimit
  /\ Feeding(c) => condition # 0 /\ ~Orphaned
  /\ sub[c] \in {"send", "blocked", "loop"} /\ mine[c] = condition /\ old[c] # 0 => slot \in {0, old[c]}
RaisedKeepsCondition == Orphaned => condition # 0

(* The safety invariant of a feed and its subscribers: one feed, one       *)
(* holder of the lock, no request and no condition without its feed.       *)
FeedInv ==
  /\ TypeOK /\ OneFeed /\ LockIsMine /\ RequestsAreRead /\ FeedBehindCondition
  /\ ThreadsFit /\ RaisedKeepsCondition

(* Nobody waits for ever, unless a client keeps not reading what is sent   *)
(* to it with the lock held: a client that goes away, a feed that ends or  *)
(* a subscriber that fails leaves no lock behind that keeps the others.    *)
WaitersMoveOn ==
  (\A d \in Clients : <>[](sub[d] # "blocked")) =>
    \A c \in Clients : (sub[c] \in {"acquire", "waiting"}) ~> (sub[c] \notin {"acquire", "waiting"})

-----------------------------------------------------------------------------
(* What the documentation says and the code does not do (see README.md).   *)

(* Docstring of real_time_bars: "Return a 5 seconds live bars data stream" *)
(* - a subscriber is sent every bar from its first on.                     *)
EveryBarIsSent == [][\A c \in Clients : old[c] # 0 /\ old'[c] # 0 => old'[c] \in {old[c], old[c] + 1}]_vars

(* "max time without clients before the feed gets stopped"                 *)
(* (tws_realbar_request_gscLib.py:131): not while a client is subscribed.  *)
FeedKeepsItsClients ==
  dropped = "no_clients" /\ (\E f \in Clients : feed[f] = "cancel") =>
    \A c \in Clients : sub[c] \notin {"waiting", "read", "send", "blocked"}

(* "stop the server function when for some reason the condition was        *)
(* removed" (tws_realbar_request_gscLib.py:96-97), without an exception.   *)
RemovalEndsQuietly == \A c \in Clients : sub[c] = "error" => old[c] = 0
=============================================================================
