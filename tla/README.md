# A verification project for `tws`

`tws` is a collection of Python programs for trading through Interactive
Brokers' gateway: a client for the gateway, servers that share it between
processes, studies on price bars, and traders that turn the advice of a study
into orders, on a simulated or a real market. This directory holds TLA+ models
of parts of it, the TLC configurations that check them on small instances, and
theorems about them checked by TLAPS.

Lines are quoted as `file.py:first-last`, files are those of `src/`.

## 1. Inventory

| part | files | state it keeps | operations | what is hard | status |
|---|---|---|---|---|---|
| order book and virtual market | `market.py`, `virtualmarkets.py` | dicts of new, active and finished orders, an `OrderInfo` per order, the market time, the gray zone bar | `new_order`, `activate_new_orders`, `change_existing_order`, `status_report`, `sync_with_trader` | several orders of a group are reached by one bar; `start()`/`until()` return the value of before their own update; finished children are looked at again; activation mutates the dict it loops over | modelled (`Market`), proved in part |
| trader and strategies | `trader.py`, `strategies.py` | five lists of requests, the managers of each request, the trader's time | `add_requests`, `check_active_requests`, `set_signal_in_active_request`, `status_report` | every manager moves the market before it reads it; a request is filed once and for good; managers replace themselves | modelled (`Trader`), proved in part |
| trading systems | `tradingsystem.py`, `permtradingsystem.py`, `fivestradingsystem.py`, `fixittradingsystem.py`, `volwaptradingsystem.py`, `simple_triad_system.py` | last advice | send requests and signals when a study reports | price logic | any sequence of trader calls |
| generic server/client | `generic_server_client.py`, `my_networking.py`, `managed_namespace.py` | request libraries, a namespace shared by all handlers, named locks and conditions | single, streaming and open requests | a thread per connection on one namespace; exceptions cross the connection; clients that go away | in `LockServer`, `AlarmServer`, `BarFeed`, `ConnectionServer` |
| lock server | `gsc_lock.py` | the locks of the namespace | ask for a lock, leave it | locks are made on first use; a holder may die | modelled (`LockServer`), proved |
| alarm server | `alarm_server_gscLib.py` | `alarm_times` | set, change, remove, read, buzzer | only one request takes the lock; the buzzer answers what it saw before it waited | modelled (`AlarmServer`), proved in part |
| shared TWS connection | `tws_client_connection_gscLib.py`, `tws_realbar_request_gscLib.py`, `tws_orders_gscLib.py` | the handle of the connection; conditions, slots and requests of the feeds | open, close, check; subscribe, feed, stop | a check, seconds of connecting, a set; one slot for all subscribers; a feed stops while others subscribe | modelled (`ConnectionServer`, `BarFeed`), proved in part |
| TWS client | `TWSClient.py`, `TWSClientServerMessages.py`, `tws.py` | status and data of each request, order ids, open orders and their status, the log of historic requests | real-time bars, orders and brackets, historic data, the time | the program and the dispatcher process share lists and statuses under two locks; late answers; the broker's limits | modelled in part (`RealTimeBars`, `TWSOrders`, `HistoricPacing`, `ConnectionServer`), bars, orders and pacing proved in part |
| historic data | `historicaldata_new.py`, `sql_ib_db.py` | the interval still to ask, the bars received, the data base | download, update | packs are joined by date arithmetic; every error moves the request differently; every request is paced | modelled (`HistoricData`, under `HistoricPacing` in `HistoricDownload`), proved |
| corse trader | `TWSTrader_corseabc.py`, `SimpleCorseRunner.py` | the trader's status, its order id and the handle | send, change and remove an order, a bar, the end of the day | the status is derived from tables another process writes | modelled (`CorseTrader`), proved |
| position manager | `position_manager.py` | positions | console | console | not modelled |
| bars and feeders | `marketdata.py` | the composer's list of bars, its start time; the feeder's list of live bars, its unread bars | insert a bar, move the time, reset; iterate | holes, days that end inside a bar, the switch from a data base to a live feed that started earlier | modelled (`BarComposer`, `ComposingFeeder`), without ticks and files, proved |
| intervals | `multiinterval.py`, `fixittradingsystem.py`, `fixit_roce_fmm.py` | per interval: bars, the composer, the results of every bar | a new bar | the last bar of each interval is unfinished and is taken back; generators that yield different numbers of times | modelled (`MultiInterval`, `FeederIntervals`), proved |
| older bars and studies | `barData.py`, `marketdata_prod.py`, `triads.py`, `bar_list_studies.py`, `corse.py` | price series | add a bar, report | numerical | not modelled |
| older simulators, options, databases, plots, utilities, scripts | the other files | | | input and output | not modelled |

### How the modelled parts interact

A main program reads bars, hands them to a trading system and calls
`Trader.check_active_requests(t)` for each new time. The trader *arms* a
request: its enter strategy makes an entry order, its exit strategies make
close orders that name the entry as parent, and each strategy gives a manager,
a function that looks at one order and returns the manager to run next time,
or nothing when it is done. All orders go to a market, which activates the
entry and its close orders together. Nothing runs by itself: the market is
moved by the calls it gets. Every call (`status_report`,
`activate_new_orders`, `change_existing_order`) first runs
`sync_with_trader(t)`, which replays the finished bars up to `t`, order by
order. So one pass over the managers is a series of syncs, any of which may
fill or withdraw orders of the request being managed or of another one.

### What makes each part correct

* Order book: a position is closed once, never reversed; an order that was
  withdrawn or filled is never filled again; after an exit nothing of its group
  is left; an exit is not filled on prices from before its entry; every sync
  returns.
* Trader: a position is never left without a working exit and an active
  request; a request is filed where it belongs and what the list says stays
  true; a closed request is filed in the end; the trader never breaks the
  contract of the market's calls.
* Lock server: a mutex per name, given back when its holder leaves or dies.
* Alarm server: an alarm is set once, a removed alarm stays removed and falls
  silent, a due one rings on.
* Bars of the gateway: no bar is lost, doubled or handed out of order between
  the dispatcher and the reader; one feed per kind of bars, which runs exactly
  while its condition stands; nobody waits for ever.
* Orders at the gateway: two orders have two ids, an entry never works without
  its stop, the program's view catches up with the gateway.
* Historic data: the broker's limit is kept, a download ends, and leaves holes only
  where it met a closed market, the end of the look back or an error.
* Bars: a composed bar is what was put in, once, in step, with its gaps told,
  over holes, days and the switch from the data base to the live feed.
* Intervals: all of them hold the same bars at their own durations, and one
  result for each; what is finished is never changed.
* Shared connection: of handlers that open and close at the same time only one
  that another disturbs loses an open connection; a check tells the truth and
  returns, unless another takes its answer.
* Corse trader: no working order and no position it has forgotten; stopped only
  with nothing left of its last order.

### The servers and the client

`GenericServerClientModel` is both ends of every server: it starts a thread per
connection that reads one request, runs its server function on the shared
`ManagedNamespace` and ends; an exception is sent to the client, where it is
raised. A `single` request is one answer, a `stream` request reads on from the
same connection, a `keep_open` request hands the socket to the program. The bar
server is a program of its own that holds a TWS client: its feed threads call
`TWSClient.real_bar_from`, which reads what the client's dispatcher process
files. So a bar travels gateway, dispatcher (`RealTimeBars`), feed thread, slot,
subscriber (`BarFeed`). `BarFeed` uses of the client only what `RealTimeBars`
shows: bars in order, `RequestStopped` or a time-out.

## 2. Modules

| module | what it is |
|---|---|
| `Market` | the order book driven by the virtual bar market, with its properties |
| `MarketInv` | the inductive invariant behind them |
| `GroupLife` | the abstract specification: what a group of orders may go through, whatever exits it has |
| `MarketLife` | the refinement mapping from `Market` to `GroupLife` |
| `Trader` | the trader and the strategies' managers, on top of `Market` (EXTENDS) |
| `TraderSafety` | the inductive invariant of the trader |
| `MarketProofs` | theorems about the order book (type correctness, the invariant is inductive, the safety properties follow, `Market` implements `GroupLife`), then about the trader on it: its safety properties, and what the order book keeps under it |
| `Mutex` | the abstract specification of a named lock |
| `LockServer` | `gsc_lock.py` on the generic server, and the refinement mapping to `Mutex` |
| `AlarmServer` | the alarm server, its requests and its buzzer clients |
| `ServerProofs` | theorems about the servers on the generic one: of the alarm server the inductive invariant, an alarm is set once; of the lock server the invariant, mutual exclusion, no theft, refinement of `Mutex`; of the connection server what may leak, and that a check that says False is right |
| `RealTimeBars` | real-time bars between the dispatcher process and a reader |
| `RealTimeBarsProofs` | theorems: the invariant is inductive, no bar is read twice or passed over |
| `BarFeed` | the bar server: subscribers, feed threads, the slot |
| `BarFeedProofs` | theorems: the invariant is inductive, no wake-up is lost |
| `ConnectionServer` | opening, closing and checking the shared connection |
| `TWSOrders` | order ids, orders and brackets between a program, the dispatcher and the gateway |
| `TWSOrdersInv` | what holds between them and their two queues: the inductive invariant |
| `TWSOrdersProofs` | theorems: the invariant is inductive, brackets stay whole, the client's view is true |
| `HistoricPacing` | the limits manager for historic requests |
| `HistoricData` | the download of historic data into a data base |
| `HistoricDownload` | both composed: a download whose requests are paced |
| `HistoricDownloadProofs` | theorems: the pacing is kept, the packs fit together |
| `BarComposer` | the composer of bars, a record and operators on it |
| `ComposingFeeder` | the feeder that composes a data base and a live feed |
| `MultiInterval` | the framework of intervals, operators on a sequence of them |
| `FeederIntervals` | a program that feeds the framework from the feeder |
| `FeederProofs` | theorems: what the feeder and the intervals compose fits what they were given, history is kept, only an early bar raises |
| `CorseTrader` | the trader of the older system with its order at the gateway |
| `CorseTraderProofs` | theorems: no order is forgotten, a stopped trader leaves nothing of its last order |
| `MC...` | for each run: the constants TLC runs with |

### `Market`

A *group* is what one trader request sends: an entry order and its close
orders. An order is `<<r, kind>>`, the request number and the kind: `enter`,
`stop` and `profit` (`SingleStopProfitTaker`), `trail` (`SingleTrailingStop`),
`cos` (`CloseOnSignal`), `eod` (`CloseEOD`). The state is one function per
field:

| variable | code |
|---|---|
| `group[r]` | the attributes of the orders that never change: side, entry type, `gtd`, closing time, the children in order |
| `place[o]` | which of `new_orders`, `active_orders`, `finished_orders` holds the order |
| `start[o]`, `until[o]` | the `ManagedOrderValue`s: `order.start` has become `True`, `order.until` has not become `False` |
| `signal[r]` | `order.signal` of the close-on-signal order |
| `filled`, `stopped`, `size`, `filled_at` | `OrderInfo` |
| `last_market_sync_time`, `gray_bar_end` | the market's time, the end of the bar it waits for |
| `target`, `scan`, `pc`, `call` | where the running call is: the `at_time` of the sync, the ids still to look at, the loop, and the method to go back to |
| `err` | the exception that ended the program; no caller in the repository catches one |

The program is single threaded, so calls do not overlap; still one call is cut
into the bodies of its loops, because the properties are about what happens
*between* two orders of one bar. Per step:

| action | code |
|---|---|
| `new_order` | `market.py:383-399`, for all orders of a group |
| `sync_with_trader`, `status_report` | the entry of `sync_with_trader`, `market.py:908-909`, from each of its three callers |
| `ProcessBar` | a finished bar: `ordered_active_orders_ids()` is evaluated once, `virtualmarkets.py:58-60, 102` |
| `SkipOrder`, `MissOrder`, `FillOrder` | one order of the bar: not started or withdrawn; not reached; traded, with `register_new_action` and the `replace_finished_orders` that follows |
| `FinishBar` | the next bar is fetched, or `StopIteration` ends the program before the market time moves |
| `AdvanceToTarget`, `FinishSync` | the rest of the `while` loop, and the attribute update after it |
| `activate_new_orders`, `change_existing_order` | what these methods do after their sync |

Three details of the code are kept because everything depends on them:

* `ManagedOrderValue.__call__` updates itself and then returns the *old* value
  (`market.py:280-283`): `Started(o)` and `until[o]` are the values before the
  call, `StartMet` and `Lapsed` what the call does to them.
* `replace_finished_orders` (`market.py:1022-1033`) calls `until()` of every
  active order as a side effect. This is what withdraws the other exits inside
  the bar in which one filled.
* the ids of a bar are those of all children of a parent with an active child,
  the finished ones included (`market.py:1053`).

Abstractions: a price is a choice (the bar touches the stop or limit, or does
not); an order at market always trades; the virtual market trades whole orders
only; bars end at increasing times bounded by `MaxTime + 1`. Dicts iterate in
insertion order (CPython 3.7 and later), so a parent comes before its
children. The order of ids sorts requests before each other. A text as size
(before the parent has a position) is size 0, and using it for a fill is the
TypeError `"size is text"`.

### `GroupLife`

What a trader may rely on, without start and until conditions, lists, bars or
kinds of exits: a group is `none`, `working`, `open`, `closed` or `withdrawn`;
it holds its full position when it is open and nothing otherwise; and one step
trades in one group at most, while it may withdraw many. `MarketLife` reads the
phase off the `OrderInfo`s (`PhaseOf`): an exit has filled, or the entry has,
or else the list the entry is on decides.

### `Trader`

`where[r]` is the list that holds the request, `managers[r]` its managers,
`tpc` the place in the running method. Each manager is cut where it calls the
market: it *asks* (`RunManager`, `SecondReport`), the market works
(`MarketWorks`, the steps of `Market`), it *returns* (`ManagerReturns`,
`SecondReturns`). `exit_manager_2` and the trail managers ask twice and read
the first answer before the second sync; `stop_stopped` is the value `noted`
then, while the trail managers hold the `OrderInfo` itself and read it after.
`CloseEOD`'s manager has no `return` (`strategies.py:697-701`) and is dropped
after one run. Whether a trail is triggered, and when it moves, depends on
prices and is left open. `SingleManagedStop` is left out: its `arm` reads
an attribute the class never sets.

### The servers

In all of them a client program stands for its connection: `handler[c]` (in
`LockServer`, whose clients are its `Connections`, `thread[c]`) is
where the server's thread for it is, a step per access to shared state, named
for the line it stands for; a message to an end that is closed is lost, and an
exception of a server function is an answer of its own kind.

`LockServer` has the steps of `get_server_lock`'s server function (`look`,
`add`, `acquire`, `send`, `receive`) and of `GSC_Lock.__call__`; `crash(c)` is
the death of a client program, after which the system closes its end. Stopping
the server takes two steps: `shutdown` stops accepting, `stop_server` sets the
namespace to None. A handler that has begun keeps the namespace it was given;
one that begins later (`real_handler`) fails the assertion of
`gsc_lock.py:52` and its client gets the exception. `Owner` reads the owner of a
lock off the clients that are inside, for the refinement of `Mutex`.

`AlarmServer` has one action per access to `alarm_times`. A time is `later` or
`due`; `time_passes` is the clock passing it. The buzzer's client and server
alternate messages; `stale` is a history variable that counts the rings since
the alarm was last due, `live` the alarms set and not since removed.

`BarFeed` models one kind of bars. A condition that is removed and added again
is another object: `condition` is the object of the name, `mine[c]` the one a
subscriber has entered, `lock[k]` its lock. Looking the name up and acquiring
the lock are two steps, and each `wait` looks the name up anew, as the code
does; it may time out at any moment. The thread that handles the request to
start a feed becomes the feed. `send` is made with the lock held, on a socket
that blocks while its client does not read (`blocks`). The gateway may fail the
request and the connection may be lost at any time; then the start of a feed or
the cancellation at its end raises, and the condition is not removed. A
connection that is opened again is a client that does not know the request: its
cancellation raises as well, so a lost connection stays lost in the model.

In `ConnectionServer` each of the `Requesters` is a thread that opens, closes or
checks, one request after another: any number of each kind run at the same time.
The gateway may refuse a connection at the socket (`connect_fails`) or by its
silence (`refused_by_gateway`). `asked` and `times` are the questions under way
and the answers in the queue of times. Three history variables name the races:
`disturbed` the handlers since whose look at the attribute another one has set or
deleted it, `lost` the connections such a handler overwrote or deleted, `robbed`
the checks that wait while another took an answer from their queue.

### The TWS client

`RealTimeBars`: `status` and `data` are the entries of `req_info` and `req_data`
for one request; the dispatcher and `real_bar_from` are cut at each of their
accesses, which take two different locks. The gateway's part is external: it
sends bars until the cancellation has arrived. The status setter's table is
`From`; a refused status is an exception, which ends the dispatcher for any but
KeyError.

`TWSOrders`: messages go through `to_tws` and `from_tws` in order. The gateway
(external) answers requests for ids, holds orders until one of their family is
transmitted, reports what it changes, and fills. `get_order_id` is the two
steps of its code: ask if the queue is empty, wait for an id.

`HistoricPacing`: the manager's methods and the caller's sleep are steps, time
passes between any two. Times count from the last request (`noted` moves the
origin), for the manager only looks at differences; so the number of requests
needs no bound. `log` is a history of the last `Limit + 1` requests, the ones
the limit speaks of. `timedelta.seconds` is the remainder by a day.

`HistoricData`: bars are start times; a pack is what the gateway has between
`end - size` and `end`. Every exception of `get_historical_request_data` is an
action with the branch of `historical_data` that handles it, and `NoData` is
the code after the loop that they share. The user's answers are choices. The
history variable `early` remembers from where to where a download that returned
with bars had not asked, and whether the user had accepted an error.

`HistoricDownload` joins them as the code does: the loop of `historical_data`
asks the manager, sends, and notes the request (`send_request` is a step of
both modules), the answer is read by both, everything else belongs to one.
Time passes while the program sleeps, waits or rests between downloads.

### Bars and intervals

`BarComposer` has no variables: a `DataBarComposer` is a record, and each method
an operator that gives the record after the call, or the record with the
`error` the method raised. A bar keeps its time, duration, open, close and
`hasgaps`, and `parts`, the bars it is the sum of, which say what its high, low
and volume are made of. The code fills holes bar by bar in a loop
(`_fill_gaps_until`); `advance` gives its result at once. Complete bars are
popped by the callers until there is none: `complete_bars` and `popped`.

`ComposingFeeder` is the generator `__iter__` of the feeder: one action per bar
of the inner loop, over the data base (`history_bar`), the list of live bars
(`list_bar`) and the live feed (`next_live_bar`). It stops where it yields:
`Resumes` says the program has taken everything. The live feed starts first and
its first bar waits; the data base may overlap it, which `TooSoon` sorts out.

`MultiInterval` gives an interval and the framework's `new_bar` as operators:
`prepared` takes the unfinished bar and its result back, or resets the composer
at a new day; `yields` are the times at which the interval's generator yields;
`use` is the recursion of the framework over the generators, innermost first,
which counts evaluations and raises when an inner one is ahead. It is written
with the stack of calls that are not finished (`loops`) and one step of it,
`use_step`: a step takes a time of a generator or ends a call, so the number of
times the generators have bounds the steps. `FeederIntervals`
composes them: `iterate` is a step of the feeder, `new_bar` hands the oldest
unread bar to the framework. What both must give is stated against a reference
that knows nothing of composers: `Fits(S, B, d, at)`, the bars `S` are the bars
`B` cut to the duration `d`.

### `CorseTrader`

The properties `enter_status`, `exit_status`, `order_status`, `mode` are
operators over the tables the gateway's reports write; reading `status` stores
what it concludes, so every method begins with `Status`. `update` is a step
that reads the status into `local` and a step that acts, with the gateway in
between. The runner calls a method after it looked at the status. Prices are
reduced to what `update` asks of them: outside `b` and `c`, crossing `a`, and
the end of a simulated trade. `connected` and `order_status` model the handle
that is taken away in the evening and set again with empty tables. A status is
read by looking up the exits once the entry has been filled: an exit that has not
been reported to this handle is a `KeyError` (`status_raises`). The runner sends,
changes and removes as it likes; an EMPTY trader is sent out again before the
cancellation of its last order is confirmed, and forgets that order's id.

## 3. Runs

| run | instance | properties |
|---|---|---|
| `market` | two groups out of six definitions: brackets, trails, exits by signal and at the end of the day, none; `MaxTime = 3`, orders of size 2 | `MarketInv`, `GroupNeverReversed`, `NothingLeftAfterExit`, `SyncReturns`, `ImplementsGroupLife` |
| `trader` | a request out of the strategy sets the systems use, over five times; a second one beside it for the signal set, over three | `TraderInv`, `FiledIsTrue`, `TraderKeepsContract`, `ClosedIsFiled` |
| `trader_eod` | a request only closed at the end of the day | **violated**: `NoErroneousRequest` |
| `lock` | three clients, two names, one death | `LockInv`, `MutexSpec`, `DeadHolderReleases`, `WaitsOnlyForTurnover` |
| `alarm` | two clients, one alarm, every request | `AlarmInv`, `SetOnce`, `RemovedAlarmFallsSilent`, `DueAlarmKeepsRinging` |
| `bars` | five bars, a program that may stop the stream, a gateway that may fail it | `StreamInv`, `HiddenBarSurfaces`, `StopIsTold` |
| `feed` | two subscribers, whose clients may stop reading, two feeds, two bars, a request that may fail and a connection that may be lost | `FeedInv`, `NoLostWakeup`, `WaitersMoveOn` |
| `orders` | four order ids, brackets and single orders, one change, one id that is late | `OrdersInv`, `BracketIsWhole`, `ViewIsTrue`, `FillIsSeen` |
| `historic` | two days with a night between that is longer than a pack, two updates, the first over the night, three requests allowed in a window of six, a day of twelve | `PacksFit`, `PacingKept`, `PacedDownloadEnds` |
| `corse` | two orders, the second also sent while the first may still fill, a night | `CorseInv`, `StoppedIsFlat`, `FillIsNoticed` |
| `connection` | three requests at a time, of any kind, two connections, two questions under way | `ConnectionInv`, `FalseMeansSilence`, `ChecksReturn` |
| `intervals` | a day of eight and most of the next, bars with every kind of hole, from the data base and the live feed; composed to 2 by the feeder, to 2 and 4 by the framework, whose intervals start at 2 | `FeederFits`, `IntervalsFit`, `RaisesWhenEarly`, `HistoryKept` |

A module states its type invariant and its smaller invariants under names of
their own and runs check their conjunction, the `...Inv`. Of the modules that are
proved it is the inductive invariant of the proofs: `MarketInv` (with
`NoFillRejected`, `GrayBarAhead`, `ExitInLaterBar`), `TraderInv` (with
`PositionIsWatched` and `NoErroneousRequest`), `LockInv`, `AlarmInv` (with
`AtMostOneStaleRing`), `StreamInv` (with `NoBarLost` and
`LiveStreamKeepsDispatcher`), `FeedInv` (with `OneFeed`, `LockIsMine`,
`RequestsAreRead` and `FeedBehindCondition`), `OrdersInv` (with
`InTimeIdsWork`). The others hold their parts: `PacksFit` `InOrder` and
`DbHolesAreOneBar`, `CorseInv` `OrdersAreKnown`,
`ConnectionInv` `OnlyRacesLeak`, `RegisteredIsOpen` and `HandlersFit`.

`BracketIsWhole` and `ViewIsTrue` hold as long as no id was given twice
(`IdIsOfTheOrder`, see section 4). With a late id they need not: an order that
is not transmitted, under the id of a live one, takes its place at the gateway,
which reports nothing, so the client keeps it among its open orders. The run
is too small for it (it takes `MaxOrders = 5`); the attempt to prove `ViewIsTrue`
without the condition found it.

What the liveness properties and the refinements show: a sync of the market
returns (`SyncReturns`) and a closed request is filed (`ClosedIsFiled`); the
order book is a `GroupLife` and the lock server a `Mutex`; a client that waits
for a lock does so only while the lock goes from hand to hand, and the lock of a
dead client comes back; a removed alarm falls silent and a due one rings on; a
bar hidden by a stale status is read after the next one, and the reader of a
stopped stream is told; no subscriber waits for ever; a fill is seen by the
client, and by the corse trader; a download of a size
in days ends, if the gateway does not refuse it again and again; every
check of the connection returns, once the others do not ask again and again, unless
another takes its answer.

## 4. Disagreements between the code and its documentation

Where a doc, a comment or the code itself promises what the code does not keep,
the promise stands as a definition at the end of its module ("What the
documentation says and the code does not do") with the line it quotes. TLC
refutes each of them with the cfg of the module's run, the properties replaced
by the one named here, and the constants changed where it says so. `trader_eod`
is kept as a run.

Market and trader (the first four also reproduced by running the Python code on
a few bars):

1. `SingleOrderActivated` (`Groups <- SingleGroups`): `activate_single_order`
   pops from the dict it loops over (`market.py:957-961`): one order without
   close orders makes `activate_new_orders` raise `RuntimeError`.
2. `CloseWaitsForPosition` (`EodGroups`, `MaxTime = 4`): a close order that brings
   its own start condition does not wait for its parent (`market.py:508-509`); an
   end-of-day order whose entry has not filled trades with a text as size and
   raises `TypeError`.
3. `SyncComplete` (`DeadlineGroups`): one pass of attribute updates after a sync is
   not enough: an exit whose entry was withdrawn in that pass stays active until
   the next sync.
4. `NoFillRejected` (`PartGroups`, `Percent = 50`): with exits for a part of the
   position, the second exit of the bar (or the first one, in a later bar) is
   looked at after it finished and fails the assertion `'order was already
   stopped!'`. No strategy of the repository uses a part, so `Percent = 100`
   elsewhere.
5. `NoErroneousRequest` (run `trader_eod`): a request whose only exit is
   `CloseEOD` is filed as erroneous while its position is open.

Servers:

* `NeverRefused` (`LockServer`): two first users of a lock race between
  `has_lock` and `add_lock`; one is refused. A running server refuses nobody
  else, and the lock stays sound.
* `RemovedStaysRemoved`, `MissingAlarmIsAlarmError`, `BuzzerReturnsAsDocumented`
  (`AlarmServer`): `change` undoes a `remove` that was answered; the error answers
  of `change` and `remove` name a variable that is not bound; so does the buzzer
  whose alarm goes before its first look.
* `EveryBarIsSent`, `FeedKeepsItsClients`, `RemovalEndsQuietly` (`BarFeed`): one
  slot loses bars to slow subscribers; a burst looks like a long time without
  clients; the removed condition raises an exception the module does not import.
  And a feed that fails to start (`tws_realbar_request_gscLib.py:156`), or whose
  cancellation raises because the request failed or the connection is gone (line
  227), leaves its condition behind: every later subscriber finds it, starts no
  feed and times out. `FeedBehindCondition` says that this is so only then.
* `OpenReturnsAsDocumented` and `RemovedIsThere` (`ConnectionServer`): opening an
  open connection raises instead of answering, and so does a refused one; two
  checks take each other's answers, and one may wait for ever. Two openers leak a
  connection, and so do two closers, when one deletes the handle of a connection
  opened since: `OnlyRacesLeak` says that nothing else does, so it holds with
  `lost` and not without.

TWS client and trader:

* `TimeOutMeansNoData`, `AvailableMeansData`, `DispatcherSurvives`
  (`RealTimeBars`): the status and the list are two facts, written by two
  processes in two steps each. A bar can hide behind `NO DATA AVAILABLE` (until
  the next bar), an empty list can claim data, and a bar that follows the
  cancellation ends the dispatcher for all requests.
* `IdIsOfTheOrder` (`TWSOrders`): an id that comes after the time-out is taken by
  the next call, whose own question then gives the same id again.
* `SpacingKept` (`HistoricDownload`): the two seconds between requests are lost
  when the ten minute rule applies.
* `DbIsComplete`, `UpdateMeetsDb`, and with `Seconds = TRUE` `PacedDownloadEnds`
  (`HistoricData`): each pack loses the bar before it; an update that meets a closed
  market returns with what it has (`historicaldata_new.py:180-200`) and leaves what is
  between it and the last entry out of the data base, for ever, since the next update
  starts behind it (`PacksFit` says that wide holes are there and nowhere else); a size in seconds is never reduced to nothing, and the
  download never ends.
* `StoppingStops`, `NeverRaises` (`CorseTrader`): stopping overlooks an order that
  filled *and* closed; a bar after hours can stop and cross at once, which raises.
  Nothing is written of how many brackets may trade at once: a new order may follow
  a cancellation that has not happened, so there may be several, of which the
  trader follows the last.

Bars and intervals (constants of run `intervals`; a reader of the code finds no
promise about them, except that bars come out as they went in):

* `LiveSize = 2` refutes `FeederFits`. `fixit_roce_fmm.py:121-146` joins bars of one
  second with live bars of five. The test for bars that were already seen
  compares *start* times with the duration of the *new* bar
  (`marketdata.py:2414`), so the first live bar after the data base is skipped
  although nothing in it was used.
* `HistorySize = 2`, bars of the data base longer than the live ones, refutes
  `RaisesWhenEarly`: a live bar that starts inside the last bar passes the same
  test, and the composer raises `new bar starts in composing bar`.
* `OpenFromFirstDataInBar = FALSE`, the strict open mode, refutes `RaisesWhenEarly`: a day
  whose first bar does not start a composed bar has no open; the composer's
  own last close is not set when it starts anew.
* a bar that comes before the time of the day an interval starts at stops the
  program: `data before start time`. `RaisesWhenEarly` says that this is so, whatever
  else came before, and that nothing else does. The live programs start every
  interval at `time(8)` (`fixit_roce_fmm_live.py:183-194`).
* outside the instances: given bars that were not composed, with a hole over the
  end of a bar of the inner interval only, the inner one is ahead of the outer
  one and `use` reaches a bare `raise` (`multiinterval.py:136-140`); no list of
  bars of a feeder has such a hole (`RaisesOnlyEarly`). Skipping a bar in an `Interval` formats a name that
  is not there (`multiinterval.py:398`) after it took the unfinished bar off; the
  time before the first data of a day is not told as a gap; the first live bar
  is only used when the second comes.

### Bounds

`MaxTime` bounds the caller's times, and with it the number of bars. A group
lives through at most: its entry's bar, the bar of its exit, a bar to be
withdrawn in, and one more to be looked at again; up to three times the
engine moves and a gray bar beyond, so that every place an order can be in comes
up, before and after each other order of the group and of the other group; the
trader needs two more, for the passes that file the request. Times are only
compared, so only their order matters. Two requests are enough for the order
book because no step reads the state of two groups except through the order of
the scan. In `trader` the second request is only followed beside the signal
group and over fewer times (`MCNext`): the interleavings of two requests are
those of the engine, which `market` has in full, and of the managers, of which
this set has all kinds of moves. Larger sizes change nothing while fills are
whole, and the theorems hold for every size. Deadlock is checked in the runs of
the market, trader, alarm and real-time bar modules: the models stop nowhere, an
exception is a state that stutters.

The servers are run with two clients that race, and where a third sees what they
left behind (`lock`) with three. `MaxCrashes`, `MaxFeeds`, `MaxConnections`, `MaxBars`,
`MaxOrders`, `MaxNights`, `Ends` bound how often something starts anew; two of
each show what the first leaves to the second. Messages and bars are numbered
and only compared.

In `historic` the limit is 3, the window 6 and the spacing 2 seconds, with a day
of 12: both rules make the program wait, the wrap of `timedelta.seconds` included,
and the window holds one request more than the limit. `Patience` bounds how long
a step takes and `Pause` the time between downloads; the pause is longer than a
window, so everything may be forgotten. The number of requests is not bounded,
that of pacing refusals and other errors is (`MaxPacing`). The night (12) is longer than a
pack (8, reduced 4), as nights are than the packs of second bars (`tws.py:62-65`), so
an update that begins before it stops in it.

In `intervals` a day has three bars of the feeder and not a whole number of bars of
the outer interval, so that days end inside a bar, in step and out of step;
`MaxTime` is the last time of the second day. Every subset of times with bars is
a behaviour. Durations of the data base and the live feed are equal; what other
durations do is in section 4. `CHECK_DEADLOCK FALSE` is given
wherever a bounded thing runs out (calls, connections, orders, time), where a
stopped lock server leaves its callers in the backlog, and where a stopped
trader is no longer driven.

### Fairness

`Spec` has weak fairness of `Engine`, the steps inside a running call: the
program is single threaded and a call that was entered runs on. Nothing obliges
the caller to call. `TSpec` adds the same for the methods of the trader
(`TraderWorks`), and weak fairness of `CheckSome`: the main loops call
`check_active_requests` with the time of every bar, so time goes on being
reported as long as there are bars. `ClosedIsFiled` therefore excuses the end
of the bounded time, and exceptions.

The server modules assume that threads and processes that can run do run: weak
fairness per handler and per client, none for a client to call, to interrupt, to
close or to die. A `threading.Lock` is not fair, so the lock server has no
strong fairness: `WaitsOnlyForTurnover` says that a handler waits for ever only
while the lock changes hands for ever. In `RealTimeBars` the dispatcher runs, a
reader goes on reading (the feed's loop) and a cancellation arrives; the gateway
need not send. In `BarFeed` handlers run, but a `send` that blocks goes on only if
its client reads on, which nothing guarantees: `WaitersMoveOn` speaks of runs in
which no client is blocked for ever or again and again. A subscriber that wants
the condition's lock, at first or when its wait is over, must get it: the others free
it each time they wait, up to half a minute, so it is not always taken when he
tries (strong fairness of `acquire`, `wake` and `wake_timeout`, the only one in the
project). In `HistoricDownload` the program
goes on, the gateway answers every request in one of its ways, and time passes;
the actions of the three are fair one by one, so that none can starve another.
In `CorseTrader` bars keep coming and the gateway takes a cancellation up. In
`ConnectionServer` every request's thread runs, and a wait with a time limit ends. `FeederIntervals` is checked
for safety only.

## 5. Proofs

TLAPS checks these for every value of the constants that meets the assumptions
named below.

The order book, for every set of requests and of group definitions, every order
size and time bound (`MarketProofs`):

* `TypeCorrect`: `Spec => []TypeOK`.
* `Invariant`: with `Percent = 100`, `Spec => [](TypeOK /\ MarketInv)`; and from
  it `GroupSafety`, `FillSafety`, `ExitSafety`, `BarSafety`, and the action
  property in `FinishedForGood`.
* `GroupLifeImplemented`: with `Percent = 100`, `Spec => ImplementsGroupLife`,
  the refinement.

The trader on top of it, with `Percent = 100` and `ClosedByTrader`
(second part of `MarketProofs`): `TraderSafe`, `TSpec => []TraderInv`; `FilesAreTrue`,
`TSpec => []FiledIsTrue`; `ContractIsKept`, `TSpec => []TraderKeepsContract`; and
`MarketUnderTrader` and `LifeUnderTrader`, the invariant and the refinement of
the order book when the trader drives it.

The servers and the client:

* `LockSafety`: `LockSpec => []LockInv` of `LockServer`; from it
  `LockMutualExclusion` and the action property in `LockNoTheft`;
  `LockServerImplementsMutex`: `LockSpec => MutexSpec`.
* `AlarmSafety`: `Spec => []AlarmInv` of `AlarmServer`; `AlarmSetOnce`:
  `Spec => SetOnce`, an action property.
* `StreamSafety`: `Spec => []StreamInv` of `RealTimeBars`; `StreamReadsOnce`, the
  action property `OneBarAtATime`.
* `FeedSafety`: `Spec => []FeedInv` of `BarFeed`; `FeedWakes`:
  `Spec => []NoLostWakeup`.
* `OrdersSafety`: `Spec => []OrdersInv` of `TWSOrders`; `BracketsAreWhole`:
  `Spec => []BracketIsWhole`; `ViewsAreTrue`: `Spec => []ViewIsTrue`.
* `ConnectionSafety`: `ConnectionSpec => []ConnectionInv`, and `ChecksAreTrue`:
  `ConnectionSpec => FalseMeansSilence`, for any number of requests at a time.
* `PacingIsKept`: `DownloadSpec => []PacingKept`, for every limit, window and
  market; `PacksJoin`: `DownloadSpec => []Joined`, likewise;
  `PacksFitTogether`: `DownloadSpec => []PacksFit`, for every market.
* `CorseSafety` and `CorseStopsFlat`: `Spec => []CorseInv` and
  `Spec => []StoppedIsFlat` of `CorseTrader`, for any number of orders and nights
  and whatever the runner asks.

Bars and intervals (`FeederProofs`), of `FeederIntervals` for any days, durations,
holes, overlap and any number of intervals:

* `FeederComposes`: `Spec => []FeederFits`; `IntervalsCompose`:
  `Spec => []IntervalsFit`; `HistoriesKept`: `Spec => HistoryKept`; the three when
  a bar of the database is a whole number of live bars
  (`HistorySize % LiveSize = 0`).
* `RaisesOnlyEarly`: with `Uniform`, `Spec => []RaisesWhenEarly`.

### Assumptions

`MarketAssumption`: request numbers are naturals, groups are well formed, sizes
positive. `Percent = 100`: the strategies of the repository always close the whole
position; `NoFillRejected` (section 4) shows that it is needed. `ClosedByTrader`:
every request has an exit beside the end-of-day order, whose manager alone
waits for nothing; the run `trader_eod` shows what happens without.
`AlarmAssumption`,
`FeedAssumption`: the mark of a free lock is
no client; the alarm clients use some of the operations on some alarm; a feed
gives up after at least one idle round. `OrdersAssumption` and that of
`RealTimeBars`: the bounds are numbers, and some order may be placed.
`DataAssumption`: the lengths of requests are positive and the larger one larger.
`FeederAssumption`: bars of the two feeders divide those of the feeder's composer,
those divide the bars of every interval and a day, and an interval starts at a
time of the day. `HistorySize % LiveSize = 0`: with live bars longer than those of
the database `FeederFits` fails, and with it what the intervals are given (section
4, `LiveSize = 2`). `Uniform`: both feeders have bars of one size, a composer may
open with the first data or a later bar, and every interval starts a whole number of
the feeder's bars after midnight, as minutes and `time(8)` do; without the first two
something else than an early bar raises (section 4), and a bar of the feeder could
span two bars of an interval without the third. Of the open modes the first
three theorems ask nothing.
`PacingAssumption`: at least two requests are allowed, and the spacing is shorter
than the window and the window shorter than a day.

### Arguments

None of the properties is inductive. In the order book, that a group is never reversed needs
`OneExit`: when one exit has filled, the others are not only unfilled but
withdrawn (`~until`). That is established by the `until()` calls inside
`replace_finished_orders`, which read the position of the group after the
fill; so the fill must have been for the whole size (`Sized`), the entry must
have filled before (`EntryFirst`, from `SizeOf = 0` before that), and the other
exits must be active or already withdrawn, not still new (`Together`). That a
fill is never refused needs `ScanOK`: what is still to be looked at in this bar
is unfilled, which holds at the start of the bar because
`NothingLeftAfterExit` held at the end of the last. `ExitInLaterBar` needs
`StartOK` and `HistoryOK`, which relate `filled_at` to the market time inside
and between bars. `MarketProofs` has one lemma per action or group of
actions with the same footprint (`QuietInv`, `NewOrderInv`, `ActivateInv`,
`ProcessBarInv`, `FillInv`, `FinishBarInv`, `SyncEndInv`), over lemmas on
`replace_finished_orders`, on the position of a group and on the size of a fill.

The refinement of `GroupLife` is proved from the same invariant. `PhaseHolds` shows that the
position of a group is a function of its phase, so that a step only has to be
classified by its phases: `BookMoves` says how orders may go from list to list,
`QuietPhase` what that does to a group in which nothing fills, `FillPhase` what
the one fill of a step (`OneFill`) does to its own group.

The trader asks the market between any two of its own steps, so its invariant is
about both. `Carried` puts the market's invariant beside `TraderInv` and the
contract (`TraderKeepsContract`), since each needs the others: the market keeps
its invariant only while the contract is kept, and the contract is kept because
the trader is never behind the market (`InTime`) and moves a trail only while its
position stands (`Moving`). By `MarketStep` a step of the trader is a step of the
market or leaves it alone. That an open position always has a working exit and
an active request follows from `ExitsLapse` (an exit is withdrawn only from a
group that is over), `Working` (what is filed is over) and `Watching`: every
active request that is not over has a manager that waits for an exit, on the
list of those kept or of those still to run. `Trailing` and `Known` say that the
managers of a trail have an order to move and that the market knows the orders
of the request. `Filed`, which is about every list at every moment, gives
`FiledIsTrue`, which is about one request from then on.

Mutual exclusion of the lock server is not inductive: that two clients are not
inside follows from `HolderIsServed`, which ties a client that is inside, or
about to be told so, to a handler that holds the lock of its name, and a lock
that is held to a handler that will release it. `add_lock` keeps this although
several handlers try it, because it refuses a name that exists: a lock is never
replaced while it is held. For the refinement, `Owner` is the holder whenever a
client is inside; entering is `Lock`, leaving or dying is `Unlock`, every other
step a stutter.

Of the alarm server two things had to be found. `SetGuarded`: a handler between
its look at an alarm and the write that follows holds the lock, so an alarm is
set once although the look and the write are two steps. `InTurns`: a client and
its handler alternate, there is at most one message under way between them, and
`Turns` says which one fits which pair of places; without it the type of a
message is not known where it is read. `RingsAreFresh` then limits the rings that
were decided before an alarm was moved to the one under way, which is
`AtMostOneStaleRing`.

A bar of the gateway is on the dispatcher's list, in its hands or with the reader, and
`NoBarLost` with `ReadInOrder` says that together they are the bars that were sent,
in order, and of a stream that failed the first ones. That needs what each of the two may find: before the request there is
nothing (`NothingBefore`), an error is the last that comes (`ErrorIsLast`), and
what the reader has seen of the list is still there when it takes it
(`ReaderHolds`), because only it takes bars.

For the bar feed, one feed at a time rests on `RaisedKeepsCondition`: a thread
that failed after it made its condition, or before it removed it, leaves the
condition, so that no second feed is started beside what may still run.
`ThreadsFit` relates the place of every thread to the condition it works with,
`LockIsMine` every lock to the one thread inside. A wake-up is not lost because
a subscriber that is about to wait has been sent what the slot holds (the last
part of `ThreadsFit`), and the slot changes only under the lock.

Nothing is locked on the shared connection, so what a handler has seen need not
be true when it acts. `HandlersFit` says what it knows nevertheless: an opener
has a connection of its own, which no other handler works with, and as long as
nobody disturbed it the server has none; a closer that nobody disturbed deletes
the handle of the connection it has closed. So whoever sets or deletes the handle
undisturbed loses nothing (`OnlyRacesLeak`), and the history variables only name the
others. `ChecksAreTrue` needs that what a check asked for is still to be answered
or in the queue, or was taken from it (`Checks`); that a closed connection stays
closed makes it stable.

Orders at the gateway pass through two queues, and the invariant is mostly about
what is in them. `FromProgram` and `Reported` trace every message to an order
that was placed and every report to one that arrived. `OneId` and `Numbered`: as
long as no id came late there is at most one under way, and it is new, so
two orders have two ids. Then `PlacedInOrder`, `TodoInOrder` and `ArriveInOrder`
carry the order of a bracket from the program's list through the queue to the
gateway, `HeldIsNew` says that an order that is not to be transmitted yet is one
the gateway does not have, and so what works belongs to a bracket whose stop has
arrived (`WholeOrNothing`, which gives `BracketIsWhole`). `ViewsAddUp` says that what the
client knows of an order and what is still reported of it add up to the state it
has at the gateway; with nothing under way this is `ViewIsTrue`. `ReportsOf` and
`ReportsTell` are what the dispatcher's step needs: the first of a queue may be
taken off without losing what the rest says.

That no window holds too many requests does not follow from what the manager
remembers at one moment. `PacingInv` says what it has forgotten (more than a
window old, `PastInv`), how many it remembers where (`CountInv`: fewer than
`Limit` from the count on), and that with one less than `Limit` the sleep reaches
to the end of the window of the first of them. The last holds although the wait
is computed with `timedelta.seconds`, which wraps: what is remembered is at most
a window old when the count is made, so the difference is negative only after
the program has dawdled, and then any wait will do (`Remainder`). `CountKeeps`
closes the circle: a request that was waited for is more than a window old when
the next count is made, because an answer takes time, so it is forgotten and the
count never steps over the value the test looks for.

The packs of a download are sorted sets, and a set of bars has a first and a last
bar and can be sorted because it is finite: each is shown for a set that is as
small as a counterexample can be (`Smallest`), which needs no induction theorem.
`Joined` relates the end of the next request to the first bar received: the next
pack ends a bar and a second before it, and of two bars of the market that follow
each other one is received; `RequestInv` says that an answer is about the request
as it is, so the pack put in front is all of its interval (`PackJoins`). For the
database, `MeetsDb` says that an update starts at its last entry, and that it ends
only when it has met it or where the gateway has nothing before: `NothingLeft` shows
that of every error that ends it before. Two sets without wide holes have none
together but what is between them (`HolesOfUnion`), which is then excused. The types of the pacing need that the log is in order
and ends with the origin of time (`LogInv`).

The corse trader derives its status from a table that another process fills and
that starts empty each morning. `TableFits` says that what is in it is true while
the trader is connected, so what a status concludes from it (`Told`, `Concludes`)
holds at the gateway, whenever it is read. `Followed` says that every order but the
last can only trade if it was asked to be cancelled, and what each value of the id
means: its own order is the last, without one the last was cancelled, and with
`(None,)`, which the end of the day leaves, the last is to be cancelled. It also
says from where the next order is sent: the order of an EMPTY trader was removed,
and so was that of a trader that was told to monitor while it had no handle.
Without these two the step that overwrites the id could lose an order. Every step
of the trader either sends the next order, from such a state (`Sends`), or leaves
the gateway's orders alone (`Calm`).

What a composer holds is stated as a whole (`Fits`: every bar against all the
input), which no step keeps as such, for a new input touches only the last bars. So
`FeederProofs` says it bar by bar: a bar is `Good` when it is its input, with its
prices and gaps, and stays so when later input comes (`GoodStays`); it follows the
one before it (`Chain`). `Composing` says of a composer that its completed bars and
the one it composes are such a list, which `start_composer`, `advance` and
`insert_adjacent_bar` keep for any composer in step (`StartComposer`, `Advanced`,
`InsertAdjacent`); `ComposedFits` leads back to `Fits`. The feeder and an interval differ
in what they do around it. For the feeder, `FeederIInv` relates its composer and
its unread bars to what it used (`Fed`) and says that what it has not used waits or
came too late (`NothingDropped`); `SourcesInv` says which bars can still come, and
the case to settle is the switch between the feeders: what `TooSoon` lets pass starts
where the last used bar ends or later, for which a bar of the database must be whole
live bars (`Meets`). For an interval, `IntervalsInv` says that its bars are
`Seen` from all that was delivered, and `IntervalTakes` that this holds after each
bar: the unfinished bar that was taken back comes again as a bar that continues it,
which is also `HistoryKept`.

That `use` comes to its end is shown for a function on numbers of steps, whose
values are built one by one from a smallest step that has none (`StepsExist`,
`LeastOne`). Without a hole in a day every interval yields once for each bar, at one
time for all, so `use` goes through the intervals once and evaluates once
(`UsedOnce`); a bar of the feeder never spans two bars of an interval
(`Unspanned`) and always finds an open (`FindsOpen`), so an interval takes every bar that is not early
(`IntervalAllows`). The first early bar is the first of its day, for one that came
before on that day would have been early too; it starts the composer anew, which
refuses it (`IntervalRefuses`). The two are `RaisesOnlyEarly`.

Only model-checked: every liveness property, which is out of the prover's reach,
and nothing else that a run checks.

## 6. Not modelled

* The console market in the base class `Market` (`market.py:1097-1376`), partial
  fills (only it can make them), `stop_limit` orders (the virtual market has no
  handler for them), entries started at a time.
* `MarketDataLog`, prices, values and profit.
* Several markets in one trader; `current_value_of_request`.
* In the generic server: raw data clients and the registration of request
  libraries. In the TWS client: ticks, account and portfolio updates, contract
  details and executions, which the dispatcher files as they come, and the
  encoding of messages. The client is one program thread beside the dispatcher.
* `tws_orders_gscLib.py`: its only request uses a name that is never bound
  (`tws_orders_gscLib.py:17-28`), so nothing of it can run.
* The alarm server's listing requests, which only read.
* In `CorseTrader`, prices, profit and the reports.
* Real time bars that the program asked to write to a file
  (`TWSClientServerMessages.py:369-371`): nobody reads them from the request.
* In `BarComposer`, high, low, volume, counts and averages, which are sums over
  `parts`; `_add_bars` also sets volumes that are missing to 1. Ticks, whose
  composer is not implemented, and feeders of files. `DBFContinuedWithLiveDBF`,
  the same switch without a composer.
* In `MultiInterval`, what the studies compute. Intervals of other types than bars
  take no bars in the code either (`multiinterval.py:368-371`).
* Parsing, plots, data bases, console programs and the numerical studies, whose
  results are what the systems decide from; the older generations of programs.

## 7. Plan

1. `RealTimeBars` under `BarFeed`: the composition of dispatcher, feed and
   subscribers in one module.
2. Several kinds of bars in `BarFeed`; `DBFContinuedWithLiveDBF`.
