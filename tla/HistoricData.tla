---------------------------- MODULE HistoricData ----------------------------
(***************************************************************************)
(* Downloading historic bars (historicaldata_new.py): historical_data asks *)
(* the TWS client for packs of bars, from the end of the interval back to  *)
(* its start, and historical_data_to_db files them.  The request has a     *)
(* status the dispatcher process keeps (TWSClientServerMessages.py).       *)
(* Bars start at even times and last 2; 1 is less than a bar.              *)
(***************************************************************************)
EXTENDS Integers, Sequences, FiniteSets

CONSTANTS
  Bars,       \* start times of the bars of the market
  Ends,       \* ends of the intervals asked for, in the order of the calls
  First,      \* start of the first interval
  Big, Small, \* lengths of a pack: the usual one and the reduced one
  Lookback,   \* the gateway has nothing before this time
  LastDay,    \* times of the day of max_historical_date
  MaxPacing,  \* bound on pacing violations
  MayFail,    \* whether the gateway may answer with another error
  Verbose,    \* values of verbose: whether the user is asked
  Seconds     \* whether the lengths are in seconds, not in days

ASSUME DataAssumption ==
  /\ Bars \subseteq Nat /\ IsFiniteSet(Bars) /\ \A b \in Bars : b % 2 = 0
  /\ Ends \in Seq(Nat) /\ First \in Nat /\ Big \in Nat /\ Small \in Nat /\ 0 < Small /\ Small < Big
  /\ Lookback \in Nat /\ LastDay \subseteq Nat /\ MaxPacing \in Nat
  /\ MayFail \in BOOLEAN /\ Verbose \subseteq BOOLEAN /\ Seconds \in BOOLEAN

None == 0   \* the size when it cannot be reduced any more
Day == 2 * Big  \* one day, for lengths in seconds

VARIABLES
  pc,         \* "idle", "loop", "wait", "done", "failed"
  start, end, \* start_time and end_time
  verbose,
  size,       \* request_size, None when it cannot be reduced
  received,   \* received_data
  status,     \* status of the running request
  error,      \* the error it holds
  rows,       \* bars the dispatcher has collected for it
  db,         \* bars in the database
  calls,      \* downloads so far
  pacing,
  early       \* history: where downloads stopped before their start

requestVars == <<status, error, rows>>
vars == <<pc, start, end, verbose, size, received, requestVars, db, calls, pacing, early>>

SetMax(S) == CHOOSE x \in S : \A y \in S : x >= y
SetMin(S) == CHOOSE x \in S : \A y \in S : x <= y
Between(a, b) == {x \in Bars : a <= x /\ x < b}
Empty == <<>>
BarsOf(s) == {s[i] : i \in DOMAIN s}

(* The bars of a set in the order of their dates.                          *)
Sorted(S) == CHOOSE s \in [1..Cardinality(S) -> S] :
  \A i, j \in 1..Cardinality(S) : i < j => s[i] < s[j]

Init ==
  /\ pc = "idle" /\ start = 0 /\ end = 0 /\ verbose = FALSE /\ size = Big /\ received = Empty
  /\ status = "none" /\ error = "none" /\ rows = {}
  /\ db = {} /\ calls = 0 /\ pacing = 0 /\ early = {}

-----------------------------------------------------------------------------
(* historical_data_to_db: the first call fills the database, an update     *)
(* asks from the last entry on.                                            *)
historical_data_to_db ==
  /\ pc \in {"idle", "failed"} /\ calls < Len(Ends)
  /\ calls' = calls + 1
  /\ start' = IF db = {} THEN First ELSE SetMax(db)
  /\ end' = Ends[calls + 1]
  /\ pc' = IF start' > end' THEN "failed" ELSE "loop"
  /\ verbose' \in Verbose /\ size' = Big /\ received' = Empty
  /\ UNCHANGED <<requestVars, db, pacing, early>>

(* The table ignores a bar it already has.                                 *)
insert_records ==
  /\ pc = "done" /\ pc' = "idle"
  /\ db' = db \union BarsOf(received)
  /\ UNCHANGED <<start, end, verbose, size, received, requestVars, calls, pacing, early>>

-----------------------------------------------------------------------------
(* historical_data.                                                        *)

Return == pc' = "done" /\ UNCHANGED <<start, end, size>>
NextRound == pc' = "loop"

(* A download that returns now with bars has none from before its end.     *)
Stops(accepted) ==
  early' = IF pc' = "done" /\ received # Empty
             THEN early \union {[from |-> start, to |-> end', accepted |-> accepted]} ELSE early

loop_ends == pc = "loop" /\ end <= start /\ Return /\ UNCHANGED <<verbose, received, requestVars, db, calls, pacing, early>>

req_historical_data ==
  /\ pc = "loop" /\ end > start
  /\ pc' = "wait" /\ status' = "SENDED" /\ error' = "none" /\ rows' = {}
  /\ UNCHANGED <<start, end, verbose, size, received, db, calls, pacing, early>>

(* A finished request: the pack goes in front of what was received; the    *)
(* next one ends a bar and a second before it.                             *)
pack_received_Far ==
  /\ pc = "wait" /\ status = "FINISHED"
  /\ received' = Sorted(rows) \o received
  /\ end' = SetMin(rows) - 1 - Small
  /\ status' = "DATA REMOVED" /\ NextRound
  /\ UNCHANGED <<start, verbose, size, error, rows, db, calls, pacing, early>>
pack_received ==
  /\ pc = "wait" /\ status = "FINISHED"
  /\ received' = Sorted(rows) \o received
  /\ end' = SetMin(rows) - 1 - 2
  /\ status' = "DATA REMOVED" /\ NextRound
  /\ UNCHANGED <<start, verbose, size, error, rows, db, calls, pacing, early>>

(* Errors are read when the wait for the data times out.                   *)
Error(e) == pc = "wait" /\ status = "ERROR" /\ error = e /\ UNCHANGED <<verbose, requestVars, db, calls, pacing>>

(* Without data: done on the day of the greatest look back or when the     *)
(* size has reached nothing, else another request.                         *)
NoData ==
  /\ IF end' \in LastDay \/ size' = None THEN pc' = "done" ELSE NextRound
  /\ Stops(FALSE)

pacing_violation ==
  /\ Error("pacing violation")
  /\ UNCHANGED <<start, end, size, received>> /\ NoData

(* The size in seconds is never reduced to nothing.                        *)
reduce_request_size(s) == IF s = Big \/ Seconds THEN Small ELSE None
exceeded_max_lookback_Same ==
  /\ Error("exceeded max lookback")
  /\ UNCHANGED <<start, end, size, received>> /\ NoData
exceeded_max_lookback ==
  /\ Error("exceeded max lookback")
  /\ size' = reduce_request_size(size)
  /\ UNCHANGED <<start, end, received>> /\ NoData

(* Nothing found in the first pack: the user may want to look further back. *)
look_back_corr(s) == IF Seconds THEN Day ELSE s
query_returned_no_data ==
  /\ Error("no data")
  /\ \/ Return /\ Stops(FALSE)
     \/ /\ verbose /\ received = Empty
        /\ end' = end - look_back_corr(size)
        /\ UNCHANGED <<start, size>> /\ NoData
  /\ UNCHANGED received

(* Another error: the user may ask for a retry; without a user the answer  *)
(* is an unbound variable.                                                 *)
request_error ==
  /\ Error("error")
  /\ \/ ~verbose /\ pc' = "failed" /\ UNCHANGED <<start, end, size, early>>
     \/ verbose /\ Return /\ Stops(TRUE)
     \/ verbose /\ UNCHANGED <<start, end, size>> /\ NoData
  /\ UNCHANGED received

historical_data ==
  \/ loop_ends \/ req_historical_data \/ pack_received \/ pacing_violation
  \/ exceeded_max_lookback \/ query_returned_no_data \/ request_error

-----------------------------------------------------------------------------
(* The gateway and the dispatcher: rows, then READY; or an error.          *)

Pack == Between(end - size, end)

handle_historical_data ==
  /\ pc = "wait" /\ status = "SENDED" /\ end - size >= Lookback /\ Pack # {}
  /\ status' = "RECEIVING DATA" /\ rows' = Pack
  /\ UNCHANGED <<pc, start, end, verbose, size, received, error, db, calls, pacing, early>>

data_ready ==
  /\ pc = "wait" /\ status = "RECEIVING DATA"
  /\ status' = "FINISHED"
  /\ UNCHANGED <<pc, start, end, verbose, size, received, error, rows, db, calls, pacing, early>>

Fails(e) == status' = "ERROR" /\ error' = e
handle_error ==
  /\ pc = "wait" /\ status = "SENDED"
  /\ \/ end - size < Lookback /\ Fails("exceeded max lookback") /\ UNCHANGED pacing
     \/ end - size >= Lookback /\ Pack = {} /\ Fails("no data") /\ UNCHANGED pacing
     \/ pacing < MaxPacing /\ Fails("pacing violation") /\ pacing' = pacing + 1
     \/ MayFail /\ pacing < MaxPacing /\ Fails("error") /\ pacing' = pacing + 1
  /\ UNCHANGED <<pc, start, end, verbose, size, received, rows, db, calls, early>>

Next == historical_data_to_db \/ insert_records \/ historical_data
        \/ handle_historical_data \/ data_ready \/ handle_error

Spec == Init /\ [][Next]_vars

-----------------------------------------------------------------------------
(* Type invariant.                                                         *)
TypeOK ==
  /\ pc \in {"idle", "loop", "wait", "done", "failed"}
  /\ start \in Int /\ end \in Int /\ size \in {Big, Small, None}
  /\ received \in Seq(Bars) /\ rows \subseteq Bars /\ db \subseteq Bars
  /\ status \in {"none", "SENDED", "RECEIVING DATA", "FINISHED", "ERROR", "DATA REMOVED"}
  /\ (pc = "wait" => size # None) /\ calls \in 0..Len(Ends)
  /\ early \subseteq [from : Int, to : Int, accepted : BOOLEAN]

(* The packs fit together: the bars are received in order and none twice.  *)
InOrder == \A i, j \in DOMAIN received : i < j => received[i] < received[j]

(* The gateway has nothing before t: the market has been closed for as      *)
(* long as a pack, or t is where the look back ends.                       *)
NothingBefore(t) == Between(t - Small, t) = {} \/ t - Small < Lookback \/ t \in LastDay

(* A download stopped between the entry it goes back to and bar b, for one  *)
(* of these reasons or since the user accepted an error.                   *)
StoppedBefore(b) == \E e \in early : e.from < b /\ b < e.to /\ (e.accepted \/ NothingBefore(e.to))

(* As it is: the database has no larger hole than one bar but those where a *)
(* download stopped before it met the last entry.                          *)
DbHolesAreOneBar == db # {} =>
  \A b \in Between(SetMin(db), SetMax(db)) : {b, b + 2} \intersect db # {} \/ StoppedBefore(b)

-----------------------------------------------------------------------------
(* What the documentation says and the code does not do (see README.md).   *)

(* "requests the historical data and writes it into a db" (docstring of    *)
(* historical_data_to_db, historicaldata_new.py:301): what the market had  *)
(* between the database's first and last entries is in it.                 *)
DbIsComplete == db # {} => Between(SetMin(db), SetMax(db)) \subseteq db

(* "Update existing db (y/N)?" (historicaldata_new.py:102): a finished     *)
(* update meets the entries the database has, or more data would be        *)
(* missing from it than the one bar.                                       *)
UpdateMeetsDb == pc = "done" /\ ~(\E e \in early : e.accepted) /\ db # {} /\ Between(start + 4, Ends[calls]) # {}
  => received # Empty /\ received[1] <= start + 4
=============================================================================
