-------------------------- MODULE HistoricDownload --------------------------
(***************************************************************************)
(* Downloads (HistoricData) whose requests are paced (HistoricPacing): the *)
(* loop of historical_data asks the manager of its TWS client before every *)
(* request, and the request is noted when it has been sent.                *)
(***************************************************************************)
EXTENDS HistoricData

CONSTANTS Limit, Window, Spacing, DayLength, Patience, Pause

VARIABLES now, sended_requests, at, wake, log

P == INSTANCE HistoricPacing WITH pc <- at, Day <- DayLength

ASSUME PacingAssumption == P!PacingAssumption

pacingVars == <<now, sended_requests, at, wake, log>>
allVars    == <<vars, pacingVars>>

DownloadInit == Init /\ P!Init

(* The manager is asked by a loop that goes on.                            *)
request_allowed_check ==
  /\ pc = "loop" /\ end > start
  /\ P!remove_outdated_data \/ P!request_allowed \/ P!sleep
  /\ UNCHANGED vars

send_request_Unpaced ==
  /\ req_historical_data
  /\ at \in (IF error = "none" THEN {"send"} ELSE {"idle"}) /\ at' = "answer"
  /\ sended_requests' = P!noted(sended_requests) /\ log' = P!LastOf(P!noted(log), Limit + 1)
  /\ now' = 0 /\ wake' = 0
send_request == req_historical_data /\ P!request_sended

(* The answer, a pack or an error, is read.                                *)
read_answer ==
  /\ pack_received \/ pacing_violation \/ exceeded_max_lookback
       \/ query_returned_no_data \/ request_error
  /\ P!get_historical_request_data

Unpaced ==
  /\ historical_data_to_db \/ insert_records \/ loop_ends
       \/ handle_historical_data \/ data_ready \/ handle_error
  /\ UNCHANGED pacingVars

(* Time passes while the program sleeps, waits for the gateway, is slow,   *)
(* or between downloads.                                                   *)
tick ==
  /\ \/ at = "sleep" /\ P!tick(wake)
     \/ at \in {"count", "answer"} /\ P!tick(Patience)
     \/ pc = "idle" /\ log # <<>> /\ P!tick(Pause)
  /\ UNCHANGED vars

DownloadNext == request_allowed_check \/ send_request \/ read_answer \/ Unpaced \/ tick

(* The program goes on, the gateway answers, and time passes.              *)
DownloadSpec ==
  /\ DownloadInit /\ [][DownloadNext]_allVars
  /\ WF_allVars(request_allowed_check \/ send_request \/ read_answer) /\ WF_allVars(Unpaced)
  /\ WF_allVars(tick)

-----------------------------------------------------------------------------
(* Type invariant of both.                                                 *)
DownloadTypeOK == TypeOK /\ P!TypeOK

(* The packs of a download fit together, however the requests were cut,    *)
(* paced and repeated: received in order and none twice, and the database   *)
(* they fill has no hole larger than one bar but where an update met a      *)
(* market that was closed, the end of the look back or an error, and        *)
(* returned early (historical_data and its writers).                       *)
PacksFit == DownloadTypeOK /\ InOrder /\ DbHolesAreOneBar

(* "no more than 60 requests in 10 minutes" (tws.py:450-451): any Limit    *)
(* requests and the next take a whole window, over packs, retries after    *)
(* errors and downloads that follow each other.                            *)
WindowLimit == P!WindowLimit

(* The manager never remembers so many requests that its test for exactly  *)
(* Limit - 1 is stepped over and the limit forgotten.                      *)
LimitNotSkipped == P!LimitNotSkipped

(* The pacing the manager promises its callers (tws.py:445-451).           *)
PacingKept == WindowLimit /\ LimitNotSkipped

(* A download whose lengths are in days ends, however it is paced, for the  *)
(* packs get older or smaller, if the gateway does not go on refusing it    *)
(* ("returns a list of HistoricalData tuples", docstring of                 *)
(* historical_data, historicaldata_new.py:134).                             *)
PacedDownloadEnds == (pc = "loop") ~> (pc \in {"done", "idle", "failed"})

-----------------------------------------------------------------------------
(* What the documentation says and the code does not do (see README.md):   *)
(* "waits for 2 seconds between 2 consecutive requests" (tws.py:449-450).  *)
SpacingKept == P!SpacingKept
=============================================================================
