------------------------------ MODULE MarketInv ------------------------------
(***************************************************************************)
(* The inductive invariant behind the safety properties of module Market,  *)
(* for close orders that close the whole position (Percent = 100, the only *)
(* value the strategies use).                                              *)
(***************************************************************************)
EXTENDS Market

IsExit(o)     == Kind(o) # "enter"
StartsWithParent(o) == Kind(o) \in {"profit", "stop", "trail"}

(* Where an order is, and what its OrderInfo and its until say.            *)
Placed ==
  \A o \in Orders :
    /\ stopped[o] <=> place[o] = "finished"
    /\ filled[o] => place[o] = "finished"
    /\ place[o] = "finished" => filled[o] \/ ~until[o]
    /\ place[o] # "absent" => o \in Members(Req(o))

(* A group is sent, and activated, as a whole.                             *)
Together ==
  \A r \in Requests : \A o, p \in Members(r) :
    /\ place[o] = "absent" => place[p] = "absent"
    /\ place[o] = "new" => place[p] = "new"

Signed(o) == IF Action(o) = "buy" THEN OrderSize ELSE -OrderSize

(* Every fill is for the whole size.                                       *)
Sized == \A o \in Orders : size[o] = IF filled[o] THEN Signed(o) ELSE 0

EntryFirst == \A o \in Orders : filled[o] => filled[Parent(o)]

(* An exit that filled has withdrawn the other exits of its group, those   *)
(* of the same bar included.                                               *)
OneExit ==
  \A o, p \in Orders :
    Req(o) = Req(p) /\ IsExit(o) /\ IsExit(p) /\ o # p /\ filled[o] =>
      ~filled[p] /\ (place[p] = "absent" \/ ~until[p])

(* An order the market still has to look at has not been filled.           *)
ScanOK ==
  pc = "bar" =>
    \A o \in scan : ~filled[o] /\ place[o] \in {"active", "finished"}

(* Stops, trails and profit takers start once the entry is filled, and one *)
(* that works in this bar had its entry filled in an earlier one.          *)
StartOK ==
  \A o \in Orders :
    start[o] /\ StartsWithParent(o) =>
      /\ filled[Parent(o)]
      /\ pc = "bar" /\ o \in scan => filled_at[Parent(o)] < last_market_sync_time

HistoryOK ==
  \A o \in Orders :
    filled[o] =>
      /\ filled_at[o] <= last_market_sync_time
      /\ pc # "bar" => filled_at[o] < last_market_sync_time

MarketInv ==
  /\ Placed
  /\ Together
  /\ Sized
  /\ EntryFirst
  /\ OneExit
  /\ ScanOK
  /\ StartOK
  /\ HistoryOK
  /\ GrayBarAhead
  /\ NothingLeftAfterExit
  /\ ExitInLaterBar
  /\ NoFillRejected
=============================================================================
