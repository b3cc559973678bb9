---------------------------- MODULE TraderSafety ----------------------------
(***************************************************************************)
(* The inductive invariant behind the safety properties of module Trader,  *)
(* for requests that are armed with a manager that waits for an exit.      *)
(***************************************************************************)
EXTENDS Trader, MarketInv

Entry(r) == <<r, "enter">>

(* The group has traded or withdrawn its entry, and holds nothing.         *)
Over(r) == stopped[Entry(r)] /\ positions_in_group(size, r) = 0

(* The strategies of a request arm a manager that waits for an exit: there *)
(* is more than an end-of-day order (see NoErroneousRequest).              *)
ClosedByTrader == \A g \in Groups : Range(g.kids) \intersect {"cos", "stop", "trail"} # {}

(* Managers that are dropped when an exit has ended.                       *)
Watchers == {"exit_1", "exit_2", "trail_1", "trail_2", "trail_3", "cos"}

Sending  == tpc \in {"sending", "sent"}
Managing == tpc \in {"managers", "asked", "asked2", "changing"}

(* An exit is only withdrawn from a group that is over.                    *)
ExitsLapse == \A o \in Orders : IsExit(o) /\ ~until[o] => Over(Req(o))

(* The market knows the orders of the requests on the lists, and of the    *)
(* one that is being sent.                                                 *)
Known ==
  /\ Sending => cur \in Requests /\ where[cur] = "none"
  /\ \A r \in Requests :
       place[Entry(r)] \in
         IF Sending /\ r = cur
           THEN IF tpc = "sent" /\ pc = "idle" /\ Running THEN {"active"} ELSE {"new"}
         ELSE IF where[r] = "none" THEN {"absent"} ELSE {"active", "finished"}

(* The market is never ahead of the trader, who waits while it works.      *)
InTime ==
  /\ env_time \in (0..MaxTime) \union {None}
  /\ last_market_sync_time <= IF env_time = None THEN 0 ELSE env_time
  /\ tpc # "idle" => env_time # None
  /\ pc # "idle" => target = env_time /\ tpc \in {"sent", "asked", "asked2", "changing", "filing"}
  /\ pc # "idle" => call = CASE tpc = "sent" -> "activate" [] tpc = "changing" -> "change"
                             [] OTHER -> "report"
  /\ pc = "bar" => gray_bar_end <= target
  /\ pc = "return" => call # "report"

(* The pass works on active requests; only one that is over is filed.      *)
Working ==
  /\ Managing \/ tpc = "filing" => cur \in Active
  /\ tpc \in {"asked", "asked2", "changing"} => queue # <<>>
  /\ tpc = "asked2" => Head(queue) \in {"exit_2", "trail_2", "trail_3"}
  /\ tpc = "changing" => Head(queue) = "trail_3"
  /\ todo \subseteq Active
  /\ tpc = "filing" => todo = {} /\ Over(cur)

(* An active request that is not over has a manager that waits for its exit. *)
Watched(r, ms) == Over(r) \/ Range(ms) \intersect Watchers # {}
Watching ==
  /\ \A r \in Active : Watched(r, managers[r])
  /\ Managing => Watched(cur, kept) \/ Watched(cur, queue)
  /\ tpc = "asked2" /\ noted => Over(cur)

(* A manager of a trail has one, and goes on once the entry is filled.     *)
Trailed(r, ms) ==
  /\ Range(ms) \intersect {"trail_1", "trail_2", "trail_3"} # {} => <<r, "trail">> \in Members(r)
  /\ Range(ms) \intersect {"trail_2", "trail_3"} # {} => filled[Entry(r)]
Trailing ==
  /\ \A r \in Active : Trailed(r, managers[r])
  /\ Managing => Trailed(cur, kept) /\ Trailed(cur, queue)

(* After a report every exit that works has a position to close; so has    *)
(* the trail that is moved, while the market does not move.                *)
Moving ==
  /\ tpc = "asked2" /\ pc = "idle" /\ Running =>
       /\ last_market_sync_time = env_time
       /\ \A o \in Orders : IsExit(o) /\ place[o] = "active" /\ filled[Parent(o)] =>
            positions_in_group(size, Req(o)) # 0
  /\ tpc = "changing" =>
       pc # "bar" /\ last_market_sync_time = env_time /\ positions_in_group(size, cur) # 0

(* What the lists of filed requests say.                                   *)
Filed ==
  \A r \in Requests :
    /\ where[r] \in {"unfilled", "finished"} => Over(r)
    /\ where[r] = "finished" => filled[Entry(r)]
    /\ where[r] = "unfilled" => ~filled[Entry(r)]

(* The safety invariant of the trader: what it is doing, what it watches   *)
(* and what it never files.                                                *)
TraderInv ==
  /\ TraderTypeOK /\ ExitsLapse
  /\ InTime /\ Known /\ Working /\ Watching /\ Trailing /\ Moving /\ Filed
  /\ NoErroneousRequest /\ PositionIsWatched
=============================================================================
