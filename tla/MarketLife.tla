------------------------------ MODULE MarketLife ------------------------------
(***************************************************************************)
(* The order book of module Market implements GroupLife: the phase of a    *)
(* group is read off its OrderInfos.                                       *)
(***************************************************************************)
EXTENDS MarketInv

FullPosition == [r \in Requests |-> Signed(<<r, "enter">>)]

PhaseOf(r) ==
  IF \E o \in children(r) : filled[o] THEN "closed"
  ELSE IF filled[<<r, "enter">>] THEN "open"
  ELSE CASE place[<<r, "enter">>] = "absent"   -> "none"
         [] place[<<r, "enter">>] = "finished" -> "withdrawn"
         [] OTHER                              -> "working"

Life == INSTANCE GroupLife
          WITH full  <- FullPosition,
               phase <- [r \in Requests |-> PhaseOf(r)],
               held  <- [r \in Requests |-> positions_in_group(size, r)]

(* Every step of the order book is a step in the life of its groups: a     *)
(* position is opened whole by its entry, closed whole by one exit, never  *)
(* reopened, and an entry that was withdrawn never trades.                 *)
ImplementsGroupLife == Life!Spec
=============================================================================
