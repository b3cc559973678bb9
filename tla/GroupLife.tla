------------------------------ MODULE GroupLife ------------------------------
(***************************************************************************)
(* What the order book promises of a group of orders, whatever exits it    *)
(* has: the entry works until it is filled or withdrawn, a fill opens the  *)
(* whole position, one fill closes it, and that is the end of it.  One     *)
(* step of the market may withdraw many entries but trades in one group.   *)
(***************************************************************************)
EXTENDS Integers

CONSTANT Requests

VARIABLES
  full,    \* the position each group takes when its entry fills
  phase,   \* what became of the group
  held     \* the position it holds

lifeVars == <<full, phase, held>>

Phases == {"none", "working", "open", "closed", "withdrawn"}

Init ==
  /\ full \in [Requests -> Int \ {0}]
  /\ phase = [r \in Requests |-> "none"]
  /\ held = [r \in Requests |-> 0]

Goes(r, from, to, position) ==
  phase[r] = from /\ phase'[r] = to /\ held'[r] = position

Sent(r)      == Goes(r, "none", "working", 0)
Opened(r)    == Goes(r, "working", "open", full[r])
Closed(r)    == Goes(r, "open", "closed", 0)
Withdrawn(r) == Goes(r, "working", "withdrawn", 0)
Rests(r)     == Goes(r, phase[r], phase[r], held[r])

Next ==
  /\ full' = full
  /\ phase' \in [Requests -> Phases] /\ held' \in [Requests -> Int]
  /\ \A r \in Requests :
       Sent(r) \/ Opened(r) \/ Closed(r) \/ Withdrawn(r) \/ Rests(r)
  /\ \A r, q \in Requests : held'[r] # held[r] /\ held'[q] # held[q] => r = q

Spec == Init /\ [][Next]_lifeVars
=============================================================================
