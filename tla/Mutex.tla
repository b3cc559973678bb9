-------------------------------- MODULE Mutex --------------------------------
(***************************************************************************)
(* What a user of the lock server is promised: a named lock has at most    *)
(* one owner, and it passes from one owner to the next only through free.  *)
(***************************************************************************)
CONSTANTS Clients, Names, Nobody

VARIABLE owner   \* owner[n]: the client inside the with block of lock n

Init == owner = [n \in Names |-> Nobody]

Lock(c, n) ==
  /\ owner[n] = Nobody
  /\ owner' = [owner EXCEPT ![n] = c]

Unlock(c, n) ==
  /\ owner[n] = c
  /\ owner' = [owner EXCEPT ![n] = Nobody]

Next == \E c \in Clients, n \in Names : Lock(c, n) \/ Unlock(c, n)

Spec == Init /\ [][Next]_owner
==============================================================================
