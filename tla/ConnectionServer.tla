-------------------------- MODULE ConnectionServer --------------------------
(***************************************************************************)
(* The requests that open, close and check the one connection of a server  *)
(* with the gateway (tws_client_connection_gscLib.py).  Each request runs  *)
(* on a thread of its own; nothing is locked.  A connection asks the       *)
(* gateway for the time over its socket and gets the answers from a queue  *)
(* all threads share (TWSClient.py: req_current_time).                     *)
(***************************************************************************)
EXTENDS Naturals

CONSTANTS
  Requesters,                     \* each asks for one thing after another
  MaxConnections,              \* bound on the connections made
  MaxTimes                     \* a check starts with fewer requests in flight

ASSUME ConnectionAssumption == MaxConnections \in Nat /\ MaxTimes \in Nat

TWSConnections == 1..MaxConnections

VARIABLES
  tws_connection, \* the attribute of the namespace, 0 without one
  connection,     \* state of each connection
  asked, times,   \* its time requests and the answers in its queue
  made,           \* connections made so far
  pc, conn,       \* where a handler is, and the connection it works with
  disturbed,      \* history: the handlers since whose look at the server's
                  \*   connection another handler has set or deleted it,
  lost,           \*   the connections such a handler overwrote or deleted,
  robbed          \*   and the checks that wait for an answer while another
                  \*   check has taken one from their queue

conns == <<connection, made>>
clock == <<asked, times>>
races == <<disturbed, lost>>
connectionVars == <<tws_connection, conns, clock, pc, conn, races, robbed>>

ConnectionInit ==
  /\ tws_connection = 0 /\ made = 0
  /\ connection = [k \in TWSConnections |-> "none"]
  /\ asked = [k \in TWSConnections |-> 0] /\ times = [k \in TWSConnections |-> 0]
  /\ pc = [c \in Requesters |-> "idle"] /\ conn = [c \in Requesters |-> 0]
  /\ disturbed = {} /\ lost = {} /\ robbed = {}

Go(c, from, to) == pc[c] = from /\ pc' = [pc EXCEPT ![c] = to]
With(c, k) == conn' = [conn EXCEPT ![c] = k]

(* A handler begins, and ends with the answer r, which leaves no state.    *)
Asks(c, first) == Go(c, "idle", first) /\ UNCHANGED conn
Returns(c, from, r) == Go(c, from, "idle") /\ With(c, 0)

-----------------------------------------------------------------------------
(* Client c changes the connection of the server: handlers that looked at  *)
(* it before work on with what they saw.                                   *)
Registered == {n \in TWSConnections : n = tws_connection /\ connection[n] = "open"}
Registers(c, k) ==
  /\ tws_connection' = k
  /\ disturbed' = (disturbed \ {c}) \union {d \in Requesters \ {c} : pc[d] \in {"alive", "delete"}}
  /\ lost' = IF c \in disturbed THEN lost \union Registered ELSE lost

-----------------------------------------------------------------------------
(* open_connection_with_tws_server.                                        *)

open_request(c) == Asks(c, "check") /\ UNCHANGED <<tws_connection, conns, clock, races, robbed>>

(* With a connection the log line names a client_id that was never bound.  *)
already_open(c) ==
  /\ tws_connection # 0 /\ Returns(c, "check", "UnboundLocalError")
  /\ UNCHANGED <<tws_connection, conns, clock, races, robbed>>

(* TWSconnection.__init__ connects, starts its processes and sleeps; the   *)
(* gateway may not be there, which the handler tells its client.           *)
connect(c) ==
  /\ tws_connection = 0 /\ made < MaxConnections /\ Go(c, "check", "alive")
  /\ made' = made + 1 /\ With(c, made')
  /\ connection' = [connection EXCEPT ![made'] = "open"]
  /\ UNCHANGED <<tws_connection, clock, races, robbed>>
connect_fails(c) ==
  /\ tws_connection = 0 /\ Returns(c, "check", "ConnectingError")
  /\ UNCHANGED <<tws_connection, conns, clock, races, robbed>>

connected_to_gateway(c) ==
  /\ Returns(c, "alive", "connected") /\ Registers(c, conn[c])
  /\ UNCHANGED <<conns, clock, robbed>>

(* A gateway that refuses the client id does not tell the time: the        *)
(* connection is closed and an exception raised whose name is misspelled.  *)
refused_by_gateway_Open(c) ==
  /\ Returns(c, "alive", "NameError") /\ disturbed' = disturbed \ {c}
  /\ UNCHANGED <<tws_connection, conns, clock, lost, robbed>>
refused_by_gateway(c) ==
  /\ Returns(c, "alive", "NameError") /\ disturbed' = disturbed \ {c}
  /\ connection' = [connection EXCEPT ![conn[c]] = "closed"]
  /\ UNCHANGED <<tws_connection, clock, made, lost, robbed>>

-----------------------------------------------------------------------------
(* close_tws_connection: disconnects and then deletes the attribute.       *)

close_request(c) == Asks(c, "disconnect") /\ UNCHANGED <<tws_connection, conns, clock, races, robbed>>

disconnect(c) ==
  /\ IF tws_connection = 0
       THEN Returns(c, "disconnect", "AttributeError") /\ UNCHANGED connection
       ELSE /\ Go(c, "disconnect", "delete") /\ UNCHANGED conn
            /\ connection' = [connection EXCEPT ![tws_connection] = "closed"]
  /\ UNCHANGED <<tws_connection, clock, made, races, robbed>>

delete(c) ==
  /\ Returns(c, "delete", IF tws_connection = 0 THEN "AttributeError" ELSE "True")
  /\ Registers(c, 0)
  /\ UNCHANGED <<conns, clock, robbed>>

-----------------------------------------------------------------------------
(* tws_server_is_responsive, which asks for the time: it empties the       *)
(* queue, sends, and waits for an answer.                                  *)

responsive_request(c) ==
  /\ \A k \in TWSConnections : asked[k] + times[k] < MaxTimes
  /\ IF tws_connection = 0 THEN Returns(c, "idle", "False") ELSE Asks(c, "is_alive")
  /\ UNCHANGED <<tws_connection, conns, clock, races, robbed>>

(* The attribute is read again, and the connection looked at.              *)
is_alive(c) ==
  /\ IF tws_connection = 0 THEN Returns(c, "is_alive", "AttributeError")
     ELSE IF connection[tws_connection] = "closed" THEN Returns(c, "is_alive", "NoConnection")
     ELSE Go(c, "is_alive", "empty") /\ With(c, tws_connection)
  /\ UNCHANGED <<tws_connection, conns, clock, races, robbed>>

queue_not_empty(c) ==
  /\ Go(c, "empty", "take") /\ times[conn[c]] > 0
  /\ UNCHANGED <<tws_connection, conns, clock, conn, races, robbed>>

(* Client c takes an answer that others who wait may have been meant to.   *)
Takes(c) ==
  /\ times[conn[c]] > 0 /\ times' = [times EXCEPT ![conn[c]] = @ - 1]
  /\ robbed' = (robbed \ {c})
       \union {d \in Requesters \ {c} : pc[d] \in {"take", "get"} /\ conn[d] = conn[c]}
take_old_Peeks(c) ==
  /\ Go(c, "take", "empty") /\ times[conn[c]] > 0
  /\ UNCHANGED <<tws_connection, conns, clock, conn, races, robbed>>
take_old(c) ==
  /\ Go(c, "take", "empty") /\ Takes(c)
  /\ UNCHANGED <<tws_connection, conns, asked, conn, races>>

(* A connection closed by now fails at the socket.                         *)
send_time_request_Drops(c) ==
  /\ pc[c] = "empty" /\ times[conn[c]] = 0
  /\ IF connection[conn[c]] = "closed" THEN Returns(c, "empty", "OSError") /\ UNCHANGED asked
     ELSE /\ Go(c, "empty", "get") /\ UNCHANGED conn
          /\ asked' = [asked EXCEPT ![conn[c]] = 0]
  /\ UNCHANGED <<tws_connection, conns, times, races, robbed>>
send_time_request(c) ==
  /\ pc[c] = "empty" /\ times[conn[c]] = 0
  /\ IF connection[conn[c]] = "closed" THEN Returns(c, "empty", "OSError") /\ UNCHANGED asked
     ELSE /\ Go(c, "empty", "get") /\ UNCHANGED conn
          /\ asked' = [asked EXCEPT ![conn[c]] = @ + 1]
  /\ UNCHANGED <<tws_connection, conns, times, races, robbed>>

get_time(c) ==
  /\ Returns(c, "get", "True") /\ Takes(c)
  /\ UNCHANGED <<tws_connection, conns, asked, races>>

time_out(c) ==
  /\ Returns(c, "get", "False") /\ times[conn[c]] = 0 /\ robbed' = robbed \ {c}
  /\ UNCHANGED <<tws_connection, conns, clock, races>>

(* The gateway and the dispatcher process.                                 *)
handle_current_time(k) ==
  /\ connection[k] = "open" /\ asked[k] > 0
  /\ asked' = [asked EXCEPT ![k] = @ - 1] /\ times' = [times EXCEPT ![k] = @ + 1]
  /\ UNCHANGED <<tws_connection, conns, pc, conn, races, robbed>>

-----------------------------------------------------------------------------
Opening(c) ==
  already_open(c) \/ connect(c) \/ connect_fails(c) \/ connected_to_gateway(c) \/ refused_by_gateway(c)
Closing(c) == disconnect(c) \/ delete(c)
Checking(c) == is_alive(c) \/ queue_not_empty(c) \/ take_old(c) \/ send_time_request(c) \/ get_time(c) \/ time_out(c)

ConnectionNext ==
  \/ \E c \in Requesters : \/ open_request(c) \/ close_request(c) \/ responsive_request(c)
                        \/ Opening(c) \/ Closing(c) \/ Checking(c)
  \/ \E k \in TWSConnections : handle_current_time(k)

(* Threads run, and a wait with a time limit ends.                         *)
ConnectionFairness == \A c \in Requesters : WF_connectionVars(Opening(c) \/ Closing(c) \/ Checking(c))
ConnectionSpec == ConnectionInit /\ [][ConnectionNext]_connectionVars
FairConnectionSpec == ConnectionSpec /\ ConnectionFairness

-----------------------------------------------------------------------------
(* Type invariant.                                                         *)
Places == {"idle", "check", "alive", "disconnect", "delete", "is_alive", "empty", "take", "get"}
ConnectionTypeOK ==
  /\ tws_connection \in 0..made /\ made \in 0..MaxConnections
  /\ connection \in [TWSConnections -> {"none", "open", "closed"}]
  /\ \A k \in TWSConnections : (connection[k] = "none") = (k > made)
  /\ asked \in [TWSConnections -> Nat] /\ times \in [TWSConnections -> Nat]
  /\ pc \in [Requesters -> Places]
  /\ conn \in [Requesters -> 0..MaxConnections] /\ \A c \in Requesters : conn[c] <= made
  /\ disturbed \subseteq Requesters /\ lost \subseteq TWSConnections /\ robbed \subseteq Requesters

(* An open connection is the server's, or one a request is still making    *)
(* ("tws_connection: server, the handle for the tws connection",           *)
(* tws_client_connection_gscLib.py:17), or it was lost by a handler that   *)
(* was disturbed: handlers that open and close leak nothing unless another *)
(* one sets or deletes the server's connection while they are at it.       *)
Leaked(k) == connection[k] = "open" /\ k # tws_connection
             /\ ~\E c \in Requesters : pc[c] = "alive" /\ conn[c] = k
OnlyRacesLeak == \A k \in TWSConnections : Leaked(k) => k \in lost

(* The connection others are told about is open, unless it is being closed, *)
(* in every race.                                                           *)
RegisteredIsOpen == tws_connection # 0 =>
  connection[tws_connection] = "open" \/ \E c \in Requesters : pc[c] = "delete"

(* Where a handler is says what it knows of its connection: the one that   *)
(* opens has one of its own, and the server has none; the one that deletes *)
(* has closed the server's, unless they were disturbed.                    *)
HandlersFit ==
  /\ \A c \in Requesters : pc[c] = "alive" =>
       /\ conn[c] # 0 /\ connection[conn[c]] = "open" /\ conn[c] # tws_connection
       /\ \A d \in Requesters : pc[d] = "alive" /\ conn[d] = conn[c] => d = c
       /\ c \notin disturbed => tws_connection = 0
  /\ \A c \in Requesters : pc[c] = "delete" /\ c \notin disturbed =>
       tws_connection # 0 /\ connection[tws_connection] = "closed"

(* The handle the server shares and the connections there are agree.       *)
ConnectionInv == ConnectionTypeOK /\ OnlyRacesLeak /\ RegisteredIsOpen /\ HandlersFit

(* "False: tws server is not responding in time"                           *)
(* (tws_client_connection_gscLib.py:153): it has not answered what it was  *)
(* asked, or another check has taken an answer while this one waited.      *)
FalseMeansSilence == [][\A c \in Requesters : time_out(c) =>
  connection[conn[c]] = "closed" \/ asked[conn[c]] > 0 \/ c \in robbed]_connectionVars

(* A check returns, once the others do not ask again and again, unless     *)
(* another check takes the answer it has seen in the queue.                *)
OthersWait(c) == \A d \in Requesters \ {c} : pc[d] # "empty"
ChecksReturn == \A c \in Requesters :
  <>[]OthersWait(c) => ((pc[c] # "idle") ~> (pc[c] = "idle" \/ c \in robbed))

-----------------------------------------------------------------------------
(* What the documentation says and the code does not do (see README.md).   *)

(* "'connected': tws server is connected / TWSClient.ConnectingError:      *)
(* connection failed" (docstring, tws_client_connection_gscLib.py:39-40).  *)
OpenReturnsAsDocumented ==
  [][~\E c \in Requesters : already_open(c) \/ refused_by_gateway(c)]_connectionVars

(* "Removing messegas that came to late" (TWSClient.py:204): an answer that *)
(* was seen in the queue is there to be removed; get waits without a limit. *)
RemovedIsThere == \A c \in Requesters : pc[c] = "take" => times[conn[c]] > 0
=============================================================================
