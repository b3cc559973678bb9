----------------------------- MODULE LockServer -----------------------------
(***************************************************************************)
(* The lock server of gsc_lock.py on the generic threaded server: one      *)
(* handler thread per connection, the table of locks of ManagedNamespace,  *)
(* and the clients that use GSC_Lock in a with statement.  A program that  *)
(* is started again is another connection.                                 *)
(***************************************************************************)
EXTENDS Naturals

CONSTANTS
  Connections,  \* each stands for the client program that opened it
  Names,        \* names of locks
  Unheld,       \* holder of a free lock
  MaxCrashes    \* bound on the clients that die

ASSUME LockAssumption == Unheld \notin Connections /\ MaxCrashes \in Nat

VARIABLES
  locks,      \* names in ManagedNamespace.__lock
  holder,     \* the handler that holds the threading.Lock of a name
  thread,     \* where the handler thread of a connection is
  client,     \* where the client program is
  name,       \* the lock the client asked for
  connected,  \* connections whose client end is open
  answer,     \* what the server has sent and the client not yet read
  serving,    \* "running"; "shutdown" once no connection is accepted;
              \* "stopped" once server_namespace is None too
  crashes     \* clients that have died

lockVars == <<locks, holder, thread, client, name, connected, answer, serving, crashes>>

HandlerStates == {"none", "start", "look", "add", "acquire", "send", "receive"}
ClientStates  == {"idle", "asked", "inside"}
LockAnswers   == {"none", "ok", "error"}
ServerStates  == {"running", "shutdown", "stopped"}

LockInit ==
  /\ locks = {}
  /\ holder = [n \in Names |-> Unheld]
  /\ thread = [c \in Connections |-> "none"]
  /\ client = [c \in Connections |-> "idle"]
  /\ name \in [Connections -> Names]
  /\ connected = {}
  /\ answer = [c \in Connections |-> "none"]
  /\ serving = "running" /\ crashes = 0

-----------------------------------------------------------------------------
(* The handler thread: get_server_lock's server function.                  *)

Handler(c, from, to) == thread[c] = from /\ thread' = [thread EXCEPT ![c] = to]

(* Sending to a connection the client has closed is lost or raises         *)
(* socket.error, which ends the handler as well.                           *)
SendTo(c, message) ==
  answer' = IF c \in connected THEN [answer EXCEPT ![c] = message] ELSE answer

(* _real_handler passes on the namespace as it is now: after stop_server   *)
(* it is None, the assertion of the server function fails, and the client  *)
(* gets the exception.                                                     *)
real_handler(c) ==
  /\ IF serving # "stopped"
     THEN Handler(c, "start", "look") /\ UNCHANGED answer
     ELSE Handler(c, "start", "none") /\ SendTo(c, "error")
  /\ UNCHANGED <<locks, holder, client, name, connected, serving, crashes>>

has_lock(c) ==
  /\ Handler(c, "look", IF name[c] \in locks THEN "acquire" ELSE "add")
  /\ UNCHANGED <<locks, holder, client, name, connected, answer, serving, crashes>>

add_lock_Replaces(c) ==
  /\ Handler(c, "add", "acquire")
  /\ locks' = locks \union {name[c]}
  /\ holder' = [holder EXCEPT ![name[c]] = Unheld]
  /\ UNCHANGED <<client, name, connected, answer, serving, crashes>>
add_lock(c) ==
  /\ name[c] \notin locks
  /\ Handler(c, "add", "acquire")
  /\ locks' = locks \union {name[c]}
  /\ UNCHANGED <<holder, client, name, connected, answer, serving, crashes>>

(* add_lock raises; the request handler sends the exception and ends.      *)
add_lock_raises(c) ==
  /\ name[c] \in locks
  /\ Handler(c, "add", "none")
  /\ SendTo(c, "error")
  /\ UNCHANGED <<locks, holder, client, name, connected, serving, crashes>>

acquire(c) ==
  /\ holder[name[c]] = Unheld
  /\ Handler(c, "acquire", "send")
  /\ holder' = [holder EXCEPT ![name[c]] = c]
  /\ UNCHANGED <<locks, client, name, connected, answer, serving, crashes>>

send_ok(c) ==
  /\ Handler(c, "send", "receive")
  /\ SendTo(c, "ok")
  /\ UNCHANGED <<locks, holder, client, name, connected, serving, crashes>>

(* receive() returns or raises once the client end is closed.              *)
release_Eager(c) ==
  /\ Handler(c, "receive", "none")
  /\ holder' = [holder EXCEPT ![name[c]] = Unheld]
  /\ UNCHANGED <<locks, client, name, connected, answer, serving, crashes>>
release_Kept(c) ==
  /\ c \notin connected
  /\ Handler(c, "receive", "none")
  /\ UNCHANGED <<locks, holder, client, name, connected, answer, serving, crashes>>
release(c) ==
  /\ c \notin connected
  /\ Handler(c, "receive", "none")
  /\ holder' = [holder EXCEPT ![name[c]] = Unheld]
  /\ UNCHANGED <<locks, client, name, connected, answer, serving, crashes>>

ThreadStep(c) ==
  \/ real_handler(c) \/ has_lock(c) \/ add_lock(c) \/ add_lock_raises(c)
  \/ acquire(c) \/ send_ok(c) \/ release(c)

-----------------------------------------------------------------------------
(* The client: GSC_Lock.__call__ and the context manager it returns.       *)

(* A connection made after stop_server is queued by the system and never   *)
(* accepted: shutdown() leaves the listening socket open.                  *)
ask(c, n) ==
  /\ client[c] = "idle" /\ thread[c] = "none"
  /\ client' = [client EXCEPT ![c] = "asked"]
  /\ name' = [name EXCEPT ![c] = n]
  /\ connected' = connected \union {c}
  /\ thread' = [thread EXCEPT ![c] = IF serving = "running" THEN "start" ELSE "none"]
  /\ UNCHANGED <<locks, holder, answer, serving, crashes>>

enter(c) ==
  /\ client[c] = "asked" /\ answer[c] = "ok"
  /\ client' = [client EXCEPT ![c] = "inside"]
  /\ answer' = [answer EXCEPT ![c] = "none"]
  /\ UNCHANGED <<locks, holder, thread, name, connected, serving, crashes>>

Close(c) ==
  /\ client' = [client EXCEPT ![c] = "idle"]
  /\ answer' = [answer EXCEPT ![c] = "none"]
  /\ connected' = connected \ {c}

(* The answer is an exception: _open_client_for_request closes and raises. *)
refused(c) ==
  /\ client[c] = "asked" /\ answer[c] = "error"
  /\ Close(c)
  /\ UNCHANGED <<locks, holder, thread, name, serving, crashes>>

leave(c) ==
  /\ client[c] = "inside"
  /\ Close(c)
  /\ UNCHANGED <<locks, holder, thread, name, serving, crashes>>

(* The client program dies; the system closes its end of the connection.   *)
crash(c) ==
  /\ client[c] # "idle" /\ crashes < MaxCrashes
  /\ crashes' = crashes + 1
  /\ Close(c)
  /\ UNCHANGED <<locks, holder, thread, name, serving>>

ProgramStep(c) == enter(c) \/ refused(c) \/ leave(c)

(* stop_server: no new connections, and then no namespace for the handlers *)
(* that have not yet begun; those that have keep the one they were given.  *)
shutdown ==
  /\ serving = "running" /\ serving' = "shutdown"
  /\ UNCHANGED <<locks, holder, thread, client, name, connected, answer, crashes>>
stop_server ==
  /\ serving = "shutdown" /\ serving' = "stopped"
  /\ UNCHANGED <<locks, holder, thread, client, name, connected, answer, crashes>>

LockNext ==
  \/ \E c \in Connections : ThreadStep(c) \/ ProgramStep(c) \/ crash(c)
  \/ \E c \in Connections, n \in Names : ask(c, n)
  \/ shutdown \/ stop_server

(* Threads that can run do run, and a client leaves its with block.  A     *)
(* threading.Lock is not fair: of several waiting handlers any may get it. *)
LockFairness == \A c \in Connections : WF_lockVars(ThreadStep(c)) /\ WF_lockVars(ProgramStep(c))

LockSpec == LockInit /\ [][LockNext]_lockVars
FairLockSpec == LockSpec /\ LockFairness

-----------------------------------------------------------------------------
(* Type invariant: the domains of the tables of gsc_lock.py's handlers.    *)
LockTypeOK ==
  /\ locks \subseteq Names
  /\ holder \in [Names -> Connections \union {Unheld}]
  /\ thread \in [Connections -> HandlerStates]
  /\ client \in [Connections -> ClientStates]
  /\ name \in [Connections -> Names]
  /\ connected \subseteq Connections
  /\ answer \in [Connections -> LockAnswers]
  /\ serving \in ServerStates /\ crashes \in Nat

(* Two clients are never inside the with block of one lock, although locks *)
(* are created on first use by racing handlers and holders may die: the    *)
(* server function of gsc_lock.py holds the lock as long as the client is  *)
(* connected.                                                              *)
MutualExclusion ==
  \A c, d \in Connections :
    client[c] = "inside" /\ client[d] = "inside" /\ name[c] = name[d] => c = d

(* A client that is inside, or has 'ok' on the way, is backed by a handler *)
(* that holds the lock; a lock is held only by a handler that will         *)
(* release it (gsc_lock.py's with server.lock(name)).                      *)
HolderIsServed ==
  /\ \A c \in Connections :
       client[c] = "inside" \/ answer[c] = "ok" =>
         thread[c] = "receive" /\ holder[name[c]] = c /\ c \in connected
  /\ \A n \in Names : holder[n] # Unheld =>
       n \in locks /\ thread[holder[n]] \in {"send", "receive"} /\ name[holder[n]] = n

LockInv ==
  /\ LockTypeOK /\ HolderIsServed
  /\ \A c \in Connections :
       /\ thread[c] \in {"send", "receive"} => holder[name[c]] = c
       /\ thread[c] = "acquire" => name[c] \in locks
       /\ client[c] = "asked" /\ thread[c] = "receive" => answer[c] = "ok"
       /\ client[c] = "idle" => answer[c] = "none"
       /\ client[c] = "idle" <=> c \notin connected

(* A client that is inside keeps the lock until it leaves or dies: no step *)
(* of another client or handler takes it away.                             *)
NoTheft ==
  [][\A c \in Connections : client[c] = "inside" => holder'[name[c]] = c]_lockVars

(* The lock of a client that left or died is always given back, also when  *)
(* it died before it was told that it has it.                              *)
DeadHolderReleases ==
  \A c \in Connections, n \in Names :
    (holder[n] = c /\ c \notin connected) ~> (holder[n] # c)

(* Whoever waits for a lock waits forever only while the lock keeps        *)
(* changing hands: the lock server loses no lock.                          *)
WaitsOnlyForTurnover ==
  \A c \in Connections, n \in Names :
    <>[](thread[c] = "acquire" /\ name[c] = n) =>
      ([]<>(holder[n] = Unheld) /\ []<>(holder[n] # Unheld))

(* The lock server implements Mutex: the owner is the client that is       *)
(* inside.                                                                 *)
Inside == [n \in Names |-> {c \in Connections : client[c] = "inside" /\ name[c] = n}]
TheOne(S) == IF S = {} THEN Unheld ELSE CHOOSE c \in S : TRUE
Owner == [n \in Names |-> TheOne(Inside[n])]
Abstract == INSTANCE Mutex WITH Clients <- Connections, Nobody <- Unheld, owner <- Owner
MutexSpec == Abstract!Spec

-----------------------------------------------------------------------------
(* What the documentation says and the code does not do (see README.md).   *)

(* A client that asks a running server for a lock gets it and no           *)
(* exception: what the "thread safe" namespace is for                      *)
(* (managed_namespace.py:6).                                               *)
NeverRefused == serving # "stopped" => \A c \in Connections : answer[c] # "error"
=============================================================================
