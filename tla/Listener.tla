------------------------------ MODULE Listener ------------------------------
(***************************************************************************)
(* The listener of src/listener.rs: it spawns a handler task for every     *)
(* OpenConnectionRequest2, which looks the address up in connections,      *)
(* creates a session socket and a RakNetStream, enters the address and     *)
(* spawns a waiter; the waiter passes the stream to the accept queue or    *)
(* takes the address out again.  Locks are released in between, so the     *)
(* handlers of one address interleave.                                     *)
(*                                                                         *)
(* A request is numbered, and with it its handler, its session and its     *)
(* waiter.  Session has what goes on inside a session; here its login      *)
(* completes, or its receive task ends and drops the notifier, and its     *)
(* socket closes when its last task is gone.  The kernel is external: a    *)
(* packet goes to the buffer of a session socket connected to its sender   *)
(* if there is one, and to that of the listener's socket otherwise, where  *)
(* it may wait while a session is created.                                 *)
(*                                                                         *)
(* Client has the answers to pings and to OpenConnectionRequest1, which    *)
(* touch no state here.                                                    *)
(***************************************************************************)
EXTENDS Naturals, Sequences, FiniteSets

CONSTANTS
    Addresses,          \* the peers' socket addresses
    Requests            \* bound: the OpenConnectionRequest2 packets that arrive

ASSUME ListenerAssumption == IsFiniteSet(Requests)

VARIABLES
    connections,        \* RakNetListener.connections
    handler,            \* each request: none, buffered, and its task's place in
                        \* handle_open_connection_request_2: check, create,
                        \* register, done
    from,               \* the address each request came from
    login,              \* each session's notifier: none, armed, fired, dropped
    stream,             \* where its RakNetStream is
    socket,             \* whether its session socket is open
    accept_queue,       \* the channel behind accept()
    \* history
    entered,            \* the sessions whose address was entered
    raced               \* the addresses that had two handlers at once

vars == <<connections, handler, from, login, stream, socket, accept_queue, entered, raced>>

Init ==
    /\ connections = {}
    /\ handler = [r \in Requests |-> "none"]
    /\ from \in [Requests -> Addresses]
    /\ login = [r \in Requests |-> "none"]
    /\ stream = [r \in Requests |-> "none"]
    /\ socket = [r \in Requests |-> FALSE]
    /\ accept_queue = <<>>
    /\ entered = {} /\ raced = {}

Handling(a) == {r \in Requests : from[r] = a /\ handler[r] \in {"check", "create", "register"}}

SocketsOf(a) == {r \in Requests : from[r] = a /\ socket[r]}

\* The kernel puts the packet into the buffer of the listener's socket.
Request2Arrives(r) ==
    /\ handler[r] = "none"
    /\ SocketsOf(from[r]) = {}
    /\ handler' = [handler EXCEPT ![r] = "buffered"]
    /\ UNCHANGED <<connections, from, login, stream, socket, accept_queue, entered, raced>>

\* The listener's loop reads it and spawns its handler.
SpawnHandler(r) ==
    /\ handler[r] = "buffered"
    /\ handler' = [handler EXCEPT ![r] = "check"]
    /\ raced' = IF Handling(from[r]) = {} THEN raced ELSE raced \cup {from[r]}
    /\ UNCHANGED <<connections, from, login, stream, socket, accept_queue, entered>>

\* Mutant: the lookup is left out.
CheckNothing(r) ==
    /\ handler[r] = "check"
    /\ handler' = [handler EXCEPT ![r] = "create"]
    /\ UNCHANGED <<connections, from, login, stream, socket, accept_queue, entered, raced>>

\* The lookup under the read lock; an address that is in the map is refused.
CheckConnected(r) ==
    /\ handler[r] = "check"
    /\ handler' = [handler EXCEPT ![r] =
                     IF from[r] \in connections THEN "done" ELSE "create"]
    /\ UNCHANGED <<connections, from, login, stream, socket, accept_queue, entered, raced>>

\* The request does not decode, or the socket or the reply fails.
CreateFails(r) ==
    /\ handler[r] = "create"
    /\ handler' = [handler EXCEPT ![r] = "done"]
    /\ UNCHANGED <<connections, from, login, stream, socket, accept_queue, entered, raced>>

\* The session socket, the reply and the RakNetStream, whose tasks run now.
CreateSession(r) ==
    /\ handler[r] = "create"
    /\ handler' = [handler EXCEPT ![r] = "register"]
    /\ login' = [login EXCEPT ![r] = "armed"]
    /\ stream' = [stream EXCEPT ![r] = "handler"]
    /\ socket' = [socket EXCEPT ![r] = TRUE]
    /\ UNCHANGED <<connections, from, accept_queue, entered, raced>>

\* Mutant: the session's number is entered in place of its address.
RegisterWrongKey(r) ==
    /\ handler[r] = "register"
    /\ connections' = connections \cup {r}
    /\ entered' = entered \cup {r}
    /\ handler' = [handler EXCEPT ![r] = "done"]
    /\ stream' = [stream EXCEPT ![r] = "waiter"]
    /\ UNCHANGED <<from, login, socket, accept_queue, raced>>

\* Mutant: no waiter is spawned for a session that has ended by now.
RegisterEnded(r) ==
    /\ handler[r] = "register"
    /\ connections' = connections \cup {from[r]}
    /\ entered' = entered \cup {r}
    /\ handler' = [handler EXCEPT ![r] = "done"]
    /\ stream' = [stream EXCEPT ![r] = IF login[r] = "dropped" THEN "dropped" ELSE "waiter"]
    /\ UNCHANGED <<from, login, socket, accept_queue, raced>>

\* Mutant: the waiter misses a notifier that fired before it was spawned.
RegisterMissesSignal(r) ==
    /\ handler[r] = "register"
    /\ connections' = connections \cup {from[r]}
    /\ entered' = entered \cup {r}
    /\ handler' = [handler EXCEPT ![r] = "done"]
    /\ stream' = [stream EXCEPT ![r] = IF login[r] = "fired" THEN "handler" ELSE "waiter"]
    /\ UNCHANGED <<from, login, socket, accept_queue, raced>>

\* The address is entered under the write lock, and then the waiter spawned.
Register(r) ==
    /\ handler[r] = "register"
    /\ connections' = connections \cup {from[r]}
    /\ entered' = entered \cup {r}
    /\ handler' = [handler EXCEPT ![r] = "done"]
    /\ stream' = [stream EXCEPT ![r] = "waiter"]
    /\ UNCHANGED <<from, login, socket, accept_queue, raced>>

\* The session's receive task handles NewIncomingConnection.
LoginCompletes(r) ==
    /\ login[r] = "armed"
    /\ login' = [login EXCEPT ![r] = "fired"]
    /\ UNCHANGED <<connections, handler, from, stream, socket, accept_queue, entered, raced>>

\* The session's receive task ends first.
LoginFails(r) ==
    /\ login[r] = "armed"
    /\ login' = [login EXCEPT ![r] = "dropped"]
    /\ UNCHANGED <<connections, handler, from, stream, socket, accept_queue, entered, raced>>

\* The waiter, when ready_rx resolves.
WaiterReady(r) ==
    /\ stream[r] = "waiter" /\ login[r] = "fired"
    /\ stream' = [stream EXCEPT ![r] = "queued"]
    /\ accept_queue' = Append(accept_queue, r)
    /\ UNCHANGED <<connections, handler, from, login, socket, entered, raced>>

WaiterGivesUp(r) ==
    /\ stream[r] = "waiter" /\ login[r] = "dropped"
    /\ stream' = [stream EXCEPT ![r] = "dropped"]
    /\ connections' = connections \ {from[r]}
    /\ UNCHANGED <<handler, from, login, socket, accept_queue, entered, raced>>

Accept ==
    /\ accept_queue # <<>>
    /\ stream' = [stream EXCEPT ![Head(accept_queue)] = "app"]
    /\ accept_queue' = Tail(accept_queue)
    /\ UNCHANGED <<connections, handler, from, login, socket, entered, raced>>

\* The application drops the stream.
DropStream(r) ==
    /\ stream[r] = "app"
    /\ stream' = [stream EXCEPT ![r] = "dropped"]
    /\ UNCHANGED <<connections, handler, from, login, socket, accept_queue, entered, raced>>

\* The last task of a session whose stream is gone ends.
CloseSocket(r) ==
    /\ stream[r] = "dropped" /\ socket[r]
    /\ socket' = [socket EXCEPT ![r] = FALSE]
    /\ UNCHANGED <<connections, handler, from, login, stream, accept_queue, entered, raced>>

Next ==
    \/ \E r \in Requests :
        \/ Request2Arrives(r) \/ SpawnHandler(r) \/ CheckConnected(r)
        \/ CreateFails(r) \/ CreateSession(r) \/ Register(r)
        \/ LoginCompletes(r) \/ LoginFails(r)
        \/ WaiterReady(r) \/ WaiterGivesUp(r)
        \/ DropStream(r) \/ CloseSocket(r)
    \/ Accept

Spec == Init /\ [][Next]_vars

(***************************************************************************)
(* Fairness: tokio polls the handler and the waiter tasks, and the         *)
(* application calls accept() in a loop, as the servers of the docs do.    *)
(* Nothing is assumed of the peers.                                        *)
(***************************************************************************)
Fairness ==
    /\ \A r \in Requests :
        /\ WF_vars(SpawnHandler(r)) /\ WF_vars(CheckConnected(r)) /\ WF_vars(Register(r))
        /\ WF_vars(WaiterReady(r)) /\ WF_vars(WaiterGivesUp(r))
    /\ WF_vars(Accept)

FairSpec == Spec /\ Fairness

-----------------------------------------------------------------------------
(***************************************************************************)
(* Properties.                                                             *)
(***************************************************************************)

TypeOK ==
    /\ connections \subseteq Addresses
    /\ handler \in [Requests ->
                     {"none", "buffered", "check", "create", "register", "done"}]
    /\ from \in [Requests -> Addresses]
    /\ login \in [Requests -> {"none", "armed", "fired", "dropped"}]
    /\ stream \in [Requests ->
                     {"none", "handler", "waiter", "queued", "app", "dropped"}]
    /\ socket \in [Requests -> BOOLEAN]
    /\ accept_queue \in Seq(Requests)
    /\ entered \subseteq Requests
    /\ raced \subseteq Addresses

\* The sessions a client could be talking to.
LiveSessions(a) ==
    {r \in Requests : from[r] = a /\ stream[r] \in {"waiter", "queued", "app"}
                                  /\ login[r] # "dropped"}

\* A login that fails frees the address, for the next request to be served,
\* unless another session of the same address keeps it.
FailedLoginFreesAddress ==
    \A r \in Requests :
        login[r] = "dropped" ~>
            \/ from[r] \notin connections
            \/ \E q \in entered : from[q] = from[r] /\ login[q] # "dropped"

\* Every session that logs in is handed to the application, whatever happens
\* to the others.
LoginReachesAccept ==
    \A r \in Requests : login[r] = "fired" ~> stream[r] \in {"app", "dropped"}

\* As long as the requests of an address are handled one after the other it
\* has one live session, and a second request is refused ("Server rejects
\* connection because client is already connected"), also when that request
\* was buffered before the first session's socket existed.  Handlers that
\* overlap both find the map empty and create a session each.
OneSessionPerAddress ==
    \A a \in Addresses \ raced : Cardinality(LiveSessions(a)) =< 1
=============================================================================
