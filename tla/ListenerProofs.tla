--------------------------- MODULE ListenerProofs ---------------------------
(***************************************************************************)
(* The listener, for every set of addresses and of requests.               *)
(***************************************************************************)
EXTENDS Listener, FiniteSetTheorems, SequenceTheorems, TLAPS

\* Where a handler task is running, and where it has found the address free.
Running == {"check", "create", "register"}

FoundFree == {"create", "register"}

\* Where a stream is whose address has been entered.
Placed == {"waiter", "queued", "app"}

\* The handler creates the stream, and gives it away when it is done.
StreamFollowsHandler ==
    \A r \in Requests :
        /\ handler[r] \in {"none", "buffered", "check", "create"} => stream[r] = "none"
        /\ handler[r] = "register" <=> stream[r] = "handler"

\* The accept queue holds every stream the waiters passed to it, once.
QueueHoldsStreams ==
    /\ \A i \in 1 .. Len(accept_queue) : stream[accept_queue[i]] = "queued"
    /\ \A i, j \in 1 .. Len(accept_queue) :
          accept_queue[i] = accept_queue[j] => i = j

\* The address of a placed stream is in the map.
PlacedIsEntered ==
    \A r \in Requests :
        stream[r] \in Placed /\ from[r] \notin raced => from[r] \in connections

\* Of two requests from one address whose handlers have not overlapped, one is
\* through before the other is looked at, and refused if it left a session.
OneAtATime ==
    \A r, q \in Requests :
        r # q /\ from[r] = from[q] /\ from[r] \notin raced =>
            /\ ~ (handler[r] \in Running /\ handler[q] \in Running)
            /\ ~ (handler[r] \in FoundFree /\ stream[q] \in Placed)
            /\ ~ (stream[r] \in Placed /\ stream[q] \in Placed)

ListenerInv ==
    /\ TypeOK
    /\ StreamFollowsHandler /\ QueueHoldsStreams
    /\ PlacedIsEntered /\ OneAtATime

-----------------------------------------------------------------------------
\* The initial states.
LEMMA ListenerInit == Init => ListenerInv
<1> SUFFICES ASSUME Init PROVE ListenerInv
  OBVIOUS
<1>1. TypeOK
  BY DEF Init, TypeOK
<1>2. StreamFollowsHandler /\ QueueHoldsStreams
  BY DEF Init, StreamFollowsHandler, QueueHoldsStreams
<1>3. PlacedIsEntered /\ OneAtATime
  BY DEF Init, PlacedIsEntered, OneAtATime, Placed, Running, FoundFree
<1> QED
  BY <1>1, <1>2, <1>3 DEF ListenerInv

\* The steps of a handler task up to the creation of the session, and the
\* arrival of its request.
LEMMA HandlerStep ==
    ASSUME ListenerInv, NEW r \in Requests,
           \/ Request2Arrives(r) \/ SpawnHandler(r)
           \/ CheckConnected(r) \/ CreateFails(r)
    PROVE  ListenerInv'
<1>1. /\ TypeOK /\ StreamFollowsHandler /\ QueueHoldsStreams
      /\ PlacedIsEntered /\ OneAtATime
  BY DEF ListenerInv
<1>2. /\ connections' = connections /\ from' = from /\ login' = login /\ stream' = stream
      /\ socket' = socket /\ accept_queue' = accept_queue /\ entered' = entered
  BY DEF Request2Arrives, SpawnHandler, CheckConnected, CreateFails
<1>3. QueueHoldsStreams'
  BY <1>1, <1>2 DEF QueueHoldsStreams
<1>4. CASE SpawnHandler(r)
  <2>1. /\ handler[r] = "buffered" /\ handler' = [handler EXCEPT ![r] = "check"]
        /\ raced' = IF Handling(from[r]) = {} THEN raced ELSE raced \cup {from[r]}
    BY <1>4 DEF SpawnHandler
  <2>2. TypeOK'
    BY <1>1, <1>2, <2>1 DEF TypeOK
  <2>3. StreamFollowsHandler'
    BY <1>1, <1>2, <2>1 DEF TypeOK, StreamFollowsHandler
  <2>4. raced \subseteq raced'
    BY <2>1
  <2>5. PlacedIsEntered'
    BY <1>1, <1>2, <2>4 DEF PlacedIsEntered
  <2>6. from[r] \notin raced' => \A q \in Requests : from[q] = from[r] => handler[q] \notin Running
    BY <1>1, <2>1 DEF Handling, TypeOK, Running
  <2>7. OneAtATime'
    BY <1>1, <1>2, <2>1, <2>4, <2>6 DEF TypeOK, OneAtATime, Running, FoundFree
  <2> QED
    BY <1>3, <2>2, <2>3, <2>5, <2>7 DEF ListenerInv
<1>5. CASE CheckConnected(r)
  <2>1. /\ handler[r] = "check" /\ raced' = raced
        /\ handler' = [handler EXCEPT ![r] =
                         IF from[r] \in connections THEN "done" ELSE "create"]
    BY <1>5 DEF CheckConnected
  <2>2. TypeOK'
    BY <1>1, <1>2, <2>1 DEF TypeOK
  <2>3. StreamFollowsHandler' /\ PlacedIsEntered'
    BY <1>1, <1>2, <2>1 DEF TypeOK, StreamFollowsHandler, PlacedIsEntered
  <2>4. OneAtATime'
    BY <1>1, <1>2, <2>1 DEF TypeOK, OneAtATime, PlacedIsEntered, Running, FoundFree
  <2> QED
    BY <1>3, <2>2, <2>3, <2>4 DEF ListenerInv
<1>6. CASE Request2Arrives(r) \/ CreateFails(r)
  <2>1. /\ raced' = raced
        /\ \/ handler[r] = "none" /\ handler' = [handler EXCEPT ![r] = "buffered"]
           \/ handler[r] = "create" /\ handler' = [handler EXCEPT ![r] = "done"]
    BY <1>6 DEF Request2Arrives, CreateFails
  <2>2. TypeOK'
    BY <1>1, <1>2, <2>1 DEF TypeOK
  <2>3. StreamFollowsHandler' /\ PlacedIsEntered'
    BY <1>1, <1>2, <2>1 DEF TypeOK, StreamFollowsHandler, PlacedIsEntered
  <2>4. OneAtATime'
    BY <1>1, <1>2, <2>1 DEF TypeOK, OneAtATime, Running, FoundFree
  <2> QED
    BY <1>3, <2>2, <2>3, <2>4 DEF ListenerInv
<1> QED
  BY <1>4, <1>5, <1>6

\* The session is created, and its address entered.
LEMMA SessionStep ==
    ASSUME ListenerInv, NEW r \in Requests, CreateSession(r) \/ Register(r)
    PROVE  ListenerInv'
<1>1. /\ TypeOK /\ StreamFollowsHandler /\ QueueHoldsStreams
      /\ PlacedIsEntered /\ OneAtATime
  BY DEF ListenerInv
<1>2. from' = from /\ accept_queue' = accept_queue /\ raced' = raced
  BY DEF CreateSession, Register
<1>3. \A i \in 1 .. Len(accept_queue) : accept_queue[i] \in Requests
  BY <1>1 DEF TypeOK
<1>4. CASE CreateSession(r)
  <2>1. /\ handler[r] = "create" /\ handler' = [handler EXCEPT ![r] = "register"]
        /\ login' = [login EXCEPT ![r] = "armed"] /\ stream' = [stream EXCEPT ![r] = "handler"]
        /\ socket' = [socket EXCEPT ![r] = TRUE]
        /\ connections' = connections /\ entered' = entered
    BY <1>4 DEF CreateSession
  <2>2. TypeOK'
    BY <1>1, <1>2, <2>1 DEF TypeOK
  <2>3. stream[r] = "none"
    BY <1>1, <2>1 DEF StreamFollowsHandler
  <2>4. StreamFollowsHandler' /\ PlacedIsEntered'
    BY <1>1, <1>2, <2>1 DEF TypeOK, StreamFollowsHandler, PlacedIsEntered, Placed
  <2>5. QueueHoldsStreams'
    BY <1>1, <1>2, <1>3, <2>1, <2>3 DEF TypeOK, QueueHoldsStreams
  <2>6. OneAtATime'
    BY <1>1, <1>2, <2>1 DEF TypeOK, OneAtATime, Running, FoundFree, Placed
  <2> QED
    BY <2>2, <2>4, <2>5, <2>6 DEF ListenerInv
<1>5. CASE Register(r)
  <2>1. /\ handler[r] = "register" /\ handler' = [handler EXCEPT ![r] = "done"]
        /\ stream' = [stream EXCEPT ![r] = "waiter"]
        /\ connections' = connections \cup {from[r]} /\ entered' = entered \cup {r}
        /\ login' = login /\ socket' = socket
    BY <1>5 DEF Register
  <2>2. TypeOK'
    BY <1>1, <1>2, <2>1 DEF TypeOK
  <2>3. stream[r] = "handler"
    BY <1>1, <2>1 DEF StreamFollowsHandler
  <2>4. StreamFollowsHandler' /\ PlacedIsEntered'
    BY <1>1, <1>2, <2>1 DEF TypeOK, StreamFollowsHandler, PlacedIsEntered, Placed
  <2>5. QueueHoldsStreams'
    BY <1>1, <1>2, <1>3, <2>1, <2>3 DEF TypeOK, QueueHoldsStreams
  <2>6. OneAtATime'
    BY <1>1, <1>2, <2>1 DEF TypeOK, OneAtATime, Running, FoundFree, Placed
  <2> QED
    BY <2>2, <2>4, <2>5, <2>6 DEF ListenerInv
<1> QED
  BY <1>4, <1>5

\* What the session does by itself.
LEMMA LoginStep ==
    ASSUME ListenerInv, NEW r \in Requests,
           LoginCompletes(r) \/ LoginFails(r) \/ CloseSocket(r)
    PROVE  ListenerInv'
<1>1. /\ connections' = connections /\ handler' = handler /\ from' = from /\ stream' = stream
      /\ accept_queue' = accept_queue /\ entered' = entered /\ raced' = raced
      /\ \/ login' = [login EXCEPT ![r] = "fired"] /\ socket' = socket
         \/ login' = [login EXCEPT ![r] = "dropped"] /\ socket' = socket
         \/ login' = login /\ socket' = [socket EXCEPT ![r] = FALSE]
  BY DEF LoginCompletes, LoginFails, CloseSocket
<1>2. TypeOK'
  BY <1>1 DEF ListenerInv, TypeOK
<1> QED
  BY <1>1, <1>2
  DEF ListenerInv, StreamFollowsHandler, QueueHoldsStreams, PlacedIsEntered, OneAtATime

\* The waiter: the address it takes out is that of no other placed stream.
LEMMA WaiterStep ==
    ASSUME ListenerInv, NEW r \in Requests, WaiterReady(r) \/ WaiterGivesUp(r)
    PROVE  ListenerInv'
<1>1. /\ TypeOK /\ StreamFollowsHandler /\ QueueHoldsStreams
      /\ PlacedIsEntered /\ OneAtATime
  BY DEF ListenerInv
<1>2. /\ handler' = handler /\ from' = from /\ login' = login /\ socket' = socket
      /\ entered' = entered /\ raced' = raced /\ stream[r] = "waiter"
  BY DEF WaiterReady, WaiterGivesUp
<1>3. \A i \in 1 .. Len(accept_queue) : accept_queue[i] \in Requests /\ accept_queue[i] # r
  BY <1>1, <1>2 DEF TypeOK, QueueHoldsStreams
<1>4. CASE WaiterReady(r)
  <2>1. /\ stream' = [stream EXCEPT ![r] = "queued"]
        /\ accept_queue' = Append(accept_queue, r) /\ connections' = connections
    BY <1>4 DEF WaiterReady
  <2>2. TypeOK'
    BY <1>1, <1>2, <2>1 DEF TypeOK
  <2>3. StreamFollowsHandler' /\ PlacedIsEntered' /\ OneAtATime'
    BY <1>1, <1>2, <2>1 DEF TypeOK, StreamFollowsHandler, PlacedIsEntered, OneAtATime, Placed
  <2>4. QueueHoldsStreams'
    BY <1>1, <1>3, <2>1 DEF TypeOK, QueueHoldsStreams
  <2> QED
    BY <2>2, <2>3, <2>4 DEF ListenerInv
<1>5. CASE WaiterGivesUp(r)
  <2>1. /\ stream' = [stream EXCEPT ![r] = "dropped"]
        /\ accept_queue' = accept_queue /\ connections' = connections \ {from[r]}
    BY <1>5 DEF WaiterGivesUp
  <2>2. TypeOK'
    BY <1>1, <1>2, <2>1 DEF TypeOK
  <2>3. StreamFollowsHandler' /\ OneAtATime'
    BY <1>1, <1>2, <2>1 DEF TypeOK, StreamFollowsHandler, OneAtATime, Placed
  <2>4. PlacedIsEntered'
    BY <1>1, <1>2, <2>1 DEF TypeOK, PlacedIsEntered, OneAtATime, Placed
  <2>5. QueueHoldsStreams'
    BY <1>1, <1>3, <2>1 DEF TypeOK, QueueHoldsStreams
  <2> QED
    BY <2>2, <2>3, <2>4, <2>5 DEF ListenerInv
<1> QED
  BY <1>4, <1>5

\* accept(), and the application dropping what it was given.
LEMMA AppStep ==
    ASSUME ListenerInv, Accept \/ \E r \in Requests : DropStream(r)
    PROVE  ListenerInv'
<1>1. /\ TypeOK /\ StreamFollowsHandler /\ QueueHoldsStreams
      /\ PlacedIsEntered /\ OneAtATime
  BY DEF ListenerInv
<1>2. /\ connections' = connections /\ handler' = handler /\ from' = from /\ login' = login
      /\ socket' = socket /\ entered' = entered /\ raced' = raced
  BY DEF Accept, DropStream
<1>3. \A i \in 1 .. Len(accept_queue) : accept_queue[i] \in Requests
  BY <1>1 DEF TypeOK
<1>4. CASE Accept
  <2> DEFINE r == Head(accept_queue)
  <2>1. /\ accept_queue # <<>> /\ accept_queue \in Seq(Requests)
        /\ stream' = [stream EXCEPT ![r] = "app"] /\ accept_queue' = Tail(accept_queue)
    BY <1>1, <1>4 DEF Accept, TypeOK
  <2>2. r = accept_queue[1] /\ 1 \in 1 .. Len(accept_queue)
    BY <2>1
  <2>3. r \in Requests /\ stream[r] = "queued"
    BY <1>1, <1>3, <2>2 DEF QueueHoldsStreams
  <2>4. /\ accept_queue' \in Seq(Requests) /\ Len(accept_queue') = Len(accept_queue) - 1
        /\ \A i \in 1 .. Len(accept_queue') : /\ i + 1 \in 1 .. Len(accept_queue)
                                              /\ accept_queue'[i] = accept_queue[i + 1]
    BY <2>1
  <2>5. \A i \in 1 .. Len(accept_queue') : accept_queue'[i] \in Requests /\ accept_queue'[i] # r
    BY <1>1, <1>3, <2>2, <2>4 DEF QueueHoldsStreams
  <2> HIDE DEF r
  <2>6. TypeOK'
    BY <1>1, <1>2, <2>1, <2>3, <2>4 DEF TypeOK
  <2>7. StreamFollowsHandler' /\ PlacedIsEntered' /\ OneAtATime'
    BY <1>1, <1>2, <2>1, <2>3
    DEF TypeOK, StreamFollowsHandler, PlacedIsEntered, OneAtATime, Placed
  <2>8. QueueHoldsStreams'
    BY <1>1, <2>1, <2>3, <2>4, <2>5 DEF TypeOK, QueueHoldsStreams
  <2> QED
    BY <2>6, <2>7, <2>8 DEF ListenerInv
<1>5. ASSUME NEW r \in Requests, DropStream(r) PROVE ListenerInv'
  <2>1. /\ stream[r] = "app" /\ stream' = [stream EXCEPT ![r] = "dropped"]
        /\ accept_queue' = accept_queue
    BY <1>5 DEF DropStream
  <2>2. TypeOK'
    BY <1>1, <1>2, <2>1 DEF TypeOK
  <2>3. StreamFollowsHandler' /\ PlacedIsEntered' /\ OneAtATime'
    BY <1>1, <1>2, <2>1 DEF TypeOK, StreamFollowsHandler, PlacedIsEntered, OneAtATime, Placed
  <2>4. QueueHoldsStreams'
    BY <1>1, <1>3, <2>1 DEF TypeOK, QueueHoldsStreams
  <2> QED
    BY <2>2, <2>3, <2>4 DEF ListenerInv
<1> QED
  BY <1>4, <1>5

\* The inductive step.
LEMMA ListenerStep == ListenerInv /\ [Next]_vars => ListenerInv'
<1> SUFFICES ASSUME ListenerInv, [Next]_vars PROVE ListenerInv'
  OBVIOUS
<1>1. CASE UNCHANGED vars
  BY <1>1
  DEF vars, ListenerInv, TypeOK, StreamFollowsHandler, QueueHoldsStreams, PlacedIsEntered,
      OneAtATime
<1> QED
  BY <1>1, HandlerStep, SessionStep, LoginStep, WaiterStep, AppStep DEF Next

-----------------------------------------------------------------------------
\* The invariant holds under every interleaving of the listener's tasks.
THEOREM ListenerInvariant == Spec => []ListenerInv
BY ListenerInit, ListenerStep, PTL DEF Spec

\* Type correctness: accept() never finds a stream that is not a session's.
THEOREM ListenerTypeCorrect == Spec => []TypeOK
<1>1. ListenerInv => TypeOK
  BY DEF ListenerInv
<1> QED
  BY <1>1, ListenerInvariant, PTL

\* handle_open_connection_request_2 makes one session at a time for an
\* address whose handlers do not overlap.
THEOREM OneLiveSession == Spec => []OneSessionPerAddress
<1>1. ListenerInv => OneSessionPerAddress
  <2> SUFFICES ASSUME ListenerInv, NEW a \in Addresses \ raced
               PROVE  Cardinality(LiveSessions(a)) =< 1
    BY DEF OneSessionPerAddress
  <2>1. \A r, q \in LiveSessions(a) : r = q
    BY DEF ListenerInv, OneAtATime, LiveSessions, Placed
  <2>2. CASE LiveSessions(a) = {}
    BY <2>2, FS_EmptySet
  <2>3. ASSUME NEW r \in LiveSessions(a) PROVE Cardinality(LiveSessions(a)) = 1
    <3>1. LiveSessions(a) = {r}
      BY <2>1, <2>3
    <3> QED
      BY <3>1, FS_Singleton
  <2> QED
    BY <2>2, <2>3
<1> QED
  BY <1>1, ListenerInvariant, PTL
=============================================================================
