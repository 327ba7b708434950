------------------------ MODULE WebSocketServerProofs ------------------------
(***************************************************************************)
(* Proofs about WebSocketServer, for any connections, rooms and messages.  *)
(* The three safety invariants are inductive together with the types and   *)
(* with what JoinAnswered fails by: that the tables agree while they are   *)
(* cleared in two steps needs that no connection is in a room while a      *)
(* mutex is free (FirstJoinIsLast), and that needs to know who holds the   *)
(* mutexes (OnlySelfDeadlock).                                             *)
(***************************************************************************)
EXTENDS WebSocketServer, TLAPS

\* What a handler is given has been read from a message.
Parsed ==
  \A c \in Conn : /\ pc[c] \in {"parsed", "dispatching"} => msg[c] \in Message
                  /\ DOMAIN msg = Conn

(* The first connection to get into a room keeps both mutexes for ever, so *)
(* no two connections are ever in a room: nothing is ever broadcast.       *)
FirstJoinIsLast ==
  \A c \in Conn : roomId[c] # None => /\ connectionsMutex = c /\ roomsMutex = c
                                      /\ c \in authenticated

IInv ==
  /\ TypeOK /\ Parsed
  /\ MembershipAgrees /\ FirstJoinIsLast /\ OnlySelfDeadlock /\ NoDanglingSocket

-----------------------------------------------------------------------------
(* While connectionsMutex is free so is roomsMutex, no thread is stuck, no *)
(* connection is in a room and all rooms are empty.                        *)
LEMMA FreeMeansEmpty ==
  ASSUME IInv, connectionsMutex = None \/ roomsMutex = None
  PROVE  /\ roomsMutex = None
         /\ \A c \in Conn : roomId[c] = None
         /\ memberIds = [r \in RoomId |-> {}]
         /\ connectionsMutex = None => \A c \in Conn : pc[c] # "stuck"
  <1> USE WebSocketAssumption DEF IInv, TypeOK
  <1>1. roomsMutex = None
    BY DEF OnlySelfDeadlock
  <1>2. \A c \in Conn : roomId[c] = None
    BY <1>1 DEF FirstJoinIsLast
  <1>3. \A r \in RoomId : memberIds[r] = {}
    BY <1>2 DEF MembershipAgrees
  <1>4. connectionsMutex = None => \A c \in Conn : pc[c] # "stuck"
    BY DEF OnlySelfDeadlock
  <1> QED BY <1>1, <1>2, <1>3, <1>4

(* The initial state satisfies the invariant.                              *)
LEMMA InitInv == Init => IInv
  <1> SUFFICES ASSUME Init PROVE IInv
    OBVIOUS
  <1> USE WebSocketAssumption DEF Init
  <1>1. TypeOK /\ Parsed
    BY DEF TypeOK, Parsed, NoMessage
  <1>2. MembershipAgrees /\ FirstJoinIsLast /\ OnlySelfDeadlock /\ NoDanglingSocket
    BY DEF MembershipAgrees, FirstJoinIsLast, OnlySelfDeadlock, NoDanglingSocket
  <1> QED BY <1>1, <1>2 DEF IInv

(* A step that leaves tables, mutexes and handlers alone keeps it.         *)
LEMMA ThreadStep ==
  ASSUME IInv, UNCHANGED <<tables, mutexes, pc, msg>>, TypeOK'
  PROVE  IInv'
  BY DEF IInv, Parsed, MembershipAgrees, FirstJoinIsLast, OnlySelfDeadlock, NoDanglingSocket,
         tables, mutexes

(* start(), stop(), the checker and the clock keep it.                     *)
LEMMA ServerStep ==
  ASSUME IInv,
         \/ StartChecker \/ SetRunning \/ StopFlag \/ StopConnections \/ StopRooms
         \/ Checker \/ \E c \in Conn : Lapse(c)
  PROVE  IInv'
  <1> USE WebSocketAssumption DEF tables, mutexes, threads
  <1>1. CASE StartChecker \/ SetRunning \/ StopFlag
    <2>1. TypeOK' /\ UNCHANGED <<tables, mutexes, pc, msg>>
      BY <1>1 DEF StartChecker, SetRunning, StopFlag, IInv, TypeOK
    <2> QED BY <2>1, ThreadStep
  <1>2. CASE Checker
    <2>1. TypeOK' /\ UNCHANGED <<tables, mutexes, pc, msg>>
      BY <1>2 DEF Checker, TestRunning, CollectTimeouts, CloseTimeout, NextRound, IInv, TypeOK
    <2> QED BY <2>1, ThreadStep
  <1>3. CASE StopConnections
    <2>1. /\ \A c \in Conn : roomId[c] = None /\ pc[c] # "stuck"
          /\ memberIds = [r \in RoomId |-> {}] /\ roomsMutex = None
      BY <1>3, FreeMeansEmpty DEF StopConnections
    <2> QED BY <1>3, <2>1 DEF StopConnections, IInv, TypeOK, Parsed, MembershipAgrees,
                     FirstJoinIsLast, OnlySelfDeadlock, NoDanglingSocket
  <1>4. CASE StopRooms
    <2>1. memberIds' = memberIds
      BY <1>4, FreeMeansEmpty DEF StopRooms
    <2>2. TypeOK' /\ UNCHANGED <<tables, mutexes, pc, msg>>
      BY <1>4, <2>1 DEF StopRooms, IInv, TypeOK
    <2> QED BY <2>2, ThreadStep
  <1>5. ASSUME NEW c \in Conn, Lapse(c) PROVE IInv'
    BY <1>5 DEF Lapse, IInv, TypeOK, Parsed, MembershipAgrees, FirstJoinIsLast,
                OnlySelfDeadlock, NoDanglingSocket
  <1> QED BY <1>1, <1>2, <1>3, <1>4, <1>5

(* A step of c's thread that leaves the tables and mutexes alone keeps it, *)
(* whether the handler goes on or returns.                                 *)
LEMMA GoesOn ==
  ASSUME IInv, NEW c \in Conn, pc[c] \notin {"none", "stuck", "gone"},
         NEW place \in {"idle", "parsed", "dispatching", "replying", "disconnecting", "removing"},
         pc' = [pc EXCEPT ![c] = place],
         msg' = msg \/ \E m : msg' = [msg EXCEPT ![c] = m],
         place \in {"parsed", "dispatching"} => msg'[c] \in Message,
         UNCHANGED <<tables, mutexes>>, TypeOK'
  PROVE  IInv'
  BY DEF IInv, TypeOK, Parsed, MembershipAgrees, FirstJoinIsLast, OnlySelfDeadlock,
         NoDanglingSocket, tables, mutexes

(* A handler that locks connectionsMutex again keeps it, with its room in  *)
(* both tables or in none.                                                 *)
LEMMA Wedges ==
  ASSUME IInv, NEW c \in Conn, pc[c] = "dispatching" \/ pc[c] = "disconnecting",
         connectionsMutex = None,
         NEW held \in SUBSET {"rooms"}, Wedge(c, held),
         UNCHANGED <<threads, tables, closeSent>>
  PROVE  IInv'
  <1>1. roomsMutex = None /\ \A d \in Conn : roomId[d] = None /\ pc[d] # "stuck"
    BY FreeMeansEmpty
  <1>2. TypeOK' /\ Parsed' /\ MembershipAgrees' /\ FirstJoinIsLast' /\ NoDanglingSocket'
    BY <1>1 DEF Wedge, IInv, TypeOK, Parsed, MembershipAgrees, FirstJoinIsLast,
                NoDanglingSocket, tables, threads
  <1>3. OnlySelfDeadlock'
    BY <1>1, WebSocketAssumption DEF Wedge, IInv, TypeOK, OnlySelfDeadlock
  <1> QED BY <1>2, <1>3 DEF IInv

(* Crow's callbacks before a message is dispatched keep it.                *)
LEMMA MessageStep ==
  ASSUME IInv, NEW c \in Conn,
         \/ Open(c) \/ HandleClose(c) \/ Touch(c) \/ SendToConnection(c)
         \/ \E m \in Message : Receive(c, m)
  PROVE  IInv'
  <1> USE WebSocketAssumption DEF tables, mutexes, threads
  <1>1. CASE Open(c)
    BY <1>1 DEF Open, IInv, TypeOK, Parsed, MembershipAgrees, FirstJoinIsLast,
                OnlySelfDeadlock, NoDanglingSocket
  <1>2. CASE HandleClose(c)
    BY <1>2 DEF HandleClose, IInv, TypeOK, Parsed, MembershipAgrees, FirstJoinIsLast,
                OnlySelfDeadlock, NoDanglingSocket
  <1>3. CASE Touch(c)
    BY <1>3 DEF Touch, IInv, TypeOK, Parsed, MembershipAgrees, FirstJoinIsLast,
                OnlySelfDeadlock, NoDanglingSocket
  <1>4. CASE SendToConnection(c)
    <2>1. TypeOK'
      BY <1>4 DEF SendToConnection, Return, IInv, TypeOK
    <2> QED BY <1>4, <2>1, GoesOn DEF SendToConnection, Return
  <1>5. ASSUME NEW m \in Message, Receive(c, m) PROVE IInv'
    <2>1. CASE c \in connections
      <3>1. TypeOK'
        BY <1>5, <2>1 DEF Receive, IInv, TypeOK
      <3> QED BY <1>5, <2>1, <3>1, GoesOn DEF Receive, IInv, Parsed
    <2>2. CASE c \notin connections
      BY <1>5, <2>2, ThreadStep DEF Receive, IInv, TypeOK
    <2> QED BY <2>1, <2>2
  <1> QED BY <1>1, <1>2, <1>3, <1>4, <1>5

(* The handlers that do not touch a room keep it.                          *)
LEMMA HandlerStep ==
  ASSUME IInv, NEW c \in Conn,
         \/ HandleConnect(c) \/ HandleHeartbeat(c) \/ HandleOperation(c)
         \/ HandleCursorUpdate(c) \/ IgnoreMessage(c)
  PROVE  IInv'
  <1> USE WebSocketAssumption DEF tables, mutexes, threads, Dispatched
  <1>1. CASE HandleConnect(c)
    BY <1>1 DEF HandleConnect, IInv, TypeOK, Parsed, MembershipAgrees, FirstJoinIsLast,
                OnlySelfDeadlock, NoDanglingSocket
  <1>2. CASE HandleHeartbeat(c)
    BY <1>2 DEF HandleHeartbeat, IInv, TypeOK, Parsed, MembershipAgrees, FirstJoinIsLast,
                OnlySelfDeadlock, NoDanglingSocket
  <1>3. CASE HandleOperation(c)
    BY <1>3, Wedges DEF HandleOperation
  <1>4. CASE HandleCursorUpdate(c)
    <2>1. CASE roomId[c] = None
      <3>1. TypeOK'
        BY <1>4, <2>1 DEF HandleCursorUpdate, Return, IInv, TypeOK
      <3> QED BY <1>4, <2>1, <3>1, GoesOn DEF HandleCursorUpdate, Return
    <2>2. CASE roomId[c] # None
      BY <1>4, <2>2, Wedges DEF HandleCursorUpdate
    <2> QED BY <2>1, <2>2
  <1>5. CASE IgnoreMessage(c)
    <2>1. TypeOK'
      BY <1>5 DEF IgnoreMessage, Return, IInv, TypeOK
    <2> QED BY <1>5, <2>1, GoesOn DEF IgnoreMessage, Return
  <1> QED BY <1>1, <1>2, <1>3, <1>4, <1>5

(* The handlers that do keep it.  A member never gets to leave: it is the  *)
(* one whose thread is stuck.                                              *)
LEMMA RoomStep ==
  ASSUME IInv, NEW c \in Conn,
         \/ HandleJoinRoom(c) \/ HandleLeaveRoom(c) \/ HandleDisconnect(c) \/ RemoveConnection(c)
  PROVE  IInv'
  <1> USE WebSocketAssumption DEF tables, mutexes, threads, Dispatched
  <1>1. CASE HandleJoinRoom(c)
    <2> DEFINE r == msg[c].room
    <2>1. msg[c] \in Message /\ pc[c] = "dispatching"
      BY <1>1 DEF HandleJoinRoom, IInv, Parsed
    <2>2. CASE r = None
      <3>1. TypeOK' /\ pc' = [pc EXCEPT ![c] = "replying"] /\ UNCHANGED <<tables, mutexes, msg>>
        BY <1>1, <2>2 DEF HandleJoinRoom, IInv, TypeOK
      <3> QED BY <2>1, <3>1, GoesOn
    <2>3. CASE r # None /\ c \notin connections
      <3>1. TypeOK' /\ Return(c) /\ UNCHANGED <<tables, mutexes>>
        BY <1>1, <2>3 DEF HandleJoinRoom, IInv, TypeOK, Return
      <3> QED BY <2>1, <3>1, GoesOn DEF Return
    <2>4. CASE r # None /\ c \in connections /\ (c \notin authenticated \/ roomId[c] # None)
      <3>1. Wedge(c, {}) /\ connectionsMutex = None /\ UNCHANGED <<threads, tables, closeSent>>
        BY <1>1, <2>4 DEF HandleJoinRoom
      <3> QED BY <2>1, <3>1, Wedges
    <2>5. CASE r # None /\ c \in authenticated /\ roomId[c] = None
      <3>1. /\ connectionsMutex = None /\ Wedge(c, {"rooms"})
            /\ memberIds' = [memberIds EXCEPT ![r] = @ \cup {c}]
            /\ roomId' = [roomId EXCEPT ![c] = r]
            /\ UNCHANGED <<threads, connections, authenticated, stale, closeSent>>
        BY <1>1, <2>5 DEF HandleJoinRoom, IInv, TypeOK
      <3>2. r \in RoomId
        BY <2>1, <2>5 DEF Message
      <3>3. roomsMutex = None /\ \A d \in Conn : roomId[d] = None /\ pc[d] # "stuck"
        BY <3>1, FreeMeansEmpty
      <3>4. TypeOK' /\ Parsed' /\ NoDanglingSocket'
        BY <2>5, <3>1, <3>2, <3>3 DEF Wedge, IInv, TypeOK, Parsed, NoDanglingSocket
      <3>5. MembershipAgrees'
        BY <3>1, <3>2, <3>3 DEF IInv, TypeOK, MembershipAgrees
      <3>6. FirstJoinIsLast' /\ OnlySelfDeadlock'
        BY <2>5, <3>1, <3>3 DEF Wedge, IInv, TypeOK, FirstJoinIsLast, OnlySelfDeadlock
      <3> QED BY <3>4, <3>5, <3>6 DEF IInv
    <2>6. c \in authenticated => c \in connections
      BY DEF IInv, TypeOK
    <2> QED BY <2>2, <2>3, <2>4, <2>5, <2>6
  <1>2. CASE HandleLeaveRoom(c)
    <2>1. ~(msg[c].room # None /\ c \in connections /\ roomId[c] = msg[c].room)
      BY <1>2, FreeMeansEmpty DEF HandleLeaveRoom
    <2>2. TypeOK' /\ Return(c) /\ UNCHANGED <<tables, mutexes>>
      BY <1>2, <2>1 DEF HandleLeaveRoom, IInv, TypeOK, Return
    <2> QED BY <1>2, <2>2, GoesOn DEF HandleLeaveRoom, Return
  <1>3. CASE HandleDisconnect(c)
    <2>1. roomId[c] = None /\ pc[c] = "disconnecting"
      BY <1>3, FreeMeansEmpty DEF HandleDisconnect
    <2>2. memberIds' = memberIds
      BY <1>3, FreeMeansEmpty DEF HandleDisconnect
    <2>3. /\ TypeOK' /\ pc' = [pc EXCEPT ![c] = "removing"]
          /\ UNCHANGED <<tables, mutexes, msg>>
      BY <1>3, <2>1, <2>2 DEF HandleDisconnect, IInv, TypeOK
    <2> QED BY <2>1, <2>3, GoesOn
  <1>4. CASE RemoveConnection(c)
    <2>1. roomId[c] = None
      BY <1>4, FreeMeansEmpty DEF RemoveConnection
    <2> QED BY <1>4, <2>1 DEF RemoveConnection, IInv, TypeOK, Parsed, MembershipAgrees,
                     FirstJoinIsLast, OnlySelfDeadlock, NoDanglingSocket
  <1> QED BY <1>1, <1>2, <1>3, <1>4

(* The invariant holds of every behaviour.                                 *)
LEMMA Invariance == Spec => []IInv
  <1>1. IInv /\ [Next]_vars => IInv'
    <2> SUFFICES ASSUME IInv, [Next]_vars PROVE IInv'
      OBVIOUS
    <2>1. CASE UNCHANGED vars
      BY <2>1, ThreadStep DEF vars, tables, mutexes, threads, IInv, TypeOK
    <2>2. CASE Next
      BY <2>2, ServerStep, MessageStep, HandlerStep, RoomStep DEF Next, Handle
    <2> QED BY <2>1, <2>2
  <1> QED BY <1>1, InitInv, PTL DEF Spec

-----------------------------------------------------------------------------
(* The threads' state, the tables and the mutexes keep their types.        *)
THEOREM TypeCorrect == Spec => []TypeOK
  BY Invariance, PTL DEF IInv

(* rooms and connections name each other, whatever handlers are cut off by *)
(* stop() or get stuck in the middle.                                      *)
THEOREM Agreement == Spec => []MembershipAgrees
  BY Invariance, PTL DEF IInv

(* Whoever gets into a room keeps both mutexes.                            *)
THEOREM FirstJoin == Spec => []FirstJoinIsLast
  BY Invariance, PTL DEF IInv

(* No two threads ever wait for each other's mutex.                        *)
THEOREM NoLockCycle == Spec => []OnlySelfDeadlock
  BY Invariance, PTL DEF IInv

(* No entry outlives its socket.                                           *)
THEOREM SocketsLive == Spec => []NoDanglingSocket
  BY Invariance, PTL DEF IInv

(* Once a handler is stuck the tables are as they were for good: nobody    *)
(* connects, authenticates, joins, leaves or is removed, and stop() does   *)
(* not get to clear them.                                                  *)
THEOREM StuckForEver ==
  Spec => [][Wedged => UNCHANGED <<connections, authenticated, roomId, memberIds, mutexes>>]_vars
  <1> DEFINE Frozen == UNCHANGED <<connections, authenticated, roomId, memberIds, mutexes>>
  <1>1. ASSUME IInv, Next, Wedged PROVE Frozen
    <2> USE <1>1 DEF Wedged, tables, mutexes
    <2>1. CASE StopRooms
      BY <2>1, FreeMeansEmpty DEF StopRooms
    <2>2. CASE StartChecker \/ SetRunning \/ StopFlag \/ StopConnections
               \/ \E c \in Conn : Lapse(c)
      BY <2>2 DEF StartChecker, SetRunning, StopFlag, StopConnections, Lapse
    <2>3. CASE Checker
      BY <2>3 DEF Checker, TestRunning, CollectTimeouts, CloseTimeout, NextRound
    <2>4. ASSUME NEW c \in Conn,
                 Open(c) \/ HandleClose(c) \/ \E m \in Message : Receive(c, m)
          PROVE  Frozen
      BY <2>4 DEF Open, HandleClose, Receive
    <2>5. ASSUME NEW c \in Conn, Handle(c) PROVE Frozen
      BY <2>5 DEF Handle, Touch, SendToConnection, HandleConnect, HandleHeartbeat,
                  HandleJoinRoom, HandleLeaveRoom, HandleOperation, HandleCursorUpdate,
                  IgnoreMessage, HandleDisconnect, RemoveConnection, Dispatched, Return,
                  IInv, Parsed, Message
    <2> QED BY <2>1, <2>2, <2>3, <2>4, <2>5 DEF Next
  <1>2. IInv /\ [Next]_vars => [Wedged => Frozen]_vars
    BY <1>1
  <1> QED BY <1>2, Invariance, PTL DEF Spec
=============================================================================
