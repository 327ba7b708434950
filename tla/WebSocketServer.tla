--------------------------- MODULE WebSocketServer ---------------------------
(***************************************************************************)
(* src/src/network/WebSocketServer.cpp, the server main.cpp runs: its two  *)
(* tables, the two mutexes around them, one thread per connection (Crow's  *)
(* pool serialises a connection's callbacks), the thread in start(), the   *)
(* heartbeat checker and a thread calling stop().                          *)
(*                                                                         *)
(* A section under a mutex that is given back is one action, enabled when  *)
(* the mutex is free.  Both are plain std::mutex: a handler that calls     *)
(* sendToConnection, broadcastToRoom or handleLeaveRoom while it holds     *)
(* connectionsMutex locks it a second time, which on the pthread build     *)
(* this project makes never returns; that section ends in Wedge.           *)
(* roomsMutex is never held across a step without connectionsMutex         *)
(* (OnlySelfDeadlock), so a section that has got the one gets the other.   *)
(***************************************************************************)
EXTENDS Naturals

CONSTANTS Conn,     \* connection ids, each used once (uuid)
          RoomId,
          None,     \* "" as a room id, and nobody as a mutex's owner
          Type      \* the types of message that clients send

\* A message by what the dispatch tells apart.  BAD cannot be parsed; LOGIN
\* has a user and a long token, ANONYMOUS lacks one of them, or is a message
\* whose payload makes its handler throw before it locks; OTHER is every
\* type without a handler.
WithRoom == {"JOIN_ROOM", "LEAVE_ROOM"}
Plain == {"BAD", "LOGIN", "ANONYMOUS", "HEARTBEAT", "OPERATION", "CURSOR_UPDATE", "OTHER"}

ASSUME WebSocketAssumption ==
  None \notin Conn \cup RoomId /\ Type \subseteq WithRoom \cup Plain

VARIABLES
  running, starter, stopper,      \* the flag; the threads in start() and stop()
  checker, timeouts,              \* the checker thread, timeoutConnections
  connections, authenticated, roomId, stale,   \* the entries; stale: silent for > 90 s
  memberIds,                      \* of rooms; a room nobody joined has no members
  connectionsMutex, roomsMutex,   \* their owners
  pc, msg,                        \* per connection: where its thread is, with what
  closeSent                       \* close() was called on its socket

tables == <<connections, authenticated, roomId, stale, memberIds>>
mutexes == <<connectionsMutex, roomsMutex>>
threads == <<running, starter, stopper, checker, timeouts>>
vars == <<threads, tables, mutexes, pc, msg, closeSent>>

Message ==
  [type : Type \cap Plain, room : {None}]
  \cup [type : Type \cap WithRoom, room : RoomId \cup {None}]

NoMessage == [type |-> "NONE", room |-> None]

-----------------------------------------------------------------------------
Init ==
  /\ running = FALSE /\ starter = "none" /\ stopper = "none"
  /\ checker = "none" /\ timeouts = {}
  /\ connections = {} /\ authenticated = {} /\ stale = {}
  /\ roomId = [c \in Conn |-> None]
  /\ memberIds = [r \in RoomId |-> {}]
  /\ connectionsMutex = None /\ roomsMutex = None
  /\ pc = [c \in Conn |-> "none"]
  /\ msg = [c \in Conn |-> NoMessage]
  /\ closeSent = {}

(***************************************************************************)
(* start(), stop() and the clock.                                          *)
(***************************************************************************)
\* startHeartbeatChecker comes before running is set.
StartChecker ==
  /\ ~running /\ starter = "none"
  /\ starter' = "spawned" /\ checker' = "testing"
  /\ UNCHANGED <<running, stopper, timeouts, tables, mutexes, pc, msg, closeSent>>

SetRunning ==
  /\ starter = "spawned"
  /\ running' = TRUE /\ starter' = "serving"
  /\ UNCHANGED <<stopper, checker, timeouts, tables, mutexes, pc, msg, closeSent>>

StopFlag ==
  /\ running /\ stopper = "none"
  /\ running' = FALSE /\ stopper' = "closing"
  /\ UNCHANGED <<starter, checker, timeouts, tables, mutexes, pc, msg, closeSent>>

StopConnections ==
  /\ stopper = "closing" /\ connectionsMutex = None
  /\ closeSent' = closeSent \cup connections
  /\ connections' = {} /\ authenticated' = {} /\ stale' = {}
  /\ roomId' = [c \in Conn |-> None]
  /\ stopper' = "clearing"
  /\ UNCHANGED <<running, starter, checker, timeouts, memberIds, mutexes, pc, msg>>

StopRooms ==
  /\ stopper = "clearing" /\ roomsMutex = None
  /\ memberIds' = [r \in RoomId |-> {}]
  /\ stopper' = "stopped"
  /\ UNCHANGED <<running, starter, checker, timeouts, connections, authenticated, roomId,
                 stale, mutexes, pc, msg, closeSent>>

\* connectionTimeout passes without a message of c.
Lapse(c) ==
  /\ c \in connections \ stale
  /\ stale' = stale \cup {c}
  /\ UNCHANGED <<threads, connections, authenticated, roomId, memberIds, mutexes,
                 pc, msg, closeSent>>

(***************************************************************************)
(* The heartbeat checker.                                                  *)
(***************************************************************************)
TestRunning ==
  /\ checker = "testing"
  /\ checker' = IF running THEN "sleeping" ELSE "exited"
  /\ UNCHANGED <<running, starter, stopper, timeouts, tables, mutexes, pc, msg, closeSent>>

\* Mutant: the comparison with connectionTimeout is the wrong way round.
CollectTimeoutsInverted ==
  /\ checker = "sleeping" /\ connectionsMutex = None
  /\ timeouts' = connections \ stale
  /\ checker' = "closing"
  /\ UNCHANGED <<running, starter, stopper, tables, mutexes, pc, msg, closeSent>>

CollectTimeouts ==
  /\ checker = "sleeping" /\ connectionsMutex = None
  /\ timeouts' = connections \cap stale
  /\ checker' = "closing"
  /\ UNCHANGED <<running, starter, stopper, tables, mutexes, pc, msg, closeSent>>

\* Each connection collected is looked up again, not looked at again.
CloseTimeout(c) ==
  /\ checker = "closing" /\ c \in timeouts /\ connectionsMutex = None
  /\ timeouts' = timeouts \ {c}
  /\ closeSent' = closeSent \cup ({c} \cap connections)
  /\ UNCHANGED <<running, starter, stopper, checker, tables, mutexes, pc, msg>>

NextRound ==
  /\ checker = "closing" /\ timeouts = {}
  /\ checker' = "testing"
  /\ UNCHANGED <<running, starter, stopper, timeouts, tables, mutexes, pc, msg, closeSent>>

(***************************************************************************)
(* Crow's callbacks on the thread of connection c.                         *)
(***************************************************************************)
\* handleOpen: addConnection, then the welcome.
Open(c) ==
  /\ starter = "serving" /\ pc[c] = "none" /\ connectionsMutex = None
  /\ connections' = connections \cup {c}
  /\ pc' = [pc EXCEPT ![c] = "replying"]
  /\ msg' = [msg EXCEPT ![c] = [type |-> "WELCOME", room |-> None]]
  /\ UNCHANGED <<threads, authenticated, roomId, stale, memberIds, mutexes, closeSent>>

\* handleMessage finds the id of the connection, or drops the message.
Receive(c, m) ==
  /\ pc[c] = "idle" /\ connectionsMutex = None
  /\ IF c \in connections
       THEN /\ pc' = [pc EXCEPT ![c] = IF m.type = "BAD" THEN "replying" ELSE "parsed"]
            /\ msg' = [msg EXCEPT ![c] = m]
       ELSE UNCHANGED <<pc, msg>>
  /\ UNCHANGED <<threads, tables, mutexes, closeSent>>

Touch(c) ==
  /\ pc[c] = "parsed" /\ connectionsMutex = None
  /\ stale' = stale \ {c}
  /\ pc' = [pc EXCEPT ![c] = "dispatching"]
  /\ UNCHANGED <<threads, connections, authenticated, roomId, memberIds, mutexes,
                 msg, closeSent>>

Return(c) ==
  /\ pc' = [pc EXCEPT ![c] = "idle"]
  /\ msg' = [msg EXCEPT ![c] = NoMessage]

\* Mutant: waits for the connection's entry.
SendToConnectionWaits(c) ==
  /\ pc[c] = "replying" /\ connectionsMutex = None /\ c \in connections
  /\ Return(c)
  /\ UNCHANGED <<threads, tables, mutexes, closeSent>>

\* sendToConnection, called with no mutex held: sends if c has an entry
\* still; the handler is done.
SendToConnection(c) ==
  /\ pc[c] = "replying" /\ connectionsMutex = None
  /\ Return(c)
  /\ UNCHANGED <<threads, tables, mutexes, closeSent>>

Dispatched(c, types) ==
  /\ pc[c] = "dispatching" /\ msg[c].type \in types

\* Mutant: connectionsMutex is given back before the room is notified.
WedgeRooms(c, held) ==
  /\ roomsMutex' = IF "rooms" \in held THEN c ELSE roomsMutex
  /\ pc' = [pc EXCEPT ![c] = "stuck"]
  /\ UNCHANGED <<connectionsMutex, msg>>

\* The thread locks connectionsMutex again while it holds the mutexes held.
Wedge(c, held) ==
  /\ connectionsMutex' = c
  /\ roomsMutex' = IF "rooms" \in held THEN c ELSE roomsMutex
  /\ pc' = [pc EXCEPT ![c] = "stuck"]
  /\ msg' = msg

\* handleConnect; handleHeartbeat writes lastHeartbeat once more.
HandleConnect(c) ==
  /\ Dispatched(c, {"LOGIN", "ANONYMOUS"})
  /\ msg[c].type = "LOGIN" => connectionsMutex = None
  /\ authenticated' = IF msg[c].type = "LOGIN"
                        THEN authenticated \cup ({c} \cap connections) ELSE authenticated
  /\ pc' = [pc EXCEPT ![c] = "replying"]
  /\ UNCHANGED <<threads, connections, roomId, stale, memberIds, mutexes, msg, closeSent>>

HandleHeartbeat(c) ==
  /\ Dispatched(c, {"HEARTBEAT"}) /\ connectionsMutex = None
  /\ stale' = stale \ {c}
  /\ pc' = [pc EXCEPT ![c] = "replying"]
  /\ UNCHANGED <<threads, connections, authenticated, roomId, memberIds, mutexes,
                 msg, closeSent>>

\* Mutant: the connection's roomId is written after the messages are sent.
HandleJoinRoomLate(c) ==
  LET r == msg[c].room
  IN  /\ Dispatched(c, {"JOIN_ROOM"})
      /\ r # None /\ c \in authenticated /\ connectionsMutex = None
      /\ memberIds' = [memberIds EXCEPT ![r] = @ \cup {c}]
      /\ Wedge(c, {"rooms"})
      /\ UNCHANGED <<threads, connections, authenticated, roomId, stale, closeSent>>

\* Only a refused roomId is answered: a connection that has not
\* authenticated, or is in a room, wedges on the way, and a join wedges on
\* the room info it sends, after both tables have been written.
HandleJoinRoom(c) ==
  LET r == msg[c].room
  IN  /\ Dispatched(c, {"JOIN_ROOM"})
      /\ \/ /\ r = None
            /\ pc' = [pc EXCEPT ![c] = "replying"]
            /\ UNCHANGED <<msg, mutexes, roomId, memberIds>>
         \/ /\ r # None /\ c \notin connections /\ connectionsMutex = None
            /\ Return(c)
            /\ UNCHANGED <<mutexes, roomId, memberIds>>
         \/ /\ r # None /\ c \in connections /\ connectionsMutex = None
            /\ c \notin authenticated \/ roomId[c] # None
            /\ Wedge(c, {})
            /\ UNCHANGED <<roomId, memberIds>>
         \/ /\ r # None /\ c \in authenticated /\ roomId[c] = None
            /\ connectionsMutex = None /\ roomsMutex = None
            /\ memberIds' = [memberIds EXCEPT ![r] = @ \cup {c}]
            /\ roomId' = [roomId EXCEPT ![c] = r]
            /\ Wedge(c, {"rooms"})
      /\ UNCHANGED <<threads, connections, authenticated, stale, closeSent>>

\* handleLeaveRoom wedges on the broadcast once it has erased the member.
HandleLeaveRoom(c) ==
  LET r == msg[c].room
      leaves == r # None /\ c \in connections /\ roomId[c] = r
  IN  /\ Dispatched(c, {"LEAVE_ROOM"})
      /\ r # None => connectionsMutex = None
      /\ memberIds' = IF leaves THEN [memberIds EXCEPT ![r] = @ \ {c}] ELSE memberIds
      /\ IF leaves THEN Wedge(c, {"rooms"}) ELSE Return(c) /\ UNCHANGED mutexes
      /\ UNCHANGED <<threads, connections, authenticated, roomId, stale, closeSent>>

\* handleOperation wedges either way: on the error, or in broadcastToRoom,
\* which takes roomsMutex first.
HandleOperation(c) ==
  /\ Dispatched(c, {"OPERATION"}) /\ connectionsMutex = None
  /\ Wedge(c, IF roomId[c] = None THEN {} ELSE {"rooms"})
  /\ UNCHANGED <<threads, tables, closeSent>>

HandleCursorUpdate(c) ==
  /\ Dispatched(c, {"CURSOR_UPDATE"}) /\ connectionsMutex = None
  /\ IF roomId[c] = None THEN Return(c) /\ UNCHANGED mutexes ELSE Wedge(c, {"rooms"})
  /\ UNCHANGED <<threads, tables, closeSent>>

IgnoreMessage(c) ==
  /\ Dispatched(c, {"OTHER"})
  /\ Return(c)
  /\ UNCHANGED <<threads, tables, mutexes, closeSent>>

\* onclose, because the client left or close() was called: handleClose finds
\* the id, handleDisconnect leaves the room, removeConnection erases.
HandleClose(c) ==
  /\ pc[c] = "idle" /\ connectionsMutex = None
  /\ pc' = [pc EXCEPT ![c] = IF c \in connections THEN "disconnecting" ELSE "gone"]
  /\ UNCHANGED <<threads, tables, mutexes, msg, closeSent>>

\* Mutant: handleClose does not go on to removeConnection.
HandleDisconnectOnly(c) ==
  /\ pc[c] = "disconnecting" /\ connectionsMutex = None
  /\ pc' = [pc EXCEPT ![c] = "gone"]
  /\ UNCHANGED <<threads, tables, mutexes, msg, closeSent>>

HandleDisconnect(c) ==
  /\ pc[c] = "disconnecting" /\ connectionsMutex = None
  /\ memberIds' = [r \in RoomId |-> IF r = roomId[c] THEN memberIds[r] \ {c} ELSE memberIds[r]]
  /\ IF roomId[c] # None
       THEN Wedge(c, {"rooms"})
       ELSE pc' = [pc EXCEPT ![c] = "removing"] /\ UNCHANGED <<msg, mutexes>>
  /\ UNCHANGED <<threads, connections, authenticated, roomId, stale, closeSent>>

RemoveConnection(c) ==
  /\ pc[c] = "removing" /\ connectionsMutex = None
  /\ connections' = connections \ {c} /\ authenticated' = authenticated \ {c}
  /\ stale' = stale \ {c} /\ roomId' = [roomId EXCEPT ![c] = None]
  /\ pc' = [pc EXCEPT ![c] = "gone"]
  /\ UNCHANGED <<threads, memberIds, mutexes, msg, closeSent>>

Handle(c) ==
  \/ Touch(c) \/ SendToConnection(c) \/ HandleConnect(c) \/ HandleHeartbeat(c)
  \/ HandleJoinRoom(c) \/ HandleLeaveRoom(c) \/ HandleOperation(c)
  \/ HandleCursorUpdate(c) \/ IgnoreMessage(c)
  \/ HandleDisconnect(c) \/ RemoveConnection(c)

Checker ==
  TestRunning \/ CollectTimeouts \/ (\E c \in Conn : CloseTimeout(c)) \/ NextRound

Next ==
  \/ StartChecker \/ SetRunning \/ StopFlag \/ StopConnections \/ StopRooms \/ Checker
  \/ \E c \in Conn : Lapse(c) \/ Open(c) \/ HandleClose(c) \/ Handle(c)
  \/ \E c \in Conn, m \in Message : Receive(c, m)

Spec == Init /\ [][Next]_vars

\* The scheduler runs every thread that can run and the checker's sleep
\* ends; weak is enough, as a mutex held across a step is never given back.
\* A socket that close() was called on reports it even if its client goes on
\* sending: Crow queues the close behind the callback that is running.
FairSpec ==
  /\ Spec
  /\ WF_vars(Checker)
  /\ \A c \in Conn : WF_vars(Handle(c)) /\ SF_vars(c \in closeSent /\ HandleClose(c))

-----------------------------------------------------------------------------
Wedged == connectionsMutex # None

(* Threads, tables, mutexes and messages have their types, and an entry    *)
(* that is not in the table has no state.                                  *)
TypeOK ==
  /\ running \in BOOLEAN
  /\ starter \in {"none", "spawned", "serving"}
  /\ stopper \in {"none", "closing", "clearing", "stopped"}
  /\ checker \in {"none", "testing", "sleeping", "closing", "exited"}
  /\ timeouts \subseteq Conn /\ connections \subseteq Conn
  /\ authenticated \subseteq connections /\ stale \subseteq connections
  /\ roomId \in [Conn -> RoomId \cup {None}]
  /\ \A c \in Conn \ connections : roomId[c] = None
  /\ memberIds \in [RoomId -> SUBSET Conn]
  /\ connectionsMutex \in Conn \cup {None} /\ roomsMutex \in Conn \cup {None}
  /\ pc \in [Conn -> {"none", "idle", "parsed", "dispatching", "replying", "stuck",
                      "disconnecting", "removing", "gone"}]
  /\ closeSent \subseteq Conn

(* rooms and connections name each other: a member's entry names the room, *)
(* also while its thread is stuck and while stop() is between its two      *)
(* tables.                                                                 *)
MembershipAgrees ==
  \A r \in RoomId, c \in Conn : c \in memberIds[r] <=> roomId[c] = r

(* Whoever holds roomsMutex across a step holds connectionsMutex, and that *)
(* holder is the one thread that waits for it: there is no lock cycle of   *)
(* two threads, only one thread waiting for itself.                        *)
OnlySelfDeadlock ==
  /\ roomsMutex # None => connectionsMutex = roomsMutex
  /\ \A c \in Conn : pc[c] = "stuck" <=> connectionsMutex = c

(* The table never holds the wsConn of a socket Crow has destroyed, which  *)
(* it does when onclose returns.                                           *)
NoDanglingSocket ==
  \A c \in connections : pc[c] \notin {"none", "gone"}

(* While no handler is stuck, every message and every close is handled to  *)
(* the end, whatever stop() and the checker do meanwhile.                  *)
HandlersReturn ==
  \A c \in Conn : pc[c] \in {"parsed", "dispatching", "replying", "disconnecting", "removing"}
                    ~> pc[c] \in {"idle", "gone"} \/ Wedged

(* A connection that stays silent is closed and removed, unless a handler  *)
(* is stuck or the checker has ended.                                      *)
SilentReaped ==
  \A c \in Conn :
    c \in stale ~> c \notin stale \/ c \notin connections \/ Wedged \/ checker = "exited"

(* A user who has logged in and asks to join a room is told of it, and can *)
(* go on: users edit a document together in its room.                      *)
JoinAnswered ==
  \A c \in Conn :
    pc[c] = "parsed" /\ msg[c].type = "JOIN_ROOM" /\ c \in authenticated
      ~> pc[c] \in {"idle", "gone"}

=============================================================================
