--------------------------- MODULE SessionManager ---------------------------
(***************************************************************************)
(* src/src/network/SessionManager.cpp: the registry of rooms and of the    *)
(* room each user is in.  Every public method holds managerMutex from its  *)
(* first statement to its return, and takes a Room's roomMutex only inside *)
(* it, so one call is one action.  The calls that only read (getRoom,      *)
(* getUserRoom, getActiveRoomCount, getAllRoomIds) have no action.         *)
(*                                                                         *)
(* A Room is an object with an identity of its own: removeRoom and         *)
(* cleanupEmptyRooms drop the registry's shared_ptr, and a later           *)
(* getOrCreateRoom for the same id makes another object with another,      *)
(* empty document.  RoomObj is the supply of objects; it bounds how many   *)
(* rooms are ever created.                                                 *)
(***************************************************************************)
CONSTANTS UserId, RoomId, ConnId,
          RoomObj,   \* the Room objects make_shared<Room> may return
          Nil        \* "not found": the empty string, the end iterator

ASSUME NilAssumption ==
  /\ Nil \notin RoomId
  /\ Nil \notin ConnId
  /\ Nil \notin RoomObj

VARIABLES
  rooms_,      \* roomId -> the Room object registered under it
  userRooms_,  \* userId -> the room id the manager records for the user
  users_,      \* Room object -> its own map userId -> connectionId
  made         \* the Room objects constructed so far

vars == <<rooms_, userRooms_, users_, made>>

-----------------------------------------------------------------------------
Registered(r) == rooms_[r] # Nil

\* Room::hasUser and Room::getUserCount, for the map m of all the rooms' users.
HasUser(m, o, u) == m[o][u] # Nil
\* Mutant: one user left counts as empty.
EmptyRoomAlmost(m, o) ==
  \A u, v \in UserId : HasUser(m, o, u) /\ HasUser(m, o, v) => u = v

EmptyRoom(m, o) == \A u \in UserId : ~HasUser(m, o, u)

\* Room::removeUser: erases the user if present.
RemoveUser(m, o, u) == [m EXCEPT ![o][u] = Nil]

Init ==
  /\ rooms_ = [r \in RoomId |-> Nil]
  /\ userRooms_ = [u \in UserId |-> Nil]
  /\ users_ = [o \in RoomObj |-> [u \in UserId |-> Nil]]
  /\ made = {}

\* Mutant: the registered room is not looked for.
GetOrCreateRoomUnchecked(r) ==
  /\ \E o \in RoomObj \ made :
       /\ rooms_' = [rooms_ EXCEPT ![r] = o]
       /\ made' = made \cup {o}
  /\ UNCHANGED <<userRooms_, users_>>

\* getOrCreateRoom; when the id is registered it only returns the pointer.
GetOrCreateRoom(r) ==
  /\ ~Registered(r)
  /\ \E o \in RoomObj \ made :
       /\ rooms_' = [rooms_ EXCEPT ![r] = o]
       /\ made' = made \cup {o}
  /\ UNCHANGED <<userRooms_, users_>>

\* Mutant: the users of the room keep their entry.
RemoveRoomKeepsUsers(r) ==
  /\ Registered(r)
  /\ rooms_' = [rooms_ EXCEPT ![r] = Nil]
  /\ UNCHANGED <<userRooms_, users_, made>>

\* The users getUsers() lists lose their entry; the Room keeps its own map.
RemoveRoom(r) ==
  /\ Registered(r)
  /\ userRooms_' = [u \in UserId |->
                      IF HasUser(users_, rooms_[r], u) THEN Nil ELSE userRooms_[u]]
  /\ rooms_' = [rooms_ EXCEPT ![r] = Nil]
  /\ UNCHANGED <<users_, made>>

\* Mutant: the other room is not left.
LeaveOtherNever(u, r) == users_

\* The rooms' maps after addUserToRoom has taken u out of another room.
LeaveOther(u, r) ==
  LET old == userRooms_[u]
  IN  IF old # Nil /\ old # r /\ Registered(old)
        THEN RemoveUser(users_, rooms_[old], u)
        ELSE users_

AddUserToRoom(r, u, c) ==
  LET left == LeaveOther(u, r)
      room == rooms_[r]
  IN  /\ Registered(r)
      /\ \/ \* Room::addUser refuses a user it already has
            /\ HasUser(left, room, u)
            /\ users_' = left
            /\ UNCHANGED userRooms_
         \/ /\ ~HasUser(left, room, u)
            /\ users_' = [left EXCEPT ![room][u] = c]
            /\ userRooms_' = [userRooms_ EXCEPT ![u] = r]
      /\ UNCHANGED <<rooms_, made>>

RemoveUserFromRoom(r, u) ==
  /\ Registered(r)
  /\ HasUser(users_, rooms_[r], u)
  /\ users_' = RemoveUser(users_, rooms_[r], u)
  /\ userRooms_' = [userRooms_ EXCEPT ![u] = Nil]
  /\ UNCHANGED <<rooms_, made>>

CleanupEmptyRooms ==
  /\ rooms_' = [r \in RoomId |->
                  IF Registered(r) /\ EmptyRoom(users_, rooms_[r])
                    THEN Nil ELSE rooms_[r]]
  /\ UNCHANGED <<userRooms_, users_, made>>

Next ==
  \/ \E r \in RoomId : GetOrCreateRoom(r) \/ RemoveRoom(r)
  \/ \E r \in RoomId, u \in UserId, c \in ConnId : AddUserToRoom(r, u, c)
  \/ \E r \in RoomId, u \in UserId : RemoveUserFromRoom(r, u)
  \/ CleanupEmptyRooms

Spec == Init /\ [][Next]_vars

-----------------------------------------------------------------------------
(* The two maps have their types, and only constructed objects are in use. *)
TypeOK ==
  /\ rooms_ \in [RoomId -> made \cup {Nil}]
  /\ userRooms_ \in [UserId -> RoomId \cup {Nil}]
  /\ users_ \in [RoomObj -> [UserId -> ConnId \cup {Nil}]]
  /\ made \subseteq RoomObj

(* The manager's map and the rooms' own maps never disagree: getUserRoom   *)
(* names room r for a user exactly when r is registered and the Room       *)
(* registered under r has the user.  Five methods update the two maps in   *)
(* different orders, each on its own condition.                            *)
MembershipAgrees ==
  \A u \in UserId, r \in RoomId :
    userRooms_[u] = r <=> Registered(r) /\ HasUser(users_, rooms_[r], u)

(* No two ids share a Room, and a Room not yet made has nobody in it.      *)
ObjectsDistinct ==
  /\ \A r, s \in RoomId : Registered(r) /\ rooms_[r] = rooms_[s] => r = s
  /\ \A o \in RoomObj \ made : EmptyRoom(users_, o)

(* addUserToRoom makes a user leave the other room first: nobody is in two *)
(* registered rooms, so nobody receives two documents' broadcasts.         *)
OneRoomPerUser ==
  \A u \in UserId, r, s \in RoomId :
    /\ Registered(r) /\ HasUser(users_, rooms_[r], u)
    /\ Registered(s) /\ HasUser(users_, rooms_[s], u)
    => r = s

(* While a user stays in a room, the Room object behind its id, and with   *)
(* it the document everybody in the room edits, is not exchanged for       *)
(* another: neither a cleanup nor a second getOrCreateRoom can split the   *)
(* members of a room over two documents.                                   *)
RoomStable ==
  [][\A u \in UserId, r \in RoomId :
       userRooms_[u] = r /\ userRooms_'[u] = r => rooms_'[r] = rooms_[r]]_vars

(* The manager implements the directory: one open room per user, and a     *)
(* sweep that closes the empty rooms only.                                 *)
Directory == INSTANCE SessionDirectory WITH
               open <- {r \in RoomId : Registered(r)}, where <- userRooms_
ImplementsDirectory == Directory!DirSpec
=============================================================================
