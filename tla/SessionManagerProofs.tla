------------------------ MODULE SessionManagerProofs ------------------------
(***************************************************************************)
(* Proofs about SessionManager, for any sets of users, rooms, connections  *)
(* and Room objects.  The inductive invariant IInv joins the agreement of  *)
(* the two maps with the typing and with the distinctness of the Room      *)
(* objects: without the latter, removing one room could empty another.     *)
(***************************************************************************)
EXTENDS SessionManager, TLAPS

IInv == TypeOK /\ MembershipAgrees /\ ObjectsDistinct

-----------------------------------------------------------------------------
(* The initial state satisfies the invariant: no room, no user, no object. *)
LEMMA InitIInv == Init => IInv
  BY NilAssumption
  DEF Init, IInv, TypeOK, MembershipAgrees, ObjectsDistinct, Registered, HasUser, EmptyRoom

(* Every method preserves the invariant.                                   *)
LEMMA NextIInv == IInv /\ [Next]_vars => IInv'
  <1> SUFFICES ASSUME IInv, [Next]_vars PROVE IInv'
    OBVIOUS
  <1> USE DEF IInv
  <1>t. /\ rooms_ \in [RoomId -> made \cup {Nil}]
        /\ userRooms_ \in [UserId -> RoomId \cup {Nil}]
        /\ users_ \in [RoomObj -> [UserId -> ConnId \cup {Nil}]]
        /\ made \subseteq RoomObj
    BY DEF TypeOK
  <1>o. \A r \in RoomId : Registered(r) => rooms_[r] \in RoomObj
    BY <1>t DEF Registered
  <1>1. ASSUME NEW r \in RoomId, GetOrCreateRoom(r) PROVE IInv'
    <2>1. PICK o \in RoomObj \ made : /\ rooms_' = [rooms_ EXCEPT ![r] = o]
                                      /\ made' = made \cup {o}
      BY <1>1 DEF GetOrCreateRoom
    <2>2. userRooms_' = userRooms_ /\ users_' = users_ /\ ~Registered(r)
      BY <1>1 DEF GetOrCreateRoom
    <2>3. o # Nil /\ o \in RoomObj
      BY <2>1, NilAssumption
    <2>4. TypeOK'
      BY <1>t, <2>1, <2>2 DEF TypeOK
    <2>5. \A s \in RoomId : rooms_'[s] = IF s = r THEN o ELSE rooms_[s]
      BY <1>t, <2>1
    <2>6. \A u \in UserId : ~HasUser(users_, o, u)
      BY <2>1 DEF ObjectsDistinct, EmptyRoom
    <2>7. MembershipAgrees'
      BY <1>t, <2>2, <2>3, <2>5, <2>6 DEF MembershipAgrees, Registered, HasUser
    <2>8. ObjectsDistinct'
      BY <1>t, <2>1, <2>2, <2>3, <2>5 DEF ObjectsDistinct, Registered, EmptyRoom, HasUser
    <2> QED BY <2>4, <2>7, <2>8
  <1>2. ASSUME NEW r \in RoomId, RemoveRoom(r) PROVE IInv'
    <2>1. /\ Registered(r) /\ users_' = users_ /\ made' = made
          /\ rooms_' = [rooms_ EXCEPT ![r] = Nil]
          /\ userRooms_' = [u \in UserId |->
               IF HasUser(users_, rooms_[r], u) THEN Nil ELSE userRooms_[u]]
      BY <1>2 DEF RemoveRoom
    <2>2. TypeOK'
      BY <1>t, <2>1 DEF TypeOK
    <2>3. \A s \in RoomId : rooms_'[s] = IF s = r THEN Nil ELSE rooms_[s]
      BY <1>t, <2>1
    <2>4. ASSUME NEW u \in UserId, NEW s \in RoomId
          PROVE  (userRooms_[u] = s <=> Registered(s) /\ HasUser(users_, rooms_[s], u))'
      <3>1. CASE s = r
        BY <3>1, <2>1, <2>3, NilAssumption DEF MembershipAgrees, Registered, HasUser
      <3>2. CASE s # r
        BY <3>2, <2>1, <2>3, NilAssumption DEF MembershipAgrees, Registered, HasUser
      <3> QED BY <3>1, <3>2
    <2>5. MembershipAgrees'
      BY <2>4 DEF MembershipAgrees
    <2>6. ObjectsDistinct'
      BY <2>1, <2>3 DEF ObjectsDistinct, Registered, EmptyRoom, HasUser
    <2> QED BY <2>2, <2>5, <2>6
  <1>3. ASSUME NEW r \in RoomId, NEW u \in UserId, NEW c \in ConnId, AddUserToRoom(r, u, c)
        PROVE  IInv'
    <2> DEFINE left == LeaveOther(u, r)
    <2>1. /\ Registered(r) /\ rooms_' = rooms_ /\ made' = made
          /\ \/ HasUser(left, rooms_[r], u) /\ users_' = left /\ userRooms_' = userRooms_
             \/ /\ ~HasUser(left, rooms_[r], u)
                /\ users_' = [left EXCEPT ![rooms_[r]][u] = c]
                /\ userRooms_' = [userRooms_ EXCEPT ![u] = r]
      BY <1>3 DEF AddUserToRoom
    <2>2. rooms_[r] \in RoomObj /\ c # Nil
      BY <1>o, <2>1, NilAssumption
    \* Leaving removes u, and only u, from its old room, and only if that is not r.
    <2>3. /\ left \in [RoomObj -> [UserId -> ConnId \cup {Nil}]]
          /\ \A s \in RoomId, v \in UserId : Registered(s) =>
               left[rooms_[s]][v] =
                 IF v = u /\ s # r /\ userRooms_[u] = s THEN Nil ELSE users_[rooms_[s]][v]
          /\ \A p \in RoomObj \ made, v \in UserId : left[p][v] = Nil
      <3>1. CASE userRooms_[u] # Nil /\ userRooms_[u] # r /\ Registered(userRooms_[u])
        <4>1. userRooms_[u] \in RoomId
          BY <3>1, <1>t
        <4>2. left = [users_ EXCEPT ![rooms_[userRooms_[u]]][u] = Nil]
          BY <3>1 DEF LeaveOther, RemoveUser
        <4>3. rooms_[userRooms_[u]] \in RoomObj
          BY <3>1, <4>1, <1>o
        <4>4. \A p \in RoomObj, v \in UserId :
                left[p][v] = IF p = rooms_[userRooms_[u]] /\ v = u THEN Nil ELSE users_[p][v]
          BY <1>t, <4>2, <4>3
        <4>5. left \in [RoomObj -> [UserId -> ConnId \cup {Nil}]]
          BY <1>t, <4>2, <4>3
        <4>6. \A s \in RoomId : Registered(s) =>
                (rooms_[s] = rooms_[userRooms_[u]] <=> userRooms_[u] = s)
          BY <3>1, <4>1 DEF ObjectsDistinct
        <4>7. \A p \in RoomObj \ made, v \in UserId : left[p][v] = Nil
          BY <4>4 DEF ObjectsDistinct, EmptyRoom, HasUser
        <4> QED BY <1>o, <3>1, <4>1, <4>4, <4>5, <4>6, <4>7
      <3>2. CASE ~(userRooms_[u] # Nil /\ userRooms_[u] # r /\ Registered(userRooms_[u]))
        <4>1. left = users_
          BY <3>2 DEF LeaveOther
        <4>2. \A s \in RoomId : ~(Registered(s) /\ s # r /\ userRooms_[u] = s)
          BY <3>2, NilAssumption
        <4> QED BY <1>t, <4>1, <4>2 DEF ObjectsDistinct, EmptyRoom, HasUser
      <3> QED BY <3>1, <3>2
    <2>4. CASE HasUser(left, rooms_[r], u) /\ users_' = left /\ userRooms_' = userRooms_
      \* u was in r already, so nothing was left and nothing changes.
      <3>1. userRooms_[u] = r
        BY <2>1, <2>3, <2>4 DEF HasUser, MembershipAgrees
      <3>2. TypeOK'
        BY <1>t, <2>1, <2>3, <2>4 DEF TypeOK
      <3>3. MembershipAgrees'
        BY <2>1, <2>3, <2>4, <3>1 DEF MembershipAgrees, Registered, HasUser
      <3>4. ObjectsDistinct'
        BY <2>1, <2>3, <2>4 DEF ObjectsDistinct, Registered, EmptyRoom, HasUser
      <3> QED BY <3>2, <3>3, <3>4
    <2>5. CASE /\ ~HasUser(left, rooms_[r], u)
               /\ users_' = [left EXCEPT ![rooms_[r]][u] = c]
               /\ userRooms_' = [userRooms_ EXCEPT ![u] = r]
      <3>1. \A p \in RoomObj, v \in UserId :
              users_'[p][v] = IF p = rooms_[r] /\ v = u THEN c ELSE left[p][v]
        BY <2>2, <2>3, <2>5
      <3>2. users_' \in [RoomObj -> [UserId -> ConnId \cup {Nil}]]
        BY <2>2, <2>3, <2>5
      <3>3. \A v \in UserId : userRooms_'[v] = IF v = u THEN r ELSE userRooms_[v]
        BY <1>t, <2>5
      <3>4. TypeOK'
        BY <1>t, <2>1, <2>5, <3>2 DEF TypeOK
      <3>5. ASSUME NEW v \in UserId, NEW s \in RoomId
            PROVE  (userRooms_[v] = s <=> Registered(s) /\ HasUser(users_, rooms_[s], v))'
        <4>1. CASE s = r
          BY <4>1, <2>1, <2>2, <2>3, <3>1, <3>3 DEF MembershipAgrees, Registered, HasUser
        <4>2. CASE s # r /\ v = u
          <5>1. ~(userRooms_'[v] = s)
            BY <3>3, <4>2
          <5>2. Registered(s) => rooms_[s] # rooms_[r]
            BY <2>1, <4>2 DEF ObjectsDistinct
          <5>3. Registered(s) => users_'[rooms_[s]][v] = left[rooms_[s]][v]
            BY <1>o, <3>1, <5>2
          <5>4. Registered(s) => left[rooms_[s]][v] = Nil
            BY <2>3, <4>2 DEF MembershipAgrees, HasUser
          <5> QED BY <2>1, <5>1, <5>3, <5>4 DEF Registered, HasUser
        <4>3. CASE s # r /\ v # u
          <5>1. userRooms_'[v] = userRooms_[v]
            BY <3>3, <4>3
          <5>2. Registered(s) => users_'[rooms_[s]][v] = users_[rooms_[s]][v]
            BY <1>o, <2>3, <3>1, <4>3
          <5> QED BY <2>1, <5>1, <5>2 DEF MembershipAgrees, Registered, HasUser
        <4> QED BY <4>1, <4>2, <4>3
      <3>6. MembershipAgrees'
        BY <3>5 DEF MembershipAgrees
      <3>7. rooms_[r] \in made
        BY <1>t, <2>1 DEF Registered
      <3>8. ObjectsDistinct'
        BY <2>1, <2>3, <3>1, <3>7 DEF ObjectsDistinct, Registered, EmptyRoom, HasUser
      <3> QED BY <3>4, <3>6, <3>8
    <2> QED BY <2>1, <2>4, <2>5
  <1>4. ASSUME NEW r \in RoomId, NEW u \in UserId, RemoveUserFromRoom(r, u) PROVE IInv'
    <2>1. /\ Registered(r) /\ HasUser(users_, rooms_[r], u)
          /\ rooms_' = rooms_ /\ made' = made
          /\ users_' = [users_ EXCEPT ![rooms_[r]][u] = Nil]
          /\ userRooms_' = [userRooms_ EXCEPT ![u] = Nil]
      BY <1>4 DEF RemoveUserFromRoom, RemoveUser
    <2>2. rooms_[r] \in RoomObj
      BY <1>o, <2>1
    <2>3. \A p \in RoomObj, v \in UserId :
            users_'[p][v] = IF p = rooms_[r] /\ v = u THEN Nil ELSE users_[p][v]
      BY <1>t, <2>1, <2>2
    <2>4. \A v \in UserId : userRooms_'[v] = IF v = u THEN Nil ELSE userRooms_[v]
      BY <1>t, <2>1
    <2>5. TypeOK'
      BY <1>t, <2>1, <2>2 DEF TypeOK
    <2>6. userRooms_[u] = r
      BY <2>1 DEF MembershipAgrees
    <2>7. ASSUME NEW v \in UserId, NEW s \in RoomId
          PROVE  (userRooms_[v] = s <=> Registered(s) /\ HasUser(users_, rooms_[s], v))'
      <3>1. CASE v # u
        <4>1. Registered(s) => users_'[rooms_[s]][v] = users_[rooms_[s]][v]
          BY <1>o, <2>3, <3>1
        <4> QED BY <2>1, <2>4, <3>1, <4>1 DEF MembershipAgrees, Registered, HasUser
      <3>2. CASE v = u
        <4>1. userRooms_'[v] # s
          BY <2>4, <3>2, NilAssumption
        <4>2. Registered(s) => users_'[rooms_[s]][v] = Nil
          BY <1>o, <2>3, <2>6, <3>2 DEF MembershipAgrees, HasUser
        <4> QED BY <2>1, <4>1, <4>2 DEF Registered, HasUser
      <3> QED BY <3>1, <3>2
    <2>8. MembershipAgrees'
      BY <2>7 DEF MembershipAgrees
    <2>9. ObjectsDistinct'
      BY <2>1, <2>3 DEF ObjectsDistinct, Registered, EmptyRoom, HasUser
    <2> QED BY <2>5, <2>8, <2>9
  <1>5. CASE CleanupEmptyRooms
    <2>1. /\ userRooms_' = userRooms_ /\ users_' = users_ /\ made' = made
          /\ \A s \in RoomId : rooms_'[s] = IF Registered(s) /\ EmptyRoom(users_, rooms_[s])
                                              THEN Nil ELSE rooms_[s]
      BY <1>5 DEF CleanupEmptyRooms
    <2>2. TypeOK'
      BY <1>t, <1>5 DEF TypeOK, CleanupEmptyRooms
    <2>3. ASSUME NEW v \in UserId, NEW s \in RoomId
          PROVE  (userRooms_[v] = s <=> Registered(s) /\ HasUser(users_, rooms_[s], v))'
      BY <2>1 DEF MembershipAgrees, Registered, HasUser, EmptyRoom
    <2>4. MembershipAgrees'
      BY <2>3 DEF MembershipAgrees
    <2>5. ObjectsDistinct'
      BY <2>1 DEF ObjectsDistinct, Registered, EmptyRoom, HasUser
    <2> QED BY <2>2, <2>4, <2>5
  <1>6. CASE UNCHANGED vars
    BY <1>6 DEF vars, TypeOK, MembershipAgrees, ObjectsDistinct, Registered, HasUser, EmptyRoom
  <1> QED BY <1>1, <1>2, <1>3, <1>4, <1>5, <1>6 DEF Next

(* The invariant holds in every reachable state of SessionManager.         *)
THEOREM Invariance == Spec => []IInv
  BY InitIInv, NextIInv, PTL DEF Spec

(* The registry's maps and the rooms' maps are always well typed.          *)
THEOREM TypeCorrect == Spec => []TypeOK
  BY Invariance, PTL DEF IInv

(* userRooms_ and the rooms' own user maps agree after every call.         *)
THEOREM Agreement == Spec => []MembershipAgrees
  BY Invariance, PTL DEF IInv

(* Nobody is in two registered rooms: a user's record names one room.      *)
THEOREM SingleRoom == Spec => []OneRoomPerUser
  <1>1. IInv => OneRoomPerUser
    BY DEF IInv, MembershipAgrees, OneRoomPerUser
  <1> QED BY <1>1, Invariance, PTL

(* The Room object behind a room id does not change under its members: a   *)
(* registered room with a user is neither re-created nor swept away.       *)
THEOREM RoomStability == Spec => RoomStable
  <1> DEFINE Stable == \A u \in UserId, r \in RoomId :
               userRooms_[u] = r /\ userRooms_'[u] = r => rooms_'[r] = rooms_[r]
  <1>1. IInv /\ IInv' /\ [Next]_vars => [Stable]_vars
    <2> SUFFICES ASSUME IInv, IInv', Next, NEW u \in UserId, NEW r \in RoomId,
                        userRooms_[u] = r, userRooms_'[u] = r
                 PROVE  rooms_'[r] = rooms_[r]
      OBVIOUS
    <2> USE DEF IInv
    <2>1. Registered(r) /\ Registered(r)' /\ HasUser(users_, rooms_[r], u)
      BY DEF MembershipAgrees
    <2>2. CASE \E s \in RoomId : GetOrCreateRoom(s)
      BY <2>1, <2>2 DEF GetOrCreateRoom, TypeOK, Registered
    <2>3. CASE \E s \in RoomId : RemoveRoom(s)
      BY <2>1, <2>3 DEF RemoveRoom, TypeOK, Registered
    <2>4. CASE \E s \in RoomId, v \in UserId, c \in ConnId : AddUserToRoom(s, v, c)
      BY <2>4 DEF AddUserToRoom
    <2>5. CASE \E s \in RoomId, v \in UserId : RemoveUserFromRoom(s, v)
      BY <2>5 DEF RemoveUserFromRoom
    <2>6. CASE CleanupEmptyRooms
      BY <2>1, <2>6 DEF CleanupEmptyRooms, EmptyRoom
    <2> QED BY <2>2, <2>3, <2>4, <2>5, <2>6 DEF Next
  <1>2. [][IInv /\ IInv' /\ [Next]_vars]_vars => RoomStable
    BY <1>1, PTL DEF RoomStable
  <1> QED BY <1>2, Invariance, PTL DEF Spec

-----------------------------------------------------------------------------
(* Every call of the manager is a step of the directory, or changes        *)
(* nothing the directory sees.                                             *)
LEMMA StepImplements ==
  ASSUME IInv, IInv', [Next]_vars
  PROVE  [Directory!DirNext]_(Directory!dirVars)
  <1> DEFINE open == {r \in RoomId : Registered(r)}
  <1> USE DEF IInv, Directory!dirVars, Directory!DirNext
  <1>t. /\ rooms_ \in [RoomId -> made \cup {Nil}]
        /\ userRooms_ \in [UserId -> RoomId \cup {Nil}]
    BY DEF TypeOK
  <1>1. ASSUME NEW r \in RoomId, GetOrCreateRoom(r) PROVE Directory!Open(r)
    <2>1. PICK o \in RoomObj \ made : rooms_' = [rooms_ EXCEPT ![r] = o]
      BY <1>1 DEF GetOrCreateRoom
    <2>2. o # Nil
      BY <2>1, NilAssumption
    <2>3. \A s \in RoomId : rooms_'[s] = IF s = r THEN o ELSE rooms_[s]
      BY <1>t, <2>1
    <2>4. ~Registered(r) /\ userRooms_' = userRooms_
      BY <1>1 DEF GetOrCreateRoom
    <2>5. open' = open \cup {r}
      BY <2>2, <2>3 DEF Registered
    <2> QED BY <2>4, <2>5 DEF Directory!Open
  <1>2. ASSUME NEW r \in RoomId, RemoveRoom(r) PROVE Directory!Close(r)
    <2>1. /\ Registered(r)
          /\ userRooms_' = [u \in UserId |->
               IF HasUser(users_, rooms_[r], u) THEN Nil ELSE userRooms_[u]]
          /\ \A s \in RoomId : rooms_'[s] = IF s = r THEN Nil ELSE rooms_[s]
      BY <1>2, <1>t DEF RemoveRoom
    <2>2. open' = open \ {r}
      BY <2>1 DEF Registered
    <2>3. \A u \in UserId : HasUser(users_, rooms_[r], u) <=> userRooms_[u] = r
      BY <2>1 DEF MembershipAgrees
    <2>4. userRooms_' = [u \in UserId |-> IF userRooms_[u] = r THEN Nil ELSE userRooms_[u]]
      BY <2>1, <2>3
    <2> QED BY <2>1, <2>2, <2>4 DEF Directory!Close
  <1>3. ASSUME NEW r \in RoomId, NEW u \in UserId, NEW c \in ConnId, AddUserToRoom(r, u, c)
        PROVE  Directory!Enter(u, r) \/ UNCHANGED <<open, userRooms_>>
    <2>1. Registered(r) /\ open' = open
      BY <1>3 DEF AddUserToRoom, Registered
    <2>2. CASE UNCHANGED userRooms_
      BY <2>1, <2>2
    <2>3. CASE userRooms_' = [userRooms_ EXCEPT ![u] = r]
      BY <2>1, <2>3 DEF Directory!Enter
    <2> QED BY <1>3, <2>2, <2>3 DEF AddUserToRoom
  <1>4. ASSUME NEW r \in RoomId, NEW u \in UserId, RemoveUserFromRoom(r, u)
        PROVE  Directory!Leave(u)
    <2>1. userRooms_[u] = r /\ open' = open /\ userRooms_' = [userRooms_ EXCEPT ![u] = Nil]
      BY <1>4 DEF RemoveUserFromRoom, MembershipAgrees, Registered
    <2> QED BY <2>1, NilAssumption DEF Directory!Leave
  <1>5. CASE CleanupEmptyRooms
    <2>1. \A s \in RoomId : Registered(s) =>
            (EmptyRoom(users_, rooms_[s]) <=> ~Directory!Occupied(s))
      BY DEF MembershipAgrees, EmptyRoom, Directory!Occupied
    <2>2. \A s \in RoomId : Registered(s)' <=> Registered(s) /\ Directory!Occupied(s)
      BY <1>5, <2>1 DEF CleanupEmptyRooms, Registered
    <2>3. open' = {r \in open : Directory!Occupied(r)}
      BY <2>2
    <2> QED BY <1>5, <2>3 DEF Directory!Sweep, CleanupEmptyRooms
  <1>6. CASE UNCHANGED vars
    BY <1>6 DEF vars, Registered
  <1> QED BY <1>1, <1>2, <1>3, <1>4, <1>5, <1>6 DEF Next

(* SessionManager implements SessionDirectory: seen through its rooms and  *)
(* userRooms_ maps it is one room per user, and only empty rooms are swept.*)
THEOREM Refinement == Spec => ImplementsDirectory
  <1>1. Init => Directory!DirInit
    BY DEF Init, Directory!DirInit, Registered
  <1>2. IInv /\ IInv' /\ [Next]_vars => [Directory!DirNext]_(Directory!dirVars)
    BY StepImplements
  <1> QED BY <1>1, <1>2, Invariance, PTL DEF Spec, ImplementsDirectory, Directory!DirSpec
=============================================================================
