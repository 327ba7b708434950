CONSTANTS
  UserId = {u1, u2}
  RoomId = {r1, r2}
  ConnId = {c1, c2}
  RoomObj = {o1, o2, o3}
  Nil = Nil
SPECIFICATION Spec
INVARIANTS MembershipAgrees OneRoomPerUser
PROPERTIES RoomStable ImplementsDirectory
