CONSTANTS
  Conn = {c1, c2}
  RoomId = {r1, r2}
  None = None
  Type = {"BAD", "LOGIN", "ANONYMOUS", "HEARTBEAT", "OPERATION", "CURSOR_UPDATE", "OTHER",
          "JOIN_ROOM", "LEAVE_ROOM"}
SPECIFICATION Spec
SYMMETRY Symmetry
INVARIANTS MembershipAgrees OnlySelfDeadlock NoDanglingSocket
CHECK_DEADLOCK FALSE
