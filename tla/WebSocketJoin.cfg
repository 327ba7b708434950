CONSTANTS
  Conn = {c1, c2}
  RoomId = {r1}
  None = None
  Type = {"LOGIN", "JOIN_ROOM"}
SPECIFICATION FairSpec
PROPERTY JoinAnswered
CHECK_DEADLOCK FALSE
