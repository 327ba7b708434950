CONSTANTS
  Conn = {c1, c2}
  RoomId = {r1}
  None = None
  Type = {"HEARTBEAT", "OPERATION"}
SPECIFICATION FairSpec
PROPERTIES HandlersReturn SilentReaped
CHECK_DEADLOCK FALSE
