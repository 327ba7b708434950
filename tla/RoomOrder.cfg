CONSTANTS
  UserId = {u1, u2}
  OpId = {a, b}
  Thread = {t1, t2}
  None = None
SPECIFICATION Spec
INVARIANTS BroadcastInVersionOrder
