CONSTANTS
  Thread = {t1, t2}
  Conn = {c1, c2, c3}
  PoolSize = 1
  OpId = {a, b}
  MaxCalls = 3
  None = None
SPECIFICATION Spec
INVARIANTS PoolSound FlagTrue MarksStored UpdatesCounted
SYMMETRY Symmetry
