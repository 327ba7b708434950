CONSTANTS
  Tab = {t1, t2}
  d1 = d1
  d2 = d2
  Doc = {d1, d2}
  Char = {1, 2}
  Typed <- MCTyped
  Seed <- MCSeed
  MaxEdits = 2
  MaxOpens = 3
  NoDoc = NoDoc
  Socket = {s1, s2}
  MaxTimers = 2
  NoSocket = NoSocket
SPECIFICATION FairSpec
INVARIANTS DocsAgree OneConnection
PROPERTIES EditorsHeal Reconnects
\* A user may stop typing, and then nothing happens in mock mode.
CHECK_DEADLOCK FALSE
