CONSTANTS
  UserId = {u1, u2}
  Thread = {t1, t2}
  MaxOps = 2
  None = None
  Caller = {c1, c2}
  MaxLines = 3
  MaxLives = 2
  NoLine = NoLine
SPECIFICATION QueuesSpec
INVARIANTS InOrder LinesKept OnlyDirectOvertakes
PROPERTIES CallsReturn LogThreadServes
\* A callback that calls the manager back stops everyone for good, and past
\* MaxLives the program logs no more and ends.
CHECK_DEADLOCK FALSE
