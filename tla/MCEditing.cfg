CONSTANTS
  WordMod <- MCWordMod
  Op <- MCOp
  Text <- MCText
  MaxHistorySize = 2
  MaxVersion = 3
  User <- MCUser
  Base <- MCBase
  Typed <- MCTyped
  Clock = {1, 2}
SPECIFICATION EditingSpec
INVARIANTS
  WindowConnected WindowIsRecent
  ConvergesUnlessEntangled UntouchedTextSurvives TypedTextSurvives TransformedFits ResolverAgrees
PROPERTIES FirstRollbackRestores
\* An exchange is over when both users have the other's operation.
CHECK_DEADLOCK FALSE
