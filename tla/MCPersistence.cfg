CONSTANTS
  WordMod <- MCWordMod
  Op <- MCOp
  MaxVersion = 3
  MaxRows = 2
  MaxSnapshots = 2
  MaxThreads = 2
  MaxLives = 2
  Unknown = Unknown
SPECIFICATION Spec
INVARIANTS RecoverExact RecoverToExact
PROPERTY CleanupKeepsRecovery
