CONSTANTS
  Entries <- MCEntry
  MaxObjects = 2
  PageSize = 2
  StoreAnswers = {"keyErrors"}
SPECIFICATION Spec
INVARIANT NoBackupLeft
CHECK_DEADLOCK FALSE
