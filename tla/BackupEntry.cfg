CONSTANTS
  Entries <- MCEntries
  MaxObjects = 3
  PageSize = 2
  StoreAnswers = {"keyErrors", "noSuchKey"}
SPECIFICATION FairSpec
INVARIANTS TypeOK DeletedMeansGone
PROPERTIES BackupsAreKept DeletionCompletes
CHECK_DEADLOCK FALSE
