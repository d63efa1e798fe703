CONSTANT MaxLives = 2
SPECIFICATION FairSpec
INVARIANTS TypeOK FirstAccessWorks
PROPERTIES ImplementsLease AccessIsPublished
CHECK_DEADLOCK FALSE
