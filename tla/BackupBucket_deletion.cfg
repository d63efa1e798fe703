CONSTANT MaxLives = 1
SPECIFICATION FairSpec
PROPERTY DeletionCompletes
CHECK_DEADLOCK FALSE
