CONSTANTS
  MaxThreads = 2
  Rounds = 1
SPECIFICATION FairSpec
PROPERTIES
  EveryoneLeaves
CHECK_DEADLOCK FALSE
