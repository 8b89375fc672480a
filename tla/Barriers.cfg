CONSTANTS
  MaxThreads = 6
  Rounds = 5
  Socket <- SomeSocket
  Participants <- SomeParticipants
  SocketLeader <- SomeSocket
SPECIFICATION FairSpec
INVARIANTS
  RoundsStayApart
PROPERTIES
  NoFlagOverrun
  Refinement
  EveryoneLeaves
