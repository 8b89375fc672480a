SPECIFICATION LoopsSpec
CONSTANTS
  N = 3
  Size = 4
  ChunkSize = 1
  MaxThreads = 4
  MaxSockets = 2
  SocketOf <- TwoByTwo
  Leaders <- FirstOfSocket
  Owners <- Threads
  Objects = {"x", "y"}
  WorkItems = {"a", "b", "c"}
  Initial = {"a", "b"}
  Breaks = {"b"}
  Nhood <- SomeNhoods
  Spawn <- SomePushes
  Machines <- SomeMachines
INVARIANTS StealingSafe LoopComplete ItemsConserved Isolation
PROPERTIES LoopEnds
CHECK_DEADLOCK FALSE
