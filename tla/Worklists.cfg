SPECIFICATION AllSpec
CONSTANTS
  N = 2
  Work = {"w1", "w2", "w3"}
  Index <- MCIndex
  Leader <- OneSocket
  Blocks = TRUE
  ListThreads = {1, 2, 3}
  ListChunks = {c1, c2, c3}
  Null = Null
  Lists = {"Stack", "Queue"}
  ChunkThreads = 2
  ChunkItems = {i1, i2, i3}
  ChunkSize = 2
  ChunkLeader <- TwoSockets
  Kinds <- AllKinds
  NoChunk = NoChunk
  BulkThreads = 3
  Initial <- MCInitial
  Creates <- MCCreates
  MaxAborts = 1
  DetThreads = 2
  DetInitial <- MCDetInitial
  DetCreates <- MCDetCreates
  Lockables = {"x", "y"}
  Operators <- MCOperators
  MinDelta = 3
  InitialNumRounds = 100
INVARIANTS
  ListIsLinked NoStrandedWork ChosenById NoPriorityInversion RoundsComplete
PROPERTIES
  PopsTheFirst KeepsPromise AllLeave
