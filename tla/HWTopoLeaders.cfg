SPECIFICATION Spec
CONSTANTS
  Cpus <- TwoSockets
  NoCpu = NoCpu
  NoTopo = NoTopo
INVARIANT SocketLeaderIsFirst
CHECK_DEADLOCK FALSE
