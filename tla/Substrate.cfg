SPECIFICATION SubstrateSpec
CONSTANTS
  PoolSize = 4
  DedicatedModes = {"slow"}
  Cpus <- TwoSockets
  NoCpu = NoCpu
  NoTopo = NoTopo
  Contexts = {t1, t2}
  Objects = {o1, o2, o3}
  Nil = Nil
  Callers = {t1, t2}
  Nobody = Nobody
  Page = 4
  MaxClass = 2
  Size <- Lines
  Threads = {t1, t2}
  N = 4
  Edges <- MCEdges
  Sought = {4}
INVARIANTS MailboxOwnerIdle  BlocksTile UnionFindInv ThreadsPlaced ContextSafe
PROPERTIES RunCompletes OperationsReturn Partition CallsShrink Refinement
CHECK_DEADLOCK FALSE
