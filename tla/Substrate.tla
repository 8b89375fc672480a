-------------------------------- MODULE Substrate ------------------------------
(***************************************************************************)
(* What the loops are built on: the numbering and binding of threads, the  *)
(* thread pool, the allocator of per-thread storage, conflict detection,   *)
(* and union-find. A behaviour runs one of them, and the others keep their *)
(* initial states.                                                         *)
(***************************************************************************)
EXTENDS UnionFind, PerThreadStorage, Context, ThreadPool

CONSTANTS Cpus, NoCpu, NoTopo         \* of HWTopo

VARIABLES unit,    \* the one that runs
          allowed, commCoreID, data, topo

Topology == INSTANCE HWTopo

topoVars == <<allowed, commCoreID, data, topo>>
substrateVars == <<unit, vars, backendVars, contextVars, poolVars, topoVars>>

SubstrateInit ==
  /\ unit \in {"ThreadPool", "PerThreadStorage", "UnionFind", "HWTopo", "Context"}
  /\ PoolInit
  /\ BackendInit /\ ContextInit
  /\ Init
  /\ Topology!Init
  /\ unit # "HWTopo" => allowed = {} /\ commCoreID = NoCpu

SubstrateNext ==
  /\ UNCHANGED unit
  /\ \/ unit = "ThreadPool" /\ PoolNext /\ UNCHANGED <<vars, backendVars, contextVars, topoVars>>
     \/ unit = "PerThreadStorage" /\ BackendNext /\ UNCHANGED <<vars, contextVars, poolVars, topoVars>>
     \/ unit = "UnionFind" /\ Next /\ UNCHANGED <<backendVars, contextVars, poolVars, topoVars>>
     \/ unit = "HWTopo" /\ Topology!Next /\ UNCHANGED <<vars, backendVars, contextVars, poolVars>>
     \/ unit = "Context" /\ ContextNext /\ UNCHANGED <<vars, backendVars, poolVars, topoVars>>

\* The fairness of ThreadPool; the others need none.
SubstrateSpec ==
  /\ SubstrateInit /\ [][SubstrateNext]_substrateVars
  /\ WF_poolVars(unit = "ThreadPool" /\ Caller)
  /\ \A t \in PoolThreads : WF_poolVars(unit = "ThreadPool" /\ PoolStep(t))

--------------------------------------------------------------------------------
(***************************************************************************)
(* No two threads are bound to one hardware thread, and none to that of    *)
(* the communication thread, although the main thread is bound before the  *)
(* others look their places up. For a plain set of processors leaders are  *)
(* the first threads of their sockets, and the sockets of the threads up   *)
(* to any thread are a prefix.                                             *)
(***************************************************************************)
ThreadsPlaced == Topology!ThreadsPlaced

--------------------------------------------------------------------------------
\* The merges and sizes to run: edges that make a path of three nodes below a
\* root, which takes a walk with two nodes behind it, and 1 << k.
MCEdges == {<<4, 3>>, <<2, 3>>, <<2, 1>>}

\* The machine of HWTopo: a socket with one core and one with two.
TwoSockets ==
  [c \in 0 .. 5 |-> [physid |-> IF c % 3 = 0 THEN 0 ELSE 2, coreid |-> IF c % 3 = 2 THEN 4 ELSE 0]]

Lines == [k \in 0 .. MaxClass + 1 |-> 2^k]

================================================================================
