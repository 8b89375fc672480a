--------------------------------- MODULE HWTopo --------------------------------
(***************************************************************************)
(* How threads are numbered and bound when the pool is constructed:        *)
(* makeHWTopo and getHWTopo of libgalois/src/HWTopoLinux.cpp, and          *)
(* ThreadPool::initThread. Threads get the hardware threads the process    *)
(* may use, first hardware threads of cores first, except commCoreID, to   *)
(* which the communication thread is bound. NUMA nodes are left out.       *)
(***************************************************************************)
EXTENDS Naturals, FiniteSets, SequencesExt

CONSTANTS Cpus,    \* /proc/cpuinfo: physid and coreid of each processor
          NoCpu,   \* a commCoreID that the machine does not have
          NoTopo

Procs == DOMAIN Cpus

VARIABLES allowed,      \* Cpus_allowed_list of the process, that of its main thread
          commCoreID,
          data,         \* the static of getHWTopo
          topo          \* per_signal::topo of each thread

vars == <<allowed, commCoreID, data, topo>>

Tids == 0 .. Cardinality(Procs) - 1

\* Without two processors there is no thread for the pool (commThreadNum = 1).
Init ==
  /\ allowed \in {S \in SUBSET Procs : Cardinality(S) # 1}
  /\ commCoreID \in Procs \cup {NoCpu}
  /\ data = NoTopo
  /\ topo = [t \in Tids |-> NoTopo]

--------------------------------------------------------------------------------
\* sort, then markSMT: another hardware thread of the core comes before it
Smt(c) == \E d \in Procs : d < c /\ Cpus[d] = Cpus[c]

SortKey(c) == <<IF Smt(c) THEN 1 ELSE 0, Cpus[c].physid, Cpus[c].coreid, c>>

\* operator<
Before(c, d) ==
  \E i \in 1 .. 4 : /\ SortKey(c)[i] < SortKey(d)[i]
                    /\ \A j \in 1 .. i - 1 : SortKey(c)[j] = SortKey(d)[j]

\* markValid
Valid == IF allowed = {} THEN Procs ELSE allowed

Info == SetToSortSeq(Valid, Before)

Repid_Physid(c) == Cpus[c].physid

\* std::distance(sockets.begin(), sockets.find(physid))
Repid(c) == Cardinality({Cpus[d].physid : d \in {d \in Valid : Cpus[d].physid < Cpus[c].physid}})

\* the position in info of the first processor of the socket
Leader(c) == SelectInSeq(Info, LAMBDA d : Cpus[d].physid = Cpus[c].physid) - 1

\* if (info[i].proc == commCoreID) continue
Numbered == SelectSeq(Info, LAMBDA c : c # commCoreID)

ThreadTopoInfo ==
  LET procs == Numbered
      TopoOf(k) == [socketLeader |-> Leader(procs[k]),
                    socket |-> Repid(procs[k]),
                    cumulativeMaxSocket |-> Max({Repid(procs[j]) : j \in 1 .. k}),
                    osContext |-> procs[k]]
  IN  [t \in 0 .. Len(procs) - 1 |-> TopoOf(t + 1)]

makeHWTopo == [maxThreads |-> Cardinality(Valid), threadTopoInfo |-> ThreadTopoInfo]

\* getHWTopo
Cached == IF data = NoTopo THEN makeHWTopo ELSE data

--------------------------------------------------------------------------------
\* ThreadPool(): mi(getHWTopo().machineTopoInfo)
Construct ==
  /\ data = NoTopo
  /\ data' = Cached
  /\ UNCHANGED <<allowed, commCoreID, topo>>

\* getMaxThreads() of ThreadPool.h
MaxThreads == data.maxThreads - 1

\* initThread. The main thread has number 0 and starts the others afterwards;
\* whether threads are bound is up to environment variables.
InitThread(t) ==
  /\ data # NoTopo
  /\ t < MaxThreads
  /\ topo[t] = NoTopo
  /\ t > 0 => topo[0] # NoTopo
  /\ data' = Cached
  /\ topo' = [topo EXCEPT ![t] = Cached.threadTopoInfo[t]]
  /\ \/ t = 0 /\ allowed' = {topo'[t].osContext}
     \/ UNCHANGED allowed
  /\ UNCHANGED commCoreID

Next == Construct \/ \E t \in Tids : InitThread(t)

Spec == Init /\ [][Next]_vars

--------------------------------------------------------------------------------
Ready == {t \in Tids : topo[t] # NoTopo}

FirstOf(s) == Min({t \in DOMAIN data.threadTopoInfo : data.threadTopoInfo[t].socket = s})

\* "first thread id in tid's socket", and "max socket id seen from [0, tid]" (HWTopo.h)
LeaderIsFirst(t) == topo[t].socketLeader = FirstOf(topo[t].socket)

SocketsSeen(t) ==
  {data.threadTopoInfo[u].socket : u \in 0 .. t} = 0 .. topo[t].cumulativeMaxSocket

Places == {data.threadTopoInfo[t].osContext : t \in DOMAIN data.threadTopoInfo}

\* the communication thread takes one of the processors of the process
CommTakesOne == data.maxThreads > Cardinality(Places)

InUse == Places \cup (IF CommTakesOne THEN {commCoreID} ELSE {})

\* No processor of the process is a second hardware thread without the first,
\* and the communication thread takes none of them, or the last.
PlainSet ==
  /\ \A c, d \in Procs : c \in InUse /\ Cpus[c] = Cpus[d] /\ d < c => d \in InUse
  /\ CommTakesOne => \A c \in Places : Before(c, commCoreID)

(***************************************************************************)
(* No two threads are bound to one hardware thread, and none to that of    *)
(* the communication thread, although the main thread is bound, which      *)
(* shrinks the set makeHWTopo reads, before the others look their places   *)
(* up. If the process has the first hardware thread of each core that it   *)
(* has the second of, and the communication thread takes none of them or   *)
(* the last, then the numbering is what the barriers and detectors rely    *)
(* on: leaders are the first threads of their sockets, and the sockets of  *)
(* the threads up to any thread are a prefix.                              *)
(***************************************************************************)
ThreadsPlaced ==
  /\ \A t \in Ready : topo[t].osContext # commCoreID
  /\ \A t, u \in Ready : t # u => topo[t].osContext # topo[u].osContext
  /\ Ready # {} /\ PlainSet => \A t \in Ready : LeaderIsFirst(t) /\ SocketsSeen(t)

(***************************************************************************)
(* socketLeader is the first thread id in the socket of the thread, as     *)
(* HWTopo.h describes it, whichever core the communication thread has.     *)
(***************************************************************************)
SocketLeaderIsFirst == \A t \in Ready : LeaderIsFirst(t)

--------------------------------------------------------------------------------
\* A machine: a socket with one core and one with two, each with two hardware
\* threads, numbered as Linux does; the ids of the sockets are not consecutive.
TwoSockets ==
  [c \in 0 .. 5 |-> CASE c % 3 = 0 -> [physid |-> 0, coreid |-> 0]
                      [] c % 3 = 1 -> [physid |-> 2, coreid |-> 0]
                      [] c % 3 = 2 -> [physid |-> 2, coreid |-> 4]]

================================================================================
