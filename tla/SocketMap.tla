------------------------------- MODULE SocketMap -------------------------------
(***************************************************************************)
(* What the topology-aware barrier knows of the machine: the socket of     *)
(* every thread of the pool and the leader of that socket (HWTopo.h).      *)
(***************************************************************************)
EXTENDS BarrierClient

CONSTANTS Socket,        \* Socket[t]: the socket of thread t
          SocketLeader   \* SocketLeader[t]: the leader of that socket

(***************************************************************************)
(* What HWTopo.h promises: socketLeader is the "first thread id in tid's   *)
(* socket", and sockets are numbered in the order in which they appear.    *)
(***************************************************************************)
ASSUME TopologyAssumption ==
  /\ Socket \in [Threads -> Threads]
  /\ Socket[0] = 0
  /\ \A t \in Threads : t > 0 => \E u \in 0 .. t - 1 : Socket[t] <= Socket[u] + 1
  /\ \A t \in Threads : /\ SocketLeader[t] \in 0 .. t
                        /\ Socket[SocketLeader[t]] = Socket[t]
                        /\ \A u \in 0 .. SocketLeader[t] - 1 : Socket[u] # Socket[t]

IsLeader(t) == SocketLeader[t] = t

================================================================================
