---------------------------- MODULE NetworkSpec ----------------------------
(* What the network interface of Galois (libdist, Network.h) promises to    *)
(* the code above it: between every two hosts, messages arrive exactly once *)
(* and in the order in which they were sent, and recieveTagged only hands   *)
(* out a message whose tag is the one asked for.  A message is first the    *)
(* sender's responsibility (out) and becomes the receiver's (in) when the   *)
(* two sides meet, several messages at a time.                              *)
EXTENDS Integers, Sequences

CONSTANTS Hosts, Message    \* a message is a record with a field tag

VARIABLES out,   \* out[s][d]: sent by s to d and not yet met by d
          in     \* in[s][d]: met by d and not yet handed to its program

vars == <<out, in>>

Init == /\ out = [s \in Hosts |-> [d \in Hosts |-> <<>>]]
        /\ in = out

Send(s, d) == \E m \in Message :
    /\ out' = [out EXCEPT ![s][d] = Append(@, m)]
    /\ UNCHANGED in

Transfer(s, d) == \E n \in 1..Len(out[s][d]) :
    /\ in' = [in EXCEPT ![s][d] = @ \o SubSeq(out[s][d], 1, n)]
    /\ out' = [out EXCEPT ![s][d] = SubSeq(@, n + 1, Len(@))]

Receive(s, d) ==
    /\ in[s][d] # <<>>
    /\ in' = [in EXCEPT ![s][d] = Tail(@)]
    /\ UNCHANGED out

Next == \E s, d \in Hosts : Send(s, d) \/ Transfer(s, d) \/ Receive(s, d)

Spec == Init /\ [][Next]_vars
=============================================================================
