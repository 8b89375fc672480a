----------------------------- MODULE UnionFindSpec -----------------------------
(***************************************************************************)
(* What UnionFindNode promises to concurrent callers: a partition of the   *)
(* nodes that only grows coarser. comp maps a node to the smallest address *)
(* of its component, which represents it. A merge takes effect in one step *)
(* or finds its arguments already together. A find returns a node of the   *)
(* component; it is the representative if no merge took effect meanwhile.  *)
(***************************************************************************)
EXTENDS Naturals

CONSTANTS Threads, N

Nodes == 1 .. N
Null == 0

Finds == {"find", "findAndCompress"}

NoCall == [op |-> "none", x |-> Null, y |-> Null, quiet |-> TRUE]

Calls ==
  [op : {"none", "merge", "compress"} \cup Finds,
   x : Nodes \cup {Null}, y : Nodes \cup {Null}, quiet : BOOLEAN]

VARIABLES comp,     \* the representative of each node's component
          call,     \* the call each thread is in; quiet: no merge since it began
          result    \* what its last call returned

specVars == <<comp, call, result>>

SpecInit ==
  /\ comp = [n \in Nodes |-> n]
  /\ call = [t \in Threads |-> NoCall]
  /\ result = [t \in Threads |-> Null]

Begin(t, op, x, y) ==
  /\ call[t].op = "none"
  /\ call' = [call EXCEPT ![t] = [op |-> op, x |-> x, y |-> y, quiet |-> TRUE]]
  /\ result' = [result EXCEPT ![t] = Null]
  /\ UNCHANGED comp

Finish(t, r) ==
  /\ call' = [call EXCEPT ![t] = NoCall]
  /\ result' = [result EXCEPT ![t] = r]

\* The component of representative hi becomes part of the one of lo.
Joined(hi, lo) == [n \in Nodes |-> IF comp[n] = hi THEN comp[lo] ELSE comp[n]]

\* Thread t's merge has taken effect: the other calls under way overlap it.
Overlapped(t) ==
  [u \in Threads |-> IF u = t THEN NoCall
                     ELSE [call[u] EXCEPT !.quiet = call[u].op = "none"]]

MergeTakesEffect(t) ==
  /\ call[t].op = "merge"
  /\ \E hi, lo \in Nodes :
       /\ {comp[hi], comp[lo]} = {comp[call[t].x], comp[call[t].y]}
       /\ comp[hi] = hi
       /\ comp[lo] < hi
       /\ comp' = Joined(hi, lo)
       /\ result' = [result EXCEPT ![t] = lo]
  /\ call' = Overlapped(t)

MergeFindsTogether(t) ==
  /\ call[t].op = "merge"
  /\ comp[call[t].x] = comp[call[t].y]
  /\ Finish(t, Null)
  /\ UNCHANGED comp

FindReturns(t) ==
  /\ call[t].op \in Finds
  /\ \E r \in Nodes :
       /\ comp[r] = comp[call[t].x]
       /\ r <= call[t].x
       /\ call[t].quiet => r = comp[r]
       /\ Finish(t, r)
  /\ UNCHANGED comp

CompressReturns(t) ==
  /\ call[t].op = "compress"
  /\ Finish(t, Null)
  /\ UNCHANGED comp

SpecNext ==
  \E t \in Threads :
    \/ \E op \in Finds \cup {"compress"}, x \in Nodes : Begin(t, op, x, Null)
    \/ \E x, y \in Nodes : Begin(t, "merge", x, y)
    \/ MergeTakesEffect(t)
    \/ MergeFindsTogether(t)
    \/ FindReturns(t)
    \/ CompressReturns(t)

PartitionSpec == SpecInit /\ [][SpecNext]_specVars

================================================================================
