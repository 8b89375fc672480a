------------------------------ MODULE MCWorklists ------------------------------
(***************************************************************************)
(* Instances of the worklists: lists under three threads, chunks of two    *)
(* items under threads of two sockets, two priorities with two items at    *)
(* the second of them, bulk-synchronous rounds of depth three, and         *)
(* deterministic loops over items that meet on two lockables.              *)
(***************************************************************************)
EXTENDS Worklists

MCIndex == [w \in Work |-> IF w = "w1" THEN 0 ELSE 1]

OneSocket == [t \in Threads |-> 0]

TwoSockets == [t \in 0 .. ChunkThreads - 1 |-> t]

\* ChunkFIFO, ChunkLIFO, PerSocketChunkFIFO, PerSocketChunkLIFO, PerSocketChunkBag
AllKinds ==
  {[Distributed |-> d, IsStack |-> s, QT |-> IF s THEN "Stack" ELSE "Queue"] : d, s \in BOOLEAN}
    \cup {[Distributed |-> TRUE, IsStack |-> TRUE, QT |-> "Queue"]}

MCInitial ==
  [t \in 0 .. BulkThreads - 1 |-> IF t = 0 THEN <<"a", "b">> ELSE IF t = 1 THEN <<"c">> ELSE <<>>]

MCCreates ==
  [x \in {"a", "b", "c", "d", "e"} |-> CASE x = "a" -> <<"d">> [] x = "d" -> <<"e">> [] OTHER -> <<>>]

\* Deterministic loops: "a" to "d", of which "b" creates "e". Visits: how items go
\* through the lockables; Readers: the items that only read.
DetItems == {"a", "b", "c", "d", "e"}

MCDetCreates == [x \in DetItems |-> IF x = "b" THEN <<"e">> ELSE <<>>]

Nhood(visits, readers) ==
  [x \in DetItems |-> [n \in DOMAIN visits[x] |-> <<visits[x][n], IF x \in readers THEN "R" ELSE "W">>]]

Visits(routes) ==
  {[x \in DetItems |-> IF x \in DOMAIN v THEN v[x] ELSE IF x = "d" THEN <<"y">> ELSE <<"x">>] :
     v \in [{"a", "b", "c"} -> routes]}

MCOperators ==
  [intentToRead : {FALSE}, nhood : {Nhood(v, {}) : v \in Visits({<<"x">>, <<"y", "x">>})}]
    \cup [intentToRead : {TRUE}, nhood : {Nhood(v, r) : v \in Visits({<<"x", "y">>}), r \in SUBSET {"a", "c"}}]

MCDetInitial == <<"a", "b", "c", "d">>

\* Bulk-synchronous loops alone, and deterministic ones.
BulkSpec == AllInit /\ unit = "BulkSynchronous" /\ [][AllNext]_everything
DetSpec == AllInit /\ unit = "Deterministic" /\ [][AllNext]_everything

================================================================================
