--------------------------- MODULE ObimContextProofs ---------------------------
(***************************************************************************)
(* Theorems about two parts of the for_each loop: the worklist             *)
(* OrderedByIntegerMetric strands no work, for every number of threads,    *)
(* every set of values with any priorities, and any sockets; and the       *)
(* contexts of conflict detection are exclusive.                           *)
(***************************************************************************)
EXTENDS Obim, Context, WellFoundedInduction, TLAPS

USE ObimAssumption DEF None, earliest

PairsOf == Nat \X Work

Types ==
  /\ useBarrier = FALSE
  /\ masterLog \in Seq(Nat)
  /\ lastMasterVersion \in [Threads -> Nat]
  /\ curIndex \in [Threads -> Nat]
  /\ current \in [Threads -> Nat]
  /\ scanStart \in [Threads -> Nat]
  /\ pc \in [Threads -> {"out", "find", "locked", "lower", "put", "fast", "min", "scan"}]
  /\ val \in [Threads -> Work \cup {NoVal}]
  /\ C \in [Threads -> Nat]
  /\ msS \in [Threads -> Nat]
  /\ unread \in [Threads -> SUBSET Threads]
  /\ mine \in [Threads -> SUBSET PairsOf]
  /\ shared \in SUBSET PairsOf
  /\ seen \in [Threads -> SUBSET PairsOf]
  /\ st \in [Threads -> {"out", "look", "dry"}]

\* What the registers of a thread say about the log: its current bucket is the
\* one of curIndex and not before scanStart, the bucket it pushes to is the one
\* of the item's index, and the one it searches is in its map.
Regs(t) ==
  /\ lastMasterVersion[t] <= Len(masterLog)
  /\ current[t] # None => /\ current[t] \in Local(t)
                          /\ masterLog[current[t]] = curIndex[t]
                          /\ scanStart[t] <= curIndex[t]
  /\ pc[t] \in {"find", "locked", "lower", "put"} => val[t] \in Work
  /\ pc[t] \in {"lower", "put"} => C[t] \in Local(t) /\ masterLog[C[t]] = Index[val[t]]
  /\ pc[t] = "put" => scanStart[t] <= Index[val[t]]
  /\ pc[t] = "fast" => C[t] = current[t] /\ current[t] # None
  /\ pc[t] = "scan" => C[t] \in Local(t)
  /\ pc[t] # "out" => st[t] # "dry"

Unique == \A b, d \in 1 .. Len(masterLog) : masterLog[b] = masterLog[d] => b = d

Finds(t, x) == WillReach(t, x) /\ (pc[t] = "scan" /\ C[t] = x[1] => x \in seen[t])

OwnReached == \A t \in Threads : \A x \in mine[t] : WillReach(t, x)

SharedFound == \A x \in shared : \E t \in Threads : Finds(t, x)

ObimInv == Types /\ (\A t \in Threads : Regs(t)) /\ Unique /\ OwnReached /\ SharedFound

--------------------------------------------------------------------------------
(* Choices *)

\* A set of numbers has a smallest.
LEMMA Smallest ==
  ASSUME NEW S, S \subseteq Nat, S # {}
  PROVE  \E x \in S : \A y \in S : x <= y
<1>1. PICK x \in S : \A y \in S : ~(<<y, x>> \in OpToRel(<, Nat))
  BY NatLessThanWellFounded, WFMin, Zenon
<1>2. \A y \in S : ~(y < x)
  BY <1>1, Zenon DEF OpToRel
<1> QED
  BY <1>2

\* updateLocal and find: the bucket of index i among the first version ones.
LEMMA FoundIs ==
  ASSUME masterLog \in Seq(Nat), Unique, NEW version \in 0 .. Len(masterLog), NEW i \in Nat
  PROVE  \/ Found(i, version) = 0 /\ \A b \in 1 .. version : masterLog[b] # i
         \/ Found(i, version) \in 1 .. version /\ masterLog[Found(i, version)] = i
<1>1. CASE Holding(i, version) = {}
  BY <1>1, Zenon DEF Found, Holding
<1>2. CASE Holding(i, version) # {}
  <2>1. PICK b \in 1 .. version : masterLog[b] = i
    BY <1>2, Zenon DEF Holding
  <2>2. Holding(i, version) = {b}
    BY <2>1 DEF Holding, Unique
  <2>3. Found(i, version) = b
    BY <2>2 DEF Found
  <2> QED
    BY <2>1, <2>3, Zenon
<1> QED
  BY <1>1, <1>2, Zenon

\* The search goes on with the bucket of the smallest index that is left.
LEMMA AfterIs ==
  ASSUME Types, NEW t \in Threads, Regs(t), NEW i \in Nat
  PROVE  \/ After(t, i) = 0 /\ \A d \in Local(t) : ~(masterLog[d] >= i)
         \/ /\ After(t, i) \in Local(t)
            /\ masterLog[After(t, i)] >= i
            /\ \A d \in Local(t) : masterLog[d] >= i => masterLog[After(t, i)] <= masterLog[d]
<1> DEFINE later == {b \in Local(t) : masterLog[b] >= i}
           indices == {masterLog[b] : b \in later}
<1>0. \A b \in Local(t) : masterLog[b] \in Nat
  <2>1. masterLog \in Seq(Nat) /\ lastMasterVersion[t] \in Nat /\ lastMasterVersion[t] <= Len(masterLog)
    BY Zenon DEF Types, Regs
  <2> QED
    BY <2>1 DEF Local
<1>1. CASE later = {}
  BY <1>1, Zenon DEF After
<1>2. CASE later # {}
  <2>1. indices \subseteq Nat /\ indices # {}
    BY <1>0, <1>2
  <2>2. PICK m \in indices : \A y \in indices : m <= y
    BY <2>1, Smallest, Zenon
  <2>3. \E b \in later : \A d \in later : masterLog[b] <= masterLog[d]
    BY <2>2
  <2>4. After(t, i) = CHOOSE b \in later : \A d \in later : masterLog[b] <= masterLog[d]
    BY <1>2, Zenon DEF After
  <2>5. After(t, i) \in later /\ \A d \in later : masterLog[After(t, i)] <= masterLog[d]
    BY <2>3, <2>4, Zenon
  <2> QED
    BY <2>5, Zenon
<1> QED
  BY <1>1, <1>2, Zenon

--------------------------------------------------------------------------------
(* One thread's step *)

\* The log only grows.
Grows ==
  /\ Len(masterLog) <= Len(masterLog')
  /\ \A b \in 1 .. Len(masterLog) : masterLog'[b] = masterLog[b]

\* A step of t leaves the registers of the others alone.
Alone(t) ==
  \A u \in Threads \ {t} :
    /\ lastMasterVersion'[u] = lastMasterVersion[u]
    /\ curIndex'[u] = curIndex[u] /\ current'[u] = current[u] /\ scanStart'[u] = scanStart[u]
    /\ pc'[u] = pc[u] /\ val'[u] = val[u] /\ C'[u] = C[u] /\ msS'[u] = msS[u] /\ st'[u] = st[u]

\* What a step has to keep: t still reaches what it has, all that it publishes,
\* and the shared items that it would find; the others see what they saw.
LEMMA StepKeeps ==
  ASSUME ObimInv, NEW t \in Threads, Types', Unique', Grows, Alone(t), Regs(t)',
         \A u \in Threads \ {t} : mine'[u] = mine[u],
         \A x \in mine'[t] : WillReach(t, x)',
         \A x \in shared' \ shared : Finds(t, x)',
         \A x \in shared' \cap shared :
           /\ Finds(t, x) => Finds(t, x)'
           /\ \A u \in Threads \ {t} : x \in seen[u] => x \in seen'[u]
  PROVE  ObimInv'
<1>0. Types /\ OwnReached /\ SharedFound /\ \A u \in Threads : Regs(u)
  BY Zenon DEF ObimInv
<1>6. Len(masterLog) \in Nat /\ Len(masterLog') \in Nat
  BY <1>0, SMTT(60) DEF Types
<1>7. ASSUME NEW u \in Threads \ {t}
      PROVE  /\ lastMasterVersion[u] \in Nat /\ lastMasterVersion[u] <= Len(masterLog')
             /\ Local(u)' = Local(u)
             /\ \A b \in Local(u) : masterLog'[b] = masterLog[b]
  <2>1. lastMasterVersion[u] \in Nat
    BY <1>0, Zenon DEF Types
  <2>2. lastMasterVersion[u] <= Len(masterLog) /\ lastMasterVersion'[u] = lastMasterVersion[u]
    BY <1>0, Zenon DEF Regs, Alone
  <2> QED
    BY <1>6, <2>1, <2>2 DEF Grows, Local
<1>1. ASSUME NEW u \in Threads \ {t} PROVE Regs(u)'
  <2>1. Regs(u)
    BY <1>0, Zenon
  <2> QED
    BY <2>1, <1>7 DEF Regs, Alone
<1>2. ASSUME NEW u \in Threads \ {t}, NEW x, WillReach(u, x) PROVE WillReach(u, x)'
  <2>1. Regs(u)
    BY <1>0, Zenon
  <2> QED
    BY <2>1, <1>2, <1>7, SMTT(60) DEF Regs, Alone, WillReach
<1>3. ASSUME NEW u \in Threads \ {t}, NEW x \in shared' \cap shared, Finds(u, x) PROVE Finds(u, x)'
  BY <1>2, <1>3, Zenon DEF Finds, Alone
<1>4. OwnReached'
  BY <1>0, <1>2, Zenon DEF OwnReached
<1>5. SharedFound'
  BY <1>0, <1>3, Zenon DEF SharedFound
<1> QED
  BY <1>1, <1>4, <1>5, Zenon DEF ObimInv

\* A step that moves no item and announces no bucket.
LEMMA QuietStepKeeps ==
  ASSUME ObimInv, NEW t \in Threads, Types', masterLog' = masterLog, Alone(t), Regs(t)',
         mine' = mine, shared' = shared,
         \A u \in Threads \ {t} : seen'[u] = seen[u],
         \A x \in mine[t] : WillReach(t, x) => WillReach(t, x)',
         \A x \in shared : Finds(t, x) => Finds(t, x)'
  PROVE  ObimInv'
<1>1. Grows /\ Unique'
  BY DEF ObimInv, Types, Grows, Unique
<1>2. \A x \in mine'[t] : WillReach(t, x)'
  BY Zenon DEF ObimInv, OwnReached
<1> QED
  BY <1>1, <1>2, StepKeeps, Zenon

\* Registers and types, as each action uses them.
LEMMA Own ==
  ASSUME ObimInv, NEW t \in Threads
  PROVE  /\ Types /\ Regs(t) /\ Unique
         /\ masterLog \in Seq(Nat) /\ Len(masterLog) \in Nat /\ lastMasterVersion[t] \in Nat
         /\ lastMasterVersion[t] \in 0 .. Len(masterLog)
         /\ \A b \in Local(t) : b \in Nat \ {0} /\ masterLog[b] \in Nat
         /\ curIndex[t] \in Nat /\ scanStart[t] \in Nat /\ msS[t] \in Nat
         /\ current[t] \in Nat /\ C[t] \in Nat
         /\ \A x \in mine[t] : WillReach(t, x)
<1>1. Types /\ Regs(t) /\ Unique
  BY Zenon DEF ObimInv
<1>2. masterLog \in Seq(Nat) /\ Len(masterLog) \in Nat /\ lastMasterVersion[t] \in Nat
  BY <1>1 DEF Types
<1>3. lastMasterVersion[t] \in 0 .. Len(masterLog)
  BY <1>1, <1>2 DEF Regs
<1>4. \A b \in Local(t) : b \in Nat \ {0} /\ masterLog[b] \in Nat
  BY <1>1, <1>2, <1>3 DEF Types, Local
<1>5. curIndex[t] \in Nat /\ scanStart[t] \in Nat /\ msS[t] \in Nat /\ current[t] \in Nat /\ C[t] \in Nat
  BY <1>1, Zenon DEF Types
<1>6. \A x \in mine[t] : WillReach(t, x)
  BY Zenon DEF ObimInv, OwnReached
<1> QED
  BY <1>1, <1>2, <1>3, <1>4, <1>5, <1>6, Zenon

\* push: the current bucket, one in the thread's map, or none yet.
LEMMA BeginPushKeeps ==
  ASSUME ObimInv, NEW t \in Threads, NEW w \in Work, BeginPush(t, w)
  PROVE  ObimInv'
<1>0. /\ Types /\ Regs(t) /\ Unique /\ Index[w] \in Nat /\ masterLog \in Seq(Nat)
      /\ lastMasterVersion[t] \in 0 .. Len(masterLog)
      /\ curIndex[t] \in Nat /\ scanStart[t] \in Nat /\ current[t] \in Nat
  BY Own, Zenon
<1>1. PICK c, p :
        /\ C' = [C EXCEPT ![t] = c] /\ pc' = [pc EXCEPT ![t] = p]
        /\ \/ p = "put" /\ c = current[t] /\ current[t] # None /\ Index[w] = curIndex[t]
           \/ p = "lower" /\ c = Found(Index[w], lastMasterVersion[t]) /\ c # None
           \/ p = "find" /\ c = Found(Index[w], lastMasterVersion[t]) /\ c = None
  <2>1. CASE Set(C, t, current[t]) /\ Set(pc, t, "put") /\ Index[w] = curIndex[t] /\ current[t] # None
    BY <2>1, Zenon DEF Set
  <2>2. CASE /\ Set(C, t, Found(Index[w], lastMasterVersion[t]))
             /\ Set(pc, t, IF C'[t] # None THEN "lower" ELSE "find")
    <3>1. C'[t] = Found(Index[w], lastMasterVersion[t])
      BY <1>0, <2>2, Zenon DEF Set, Types
    <3>2. CASE C'[t] # None
      BY <2>2, <3>1, <3>2, Zenon DEF Set
    <3>3. CASE C'[t] = None
      BY <2>2, <3>1, <3>3, Zenon DEF Set
    <3> QED
      BY <3>2, <3>3, Zenon
  <2> QED
    BY <2>1, <2>2, Zenon DEF BeginPush
<1>2. /\ val' = [val EXCEPT ![t] = w] /\ st' = [st EXCEPT ![t] = "out"] /\ pc[t] = "out"
      /\ UNCHANGED <<useBarrier, masterLog, data, msS, unread, parts>>
  BY Zenon DEF BeginPush, Set
<1>3. /\ c \in Nat
      /\ p \in {"put", "lower"} => c \in Local(t) /\ masterLog[c] = Index[w]
  <2> DEFINE f == Found(Index[w], lastMasterVersion[t])
  <2>1. f = 0 \/ (f \in 1 .. lastMasterVersion[t] /\ masterLog[f] = Index[w])
    BY <1>0, FoundIs, Zenon
  <2> HIDE DEF f
  <2> QED
    BY <1>0, <1>1, <2>1, SMTT(60) DEF Regs, Local, f
<1>4. Types'
  BY <1>0, <1>1, <1>2, <1>3, Zenon DEF Types, data, parts
<1>5. Alone(t)
  BY <1>0, <1>1, <1>2, Zenon DEF Types, Alone, data
<1>6. /\ C'[t] = c /\ pc'[t] = p /\ val'[t] = w /\ st'[t] = "out"
  BY <1>0, <1>1, <1>2, Zenon DEF Types
<1>7. Regs(t)'
  BY <1>0, <1>1, <1>2, <1>3, <1>6, Zenon DEF Regs, Local, data
<1>8. \A x : WillReach(t, x) => WillReach(t, x)'
  BY <1>1, <1>2, <1>6, Zenon DEF WillReach, Local, data
<1>9. \A x : Finds(t, x) => Finds(t, x)'
  BY <1>1, <1>6, <1>8, Zenon DEF Finds
<1> QED
  BY <1>2, <1>4, <1>5, <1>7, <1>8, <1>9, QuietStepKeeps, Zenon DEF parts

\* slowUpdateLocalOrCreate, before the lock.
LEMMA FindOrLockKeeps ==
  ASSUME ObimInv, NEW t \in Threads, FindOrLock(t)
  PROVE  ObimInv'
<1> DEFINE i == Index[val[t]]
           c == Found(i, Len(masterLog))
           p == IF c # None THEN "lower" ELSE "locked"
<1>0. /\ Types /\ Regs(t) /\ Unique /\ masterLog \in Seq(Nat) /\ Len(masterLog) \in Nat
      /\ lastMasterVersion[t] \in 0 .. Len(masterLog)
      /\ curIndex[t] \in Nat /\ scanStart[t] \in Nat /\ current[t] \in Nat
  BY Own, Zenon
<1>1. pc[t] = "find" /\ val[t] \in Work /\ i \in Nat
  BY <1>0, Zenon DEF FindOrLock, Regs
<1>2. /\ lastMasterVersion' = [lastMasterVersion EXCEPT ![t] = Len(masterLog)]
      /\ C' = [C EXCEPT ![t] = c] /\ pc' = [pc EXCEPT ![t] = p]
      /\ UNCHANGED <<useBarrier, masterLog, curIndex, current, scanStart, val, msS, unread, parts, st>>
  <2>1. C' = [C EXCEPT ![t] = c]
    BY Zenon DEF FindOrLock, Set
  <2>2. C'[t] = c
    BY <1>0, <2>1, Zenon DEF Types
  <2> QED
    BY <2>1, <2>2, Zenon DEF FindOrLock, Set
<1>3. c \in Nat /\ (c # None => c \in 1 .. Len(masterLog) /\ masterLog[c] = i)
  <2>1. Len(masterLog) \in 0 .. Len(masterLog)
    BY <1>0
  <2>2. c = 0 \/ (c \in 1 .. Len(masterLog) /\ masterLog[c] = i)
    BY <1>0, <1>1, <2>1, FoundIs, Zenon
  <2> HIDE DEF c
  <2> QED
    BY <1>0, <2>2
<1> HIDE DEF c, i
<1>4. Types'
  BY <1>0, <1>2, <1>3, Zenon DEF Types, parts
<1>5. Alone(t)
  BY <1>0, <1>2, Zenon DEF Types, Alone
<1>6. C'[t] = c /\ pc'[t] = p /\ lastMasterVersion'[t] = Len(masterLog)
  BY <1>0, <1>2, Zenon DEF Types
<1>7. Regs(t)'
  BY <1>0, <1>1, <1>2, <1>3, <1>6 DEF Regs, Local, i
<1>8. \A x : WillReach(t, x) => WillReach(t, x)'
  BY <1>0, <1>2, <1>6 DEF WillReach, Local
<1>9. \A x : Finds(t, x) => Finds(t, x)'
  BY <1>6, <1>8, Zenon DEF Finds
<1> QED
  BY <1>2, <1>4, <1>5, <1>7, <1>8, <1>9, QuietStepKeeps, Zenon DEF parts

\* slowUpdateLocalOrCreate, under masterLock: there is no second bucket of an index.
LEMMA CreateKeeps ==
  ASSUME ObimInv, NEW t \in Threads, Create(t)
  PROVE  ObimInv'
<1> DEFINE i == Index[val[t]]
<1>0. /\ Types /\ Regs(t) /\ Unique /\ masterLog \in Seq(Nat) /\ Len(masterLog) \in Nat
      /\ lastMasterVersion[t] \in 0 .. Len(masterLog)
      /\ curIndex[t] \in Nat /\ scanStart[t] \in Nat /\ current[t] \in Nat
      /\ \A x \in mine[t] : WillReach(t, x)
  BY Own, Zenon
<1>1. pc[t] = "locked" /\ val[t] \in Work /\ i \in Nat
  BY <1>0, Zenon DEF Create, Regs
<1>2. /\ pc' = [pc EXCEPT ![t] = "lower"]
      /\ UNCHANGED <<useBarrier, curIndex, current, scanStart, val, msS, unread, parts, st>>
  BY Zenon DEF Create, Set
<1> DEFINE there == AlreadyThere(t)
<1>11. \/ there = 0 /\ \A b \in 1 .. Len(masterLog) : masterLog[b] # i
       \/ there \in 1 .. Len(masterLog) /\ masterLog[there] = i
  <2>1. Len(masterLog) \in 0 .. Len(masterLog)
    BY <1>0
  <2> QED
    BY <1>0, <1>1, <2>1, FoundIs, Zenon DEF AlreadyThere
<1>3. /\ masterLog' \in Seq(Nat) /\ Unique' /\ Grows /\ Len(masterLog') \in Nat
      /\ lastMasterVersion' = [lastMasterVersion EXCEPT ![t] = Len(masterLog')]
      /\ \E c \in 1 .. Len(masterLog') : C' = [C EXCEPT ![t] = c] /\ masterLog'[c] = i
  <2>1. CASE there # None
    <3>1. /\ C' = [C EXCEPT ![t] = there] /\ masterLog' = masterLog
          /\ lastMasterVersion' = [lastMasterVersion EXCEPT ![t] = Len(masterLog)]
      BY <2>1, Zenon DEF Create, Set
    <3>2. Unique' /\ Grows
      BY <1>0, <3>1 DEF Grows, Unique
    <3> QED
      BY <1>0, <1>11, <2>1, <3>1, <3>2, Zenon
  <2>2. CASE there = None
    <3>1. \A b \in 1 .. Len(masterLog) : masterLog[b] # i
      BY <1>11, <2>2
    <3>2. /\ masterLog' = Append(masterLog, i)
          /\ C' = [C EXCEPT ![t] = Len(masterLog')]
          /\ lastMasterVersion' = [lastMasterVersion EXCEPT ![t] = Len(masterLog')]
      BY <2>2, Zenon DEF Create, Set
    <3>3. /\ masterLog' \in Seq(Nat) /\ Len(masterLog') = Len(masterLog) + 1
          /\ masterLog'[Len(masterLog')] = i
          /\ \A b \in 1 .. Len(masterLog) : masterLog'[b] = masterLog[b]
      BY <1>0, <1>1, <3>2
    <3>4. Unique'
      <4> SUFFICES ASSUME NEW b \in 1 .. Len(masterLog'), NEW d \in 1 .. Len(masterLog'),
                          masterLog'[b] = masterLog'[d]
                   PROVE  b = d
        BY Zenon DEF Unique
      <4>1. /\ b \in 1 .. Len(masterLog) \/ b = Len(masterLog')
            /\ d \in 1 .. Len(masterLog) \/ d = Len(masterLog')
        BY <1>0, <3>3
      <4>2. CASE b \in 1 .. Len(masterLog) /\ d \in 1 .. Len(masterLog)
        <5>1. masterLog[b] = masterLog[d]
          BY <3>3, <4>2, Zenon
        <5> QED
          BY <1>0, <4>2, <5>1, Zenon DEF Unique
      <4> QED
        BY <3>1, <3>3, <4>1, <4>2, Zenon
    <3>5. Grows
      BY <1>0, <3>3, SMTT(60) DEF Grows
    <3>6. Len(masterLog') \in 1 .. Len(masterLog') /\ Len(masterLog') \in Nat
      BY <1>0, <3>3
    <3> QED
      BY <3>2, <3>3, <3>4, <3>5, <3>6, Zenon
  <2> QED
    BY <2>1, <2>2, Zenon
<1>4. PICK c \in 1 .. Len(masterLog') : C' = [C EXCEPT ![t] = c] /\ masterLog'[c] = i
  BY <1>3, Zenon
<1>12. c \in Nat /\ Len(masterLog') \in Nat
  BY <1>3
<1>5. Types'
  BY <1>0, <1>2, <1>3, <1>4, <1>12, Zenon DEF Types, parts
<1>6. Alone(t)
  BY <1>0, <1>2, <1>3, <1>4 DEF Types, Alone
<1>7. C'[t] = c /\ pc'[t] = "lower" /\ lastMasterVersion'[t] = Len(masterLog')
  BY <1>0, <1>2, <1>3, <1>4, Zenon DEF Types
<1>13. \A b \in Local(t) : b \in Local(t)' /\ masterLog'[b] = masterLog[b]
  BY <1>0, <1>3, <1>7, SMTT(60) DEF Local, Grows
<1>14. c \in Local(t)'
  BY <1>7, Zenon DEF Local
<1>8. Regs(t)'
  BY <1>0, <1>1, <1>2, <1>4, <1>7, <1>12, <1>13, <1>14, SMTT(60) DEF Regs
<1>9. \A x : WillReach(t, x) => WillReach(t, x)'
  BY <1>1, <1>2, <1>7, <1>13, Zenon DEF WillReach
<1>10. \A x : Finds(t, x) => Finds(t, x)'
  BY <1>7, <1>9, Zenon DEF Finds
<1> QED
  BY <1>0, <1>2, <1>3, <1>5, <1>6, <1>8, <1>9, <1>10, StepKeeps, Zenon DEF parts

\* push lowers scanStart, and takes the bucket as current if it comes first.
LEMMA LowerKeeps ==
  ASSUME ObimInv, NEW t \in Threads, Lower(t)
  PROVE  ObimInv'
<1> DEFINE i == Index[val[t]]
<1>0. /\ Types /\ Regs(t) /\ Unique /\ masterLog \in Seq(Nat) /\ Len(masterLog) \in Nat
      /\ lastMasterVersion[t] \in 0 .. Len(masterLog)
      /\ curIndex[t] \in Nat /\ scanStart[t] \in Nat /\ current[t] \in Nat
  BY Own, Zenon
<1>1. /\ pc[t] = "lower" /\ val[t] \in Work /\ i \in Nat
      /\ C[t] \in Local(t) /\ masterLog[C[t]] = i
  BY <1>0, Zenon DEF Lower, Regs
<1>2. /\ pc' = [pc EXCEPT ![t] = "put"]
      /\ scanStart' = [scanStart EXCEPT ![t] = Lowered(t)]
      /\ \/ curIndex' = [curIndex EXCEPT ![t] = i] /\ current' = [current EXCEPT ![t] = C[t]]
         \/ curIndex' = curIndex /\ current' = current
      /\ UNCHANGED <<useBarrier, masterLog, lastMasterVersion, regs, parts, st>>
  BY Zenon DEF Lower, Set
<1>3. Lowered(t) \in Nat /\ Lowered(t) <= i /\ Lowered(t) <= scanStart[t]
  BY <1>0, <1>1 DEF Lowered
<1>10. C[t] \in Nat
  BY <1>0, Zenon DEF Types
<1>4. Types'
  <2>1. curIndex' \in [Threads -> Nat] /\ current' \in [Threads -> Nat]
    BY <1>0, <1>1, <1>2, <1>10, Zenon DEF Types
  <2> QED
    BY <1>0, <1>2, <1>3, <2>1, Zenon DEF Types, parts, regs
<1>5. Alone(t)
  BY <1>0, <1>2, Zenon DEF Types, Alone, regs
<1>6. /\ pc'[t] = "put" /\ scanStart'[t] = Lowered(t)
      /\ \/ curIndex'[t] = i /\ current'[t] = C[t]
         \/ curIndex'[t] = curIndex[t] /\ current'[t] = current[t]
  BY <1>0, <1>2, Zenon DEF Types
<1>7. Regs(t)'
  BY <1>0, <1>1, <1>2, <1>3, <1>6, SMTT(60) DEF Regs, Local, regs
<1>11. \A b \in Local(t) : masterLog[b] \in Nat
  BY Own, Zenon
<1>8. \A x : WillReach(t, x) => WillReach(t, x)'
  BY <1>0, <1>2, <1>3, <1>6, <1>11, SMTT(60) DEF WillReach, Local
<1>9. \A x : Finds(t, x) => Finds(t, x)'
  BY <1>6, <1>8, Zenon DEF Finds
<1> QED
  BY <1>2, <1>4, <1>5, <1>7, <1>8, <1>9, QuietStepKeeps, Zenon DEF parts

\* push puts the item into the bucket, and with it the thread may publish a chunk.
LEMMA PutKeeps ==
  ASSUME ObimInv, NEW t \in Threads, Put(t)
  PROVE  ObimInv'
<1> DEFINE n == <<C[t], val[t]>>
<1>0. /\ Types /\ Regs(t) /\ Unique /\ masterLog \in Seq(Nat) /\ scanStart[t] \in Nat /\ C[t] \in Nat
      /\ \A x \in mine[t] : WillReach(t, x)
  BY Own, Zenon
<1>1. /\ pc[t] = "put" /\ val[t] \in Work /\ C[t] \in Local(t) /\ st[t] # "dry"
      /\ scanStart[t] <= masterLog[C[t]]
  BY <1>0, Zenon DEF Put, Regs
<1>2. PICK P \in SUBSET mine[t] :
        mine' = [mine EXCEPT ![t] = (@ \ P) \cup {n}] /\ shared' = shared \cup P /\ seen' = seen
  BY Zenon DEF Put, Bucket!Add
<1>3. /\ val' = [val EXCEPT ![t] = NoVal] /\ pc' = [pc EXCEPT ![t] = "out"]
      /\ UNCHANGED <<useBarrier, masterLog, data, C, msS, unread, st>>
  BY Zenon DEF Put, Set
<1>4. n \in PairsOf /\ n[1] = C[t]
  BY <1>0, <1>1, Zenon DEF PairsOf
<1> HIDE DEF n
<1>5. Types'
  <2>1. mine' \in [Threads -> SUBSET PairsOf] /\ shared' \in SUBSET PairsOf /\ seen' \in [Threads -> SUBSET PairsOf]
    BY <1>0, <1>2, <1>4, Zenon DEF Types
  <2> QED
    BY <1>0, <1>3, <2>1, Zenon DEF Types, data
<1>6. Alone(t)
  BY <1>0, <1>3, Zenon DEF Types, Alone, data
<1>7. /\ pc'[t] = "out" /\ mine'[t] = (mine[t] \ P) \cup {n}
      /\ \A u \in Threads \ {t} : mine'[u] = mine[u]
  BY <1>0, <1>2, <1>3, Zenon DEF Types
<1>8. Regs(t)'
  BY <1>0, <1>3, <1>7, Zenon DEF Regs, Local, data
<1>9. \A x : WillReach(t, x) => WillReach(t, x)'
  BY <1>3, <1>7, Zenon DEF WillReach, Local, data
<1>10. WillReach(t, n)
  BY <1>1, <1>4, Zenon DEF WillReach
<1>11. \A x : WillReach(t, x) => Finds(t, x)'
  BY <1>7, <1>9, Zenon DEF Finds
<1>12. \A x \in mine'[t] : WillReach(t, x)'
  BY <1>0, <1>7, <1>9, <1>10, Zenon
<1>13. \A x \in shared' \ shared : Finds(t, x)'
  BY <1>0, <1>2, <1>11, Zenon
<1>14. \A x : Finds(t, x) => Finds(t, x)'
  BY <1>11, Zenon DEF Finds
<1>15. Grows /\ Unique'
  BY <1>0, <1>3 DEF Grows, Unique
<1> QED
  BY <1>2, <1>5, <1>6, <1>7, <1>8, <1>12, <1>13, <1>14, <1>15, StepKeeps, Zenon

\* slowPop begins where scanStart says.
LEMMA SlowPopKeeps ==
  ASSUME ObimInv, NEW t \in Threads, SlowPop(t), pc[t] \in {"out", "fast"}, st'[t] # "dry",
         \A u \in Threads \ {t} : st'[u] = st[u], st' \in [Threads -> {"out", "look", "dry"}],
         UNCHANGED <<useBarrier, masterLog, val, C, parts>>
  PROVE  ObimInv'
<1>0. /\ Types /\ Regs(t) /\ masterLog \in Seq(Nat) /\ Len(masterLog) \in Nat
      /\ lastMasterVersion[t] \in 0 .. Len(masterLog) /\ scanStart[t] \in Nat
      /\ \A b \in Local(t) : masterLog[b] \in Nat
  BY Own, Zenon
<1>1. PICK U \in SUBSET Threads :
        /\ pc' = [pc EXCEPT ![t] = "min"]
        /\ lastMasterVersion' = [lastMasterVersion EXCEPT ![t] = Len(masterLog)]
        /\ msS' = [msS EXCEPT ![t] = scanStart[t]]
        /\ unread' = [unread EXCEPT ![t] = U]
        /\ UNCHANGED <<curIndex, current, scanStart>>
  <2>1. (IF Leader[t] = t THEN Threads ELSE {Leader[t]}) \in SUBSET Threads
    OBVIOUS
  <2> QED
    BY <2>1, Zenon DEF SlowPop, Set
<1>2. Types'
  BY <1>0, <1>1, Zenon DEF Types, parts
<1>3. Alone(t)
  BY <1>0, <1>1, Zenon DEF Types, Alone
<1>4. pc'[t] = "min" /\ lastMasterVersion'[t] = Len(masterLog) /\ msS'[t] = scanStart[t]
  BY <1>0, <1>1, Zenon DEF Types
<1>5. \A b \in Local(t) : b \in Local(t)'
  BY <1>0, <1>4 DEF Local
<1>6. Regs(t)'
  BY <1>0, <1>1, <1>4, <1>5, SMTT(60) DEF Regs
<1>7. \A x : WillReach(t, x) => WillReach(t, x)'
  BY <1>0, <1>1, <1>4, <1>5, Zenon DEF WillReach
<1>8. \A x : Finds(t, x) => Finds(t, x)'
  BY <1>4, <1>7, Zenon DEF Finds
<1> QED
  BY <1>2, <1>3, <1>6, <1>7, <1>8, QuietStepKeeps, Zenon DEF parts

\* pop looks into the current bucket, or begins with slowPop.
LEMMA BeginPopKeeps ==
  ASSUME ObimInv, NEW t \in Threads, BeginPop(t)
  PROVE  ObimInv'
<1>0. Types /\ Regs(t) /\ current[t] \in Nat
  BY Own, Zenon
<1>1. pc[t] = "out" /\ st' = [st EXCEPT ![t] = "look"] /\ UNCHANGED <<useBarrier, masterLog, val>>
  BY Zenon DEF BeginPop, Set
<1>2. st'[t] = "look" /\ \A u \in Threads \ {t} : st'[u] = st[u]
  BY <1>0, <1>1, Zenon DEF Types
<1>3. st' \in [Threads -> {"out", "look", "dry"}]
  BY <1>0, <1>1, Zenon DEF Types
<1>4. CASE SlowPop(t) /\ UNCHANGED <<C, parts>>
  BY <1>1, <1>2, <1>3, <1>4, SlowPopKeeps, Zenon
<1>5. CASE /\ current[t] # None /\ Set(pc, t, "fast") /\ Set(C, t, current[t])
           /\ Bucket!LookInto(t, In(current[t])) /\ UNCHANGED <<data, msS, unread>>
  <2>1. /\ pc' = [pc EXCEPT ![t] = "fast"] /\ C' = [C EXCEPT ![t] = current[t]]
        /\ seen' = [seen EXCEPT ![t] = shared \cap In(current[t])] /\ mine' = mine /\ shared' = shared
    BY <1>5, Zenon DEF Set, Bucket!LookInto
  <2>2. Types'
    <3>1. seen' \in [Threads -> SUBSET PairsOf]
      BY <1>0, <2>1, Zenon DEF Types
    <3> QED
      BY <1>0, <1>1, <1>3, <1>5, <2>1, <3>1, Zenon DEF Types, data
  <2>3. Alone(t)
    BY <1>0, <1>1, <1>2, <1>5, <2>1 DEF Types, Alone, data
  <2>4. /\ pc'[t] = "fast" /\ C'[t] = current[t]
        /\ \A u \in Threads \ {t} : seen'[u] = seen[u]
    BY <1>0, <2>1, Zenon DEF Types
  <2>5. Regs(t)'
    BY <1>0, <1>1, <1>2, <1>5, <2>4, Zenon DEF Regs, Local, data
  <2>6. \A x : WillReach(t, x) => WillReach(t, x)'
    BY <1>1, <1>2, <1>5, <2>4, Zenon DEF WillReach, Local, data
  <2>7. \A x : Finds(t, x) => Finds(t, x)'
    BY <2>4, <2>6, Zenon DEF Finds
  <2> QED
    BY <1>1, <2>1, <2>2, <2>3, <2>4, <2>5, <2>6, <2>7, QuietStepKeeps, Zenon
<1> QED
  BY <1>4, <1>5, Zenon DEF BeginPop

\* An item of bucket C[t] is popped, and with it the thread may take a chunk.
LEMMA GetsKeeps ==
  ASSUME ObimInv, NEW t \in Threads, Gets(t), C[t] \in Local(t),
         pc' = [pc EXCEPT ![t] = "out"], st' = [st EXCEPT ![t] = "out"],
         UNCHANGED <<useBarrier, masterLog, lastMasterVersion, regs>>,
         curIndex' \in [Threads -> Nat], current' \in [Threads -> Nat], scanStart' \in [Threads -> Nat],
         \A u \in Threads \ {t} :
           curIndex'[u] = curIndex[u] /\ current'[u] = current[u] /\ scanStart'[u] = scanStart[u],
         current'[t] # None => /\ current'[t] \in Local(t)
                               /\ masterLog[current'[t]] = curIndex'[t]
                               /\ scanStart'[t] <= curIndex'[t],
         scanStart'[t] <= masterLog[C[t]],
         \A x : WillReach(t, x) => scanStart'[t] <= masterLog[x[1]]
  PROVE  ObimInv'
<1>0. /\ Types /\ Regs(t) /\ Unique /\ masterLog \in Seq(Nat)
      /\ \A x \in mine[t] : WillReach(t, x)
  BY Own, Zenon
<1>1. PICK D \in SUBSET (shared \cap In(C[t])), M \in SUBSET (mine[t] \cup shared) :
        /\ M \subseteq mine[t] \cup D
        /\ shared' = shared \ D
        /\ mine' = [mine EXCEPT ![t] = M]
        /\ seen' \in [Threads -> SUBSET PairsOf]
        /\ \A u \in Threads \ {t} : seen'[u] = seen[u] \ D
  <2>1. CASE \E x \in mine[t] \cap In(C[t]) : Bucket!TakeOwn(t, x)
    <3>1. PICK x \in mine[t] : Bucket!TakeOwn(t, x)
      BY <2>1, Zenon
    <3>2. /\ shared' = shared \ {} /\ mine' = [mine EXCEPT ![t] = mine[t] \ {x}]
          /\ seen' = [seen EXCEPT ![t] = {}]
      BY <3>1, Zenon DEF Bucket!TakeOwn
    <3>3. seen' \in [Threads -> SUBSET PairsOf] /\ \A u \in Threads \ {t} : seen'[u] = seen[u] \ {}
      BY <1>0, <3>2, Zenon DEF Types
    <3>4. {} \in SUBSET (shared \cap In(C[t])) /\ mine[t] \ {x} \in SUBSET (mine[t] \cup shared)
      BY Zenon
    <3> QED
      BY <3>2, <3>3, <3>4, Zenon
  <2>2. CASE \E D \in SUBSET (shared \cap In(C[t])) : \E x \in D : Bucket!TakeShared(t, D, {x})
    <3>1. PICK D \in SUBSET (shared \cap In(C[t])), x \in shared : Bucket!TakeShared(t, D, {x})
      BY <2>2, Zenon
    <3>2. /\ shared' = shared \ D /\ mine' = [mine EXCEPT ![t] = mine[t] \cup (D \ {x})]
          /\ seen' = [u \in Threads |-> IF u = t THEN {} ELSE seen[u] \ D]
      BY <3>1, Zenon DEF Bucket!TakeShared
    <3>3. seen' \in [Threads -> SUBSET PairsOf] /\ \A u \in Threads \ {t} : seen'[u] = seen[u] \ D
      BY <1>0, <3>2, Zenon DEF Types
    <3> QED
      BY <3>2, <3>3, Zenon
  <2> QED
    BY <2>1, <2>2, Zenon DEF Gets
<1>2. Types'
  <2>1. mine' \in [Threads -> SUBSET PairsOf] /\ shared' \in SUBSET PairsOf
    BY <1>0, <1>1, Zenon DEF Types
  <2> QED
    BY <1>0, <1>1, <2>1, Zenon DEF Types, regs
<1>3. Alone(t)
  BY <1>0, Zenon DEF Types, Alone, regs
<1>4. /\ pc'[t] = "out" /\ st'[t] = "out" /\ mine'[t] = M
      /\ \A u \in Threads \ {t} : mine'[u] = mine[u]
  BY <1>0, <1>1, Zenon DEF Types
<1>5. Regs(t)'
  BY <1>0, <1>4, Zenon DEF Regs, Local, regs
<1>6. \A x : WillReach(t, x) => WillReach(t, x)'
  BY <1>4, Zenon DEF WillReach, Local, regs
<1>7. \A x \in D : WillReach(t, x)'
  BY <1>1, <1>4, Zenon DEF WillReach, Local, In, regs
<1>8. \A x \in mine'[t] : WillReach(t, x)'
  BY <1>0, <1>1, <1>4, <1>6, <1>7, Zenon
<1>9. \A x : Finds(t, x) => Finds(t, x)'
  BY <1>4, <1>6, Zenon DEF Finds
<1>10. Grows /\ Unique'
  BY <1>0 DEF Grows, Unique
<1>11. \A x \in shared' \cap shared : \A u \in Threads \ {t} : x \in seen[u] => x \in seen'[u]
  BY <1>1, Zenon
<1>12. shared' \ shared = {}
  BY <1>1, Zenon
<1> QED
  BY <1>2, <1>3, <1>4, <1>5, <1>8, <1>9, <1>10, <1>11, <1>12, StepKeeps, Zenon

\* pop of the current bucket.
LEMMA FastPopKeeps ==
  ASSUME ObimInv, NEW t \in Threads, FastPop(t)
  PROVE  ObimInv'
<1>0. Types /\ Regs(t)
  BY Own, Zenon
<1>1. /\ pc[t] = "fast" /\ C[t] = current[t] /\ current[t] # None /\ C[t] \in Local(t)
      /\ scanStart[t] <= masterLog[C[t]]
      /\ st[t] # "dry" /\ UNCHANGED <<useBarrier, masterLog, val, C>>
  BY <1>0, Zenon DEF FastPop, Regs
<1>2. CASE Gets(t) /\ Set(pc, t, "out") /\ Set(st, t, "out") /\ UNCHANGED <<data, msS, unread>>
  <2>1. /\ pc' = [pc EXCEPT ![t] = "out"] /\ st' = [st EXCEPT ![t] = "out"]
        /\ UNCHANGED <<useBarrier, masterLog, lastMasterVersion, regs>>
        /\ UNCHANGED <<curIndex, current, scanStart>>
    BY <1>1, <1>2, Zenon DEF Set, data, regs
  <2>2. curIndex \in [Threads -> Nat] /\ current \in [Threads -> Nat] /\ scanStart \in [Threads -> Nat]
    BY <1>0, Zenon DEF Types
  <2>3. \A x : WillReach(t, x) => scanStart[t] <= masterLog[x[1]]
    BY Zenon DEF WillReach
  <2>4. current[t] # None => current[t] \in Local(t) /\ masterLog[current[t]] = curIndex[t] /\ scanStart[t] <= curIndex[t]
    BY <1>0, Zenon DEF Regs
  <2> QED
    BY <1>1, <1>2, <2>1, <2>2, <2>3, <2>4, GetsKeeps, Zenon
<1>3. CASE SlowPop(t) /\ UNCHANGED <<parts, st>>
  <2>1. st \in [Threads -> {"out", "look", "dry"}] /\ st' = st
    BY <1>0, <1>3, Zenon DEF Types
  <2> QED
    BY <1>1, <1>3, <2>1, SlowPopKeeps, Zenon
<1> QED
  BY <1>2, <1>3, Zenon DEF FastPop

\* slowPop lowers where it begins to the scanStart of another thread.
LEMMA ReadScanStartKeeps ==
  ASSUME ObimInv, NEW t \in Threads, ReadScanStart(t)
  PROVE  ObimInv'
<1>0. /\ Types /\ Regs(t) /\ msS[t] \in Nat
      /\ \A b \in Local(t) : masterLog[b] \in Nat
  BY Own, Zenon
<1>1. PICK m \in Nat :
        /\ pc[t] = "min" /\ m <= msS[t] /\ msS' = [msS EXCEPT ![t] = m]
        /\ unread' \in [Threads -> SUBSET Threads]
        /\ UNCHANGED <<useBarrier, masterLog, data, pc, val, C, parts, st>>
  <2> DEFINE i == CHOOSE i \in unread[t] : \A j \in unread[t] : i <= j
             m == IF scanStart[i] < msS[t] THEN scanStart[i] ELSE msS[t]
  <2>1. unread[t] \subseteq Nat /\ unread[t] # {} /\ unread[t] \subseteq Threads
    <3>1. unread[t] \subseteq Threads
      BY <1>0, Zenon DEF Types
    <3>2. Threads \subseteq Nat
      BY DEF Threads
    <3> QED
      BY <3>1, <3>2, Zenon DEF ReadScanStart
  <2>2. \E k \in unread[t] : \A j \in unread[t] : k <= j
    BY <2>1, Smallest, Zenon
  <2>3. i \in Threads
    BY <2>1, <2>2, Zenon
  <2> HIDE DEF i
  <2>4. m \in Nat /\ m <= msS[t]
    BY <1>0, <2>3 DEF Types
  <2>5. /\ pc[t] = "min" /\ msS' = [msS EXCEPT ![t] = m] /\ unread' = [unread EXCEPT ![t] = unread[t] \ {i}]
        /\ UNCHANGED <<useBarrier, masterLog, data, pc, val, C, parts, st>>
    BY Zenon DEF ReadScanStart, Set, i
  <2>6. unread' \in [Threads -> SUBSET Threads]
    BY <1>0, <2>5, Zenon DEF Types
  <2> QED
    BY <2>4, <2>5, <2>6, Zenon
<1>2. Types'
  BY <1>0, <1>1, Zenon DEF Types, parts, data
<1>3. Alone(t)
  BY <1>0, <1>1, Zenon DEF Types, Alone, data
<1>4. msS'[t] = m
  BY <1>0, <1>1, Zenon DEF Types
<1>5. Regs(t)'
  BY <1>0, <1>1, Zenon DEF Regs, Local, data
<1>6. \A x : WillReach(t, x) => WillReach(t, x)'
  BY <1>0, <1>1, <1>4 DEF WillReach, Local, data
<1>7. \A x : Finds(t, x) => Finds(t, x)'
  BY <1>1, <1>6, Zenon DEF Finds, parts
<1> QED
  BY <1>1, <1>2, <1>3, <1>5, <1>6, <1>7, QuietStepKeeps, Zenon DEF parts

\* The search goes on at index i: it passes nothing that the thread has or would
\* find, and gives up only when there is no such thing.
LEMMA ScanKeeps ==
  ASSUME ObimInv, NEW t \in Threads, NEW i \in Nat, Scan(t, After(t, i)), pc[t] \in {"min", "scan"},
         UNCHANGED <<useBarrier, masterLog, data, val, msS, unread>>,
         \A x \in mine[t] : WillReach(t, x) => i <= masterLog[x[1]],
         \A x \in shared : Finds(t, x) => i <= masterLog[x[1]]
  PROVE  ObimInv'
<1> DEFINE b == After(t, i)
<1>0. /\ Types /\ Regs(t) /\ \A d \in Local(t) : d \in Nat \ {0} /\ masterLog[d] \in Nat
      /\ \A x \in mine[t] : WillReach(t, x)
  BY Own, Zenon
<1>1. \/ b = 0 /\ \A d \in Local(t) : ~(masterLog[d] >= i)
      \/ /\ b \in Local(t)
         /\ \A d \in Local(t) : masterLog[d] >= i => masterLog[b] <= masterLog[d]
  BY <1>0, AfterIs, Zenon
<1>2. Scan(t, b)
  BY Zenon
<1> HIDE DEF b
<1>3. CASE b = 0
  <2>1. /\ pc' = [pc EXCEPT ![t] = "out"] /\ st' = [st EXCEPT ![t] = "dry"] /\ UNCHANGED <<C, parts>>
    BY <1>2, <1>3, Zenon DEF Scan, Set
  <2>2. \A d \in Local(t) : ~(masterLog[d] >= i)
    BY <1>0, <1>1, <1>3, Zenon
  <2>3. mine[t] = {}
    BY <1>0, <2>2, Zenon DEF WillReach
  <2>4. \A x \in shared : ~Finds(t, x)
    BY <1>0, <2>2, Zenon DEF WillReach, Finds
  <2>5. Types'
    BY <1>0, <2>1, Zenon DEF Types, data, parts
  <2>6. Alone(t)
    BY <1>0, <2>1, Zenon DEF Types, Alone, data
  <2>7. pc'[t] = "out"
    BY <1>0, <2>1, Zenon DEF Types
  <2>8. Regs(t)'
    BY <1>0, <2>1, <2>7, Zenon DEF Regs, Local, data
  <2> QED
    BY <2>1, <2>3, <2>4, <2>5, <2>6, <2>8, QuietStepKeeps, Zenon DEF parts
<1>4. CASE b # 0
  <2>1. /\ pc' = [pc EXCEPT ![t] = "scan"] /\ C' = [C EXCEPT ![t] = b] /\ st' = st
        /\ seen' = [seen EXCEPT ![t] = shared \cap In(b)] /\ mine' = mine /\ shared' = shared
    BY <1>2, <1>4, Zenon DEF Scan, Set, Bucket!LookInto
  <2>2. /\ b \in Local(t) /\ b \in Nat
        /\ \A d \in Local(t) : i <= masterLog[d] => masterLog[b] <= masterLog[d]
    BY <1>0, <1>1, <1>4, Zenon
  <2>3. Types'
    <3>1. seen' \in [Threads -> SUBSET PairsOf]
      BY <1>0, <2>1, Zenon DEF Types
    <3> QED
      BY <1>0, <2>1, <2>2, <3>1, Zenon DEF Types, data
  <2>4. Alone(t)
    BY <1>0, <2>1, Zenon DEF Types, Alone, data
  <2>5. /\ pc'[t] = "scan" /\ C'[t] = b /\ seen'[t] = shared \cap In(b)
        /\ \A u \in Threads \ {t} : seen'[u] = seen[u]
    BY <1>0, <2>1, Zenon DEF Types
  <2>6. Regs(t)'
    BY <1>0, <2>1, <2>2, <2>5, Zenon DEF Regs, Local, data
  <2>7. ASSUME NEW x, WillReach(t, x), i <= masterLog[x[1]] PROVE WillReach(t, x)'
    BY <2>1, <2>2, <2>5, <2>7, Zenon DEF WillReach, Local, data
  <2>8. ASSUME NEW x \in shared, Finds(t, x) PROVE Finds(t, x)'
    <3>1. WillReach(t, x)'
      BY <2>7, <2>8, Zenon DEF Finds
    <3>2. C'[t] = x[1] => x \in In(b)
      BY <1>0, <2>5, Zenon DEF In, Types, PairsOf
    <3> QED
      BY <2>5, <3>1, <3>2, Zenon DEF Finds
  <2> QED
    BY <2>1, <2>3, <2>4, <2>5, <2>6, <2>7, <2>8, QuietStepKeeps, Zenon
<1> QED
  BY <1>3, <1>4, Zenon

\* The first bucket of the search.
LEMMA BeginScanKeeps ==
  ASSUME ObimInv, NEW t \in Threads, BeginScan(t)
  PROVE  ObimInv'
<1>0. pc[t] = "min" /\ msS[t] \in Nat
  BY Own, Zenon DEF BeginScan
<1>1. PICK i \in Nat : i = msS[t]
  BY <1>0, Zenon
<1>2. /\ \A x \in mine[t] : WillReach(t, x) => i <= masterLog[x[1]]
      /\ \A x \in shared : Finds(t, x) => i <= masterLog[x[1]]
  BY <1>0, <1>1, Zenon DEF WillReach, Finds
<1>3. Scan(t, After(t, i)) /\ UNCHANGED <<useBarrier, masterLog, data, val, msS, unread>>
  BY <1>1, Zenon DEF BeginScan, Scan, Set, Bucket!LookInto
<1>4. pc[t] \in {"min", "scan"}
  BY <1>0, Zenon
<1> QED
  BY <1>2, <1>3, <1>4, ScanKeeps, Zenon

\* The search finds an item, and moves scanStart to its bucket.
LEMMA ScanGetsKeeps ==
  ASSUME ObimInv, NEW t \in Threads, ScanGets(t)
  PROVE  ObimInv'
<1> DEFINE m == masterLog[C[t]]
<1>0. /\ Types /\ Regs(t) /\ \A d \in Local(t) : d \in Nat \ {0} /\ masterLog[d] \in Nat
  BY Own, Zenon
<1>1. /\ pc[t] = "scan" /\ C[t] \in Local(t) /\ C[t] \in Nat /\ m \in Nat
  BY <1>0, Zenon DEF ScanGets, Regs
<1>2. /\ Gets(t) /\ pc' = [pc EXCEPT ![t] = "out"] /\ st' = [st EXCEPT ![t] = "out"]
      /\ current' = [current EXCEPT ![t] = C[t]]
      /\ curIndex' = [curIndex EXCEPT ![t] = m]
      /\ scanStart' = [scanStart EXCEPT ![t] = m]
      /\ UNCHANGED <<useBarrier, masterLog, lastMasterVersion, regs>>
  BY Zenon DEF ScanGets, Set
<1>3. curIndex' \in [Threads -> Nat] /\ current' \in [Threads -> Nat] /\ scanStart' \in [Threads -> Nat]
  BY <1>0, <1>1, <1>2, Zenon DEF Types
<1>4. \A u \in Threads \ {t} :
        curIndex'[u] = curIndex[u] /\ current'[u] = current[u] /\ scanStart'[u] = scanStart[u]
  BY <1>0, <1>2, Zenon DEF Types
<1>5. current'[t] = C[t] /\ curIndex'[t] = m /\ scanStart'[t] = m
  BY <1>0, <1>2, Zenon DEF Types
<1>6. \A x : WillReach(t, x) => m <= masterLog[x[1]]
  BY <1>1, Zenon DEF WillReach
<1> HIDE DEF m
<1>7. m <= m
  BY <1>1
<1> QED
  BY <1>1, <1>2, <1>3, <1>4, <1>5, <1>6, <1>7, GetsKeeps, Zenon DEF m

\* A bucket is empty: what is left has another, larger index.
LEMMA ScanMissesKeeps ==
  ASSUME ObimInv, NEW t \in Threads, ScanMisses(t)
  PROVE  ObimInv'
<1> DEFINE m == masterLog[C[t]]
<1>0. /\ Types /\ Regs(t) /\ Unique /\ \A d \in Local(t) : d \in Nat \ {0} /\ masterLog[d] \in Nat
      /\ Len(masterLog) \in Nat /\ lastMasterVersion[t] \in 0 .. Len(masterLog)
  BY Own, Zenon
<1>1. /\ pc[t] = "scan" /\ C[t] \in Local(t) /\ m \in Nat
      /\ mine[t] \cap In(C[t]) = {} /\ seen[t] = {}
  BY <1>0, Zenon DEF ScanMisses, Regs, Bucket!FindsNothing
<1>2. ASSUME NEW x \in PairsOf, WillReach(t, x), x \notin In(C[t]) PROVE m + 1 <= masterLog[x[1]]
  <2>1. x[1] \in Local(t) /\ m <= masterLog[x[1]] /\ x[1] # C[t]
    BY <1>1, <1>2, Zenon DEF WillReach, In, PairsOf
  <2>2. m # masterLog[x[1]]
    BY <1>0, <1>1, <2>1 DEF Unique, Local
  <2> QED
    BY <1>0, <1>1, <2>1, <2>2
<1>3. \A x \in mine[t] : WillReach(t, x) => m + 1 <= masterLog[x[1]]
  BY <1>0, <1>1, <1>2, Zenon DEF Types
<1>4. ASSUME NEW x \in shared, Finds(t, x) PROVE m + 1 <= masterLog[x[1]]
  <2>1. x \in PairsOf
    BY <1>0, Zenon DEF Types
  <2>2. x \notin In(C[t])
    BY <1>1, <1>4, Zenon DEF Finds, In
  <2> QED
    BY <1>2, <1>4, <2>1, <2>2, Zenon DEF Finds
<1>5. PICK i \in Nat : i = m + 1
  BY <1>1
<1>6. Scan(t, After(t, i)) /\ UNCHANGED <<useBarrier, masterLog, data, val, msS, unread>>
  BY <1>5, Zenon DEF ScanMisses, Scan, Set, Bucket!LookInto
<1>7. pc[t] \in {"min", "scan"}
  BY <1>1, Zenon
<1>8. /\ \A x \in mine[t] : WillReach(t, x) => i <= masterLog[x[1]]
      /\ \A x \in shared : Finds(t, x) => i <= masterLog[x[1]]
  BY <1>3, <1>4, <1>5, Zenon
<1> QED
  BY <1>8, <1>6, <1>7, ScanKeeps, Zenon

--------------------------------------------------------------------------------
(* The theorems *)

\* No bucket, no item, every thread outside of push and pop.
LEMMA InitKeeps == Init => ObimInv
<1> SUFFICES ASSUME Init PROVE ObimInv
  BY Zenon
<1>1. Types
  BY DEF Init, InitWith, Types, Bucket!WlInit
<1>2. masterLog = <<>> /\ Len(masterLog) = 0
  BY Zenon DEF Init, InitWith
<1>3. Unique
  BY <1>2 DEF Unique
<1>4. \A t \in Threads : Regs(t)
  BY <1>2 DEF Init, InitWith, Regs
<1>5. OwnReached /\ SharedFound
  BY Zenon DEF Init, InitWith, Bucket!WlInit, OwnReached, SharedFound
<1> QED
  BY <1>1, <1>3, <1>4, <1>5, Zenon DEF ObimInv

\* A step in which nothing happens.
LEMMA StutterKeeps == ObimInv /\ UNCHANGED vars => ObimInv'
  BY SMTT(60) DEF vars, data, regs, parts, ObimInv, Types, Regs, Local, Unique, OwnReached, SharedFound, Finds, WillReach

\* ObimInv is inductive.
THEOREM ObimInvariant == Spec => []ObimInv
<1>1. ObimInv /\ [Next]_vars => ObimInv'
  <2> SUFFICES ASSUME ObimInv, [Next]_vars PROVE ObimInv'
    BY Zenon
  <2>1. ASSUME NEW t \in Threads, Step(t) PROVE ObimInv'
    BY <2>1, FindOrLockKeeps, CreateKeeps, LowerKeeps, PutKeeps, FastPopKeeps, ReadScanStartKeeps,
       BeginScanKeeps, ScanGetsKeeps, ScanMissesKeeps, Zenon DEF Step
  <2> QED
    BY <2>1, BeginPopKeeps, BeginPushKeeps, StutterKeeps, Zenon DEF Next
<1> QED
  BY InitKeeps, <1>1, PTL DEF Spec

\* OrderedByIntegerMetric strands no work, for any number of threads, any values
\* and priorities: one bucket per index, every thread will reach what it keeps to
\* itself, and some thread will reach each shared item, although searches begin
\* at scanStart and follow maps that may be stale.
THEOREM WorkIsReached == Spec => []NoStrandedWork
<1>1. ObimInv => NoStrandedWork
  <2> SUFFICES ASSUME ObimInv PROVE NoStrandedWork
    BY Zenon
  <2>1. \A b, d \in DOMAIN masterLog : masterLog[b] = masterLog[d] => b = d
    <3>1. masterLog \in Seq(Nat) /\ Unique
      BY Zenon DEF ObimInv, Types
    <3>2. DOMAIN masterLog = 1 .. Len(masterLog)
      BY <3>1
    <3> QED
      BY <3>1, <3>2, Zenon DEF Unique
  <2> QED
    BY <2>1, Zenon DEF NoStrandedWork, ObimInv, OwnReached, SharedFound, Finds
<1> QED
  BY ObimInvariant, <1>1, PTL

\* When every thread's last call was a pop that found nothing, there is no item:
\* what termination detection takes it to mean.
THEOREM DryIsDone == Spec => []DryMeansDone
<1>1. ObimInv => DryMeansDone
  BY Zenon DEF ObimInv, OwnReached, SharedFound, Finds, WillReach, DryMeansDone, Bucket!DryMeansDone, Bucket!Elsewhere
<1> QED
  BY ObimInvariant, <1>1, PTL

--------------------------------------------------------------------------------
(***************************************************************************)
(* Context: conflict detection is exclusive, and its lists match its lock  *)
(* words, for every set of threads and of objects.                         *)
(***************************************************************************)
USE ContextAssumption

\* Fresh lockables and contexts: nothing is held, every list is empty.
LEMMA ContextInitInv == ContextInit => ContextInv
<1> SUFFICES ASSUME ContextInit PROVE ContextInv
  BY Zenon
<1>1. ContextTypeOK
  BY Zenon DEF ContextInit, ContextTypeOK, Outcomes
<1>2. \A t \in Contexts : stage[t] = "out" /\ locks[t] = Nil
  BY Zenon DEF ContextInit
<1>3. \A o \in Objects : owner[o] = Nil /\ next[o] = Nil /\ ~lockBit[o]
  BY Zenon DEF ContextInit
<1>4. \A t \in Contexts, o \in Objects : ~Holds(t, o) /\ ~Keeps(t, o)
  BY <1>2, <1>3, ContextAssumption, Zenon DEF Holds, Keeps
<1>5. HasTarget /\ HasOutcome /\ SetsUnowned /\ ReleasesOwn /\ OutHasNone
  BY <1>2, Zenon DEF HasTarget, HasOutcome, SetsUnowned, ReleasesOwn, OutHasNone
<1>6. BitIsHeld /\ OneHolder /\ KeptListed
  BY <1>3, <1>4, Zenon DEF BitIsHeld, OneHolder, KeptListed
<1>7. HeadKept /\ LinkKept /\ OnePlace
  BY <1>2, <1>3, Zenon DEF HeadKept, LinkKept, OnePlace
<1> QED
  BY <1>1, <1>5, <1>6, <1>7, Zenon DEF ContextInv

\* Every step of tryAcquire, addToNhood, commitIteration and release keeps the
\* types.
LEMMA TypeStep == ContextTypeOK /\ HasTarget /\ [ContextNext]_contextVars => ContextTypeOK'
<1> SUFFICES ASSUME ContextTypeOK, HasTarget, [ContextNext]_contextVars PROVE ContextTypeOK'
  BY Zenon
<1> USE DEF ContextTypeOK, HasTarget, Outcomes, Enter
<1>1. ASSUME NEW t \in Contexts, StartIteration(t) PROVE ContextTypeOK'
  BY <1>1, Zenon DEF StartIteration
<1>2. ASSUME NEW t \in Contexts, NEW o \in Objects, TryLock(t, o) PROVE ContextTypeOK'
  BY <1>2, Zenon DEF TryLock
<1>3. ASSUME NEW t \in Contexts, FetchOr(t) PROVE ContextTypeOK'
  BY <1>3, Zenon DEF FetchOr, Won
<1>4. ASSUME NEW t \in Contexts, SetOwner(t) PROVE ContextTypeOK'
  BY <1>4, Zenon DEF SetOwner
<1>5. ASSUME NEW t \in Contexts, CheckOwner(t) PROVE ContextTypeOK'
  BY <1>5, Zenon DEF CheckOwner, IsOwner
<1>6. ASSUME NEW t \in Contexts, NEW how \in {"commit", "abort"}, EndOperator(t, how) PROVE ContextTypeOK'
  BY <1>6, Zenon DEF EndOperator
<1>7. ASSUME NEW t \in Contexts, Unlink(t) PROVE ContextTypeOK'
  BY <1>7, Zenon DEF Unlink, Unlinked
<1>8. ASSUME NEW t \in Contexts, Release(t) PROVE ContextTypeOK'
  BY <1>8, Zenon DEF Release, ClearedOwner
<1>9. ASSUME NEW t \in Contexts, EndIteration(t) PROVE ContextTypeOK'
  BY <1>9, Zenon DEF EndIteration
<1>10. CASE UNCHANGED contextVars
  BY <1>10, Zenon DEF contextVars
<1> QED
  BY <1>1, <1>2, <1>3, <1>4, <1>5, <1>6, <1>7, <1>8, <1>9, <1>10, Zenon DEF ContextNext, ContextStep

\* A step of t that leaves the lists, and is not about a release, disturbs no
\* list.
LEMMA ListsFrame ==
  ASSUME HeadKept, LinkKept, KeptListed, OnePlace, UNCHANGED <<owner, next, locks>>, ContextTypeOK,
         NEW t \in Contexts, stage[t] # "release", stage'[t] # "release",
         \A u \in Contexts : u # t => stage'[u] = stage[u] /\ target'[u] = target[u]
  PROVE  HeadKept' /\ LinkKept' /\ KeptListed' /\ OnePlace'
<1>1. ASSUME NEW u \in Contexts, NEW o \in Objects PROVE Keeps(u, o)' <=> Keeps(u, o)
  <2>1. CASE u = t
    BY <2>1, Zenon DEF Keeps
  <2>2. CASE u # t
    BY <2>2, Zenon DEF Keeps
  <2> QED
    BY <2>1, <2>2, Zenon
<1>2. \A u \in Contexts, o \in Objects : Listed(u, o)' <=> Listed(u, o)
  BY Zenon DEF Listed
<1>3. \A u \in Contexts : locks[u] # Nil => locks[u] \in Objects
  BY Zenon DEF ContextTypeOK
<1>4. \A p \in Objects : (owner[p] # Nil => owner[p] \in Contexts) /\ (next[p] # Nil => next[p] \in Objects)
  BY Zenon DEF ContextTypeOK
<1>5. HeadKept'
  BY <1>1, <1>3, Zenon DEF HeadKept
<1>6. LinkKept'
  BY <1>1, <1>4, Zenon DEF LinkKept
<1>7. KeptListed'
  BY <1>1, <1>2, Zenon DEF KeptListed
<1>8. OnePlace'
  BY Zenon DEF OnePlace
<1> QED
  BY <1>5, <1>6, <1>7, <1>8, Zenon

\* A step of t that leaves the lock words, and is neither about a new owner nor
\* about a release, disturbs no lock word.
LEMMA WordsFrame ==
  ASSUME BitIsHeld, OneHolder, SetsUnowned, ReleasesOwn, UNCHANGED <<lockBit, owner>>,
         NEW t \in Contexts, stage[t] # "setOwner", stage'[t] # "setOwner", stage'[t] # "release",
         \A u \in Contexts : u # t => stage'[u] = stage[u] /\ target'[u] = target[u]
  PROVE  BitIsHeld' /\ OneHolder' /\ SetsUnowned' /\ ReleasesOwn'
<1>1. ASSUME NEW u \in Contexts, NEW o \in Objects PROVE Holds(u, o)' <=> Holds(u, o)
  <2>1. CASE u = t
    BY <2>1, Zenon DEF Holds
  <2>2. CASE u # t
    BY <2>2, Zenon DEF Holds
  <2> QED
    BY <2>1, <2>2, Zenon
<1>2. BitIsHeld'
  BY <1>1, Zenon DEF BitIsHeld
<1>3. OneHolder'
  BY <1>1, Zenon DEF OneHolder
<1>4. SetsUnowned'
  BY Zenon DEF SetsUnowned
<1>5. ReleasesOwn'
  BY Zenon DEF ReleasesOwn
<1> QED
  BY <1>2, <1>3, <1>4, <1>5, Zenon

\* fetch_or takes the lock bit, or fails and leaves the word as it is.
LEMMA FetchOrWords ==
  ASSUME ContextTypeOK, HasTarget, BitIsHeld, OneHolder, SetsUnowned, ReleasesOwn,
         NEW t \in Contexts, FetchOr(t)
  PROVE  BitIsHeld' /\ OneHolder' /\ SetsUnowned' /\ ReleasesOwn'
<1>1. PICK o \in Objects : o = target[t]
  BY Zenon DEF ContextTypeOK, HasTarget, FetchOr, Enter
<1>2. /\ stage[t] = "fetchOr" /\ target' = target /\ owner' = owner
      /\ lockBit' = [lockBit EXCEPT ![o] = TRUE]
      /\ stage'[t] = IF lockBit[o] THEN "checkOwner" ELSE "setOwner"
      /\ \A u \in Contexts : u # t => stage'[u] = stage[u]
  BY <1>1, Zenon DEF ContextTypeOK, FetchOr, Enter, Won
<1>3. ~lockBit[o] => owner[o] = Nil /\ \A u \in Contexts : ~Holds(u, o)
  <2>1. ~lockBit[o] => \A u \in Contexts : ~Holds(u, o)
    BY Zenon DEF BitIsHeld
  <2> QED
    BY <2>1, Zenon DEF Holds, ContextTypeOK
<1>4. \A u \in Contexts, p \in Objects : Holds(u, p)' <=> (Holds(u, p) \/ (~lockBit[o] /\ u = t /\ p = o))
  BY <1>1, <1>2, Zenon DEF Holds
<1>5. BitIsHeld'
  <2>1. \A p \in Objects : p # o => lockBit'[p] = lockBit[p]
    BY <1>2, Zenon DEF ContextTypeOK
  <2>2. lockBit'[o]
    BY <1>2, Zenon DEF ContextTypeOK
  <2>3. \A p \in Objects : p # o => (lockBit'[p] <=> \E u \in Contexts : Holds(u, p)')
    BY <1>4, <2>1, Zenon DEF BitIsHeld
  <2>4. \E u \in Contexts : Holds(u, o)'
    BY <1>4, Zenon DEF BitIsHeld
  <2> QED
    BY <2>2, <2>3, <2>4, Zenon DEF BitIsHeld
<1>6. OneHolder'
  <2>1. ASSUME NEW p \in Objects, NEW u \in Contexts, NEW v \in Contexts, Holds(u, p)', Holds(v, p)' PROVE u = v
    <3>1. CASE lockBit[o] \/ p # o
      BY <1>4, <2>1, <3>1, Zenon DEF OneHolder
    <3>2. CASE ~lockBit[o] /\ p = o
      BY <1>3, <1>4, <2>1, <3>2, Zenon
    <3> QED
      BY <3>1, <3>2, Zenon
  <2> QED
    BY <2>1, Zenon DEF OneHolder
<1>7. SetsUnowned'
  BY <1>1, <1>2, <1>3, Zenon DEF SetsUnowned
<1>8. ReleasesOwn'
  BY <1>1, <1>2, Zenon DEF ReleasesOwn
<1> QED
  BY <1>5, <1>6, <1>7, <1>8, Zenon

\* setValue and addToNhood: the object whose bit t took becomes the head of its
\* list.
LEMMA SetOwnerKeeps ==
  ASSUME ContextInv, NEW t \in Contexts, SetOwner(t)
  PROVE  /\ BitIsHeld' /\ OneHolder' /\ SetsUnowned' /\ ReleasesOwn'
         /\ HeadKept' /\ LinkKept' /\ KeptListed' /\ OnePlace'
<1> USE DEF ContextInv
<1>1. PICK o \in Objects : o = target[t]
  BY Zenon DEF ContextTypeOK, HasTarget, SetOwner, Enter
<1>2. /\ stage[t] = "setOwner" /\ stage'[t] = "run" /\ target' = target /\ lockBit' = lockBit
      /\ owner'[o] = t /\ next'[o] = locks[t] /\ locks'[t] = o
      /\ \A p \in Objects : p # o => owner'[p] = owner[p] /\ next'[p] = next[p]
      /\ \A u \in Contexts : u # t => stage'[u] = stage[u] /\ locks'[u] = locks[u]
  BY <1>1, Zenon DEF ContextTypeOK, SetOwner, Enter
<1>3. owner[o] = Nil /\ next[o] = Nil
  BY <1>1, <1>2, Zenon DEF SetsUnowned, LinkKept
<1>4. /\ \A u \in Contexts : locks[u] # Nil => locks[u] \in Objects
      /\ \A p \in Objects : next[p] # Nil => next[p] \in Objects /\ owner[p] \in Contexts
  BY Zenon DEF ContextTypeOK, LinkKept
<1>5. Holds(t, o) /\ \A u \in Contexts : u # t => ~Holds(u, o)
  <2> HIDE DEF ContextInv
  <2>1. Holds(t, o)
    BY <1>1, <1>2, Zenon DEF Holds
  <2>2. OneHolder
    BY Zenon DEF ContextInv
  <2> QED
    BY <2>1, <2>2, Zenon DEF OneHolder
<1>6. \A u \in Contexts, p \in Objects : Holds(u, p)' <=> Holds(u, p)
  <2>1. \A u \in Contexts : Holds(u, o)' <=> u = t
    <3>1. ASSUME NEW u \in Contexts, u # t PROVE ~Holds(u, o)'
      BY <1>2, <1>5, <3>1, Zenon DEF Holds
    <3> QED
      BY <1>2, <3>1, Zenon DEF Holds
  <2>2. \A u \in Contexts, p \in Objects : p # o => (Holds(u, p)' <=> Holds(u, p))
    BY <1>1, <1>2, Zenon DEF Holds
  <2> QED
    BY <1>5, <2>1, <2>2, Zenon
<1>7. \A u \in Contexts, p \in Objects : Keeps(u, p)' <=> (Keeps(u, p) \/ (u = t /\ p = o))
  <2>1. \A u \in Contexts : ~Keeps(u, o)
    BY <1>3, ContextAssumption, Zenon DEF Keeps
  <2>2. \A u \in Contexts, p \in Objects : p # o => (Keeps(u, p)' <=> Keeps(u, p))
    BY <1>2, Zenon DEF Keeps
  <2>3. \A u \in Contexts : Keeps(u, o)' <=> u = t
    BY <1>2, Zenon DEF Keeps
  <2> QED
    BY <2>1, <2>2, <2>3, Zenon
<1>8. /\ \A p \in Objects : next[p] # o
      /\ \A u \in Contexts : locks[u] # o
  <2>1. \A u \in Contexts : ~Keeps(u, o)
    BY <1>3, ContextAssumption, Zenon DEF Keeps
  <2>2. o # Nil
    BY ContextAssumption, Zenon
  <2> HIDE DEF ContextInv
  <2>3. LinkKept /\ HeadKept
    BY Zenon DEF ContextInv
  <2>4. ASSUME NEW p \in Objects PROVE next[p] # o
    BY <1>4, <2>1, <2>2, <2>3, Zenon DEF LinkKept
  <2>5. ASSUME NEW u \in Contexts PROVE locks[u] # o
    BY <2>1, <2>2, <2>3, Zenon DEF HeadKept
  <2> QED
    BY <2>4, <2>5, Zenon
<1>9. BitIsHeld' /\ OneHolder'
  BY <1>2, <1>6, Zenon DEF BitIsHeld, OneHolder
<1>10. SetsUnowned'
  <2>1. ASSUME NEW u \in Contexts, stage'[u] = "setOwner" PROVE owner'[target'[u]] = Nil
    <3>1. u # t /\ stage[u] = "setOwner"
      BY <1>2, <2>1, Zenon
    <3>2. target[u] \in Objects
      BY <3>1, Zenon DEF ContextTypeOK, HasTarget
    <3>3. target[u] # o
      BY <1>5, <3>1, Zenon DEF Holds
    <3> QED
      BY <1>2, <3>1, <3>2, <3>3, Zenon DEF SetsUnowned
  <2> QED
    BY <2>1, Zenon DEF SetsUnowned
<1>11. ReleasesOwn'
  <2>1. ASSUME NEW u \in Contexts, stage'[u] = "release" PROVE owner'[target'[u]] = u
    <3>1. u # t /\ stage[u] = "release" /\ owner[target[u]] = u
      BY <1>2, <2>1, Zenon DEF ReleasesOwn
    <3>2. target[u] \in Objects
      BY <3>1, Zenon DEF ContextTypeOK, HasTarget
    <3>3. target[u] # o
      BY <1>3, <3>1, ContextAssumption, Zenon
    <3> QED
      BY <1>2, <3>1, <3>2, <3>3, Zenon
  <2> QED
    BY <2>1, Zenon DEF ReleasesOwn
<1>12. HeadKept'
  <2>1. ASSUME NEW u \in Contexts, locks'[u] # Nil PROVE Keeps(u, locks[u])'
    <3>1. CASE u = t
      BY <1>2, <1>7, <3>1, Zenon
    <3>2. CASE u # t
      BY <1>2, <1>4, <1>7, <2>1, <3>2, Zenon DEF HeadKept
    <3> QED
      BY <3>1, <3>2, Zenon
  <2> QED
    BY <2>1, Zenon DEF HeadKept
<1>13. LinkKept'
  <2>1. ASSUME NEW p \in Objects, next'[p] # Nil
        PROVE  (owner[p] # Nil /\ Keeps(owner[p], p) /\ Keeps(owner[p], next[p]))'
    <3>1. CASE p = o
      BY <1>2, <1>4, <1>7, <2>1, <3>1, ContextAssumption, Zenon DEF HeadKept
    <3>2. CASE p # o
      BY <1>2, <1>4, <1>7, <2>1, <3>2, ZenonT(60) DEF LinkKept
    <3> QED
      BY <3>1, <3>2, Zenon
  <2> QED
    BY <2>1, Zenon DEF LinkKept
<1>14. KeptListed'
  <2>1. ASSUME NEW u \in Contexts, NEW p \in Objects, Keeps(u, p)' PROVE Listed(u, p)'
    <3>1. CASE u = t /\ p = o
      BY <1>2, <3>1, Zenon DEF Listed
    <3>2. CASE ~(u = t /\ p = o)
      <4>1. Listed(u, p)
        BY <1>7, <2>1, <3>2, Zenon DEF KeptListed
      <4>2. CASE locks[u] = p
        BY <1>2, <4>2, Zenon DEF Listed
      <4>3. ASSUME NEW q \in Objects, owner[q] = u, next[q] = p PROVE Listed(u, p)'
        <5>1. q # o
          BY <1>3, <4>3, ContextAssumption, Zenon
        <5> QED
          BY <1>2, <4>3, <5>1, Zenon DEF Listed
      <4> QED
        BY <4>1, <4>2, <4>3, Zenon DEF Listed
    <3> QED
      BY <3>1, <3>2, Zenon
  <2> QED
    BY <2>1, Zenon DEF KeptListed
<1>15. OnePlace'
  <2>1. ASSUME NEW p \in Objects, NEW q \in Objects, next'[p] = next'[q], next'[p] # Nil PROVE p = q
    <3>1. \A q1, q2 \in Objects : next[q1] = next[q2] /\ next[q1] # Nil => q1 = q2
      BY Zenon DEF OnePlace
    <3>2. \A q1 \in Objects : next[q1] = locks[t] => locks[t] = Nil
      BY Zenon DEF OnePlace
    <3>3. CASE p # o /\ q # o
      BY <1>2, <2>1, <3>1, <3>3, ZenonT(60)
    <3>4. CASE p = o /\ q # o
      BY <1>2, <2>1, <3>2, <3>4, Zenon
    <3>5. CASE p # o /\ q = o
      BY <1>2, <2>1, <3>2, <3>5, Zenon
    <3> QED
      BY <3>3, <3>4, <3>5, Zenon
  <2>2. ASSUME NEW u \in Contexts, NEW p \in Objects, locks'[u] # Nil PROVE next'[p] # locks'[u]
    <3>1. CASE u = t
      BY <1>2, <1>8, <3>1, ZenonT(60)
    <3>2. CASE u # t /\ p # o
      <4>1. locks'[u] = locks[u] /\ next'[p] = next[p]
        BY <1>2, <3>2, Zenon
      <4> QED
        BY <2>2, <4>1, Zenon DEF OnePlace
    <3>3. CASE u # t /\ p = o
      <4>1. locks[u] # Nil /\ locks[u] \in Objects /\ owner[locks[u]] = u
        BY <1>2, <1>4, <2>2, <3>3, Zenon DEF HeadKept, Keeps
      <4>2. locks[t] # locks[u]
        <5>1. locks[t] # Nil => owner[locks[t]] = t
          BY Zenon DEF HeadKept, Keeps
        <5> QED
          BY <3>3, <4>1, <5>1, Zenon
      <4> QED
        BY <1>2, <3>3, <4>2, Zenon
    <3> QED
      BY <3>1, <3>2, <3>3, Zenon
  <2> QED
    BY <2>1, <2>2, Zenon DEF OnePlace
<1> QED
  BY <1>9, <1>10, <1>11, <1>12, <1>13, <1>14, <1>15, Zenon

\* commitIteration takes the head off the list of t.
LEMMA UnlinkKeeps ==
  ASSUME ContextInv, NEW t \in Contexts, Unlink(t)
  PROVE  /\ BitIsHeld' /\ OneHolder' /\ SetsUnowned' /\ ReleasesOwn'
         /\ HeadKept' /\ LinkKept' /\ KeptListed' /\ OnePlace'
<1> USE DEF ContextInv
<1>1. PICK o \in Objects : o = locks[t]
  BY Zenon DEF ContextTypeOK, Unlink
<1>2. /\ stage[t] = "unlink" /\ stage'[t] = "release" /\ target'[t] = o /\ lockBit' = lockBit /\ owner' = owner
      /\ next'[o] = Nil /\ locks'[t] = next[o]
      /\ \A p \in Objects : p # o => next'[p] = next[p]
      /\ \A u \in Contexts : u # t => stage'[u] = stage[u] /\ target'[u] = target[u] /\ locks'[u] = locks[u]
  BY <1>1, Zenon DEF ContextTypeOK, Unlink, Unlinked, Enter
<1>3. o # Nil /\ t # Nil /\ owner[o] = t /\ Keeps(t, o)
  BY <1>1, ContextAssumption, Zenon DEF HeadKept, Keeps
<1>4. /\ \A u \in Contexts : locks[u] # Nil => locks[u] \in Objects
      /\ \A p \in Objects : next[p] # Nil => next[p] \in Objects /\ owner[p] \in Contexts
  BY Zenon DEF ContextTypeOK, LinkKept
<1>5. \A u \in Contexts, p \in Objects : Holds(u, p)' <=> Holds(u, p)
  BY <1>2, Zenon DEF Holds
<1>6. \A u \in Contexts, p \in Objects : Keeps(u, p)' <=> (Keeps(u, p) /\ p # o)
  <2>1. \A u \in Contexts : ~Keeps(u, o)'
    BY <1>2, <1>3, Zenon DEF Keeps
  <2>2. \A u \in Contexts, p \in Objects : u # t => (Keeps(u, p)' <=> Keeps(u, p))
    BY <1>2, Zenon DEF Keeps
  <2>3. \A p \in Objects : p # o => (Keeps(t, p)' <=> Keeps(t, p))
    BY <1>2, Zenon DEF Keeps
  <2>4. \A u \in Contexts : u # t => ~Keeps(u, o)
    BY <1>3, Zenon DEF Keeps
  <2> QED
    BY <2>1, <2>2, <2>3, <2>4, Zenon
<1>7. \A p \in Objects : next[p] # o
  BY <1>1, <1>3, Zenon DEF OnePlace
<1>8. \A u \in Contexts : u # t => locks[u] # o
  BY <1>3, Zenon DEF HeadKept, Keeps
<1>9. BitIsHeld' /\ OneHolder'
  BY <1>2, <1>5, Zenon DEF BitIsHeld, OneHolder
<1>10. SetsUnowned' /\ ReleasesOwn'
  <2> HIDE DEF ContextInv
  <2>1. SetsUnowned /\ ReleasesOwn
    BY Zenon DEF ContextInv
  <2>2. ASSUME NEW u \in Contexts, stage'[u] = "setOwner" PROVE owner'[target'[u]] = Nil
    <3>1. u # t
      BY <1>2, <2>2, Zenon
    <3>2. stage[u] = "setOwner" /\ target'[u] = target[u] /\ owner' = owner
      BY <1>2, <2>2, <3>1, Zenon
    <3> QED
      BY <2>1, <3>2, Zenon DEF SetsUnowned
  <2>3. ASSUME NEW u \in Contexts, stage'[u] = "release" PROVE owner'[target'[u]] = u
    <3>1. CASE u = t
      BY <1>2, <1>3, <3>1, Zenon
    <3>2. CASE u # t
      <4>1. stage[u] = "release" /\ target'[u] = target[u] /\ owner' = owner
        BY <1>2, <2>3, <3>2, Zenon
      <4> QED
        BY <2>1, <4>1, Zenon DEF ReleasesOwn
    <3> QED
      BY <3>1, <3>2, Zenon
  <2> QED
    BY <2>2, <2>3, Zenon DEF SetsUnowned, ReleasesOwn
<1>11. next[o] # Nil => next[o] \in Objects /\ Keeps(t, next[o])
  BY <1>3, <1>4, Zenon DEF LinkKept
<1>12. HeadKept'
  <2>1. ASSUME NEW u \in Contexts, locks'[u] # Nil PROVE Keeps(u, locks[u])'
    <3>1. CASE u = t
      BY <1>2, <1>6, <1>7, <1>11, <2>1, <3>1, Zenon
    <3>2. CASE u # t
      BY <1>2, <1>4, <1>6, <1>8, <2>1, <3>2, Zenon DEF HeadKept
    <3> QED
      BY <3>1, <3>2, Zenon
  <2> QED
    BY <2>1, Zenon DEF HeadKept
<1>13. LinkKept'
  <2>1. ASSUME NEW p \in Objects, next'[p] # Nil
        PROVE  (owner[p] # Nil /\ Keeps(owner[p], p) /\ Keeps(owner[p], next[p]))'
    <3>1. p # o /\ next'[p] = next[p]
      BY <1>2, <2>1, Zenon
    <3>2. owner[p] \in Contexts /\ owner[p] # Nil /\ next[p] \in Objects /\ Keeps(owner[p], p) /\ Keeps(owner[p], next[p])
      BY <1>4, <2>1, <3>1, Zenon DEF LinkKept
    <3> QED
      BY <1>2, <1>6, <1>7, <3>1, <3>2, Zenon
  <2> QED
    BY <2>1, Zenon DEF LinkKept
<1>14. KeptListed'
  <2>1. ASSUME NEW u \in Contexts, NEW p \in Objects, Keeps(u, p)' PROVE Listed(u, p)'
    <3>1. p # o /\ Listed(u, p)
      BY <1>6, <2>1, Zenon DEF KeptListed
    <3>2. CASE locks[u] = p
      BY <1>1, <1>2, <3>1, <3>2, Zenon DEF Listed
    <3>3. ASSUME NEW q \in Objects, owner[q] = u, next[q] = p PROVE Listed(u, p)'
      <4>1. CASE q = o
        BY <1>2, <1>3, <3>3, <4>1, Zenon DEF Listed
      <4>2. CASE q # o
        BY <1>2, <3>3, <4>2, Zenon DEF Listed
      <4> QED
        BY <4>1, <4>2, Zenon
    <3> QED
      BY <3>1, <3>2, <3>3, Zenon DEF Listed
  <2> QED
    BY <2>1, Zenon DEF KeptListed
<1>15. OnePlace'
  <2>1. ASSUME NEW p \in Objects, NEW q \in Objects, next'[p] = next'[q], next'[p] # Nil PROVE p = q
    <3>1. \A q1, q2 \in Objects : next[q1] = next[q2] /\ next[q1] # Nil => q1 = q2
      BY Zenon DEF OnePlace
    <3>2. p # o /\ q # o
      BY <1>2, <2>1, Zenon
    <3> QED
      BY <1>2, <2>1, <3>1, <3>2, ZenonT(60)
  <2>2. ASSUME NEW u \in Contexts, NEW p \in Objects, locks'[u] # Nil PROVE next'[p] # locks'[u]
    <3>1. CASE p = o
      BY <1>2, <2>2, <3>1, Zenon
    <3>2. CASE p # o /\ u = t
      BY <1>2, <2>2, <3>2, ZenonT(60) DEF OnePlace
    <3>3. CASE p # o /\ u # t
      BY <1>2, <2>2, <3>3, ZenonT(60) DEF OnePlace
    <3> QED
      BY <3>1, <3>2, <3>3, Zenon
  <2> QED
    BY <2>1, <2>2, Zenon DEF OnePlace
<1> QED
  BY <1>9, <1>10, <1>12, <1>13, <1>14, <1>15, Zenon

\* unlock_and_clear gives back an object that is in no list any more.
LEMMA ReleaseKeeps ==
  ASSUME ContextInv, NEW t \in Contexts, Release(t)
  PROVE  /\ BitIsHeld' /\ OneHolder' /\ SetsUnowned' /\ ReleasesOwn'
         /\ HeadKept' /\ LinkKept' /\ KeptListed' /\ OnePlace'
<1> USE DEF ContextInv
<1>1. PICK o \in Objects : o = target[t]
  BY Zenon DEF ContextTypeOK, HasTarget, Release, Enter
<1>2. /\ stage[t] = "release" /\ stage'[t] = "unlink" /\ target' = target /\ next' = next /\ locks' = locks
      /\ owner'[o] = Nil /\ ~lockBit'[o]
      /\ \A p \in Objects : p # o => owner'[p] = owner[p] /\ lockBit'[p] = lockBit[p]
      /\ \A u \in Contexts : u # t => stage'[u] = stage[u]
  BY <1>1, Zenon DEF ContextTypeOK, Release, ClearedOwner, Enter
<1>3. t # Nil /\ owner[o] = t /\ ~Keeps(t, o)
  BY <1>1, <1>2, ContextAssumption, Zenon DEF ReleasesOwn, Keeps
<1>4. /\ \A u \in Contexts : locks[u] # Nil => locks[u] \in Objects
      /\ \A p \in Objects : next[p] # Nil => next[p] \in Objects /\ owner[p] \in Contexts
  BY Zenon DEF ContextTypeOK, LinkKept
<1>5. Holds(t, o) /\ \A u \in Contexts : u # t => ~Holds(u, o)
  BY <1>3, Zenon DEF Holds, OneHolder
<1>6. \A u \in Contexts, p \in Objects : Holds(u, p)' <=> (Holds(u, p) /\ p # o)
  <2>1. \A u \in Contexts : ~Holds(u, o)'
    BY <1>2, <1>5, ContextAssumption, Zenon DEF Holds
  <2>2. \A u \in Contexts, p \in Objects : p # o => (Holds(u, p)' <=> Holds(u, p))
    BY <1>2, Zenon DEF Holds
  <2> QED
    BY <2>1, <2>2, Zenon
<1>7. \A u \in Contexts, p \in Objects : Keeps(u, p)' <=> Keeps(u, p)
  <2>1. \A u \in Contexts : ~Keeps(u, o) /\ ~Keeps(u, o)'
    BY <1>2, <1>3, ContextAssumption, Zenon DEF Keeps
  <2>2. \A u \in Contexts, p \in Objects : p # o => (Keeps(u, p)' <=> Keeps(u, p))
    BY <1>1, <1>2, Zenon DEF Keeps
  <2> QED
    BY <2>1, <2>2, Zenon
<1>8. next[o] = Nil
  BY <1>3, Zenon DEF LinkKept
<1>9. BitIsHeld' /\ OneHolder'
  BY <1>2, <1>6, Zenon DEF BitIsHeld, OneHolder
<1>10. SetsUnowned'
  <2>1. ASSUME NEW u \in Contexts, stage'[u] = "setOwner" PROVE owner'[target'[u]] = Nil
    <3>1. u # t /\ stage[u] = "setOwner"
      BY <1>2, <2>1, Zenon
    <3>2. target[u] \in Objects
      BY <3>1, Zenon DEF ContextTypeOK, HasTarget
    <3> QED
      BY <1>2, <3>1, <3>2, Zenon DEF SetsUnowned
  <2> QED
    BY <2>1, Zenon DEF SetsUnowned
<1>11. ReleasesOwn'
  <2>1. ASSUME NEW u \in Contexts, stage'[u] = "release" PROVE owner'[target'[u]] = u
    <3>1. u # t /\ stage[u] = "release" /\ owner[target[u]] = u
      BY <1>2, <2>1, Zenon DEF ReleasesOwn
    <3>2. target[u] \in Objects
      BY <3>1, Zenon DEF ContextTypeOK, HasTarget
    <3>3. target[u] # o
      BY <1>3, <3>1, Zenon
    <3> QED
      BY <1>2, <3>1, <3>2, <3>3, Zenon
  <2> QED
    BY <2>1, Zenon DEF ReleasesOwn
<1>12. HeadKept'
  BY <1>2, <1>4, <1>7, Zenon DEF HeadKept
<1>13. LinkKept'
  <2>1. ASSUME NEW p \in Objects, next'[p] # Nil
        PROVE  (owner[p] # Nil /\ Keeps(owner[p], p) /\ Keeps(owner[p], next[p]))'
    <3>1. p # o /\ next'[p] = next[p]
      BY <1>2, <1>8, <2>1, Zenon
    <3>2. owner[p] \in Contexts /\ owner[p] # Nil /\ next[p] \in Objects /\ Keeps(owner[p], p) /\ Keeps(owner[p], next[p])
      BY <1>4, <2>1, <3>1, Zenon DEF LinkKept
    <3> QED
      BY <1>2, <1>7, <3>1, <3>2, Zenon
  <2> QED
    BY <2>1, Zenon DEF LinkKept
<1>14. KeptListed'
  <2>1. ASSUME NEW u \in Contexts, NEW p \in Objects, Keeps(u, p)' PROVE Listed(u, p)'
    <3>1. p # Nil /\ Listed(u, p)
      BY <1>7, <2>1, ContextAssumption, Zenon DEF KeptListed
    <3>2. CASE locks[u] = p
      BY <1>2, <3>2, Zenon DEF Listed
    <3>3. ASSUME NEW q \in Objects, owner[q] = u, next[q] = p PROVE Listed(u, p)'
      BY <1>2, <1>8, <3>1, <3>3, Zenon DEF Listed
    <3> QED
      BY <3>1, <3>2, <3>3, Zenon DEF Listed
  <2> QED
    BY <2>1, Zenon DEF KeptListed
<1>15. OnePlace'
  BY <1>2, Zenon DEF OnePlace
<1> QED
  BY <1>9, <1>10, <1>11, <1>12, <1>13, <1>14, <1>15, Zenon

\* The invariant is inductive: one case per step of the code.
LEMMA InvStep == ContextInv /\ [ContextNext]_contextVars => ContextInv'
<1> SUFFICES ASSUME ContextInv, [ContextNext]_contextVars PROVE ContextInv'
  BY Zenon
<1>0. ContextTypeOK'
  BY TypeStep, Zenon DEF ContextInv
<1> DEFINE Control == HasTarget /\ HasOutcome /\ OutHasNone
<1>1. ASSUME NEW t \in Contexts, StartIteration(t) PROVE ContextInv'
  <2>1. Control'
    BY <1>1, Zenon DEF ContextInv, ContextTypeOK, StartIteration, Enter, HasTarget, HasOutcome, OutHasNone
  <2>2. /\ stage[t] = "out" /\ stage'[t] = "run" /\ UNCHANGED <<lockBit, owner, next, locks>>
        /\ \A u \in Contexts : u # t => stage'[u] = stage[u] /\ target'[u] = target[u]
    BY <1>1, Zenon DEF ContextInv, ContextTypeOK, StartIteration, Enter
  <2> QED
    BY <1>0, <2>1, <2>2, ListsFrame, WordsFrame, Zenon DEF ContextInv
<1>2. ASSUME NEW t \in Contexts, NEW o \in Objects, TryLock(t, o) PROVE ContextInv'
  <2>1. Control'
    BY <1>2, ContextAssumption, Zenon DEF ContextInv, ContextTypeOK, TryLock, Enter, HasTarget, HasOutcome, OutHasNone
  <2>2. /\ stage[t] = "run" /\ stage'[t] \in {"checkOwner", "fetchOr"} /\ UNCHANGED <<lockBit, owner, next, locks>>
        /\ \A u \in Contexts : u # t => stage'[u] = stage[u] /\ target'[u] = target[u]
    BY <1>2, Zenon DEF ContextInv, ContextTypeOK, TryLock, Enter
  <2>3. stage[t] # "release" /\ stage[t] # "setOwner" /\ stage'[t] # "setOwner" /\ stage'[t] # "release"
    BY <2>2, Zenon
  <2> QED
    BY <1>0, <2>1, <2>2, <2>3, ListsFrame, WordsFrame, Zenon DEF ContextInv
<1>3. ASSUME NEW t \in Contexts, FetchOr(t) PROVE ContextInv'
  <2>1. /\ stage[t] = "fetchOr" /\ stage'[t] \in {"checkOwner", "setOwner"} /\ UNCHANGED <<owner, next, locks, target, outcome>>
        /\ \A u \in Contexts : u # t => stage'[u] = stage[u] /\ target'[u] = target[u]
    BY <1>3, Zenon DEF ContextInv, ContextTypeOK, FetchOr, Enter
  <2>2. Control'
    BY <2>1, Zenon DEF ContextInv, HasTarget, HasOutcome, OutHasNone
  <2>3. stage[t] # "release" /\ stage'[t] # "release"
    BY <2>1, Zenon
  <2> QED
    BY <1>0, <1>3, <2>1, <2>2, <2>3, ListsFrame, FetchOrWords, Zenon DEF ContextInv
<1>4. ASSUME NEW t \in Contexts, SetOwner(t) PROVE ContextInv'
  <2>1. Control'
    BY <1>4, Zenon DEF ContextInv, ContextTypeOK, SetOwner, Enter, HasTarget, HasOutcome, OutHasNone
  <2> QED
    BY <1>0, <1>4, <2>1, SetOwnerKeeps, Zenon DEF ContextInv
<1>5. ASSUME NEW t \in Contexts, CheckOwner(t) PROVE ContextInv'
  <2>1. Control'
    BY <1>5, Zenon DEF ContextInv, ContextTypeOK, CheckOwner, IsOwner, Enter, HasTarget, HasOutcome, OutHasNone
  <2>2. /\ stage[t] = "checkOwner" /\ stage'[t] \in {"run", "unlink"} /\ UNCHANGED <<lockBit, owner, next, locks>>
        /\ \A u \in Contexts : u # t => stage'[u] = stage[u] /\ target'[u] = target[u]
    BY <1>5, Zenon DEF ContextInv, ContextTypeOK, CheckOwner, Enter
  <2>3. stage[t] # "release" /\ stage[t] # "setOwner" /\ stage'[t] # "setOwner" /\ stage'[t] # "release"
    BY <2>2, Zenon
  <2> QED
    BY <1>0, <2>1, <2>2, <2>3, ListsFrame, WordsFrame, Zenon DEF ContextInv
<1>6. ASSUME NEW t \in Contexts, NEW how \in {"commit", "abort"}, EndOperator(t, how) PROVE ContextInv'
  <2>1. Control'
    BY <1>6, Zenon DEF ContextInv, ContextTypeOK, EndOperator, Enter, HasTarget, HasOutcome, OutHasNone
  <2>2. /\ stage[t] = "run" /\ stage'[t] = "unlink" /\ UNCHANGED <<lockBit, owner, next, locks>>
        /\ \A u \in Contexts : u # t => stage'[u] = stage[u] /\ target'[u] = target[u]
    BY <1>6, Zenon DEF ContextInv, ContextTypeOK, EndOperator, Enter
  <2> QED
    BY <1>0, <2>1, <2>2, ListsFrame, WordsFrame, Zenon DEF ContextInv
<1>7. ASSUME NEW t \in Contexts, Unlink(t) PROVE ContextInv'
  <2>1. Control'
    BY <1>7, Zenon DEF ContextInv, ContextTypeOK, Unlink, Enter, HasTarget, HasOutcome, OutHasNone
  <2> QED
    BY <1>0, <1>7, <2>1, UnlinkKeeps, Zenon DEF ContextInv
<1>8. ASSUME NEW t \in Contexts, Release(t) PROVE ContextInv'
  <2>1. Control'
    BY <1>8, Zenon DEF ContextInv, ContextTypeOK, Release, Enter, HasTarget, HasOutcome, OutHasNone
  <2> QED
    BY <1>0, <1>8, <2>1, ReleaseKeeps, Zenon DEF ContextInv
<1>9. ASSUME NEW t \in Contexts, EndIteration(t) PROVE ContextInv'
  <2>1. Control'
    BY <1>9, Zenon DEF ContextInv, ContextTypeOK, EndIteration, Enter, HasTarget, HasOutcome, OutHasNone
  <2>2. /\ stage[t] = "unlink" /\ stage'[t] = "out" /\ UNCHANGED <<lockBit, owner, next, locks>>
        /\ \A u \in Contexts : u # t => stage'[u] = stage[u] /\ target'[u] = target[u]
    BY <1>9, Zenon DEF ContextInv, ContextTypeOK, EndIteration, Enter
  <2> QED
    BY <1>0, <2>1, <2>2, ListsFrame, WordsFrame, Zenon DEF ContextInv
<1>10. CASE UNCHANGED contextVars
  <2> USE <1>10 DEF contextVars, ContextInv
  <2>1. HasTarget' /\ HasOutcome' /\ SetsUnowned' /\ ReleasesOwn' /\ OutHasNone'
    BY Zenon DEF HasTarget, HasOutcome, SetsUnowned, ReleasesOwn, OutHasNone
  <2>2. BitIsHeld' /\ OneHolder'
    BY ZenonT(60) DEF BitIsHeld, OneHolder, Holds
  <2>3. HeadKept' /\ LinkKept' /\ OnePlace'
    BY Zenon DEF HeadKept, LinkKept, OnePlace, Keeps
  <2>4. KeptListed'
    <3> HIDE DEF ContextInv
    <3>1. KeptListed
      BY Zenon DEF ContextInv
    <3>2. \A u \in Contexts, p \in Objects : (Keeps(u, p)' <=> Keeps(u, p)) /\ (Listed(u, p)' <=> Listed(u, p))
      BY Zenon DEF Keeps, Listed
    <3> QED
      BY <3>1, <3>2, Zenon DEF KeptListed
  <2> QED
    BY <1>0, <2>1, <2>2, <2>3, <2>4, Zenon
<1> QED
  BY <1>1, <1>2, <1>3, <1>4, <1>5, <1>6, <1>7, <1>8, <1>9, <1>10, Zenon DEF ContextNext, ContextStep

\* The invariant covers the assertions in the code.
LEMMA InvImpliesAssertions == ContextInv => CodeAssertions
<1> SUFFICES ASSUME ContextInv, NEW t \in Contexts
             PROVE  LET o == target[t]
                    IN  /\ stage[t] = "out" => locks[t] = Nil
                        /\ stage[t] = "setOwner" => next[o] = Nil /\ owner[o] = Nil
                        /\ stage[t] = "release" => owner[o] = t /\ next[o] = Nil /\ lockBit[o]
  BY Zenon DEF CodeAssertions
<1>0. /\ target[t] \in Objects \cup {Nil} /\ HasTarget /\ SetsUnowned /\ ReleasesOwn /\ OutHasNone
      /\ LinkKept /\ BitIsHeld
  BY Zenon DEF ContextInv, ContextTypeOK
<1>1. stage[t] = "out" => locks[t] = Nil
  BY <1>0, Zenon DEF OutHasNone
<1>2. stage[t] = "setOwner" => next[target[t]] = Nil /\ owner[target[t]] = Nil
  <2> SUFFICES ASSUME stage[t] = "setOwner" PROVE next[target[t]] = Nil /\ owner[target[t]] = Nil
    BY Zenon
  <2>1. target[t] \in Objects /\ owner[target[t]] = Nil
    BY <1>0, Zenon DEF HasTarget, SetsUnowned
  <2> QED
    BY <1>0, <2>1, Zenon DEF LinkKept
<1>3. stage[t] = "release" => owner[target[t]] = t
  BY <1>0, Zenon DEF ReleasesOwn
<1>4. ASSUME stage[t] = "release" PROVE next[target[t]] = Nil /\ lockBit[target[t]]
  <2>1. target[t] \in Objects /\ owner[target[t]] = t
    BY <1>0, <1>4, Zenon DEF HasTarget, ReleasesOwn
  <2>2. ~Keeps(owner[target[t]], target[t])
    BY <1>4, <2>1, Zenon DEF Keeps
  <2>3. next[target[t]] = Nil
    BY <1>0, <2>1, <2>2, Zenon DEF LinkKept
  <2>4. Holds(t, target[t])
    BY <2>1, Zenon DEF Holds
  <2> QED
    BY <1>0, <2>1, <2>3, <2>4, Zenon DEF BitIsHeld
<1> QED
  BY <1>1, <1>2, <1>3, <1>4, Zenon

\* The words and the lists of conflict detection agree in every state, for any
\* threads and objects: an object has one holder, and a thread's list has what
\* it owns. The invariant is inductive as it stands.
THEOREM ContextInvariant == ContextSpec => []ContextInv
<1>1. ContextInv /\ [ContextNext]_contextVars => ContextInv'
  BY InvStep, Zenon
<1> QED
  BY ContextInitInv, <1>1, PTL DEF ContextSpec

\* No assertion in startIteration, addToNhood, release or unlock_and_clear
\* fails, for any threads and objects.
THEOREM AssertionsHold == ContextSpec => []CodeAssertions
<1> QED
  BY ContextInvariant, InvImpliesAssertions, PTL

\* Both: the books agree and the assertions hold, for any threads and objects.
THEOREM ContextIsSafe == ContextSpec => []ContextSafe
  BY ContextInvariant, AssertionsHold, PTL DEF ContextSafe

--------------------------------------------------------------------------------
(* Conflict detection implements Neighborhoods *)

\* The links of the lists can be numbered in increasing order. ContextInv allows
\* a ring of objects beside an empty list; this excludes it.
NoCycle ==
  \E r \in [Objects -> Nat] : \A p \in Objects : next[p] # Nil => r[p] < r[next[p]]

\* Only addToNhood makes a link, in front of the list.
LEMMA NoCycleStep == ContextInv /\ NoCycle /\ [ContextNext]_contextVars => NoCycle'
<1> SUFFICES ASSUME ContextInv, NoCycle, [ContextNext]_contextVars PROVE NoCycle'
  BY Zenon
<1> PICK r \in [Objects -> Nat] : \A p \in Objects : next[p] # Nil => r[p] < r[next[p]]
  BY Zenon DEF NoCycle
<1> USE DEF ContextInv, ContextTypeOK
<1>1. CASE next' = next
  BY <1>1, Zenon DEF NoCycle
<1>2. ASSUME NEW t \in Contexts, SetOwner(t) PROVE NoCycle'
  <2> DEFINE o == target[t]
             s == [p \in Objects |-> IF p = o THEN 0 ELSE r[p] + 1]
  <2>1. o \in Objects /\ next' = [next EXCEPT ![o] = locks[t]]
    BY <1>2, Zenon DEF SetOwner, Enter, HasTarget
  <2>2. owner[o] = Nil
    BY <1>2, Zenon DEF SetOwner, Enter, SetsUnowned
  <2>3. locks[t] # o /\ \A p \in Objects : next[p] # o
    <3>1. \A u \in Contexts : ~Keeps(u, o)
      BY <2>2, ContextAssumption, Zenon DEF Keeps
    <3>2. o # Nil /\ \A p \in Objects : next[p] # Nil => owner[p] \in Contexts
      BY <2>1, ContextAssumption, Zenon DEF LinkKept
    <3> QED
      BY <2>1, <3>1, <3>2, Zenon DEF HeadKept, LinkKept
  <2>4. s \in [Objects -> Nat]
    BY SMTT(60)
  <2>5. ASSUME NEW p \in Objects, next'[p] # Nil PROVE s[p] < s[next'[p]]
    BY <2>1, <2>3, <2>5, SMTT(60)
  <2> HIDE DEF s
  <2> QED
    BY <2>4, <2>5, Zenon DEF NoCycle
<1>3. ASSUME NEW t \in Contexts, Unlink(t) PROVE NoCycle'
  <2>1. \A p \in Objects : next'[p] # Nil => next'[p] = next[p]
    BY <1>3, Zenon DEF Unlink, Unlinked
  <2> QED
    BY <2>1, Zenon DEF NoCycle
<1>4. (\E t \in Contexts : SetOwner(t) \/ Unlink(t)) \/ next' = next
  BY Zenon DEF ContextNext, ContextStep, contextVars, StartIteration, FetchOr, CheckOwner, EndOperator,
         Release, EndIteration, TryLock
<1> QED
  BY <1>1, <1>2, <1>3, <1>4, Zenon

\* A thread whose list is empty owns nothing: of what it owns, the object with
\* the smallest number has no predecessor.
LEMMA EmptyOwnsNone ==
  ASSUME ContextInv, NoCycle, NEW t \in Contexts, locks[t] = Nil, stage[t] = "unlink"
  PROVE  \A o \in Objects : owner[o] # t
<1> PICK r \in [Objects -> Nat] : \A p \in Objects : next[p] # Nil => r[p] < r[next[p]]
  BY Zenon DEF NoCycle
<1> DEFINE Ranks == {r[o] : o \in {p \in Objects : owner[p] = t}}
<1> SUFFICES ASSUME NEW o \in Objects, owner[o] = t PROVE FALSE
  BY Zenon
<1>1. Ranks \subseteq Nat /\ Ranks # {}
  <2>1. r[o] \in Ranks
    BY Zenon
  <2>2. ASSUME NEW y \in Ranks PROVE y \in Nat
    <3>1. PICK p \in Objects : y = r[p]
      BY Zenon
    <3> QED
      BY <3>1, Zenon
  <2> QED
    BY <2>1, <2>2, Zenon
<1>2. PICK x \in Ranks : \A y \in Ranks : x <= y
  <2> HIDE DEF Ranks
  <2> QED
    BY <1>1, Smallest, Zenon
<1>3. PICK p \in Objects : owner[p] = t /\ r[p] = x
  BY Zenon
<1>4. Keeps(t, p)
  BY <1>3, Zenon DEF Keeps
<1>5. PICK q \in Objects : owner[q] = t /\ next[q] = p
  <2>1. Listed(t, p)
    BY <1>3, <1>4, Zenon DEF ContextInv, KeptListed
  <2> QED
    BY <1>3, <2>1, ContextAssumption, Zenon DEF Listed
<1>6. r[q] < r[p]
  BY <1>5, ContextAssumption, Zenon
<1>7. r[q] \in Ranks
  BY <1>5, Zenon
<1>8. x <= r[q] /\ r[q] < x /\ x \in Nat /\ r[q] \in Nat
  <2> HIDE DEF Ranks
  <2> QED
    BY <1>1, <1>2, <1>3, <1>6, <1>7, Zenon
<1> QED
  BY <1>8

\* The phase of a thread's iteration, case by case.
PhaseOf(t) ==
  IF stage[t] = "out" THEN "out"
  ELSE IF stage[t] \in {"unlink", "release"} THEN outcome[t]
  ELSE IF stage[t] = "checkOwner" /\ owner[target[t]] # t THEN "conflict"
  ELSE "acquire"

\* phaseBar, with its cases in this order.
LEMMA PhaseBarIs == phaseBar = [t \in Contexts |-> PhaseOf(t)]
  BY Zenon DEF phaseBar, PhaseOf

\* A step that changes nobody else's phase, as the abstract state sees it.
LEMMA PhaseChange ==
  ASSUME NEW t \in Contexts, \A u \in Contexts \ {t} : PhaseOf(u)' = PhaseOf(u)
  PROVE  phaseBar' = [phaseBar EXCEPT ![t] = PhaseOf(t)']
<1>1. phaseBar' = [u \in Contexts |-> PhaseOf(u)']
  BY Zenon DEF phaseBar, PhaseOf
<1> QED
  BY <1>1, PhaseBarIs, Zenon

\* Nobody holds more or less.
LEMMA HeldSame ==
  ASSUME \A u \in Contexts, p \in Objects : Holds(u, p)' <=> Holds(u, p)
  PROVE  heldBar' = heldBar
  BY Zenon DEF heldBar

\* ... it has one pair more when a thread takes an object,
LEMMA HeldMore ==
  ASSUME NEW t \in Contexts, NEW o \in Objects,
         \A u \in Contexts, p \in Objects : Holds(u, p)' <=> (Holds(u, p) \/ (u = t /\ p = o))
  PROVE  heldBar' = heldBar \cup {<<t, o>>}
  BY DEF heldBar, Holds

\* ... and one less when it gives one back.
LEMMA HeldLess ==
  ASSUME NEW t \in Contexts, NEW o \in Objects, Holds(t, o),
         \A u \in Contexts, p \in Objects : Holds(u, p)' <=> (Holds(u, p) /\ ~(u = t /\ p = o))
  PROVE  heldBar' = heldBar \ {<<t, o>>} /\ <<t, o>> \in heldBar
  BY DEF heldBar, Holds

\* Fresh lockables and contexts are an initial state of Neighborhoods.
LEMMA RefinesInit == ContextInit => Promise!NhInit
<1> SUFFICES ASSUME ContextInit PROVE heldBar = {} /\ phaseBar = [t \in Contexts |-> "out"]
  BY Zenon DEF Promise!NhInit
<1>1. heldBar = {}
  BY Zenon DEF ContextInit, heldBar, Holds
<1>2. \A t \in Contexts : PhaseOf(t) = "out"
  BY Zenon DEF ContextInit, PhaseOf
<1> QED
  BY <1>1, <1>2, PhaseBarIs, Zenon

\* Losing the race for o to another thread is a conflict of Neighborhoods.
LEMMA RefinesConflict ==
  ASSUME ContextInv, NEW t \in Contexts, NEW o \in Objects, lockBit[o],
         stage[t] # "setOwner", owner[o] # t, PhaseOf(t) = "acquire", PhaseOf(t)' = "conflict",
         \A u \in Contexts \ {t} : PhaseOf(u)' = PhaseOf(u),
         \A u \in Contexts, p \in Objects : Holds(u, p)' <=> Holds(u, p)
  PROVE  Promise!NhNext
<1>1. PICK u \in Contexts : Holds(u, o)
  BY Zenon DEF ContextInv, BitIsHeld
<1>2. u # t
  BY <1>1, Zenon DEF Holds
<1>3. <<u, o>> \in heldBar
  BY <1>1, Zenon DEF heldBar
<1>4. phaseBar' = [phaseBar EXCEPT ![t] = "conflict"] /\ phaseBar[t] = "acquire"
  BY PhaseChange, PhaseBarIs, Zenon
<1>5. Promise!Conflict(t, o)
  BY <1>2, <1>3, <1>4, HeldSame, Zenon DEF Promise!Conflict, Promise!HeldByOther, Promise!Enter
<1> QED
  BY <1>5, Zenon DEF Promise!NhNext

\* Every step of the code is a step of Neighborhoods or changes nothing there.
LEMMA RefinesStep ==
  ContextInv /\ ContextInv' /\ NoCycle /\ [ContextNext]_contextVars => [Promise!NhNext]_<<heldBar, phaseBar>>
<1> SUFFICES ASSUME ContextInv, NoCycle, [ContextNext]_contextVars
             PROVE  Promise!NhNext \/ (heldBar' = heldBar /\ phaseBar' = phaseBar)
  BY Zenon
<1> USE DEF ContextInv, ContextTypeOK, Enter
<1>0. ASSUME \A u \in Contexts : PhaseOf(u)' = PhaseOf(u) PROVE phaseBar' = phaseBar
  BY <1>0 DEF phaseBar, PhaseOf
<1>1. ASSUME NEW t \in Contexts, StartIteration(t) PROVE Promise!NhNext
  <2> USE <1>1 DEF StartIteration
  <2>1. \A u \in Contexts \ {t} : PhaseOf(u)' = PhaseOf(u)
    BY Zenon DEF PhaseOf
  <2>2. PhaseOf(t) = "out" /\ PhaseOf(t)' = "acquire"
    BY Zenon DEF PhaseOf
  <2>3. heldBar' = heldBar
    BY HeldSame, Zenon DEF Holds
  <2>4. phaseBar' = [phaseBar EXCEPT ![t] = "acquire"] /\ phaseBar[t] = "out"
    BY <2>1, <2>2, PhaseChange, PhaseBarIs, Zenon
  <2> QED
    BY <2>3, <2>4, Zenon DEF Promise!NhNext, Promise!Begin, Promise!Enter
<1>2. ASSUME NEW t \in Contexts, NEW o \in Objects, TryLock(t, o)
      PROVE  Promise!NhNext \/ (heldBar' = heldBar /\ phaseBar' = phaseBar)
  <2> USE <1>2 DEF TryLock
  <2>1. \A u \in Contexts \ {t} : PhaseOf(u)' = PhaseOf(u)
    BY Zenon DEF PhaseOf
  <2>2. \A u \in Contexts, p \in Objects : Holds(u, p)' <=> Holds(u, p)
    BY Zenon DEF Holds
  <2>3. PhaseOf(t) = "acquire"
    BY Zenon DEF PhaseOf
  <2>4. CASE lockBit[o] /\ owner[o] # t
    <3>1. PhaseOf(t)' = "conflict"
      BY <2>4, Zenon DEF PhaseOf
    <3> QED
      BY <2>1, <2>2, <2>3, <2>4, <3>1, RefinesConflict, Zenon
  <2>5. CASE ~(lockBit[o] /\ owner[o] # t)
    <3>1. PhaseOf(t)' = "acquire"
      BY <2>5, Zenon DEF PhaseOf
    <3> QED
      BY <2>1, <2>2, <2>3, <3>1, <1>0, HeldSame, Zenon
  <2> QED
    BY <2>4, <2>5, Zenon
<1>3. ASSUME NEW t \in Contexts, FetchOr(t)
      PROVE  Promise!NhNext \/ (heldBar' = heldBar /\ phaseBar' = phaseBar)
  <2> DEFINE o == target[t]
  <2> USE <1>3 DEF FetchOr, Won
  <2>0. o \in Objects
    BY Zenon DEF HasTarget
  <2>1. \A u \in Contexts \ {t} : PhaseOf(u)' = PhaseOf(u)
    BY Zenon DEF PhaseOf
  <2>3. PhaseOf(t) = "acquire"
    BY Zenon DEF PhaseOf
  <2>4. CASE lockBit[o]
    <3>2. \A u \in Contexts, p \in Objects : Holds(u, p)' <=> Holds(u, p)
      BY <2>4, Zenon DEF Holds
    <3>3. CASE owner[o] # t
      <4>1. PhaseOf(t)' = "conflict"
        BY <2>4, <3>3, Zenon DEF PhaseOf
      <4> QED
        BY <2>0, <2>1, <2>3, <2>4, <3>2, <3>3, <4>1, RefinesConflict, Zenon
    <3>4. CASE owner[o] = t
      <4>1. PhaseOf(t)' = "acquire"
        BY <2>4, <3>4, Zenon DEF PhaseOf
      <4> QED
        BY <2>1, <2>3, <3>2, <4>1, <1>0, HeldSame, Zenon
    <3> QED
      BY <3>3, <3>4, Zenon
  <2>5. CASE ~lockBit[o]
    <3>1. PhaseOf(t)' = "acquire"
      BY <2>5, Zenon DEF PhaseOf
    <3>2. phaseBar' = phaseBar /\ phaseBar[t] = "acquire"
      BY <2>1, <2>3, <3>1, <1>0, PhaseBarIs, Zenon
    <3>3. \A u \in Contexts : ~Holds(u, o)
      BY <2>0, <2>5, Zenon DEF BitIsHeld
    <3>4. \A u \in Contexts, p \in Objects : Holds(u, p)' <=> (Holds(u, p) \/ (u = t /\ p = o))
      BY <2>5, Zenon DEF Holds
    <3>5. heldBar' = heldBar \cup {<<t, o>>}
      <4>1. PICK c \in Objects : c = o
        BY <2>0, Zenon
      <4>2. \A u \in Contexts, p \in Objects : Holds(u, p)' <=> (Holds(u, p) \/ (u = t /\ p = c))
        BY <3>4, <4>1, Zenon
      <4> QED
        BY <4>1, <4>2, HeldMore, Zenon
    <3>6. ~Promise!HeldByOther(t, o)
      BY <3>3, Zenon DEF Promise!HeldByOther, heldBar
    <3> QED
      BY <2>0, <3>2, <3>5, <3>6, Zenon DEF Promise!NhNext, Promise!Acquire
  <2> QED
    BY <2>4, <2>5, Zenon
<1>4. ASSUME NEW t \in Contexts, SetOwner(t) PROVE heldBar' = heldBar /\ phaseBar' = phaseBar
  <2> USE <1>4 DEF SetOwner
  <2>1. target[t] \in Objects /\ owner[target[t]] = Nil
    BY Zenon DEF HasTarget, SetsUnowned
  <2>2. \A u \in Contexts : PhaseOf(u)' = PhaseOf(u)
    BY <2>1, ZenonT(60) DEF PhaseOf, HasTarget
  <2>3. \A u \in Contexts, p \in Objects : Holds(u, p)' <=> Holds(u, p)
    BY <2>1, Zenon DEF Holds
  <2> QED
    BY <2>2, <2>3, <1>0, HeldSame, Zenon
<1>5. ASSUME NEW t \in Contexts, CheckOwner(t) PROVE heldBar' = heldBar /\ phaseBar' = phaseBar
  <2> USE <1>5 DEF CheckOwner, IsOwner
  <2>2. \A u \in Contexts : PhaseOf(u)' = PhaseOf(u)
    BY Zenon DEF PhaseOf
  <2>3. \A u \in Contexts, p \in Objects : Holds(u, p)' <=> Holds(u, p)
    BY Zenon DEF Holds
  <2> QED
    BY <2>2, <2>3, <1>0, HeldSame, Zenon
<1>6. ASSUME NEW t \in Contexts, NEW how \in {"commit", "abort"}, EndOperator(t, how) PROVE Promise!NhNext
  <2> USE <1>6 DEF EndOperator
  <2>1. \A u \in Contexts \ {t} : PhaseOf(u)' = PhaseOf(u)
    BY Zenon DEF PhaseOf
  <2>2. PhaseOf(t) = "acquire" /\ PhaseOf(t)' = how
    BY Zenon DEF PhaseOf
  <2>3. heldBar' = heldBar
    BY HeldSame, Zenon DEF Holds
  <2>4. phaseBar' = [phaseBar EXCEPT ![t] = how] /\ phaseBar[t] = "acquire"
    BY <2>1, <2>2, PhaseChange, PhaseBarIs, Zenon
  <2> QED
    BY <2>3, <2>4, Zenon DEF Promise!NhNext, Promise!Commit, Promise!ForceAbort, Promise!Enter
<1>7. ASSUME NEW t \in Contexts, Unlink(t) PROVE heldBar' = heldBar /\ phaseBar' = phaseBar
  <2> USE <1>7 DEF Unlink
  <2>2. \A u \in Contexts : PhaseOf(u)' = PhaseOf(u)
    BY Zenon DEF PhaseOf
  <2>3. \A u \in Contexts, p \in Objects : Holds(u, p)' <=> Holds(u, p)
    BY Zenon DEF Holds
  <2> QED
    BY <2>2, <2>3, <1>0, HeldSame, Zenon
<1>8. ASSUME NEW t \in Contexts, Release(t) PROVE Promise!NhNext
  <2> DEFINE o == target[t]
  <2> USE <1>8 DEF Release, ClearedOwner
  <2>0. o \in Objects /\ owner[o] = t
    BY DEF HasTarget, ReleasesOwn
  <2>1. \A u \in Contexts : PhaseOf(u)' = PhaseOf(u)
    BY <2>0, Zenon DEF PhaseOf, HasTarget
  <2>2. PhaseOf(t) \in {"commit", "conflict", "abort"}
    BY Zenon DEF PhaseOf, HasOutcome, Outcomes
  <2>3. phaseBar' = phaseBar /\ phaseBar[t] \in {"commit", "conflict", "abort"}
    BY <2>1, <2>2, <1>0, PhaseBarIs, Zenon
  <2>4. \A u \in Contexts, p \in Objects : Holds(u, p)' <=> (Holds(u, p) /\ ~(u = t /\ p = o))
    <3>1. \A u \in Contexts : Holds(u, o) => u = t
      BY <2>0, Zenon DEF OneHolder, Holds
    <3> QED
      BY <2>0, <3>1, Zenon DEF Holds
  <2>5. heldBar' = heldBar \ {<<t, o>>} /\ <<t, o>> \in heldBar
    <3>1. Holds(t, o)
      BY <2>0, Zenon DEF Holds
    <3>2. PICK c \in Objects : c = o
      BY <2>0, Zenon
    <3>3. \A u \in Contexts, p \in Objects : Holds(u, p)' <=> (Holds(u, p) /\ ~(u = t /\ p = c))
      BY <2>4, <3>2, Zenon
    <3> QED
      BY <3>1, <3>2, <3>3, HeldLess, Zenon
  <2> QED
    BY <2>0, <2>3, <2>5, Zenon DEF Promise!NhNext, Promise!Release
<1>9. ASSUME NEW t \in Contexts, EndIteration(t) PROVE Promise!NhNext
  <2> USE <1>9 DEF EndIteration
  <2>1. \A u \in Contexts \ {t} : PhaseOf(u)' = PhaseOf(u)
    BY Zenon DEF PhaseOf
  <2>2. PhaseOf(t) \in {"commit", "conflict", "abort"} /\ PhaseOf(t)' = "out"
    BY Zenon DEF PhaseOf, HasOutcome, Outcomes
  <2>3. heldBar' = heldBar
    BY HeldSame, Zenon DEF Holds
  <2>4. phaseBar' = [phaseBar EXCEPT ![t] = "out"] /\ phaseBar[t] \in {"commit", "conflict", "abort"}
    BY <2>1, <2>2, PhaseChange, PhaseBarIs, Zenon
  <2>5. \A o \in Objects : ~Holds(t, o)
    BY EmptyOwnsNone, Zenon DEF Holds
  <2>6. \A o \in Objects : <<t, o>> \notin heldBar
    BY <2>5, Zenon DEF heldBar
  <2> QED
    BY <2>3, <2>4, <2>6, Zenon DEF Promise!NhNext, Promise!End, Promise!Enter
<1>10. CASE UNCHANGED contextVars
  BY <1>10, Zenon DEF contextVars, heldBar, phaseBar, Holds
<1> QED
  BY <1>1, <1>2, <1>3, <1>4, <1>5, <1>6, <1>7, <1>8, <1>9, <1>10, Zenon DEF ContextNext, ContextStep

\* For any threads and objects, iterations hold objects exclusively, fail only
\* for an object that another one has, release only at their end, and end with
\* nothing locked: acquire, commitIteration and cancelIteration implement
\* Neighborhoods.
THEOREM ImplementsNeighborhoods == ContextSpec => Refinement
<1>1. ContextInit => NoCycle
  <2> SUFFICES ASSUME ContextInit PROVE NoCycle
    BY Zenon
  <2>1. [p \in Objects |-> 0] \in [Objects -> Nat]
    BY Zenon
  <2>2. \A p \in Objects : next[p] = Nil
    BY Zenon DEF ContextInit
  <2> QED
    BY <2>1, <2>2, Zenon DEF NoCycle
<1>2. ContextInv /\ NoCycle /\ [ContextNext]_contextVars => NoCycle'
  BY NoCycleStep, Zenon
<1>3. ContextInv /\ ContextInv' /\ NoCycle /\ [ContextNext]_contextVars => [Promise!NhNext]_<<heldBar, phaseBar>>
  BY RefinesStep, Zenon
<1> QED
  BY ContextInvariant, RefinesInit, <1>1, <1>2, <1>3, PTL
  DEF ContextSpec, Refinement, Promise!NhSpec, Promise!nhVars

================================================================================
