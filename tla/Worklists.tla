-------------------------------- MODULE Worklists ------------------------------
(***************************************************************************)
(* The schedulers of libgalois/include/galois/worklists, from the lists of *)
(* chunks at the bottom to the priority schedulers, each under its own     *)
(* client. A behaviour runs one of them; the variables of Obim keep their  *)
(* initial values in the runs of the others, and the variables of the      *)
(* others are absent where they do not belong.                             *)
(***************************************************************************)
EXTENDS ObimBarrier

CONSTANTS ListThreads, ListChunks, Null, Lists,      \* of ConExtLinked
          ChunkThreads, ChunkItems, ChunkSize, ChunkLeader, Kinds, NoChunk,   \* of Chunk
          BulkThreads, Initial, Creates, MaxAborts,   \* of BulkSynchronous
          DetThreads, DetInitial, DetCreates, Lockables, Operators,   \* of Deterministic
          MinDelta, InitialNumRounds

VARIABLES unit,
          list_kind, head, locked, tail, link, list_pc, list_C, oldhead, list,
          kind, cur, next, Q, todo, call, unseen, last,
          round, some, isEmpty, entered, bulk_pc, item, out, aborted, retries, didWork,
          status, born, swaps, own, pool, look,
          op, id, worklist, reserve, pending, notReady, owner, locker, det_pc, ctx, rest, other,
          window, delta, committed, iterations, new, innerDone, outerDone, hasNewWork, tldNewWork,
          det_round, done

listVars == <<list_kind, head, locked, tail, link, list_pc, list_C, oldhead, list>>
chunkVars == <<kind, cur, next, Q, todo, call, unseen, last>>
bulkVars == <<round, some, isEmpty, entered, bulk_pc, item, out, aborted, retries, didWork,
              status, born, swaps, own, pool, look>>
detVars == <<op, id, worklist, reserve, pending, notReady, owner, locker, det_pc, ctx, rest, other,
             window, delta, committed, iterations, new, innerDone, outerDone, hasNewWork, tldNewWork,
             det_round, done>>
everything == <<unit, allVars, listVars, chunkVars, bulkVars, detVars>>

Linked == INSTANCE ConExtLinked WITH
  Threads <- ListThreads, Chunks <- ListChunks, kind <- list_kind, next <- link,
  pc <- list_pc, C <- list_C

Chunked == INSTANCE Chunk WITH
  N <- ChunkThreads, Items <- ChunkItems, Leader <- ChunkLeader, seen <- unseen, st <- last

Bulk == INSTANCE BulkSynchronous WITH
  N <- BulkThreads, pc <- bulk_pc, mine <- own, shared <- pool, seen <- look

Det == INSTANCE Deterministic WITH
  N <- DetThreads, Initial <- DetInitial, Creates <- DetCreates, pc <- det_pc, round <- det_round

Absent == "absent"

NoList ==
  /\ list_kind = Absent /\ head = Absent /\ locked = Absent /\ tail = Absent /\ link = Absent
  /\ list_pc = Absent /\ list_C = Absent /\ oldhead = Absent /\ list = Absent

NoChunks ==
  /\ kind = Absent /\ cur = Absent /\ next = Absent /\ Q = Absent
  /\ todo = Absent /\ call = Absent /\ unseen = Absent /\ last = Absent

NoBulk ==
  /\ round = Absent /\ some = Absent /\ isEmpty = Absent /\ entered = Absent /\ bulk_pc = Absent
  /\ item = Absent /\ out = Absent /\ aborted = Absent /\ retries = Absent /\ didWork = Absent
  /\ status = Absent /\ born = Absent /\ swaps = Absent
  /\ own = Absent /\ pool = Absent /\ look = Absent

NoDet ==
  /\ op = Absent /\ id = Absent /\ worklist = Absent /\ reserve = Absent /\ pending = Absent
  /\ notReady = Absent /\ owner = Absent /\ locker = Absent /\ det_pc = Absent /\ ctx = Absent
  /\ rest = Absent /\ other = Absent /\ window = Absent /\ delta = Absent /\ committed = Absent
  /\ iterations = Absent /\ new = Absent /\ innerDone = Absent /\ outerDone = Absent
  /\ hasNewWork = Absent /\ tldNewWork = Absent /\ det_round = Absent /\ done = Absent

NoBarrier == stored = Absent /\ hasWork = Absent /\ met = Absent /\ announced = Absent

AllInit ==
  \/ unit = "ConExtLinked" /\ Linked!Init /\ Init /\ NoBarrier /\ NoChunks /\ NoBulk /\ NoDet
  \/ unit = "Chunk" /\ Chunked!Init /\ Init /\ NoBarrier /\ NoList /\ NoBulk /\ NoDet
  \/ unit = "Obim" /\ Init /\ NoBarrier /\ NoList /\ NoChunks /\ NoBulk /\ NoDet
  \/ unit = "ObimBarrier" /\ BarrierInit /\ NoList /\ NoChunks /\ NoBulk /\ NoDet
  \/ unit = "BulkSynchronous" /\ Bulk!Init /\ Init /\ NoBarrier /\ NoList /\ NoChunks /\ NoDet
  \/ unit = "Deterministic" /\ Det!Init /\ Init /\ NoBarrier /\ NoList /\ NoChunks /\ NoBulk

\* All threads have left the loop.
Finished ==
  \/ unit = "ObimBarrier" /\ \A t \in Threads : pc[t] = "done"
  \/ unit = "BulkSynchronous" /\ \A t \in Bulk!Threads : bulk_pc[t] = "done"
  \/ unit = "Deterministic" /\ Det!AllOut

AllNext ==
  \/ Finished /\ UNCHANGED everything
  \/ /\ UNCHANGED unit
     /\ \/ unit = "ConExtLinked" /\ Linked!Next /\ UNCHANGED <<allVars, chunkVars, bulkVars, detVars>>
        \/ unit = "Chunk" /\ Chunked!Next /\ UNCHANGED <<allVars, listVars, bulkVars, detVars>>
        \/ unit = "Obim" /\ Next /\ UNCHANGED <<barrierVars, listVars, chunkVars, bulkVars, detVars>>
        \/ unit = "ObimBarrier" /\ BarrierNext /\ UNCHANGED <<listVars, chunkVars, bulkVars, detVars>>
        \/ unit = "BulkSynchronous" /\ Bulk!Next /\ UNCHANGED <<allVars, listVars, chunkVars, detVars>>
        \/ unit = "Deterministic" /\ Det!Next /\ UNCHANGED <<allVars, listVars, chunkVars, bulkVars>>

\* The threads of a bulk-synchronous or deterministic loop run.
AllSpec ==
  /\ AllInit /\ [][AllNext]_everything
  /\ \A t \in 0 .. BulkThreads - 1 : WF_bulkVars(unit = "BulkSynchronous" /\ Bulk!Step(t))
  /\ \A t \in 0 .. DetThreads - 1 : WF_detVars(unit = "Deterministic" /\ Det!Step(t))
  /\ WF_detVars(unit = "Deterministic" /\ Det!Meet)

--------------------------------------------------------------------------------
(***************************************************************************)
(* Whenever no thread has the lock of a list of chunks, a walk from its    *)
(* head meets the chunks pushed and not yet popped, each once and in       *)
(* order, and the tail of a queue is the last of them.                     *)
(***************************************************************************)
ListIsLinked == unit = "ConExtLinked" => Linked!ListIsLinked

(***************************************************************************)
(* A pop takes the first chunk of a list, and comes back with nothing only *)
(* if the list was empty when it looked.                                   *)
(***************************************************************************)
PopsTheFirst == [][unit = "ConExtLinked" => Linked!PopStep]_everything

(***************************************************************************)
(* Each of the five chunked worklists keeps the promise of WorklistSpec:   *)
(* no item is lost or handed out twice, and a pop that looks at list after *)
(* list while chunks move between them gives up on no item that it should  *)
(* have found.                                                             *)
(***************************************************************************)
KeepsPromise ==
  /\ unit = "Chunk" => Chunked!Worklist!WlInit
  /\ [][unit = "Chunk" => [Chunked!Worklist!WlNext]_(Chunked!Worklist!wlVars)]_everything

(***************************************************************************)
(* With a barrier between priorities the threads go on to a level together *)
(* and only when nothing of an earlier one is waiting anywhere.            *)
(***************************************************************************)
NoPriorityInversion == unit = "ObimBarrier" => LevelsInOrder

(***************************************************************************)
(* The rounds of the bulk-synchronous scheduler do not overlap. Its        *)
(* threads, and those of the deterministic one, leave the loop only when   *)
(* every item has been processed, and no item is lost on the way.          *)
(***************************************************************************)
RoundsComplete ==
  /\ unit = "BulkSynchronous" => Bulk!RoundsSeparate /\ Bulk!NothingLeft
  /\ unit = "Deterministic" => Det!NothingLost

(***************************************************************************)
(* Which items commit in a round of the deterministic scheduler is decided *)
(* by the ids of the items in it, however their first passes interleave:   *)
(* the ones with the smallest id on all they acquire. So two of them share *)
(* no lockable. With intent_to_read this holds of what items write. A lock *)
(* never names a context of an earlier round.                              *)
(***************************************************************************)
ChosenById == unit = "Deterministic" => Det!ChosenById

(***************************************************************************)
(* "All newly created work is processed" (the comment on BulkSynchronous): *)
(* of a loop that threads leave, no item is left waiting, whatever         *)
(* conflicts iterations meet.                                              *)
(***************************************************************************)
AllWorkProcessed == unit = "BulkSynchronous" => Bulk!NothingLeft

(***************************************************************************)
(* "In each round, it deterministically chooses a conflict-free subset of  *)
(* currently active elements to process" (docs/tutorial.dox): no item that *)
(* commits in a round writes what another one acquires.                    *)
(***************************************************************************)
ConflictFree == unit = "Deterministic" => Det!ConflictFree

(***************************************************************************)
(* Every thread of a bulk-synchronous loop leaves: nobody is left alone in *)
(* the barrier inside pop. So does every thread of a deterministic loop:   *)
(* each round commits an item, and windows grow until none is held back.   *)
(***************************************************************************)
AllLeave == <>(/\ unit = "BulkSynchronous" => Bulk!AllOut
               /\ unit = "Deterministic" => Det!AllOut)

================================================================================
