-------------------------- MODULE HistoryDeletion --------------------------
(***************************************************************************)
(* The deletion of the history below a pruning point by a durable job      *)
(* (processes/pruningmanager/history_deletion.go) and the owner goroutine  *)
(* that runs it (history_deletion_owner.go).                               *)
(*                                                                         *)
(* The finish of a pruning point update records a job in the commit that   *)
(* clears the pending flag.  The owner plans the blocks to delete on a     *)
(* snapshot, publishes the whole plan as a mask under the consensus lock,  *)
(* deletes the blocks in batches without the lock, parents first, evicts   *)
(* each batch from the store caches and removes the mask under the lock.   *)
(* Readers consult the mask, then the cache, then the database; those that *)
(* do not hold the lock never add to the cache.                            *)
(*                                                                         *)
(* The DAG is a chain: block b has the parent b - 1, and the pruning point *)
(* with index i is block Span * i.  Pruning point indices are the job      *)
(* keys.  A block is "stored" while it has its body, its UTXO diff and its *)
(* acceptance data; a deleted block is header-only.                        *)
(***************************************************************************)
EXTENDS Integers

CONSTANTS
    MaxIndex,    \* bound: the last pruning point index that is selected
    Span,        \* blocks from one pruning point to the next
    Window,      \* blocks below a pruning point its block window keeps
    BatchBlocks, \* HistoryDeletionBatchBlocks
    ReadBlocks,  \* bound: the blocks that readers ask for
    MaxFaults    \* bound: refused journal writes and failed batches

ASSUME PruningAssumption ==
    /\ MaxIndex \in Nat /\ Span \in Nat \ {0} /\ Window \in Nat
    /\ BatchBlocks \in Nat \ {0} /\ MaxFaults \in Nat

VARIABLES
    stored, \* database: the blocks that have their data
    jobs,   \* database: the indices of the recorded history deletion jobs
    up,     \* whether and how the process runs, see PruningJournal
    lock,   \* the consensus lock: "free", or the step of its holder
    mask,   \* memory: database.HistoryMask, the published plan
    cached, \* memory: the blocks in the store caches
    reader, \* the block a lock-free reader holds, or NoBlock
    owner,  \* memory: the owner goroutine and its request channel
    faults  \* the faults that have happened

historyVars == <<stored, jobs, mask, cached, reader, owner>>

Blocks == 0 .. (Span * MaxIndex)
NoBlock == -1
PruningPoint(i) == Span * i
IsRunning == up \in {"journal", "deferred"}
LockIsFree == IsRunning /\ lock = "free"

----------------------------------------------------------------------------
\* What a job deletes.

CalculateBlocksToKeep(point) == {b \in Blocks : point - Window <= b /\ b <= point}

\* The downward walk from the parents of the deletion point: a kept block is passed
\* through, a header-only block stops the descent.  The plan is sorted parents first,
\* which is the order of the block numbers (see Batch).
PlanHistoryDeletion(view, index) ==
    LET point == PruningPoint(index)
        keep  == CalculateBlocksToKeep(point)
    IN  {b \in (0 .. (point - 1)) \ keep : \A c \in b .. (point - 1) : c \in view \cup keep}

----------------------------------------------------------------------------
\* What the finish of an update does with the history, in its own commit.

\* recordHistoryDeletion and, after the commit, scheduleHistoryDeletion
RecordHistoryDeletion(index) ==
    /\ jobs' = jobs \cup {index}
    /\ owner' = [owner EXCEPT !.request = TRUE]
    /\ UNCHANGED <<stored, mask, cached, reader>>

\* deletePastBlocks, when no job is enabled: the same blocks, in the same commit
DeletePastBlocks(index) ==
    LET deleted == PlanHistoryDeletion(stored, index)
    IN  /\ stored' = stored \ deleted
        /\ cached' = cached \ deleted
        /\ UNCHANGED <<jobs, mask, reader, owner>>

----------------------------------------------------------------------------
\* The owner goroutine.

NoOwner == [pc |-> "none", request |-> FALSE, retry |-> FALSE, job |-> 0, plan |-> {}]

\* What a crash leaves: the owner, the mask and the caches are memory.
LoseOwner ==
    /\ owner' = NoOwner /\ mask' = {} /\ cached' = {} /\ reader' = NoBlock
    /\ UNCHANGED <<stored, jobs>>

\* ResumeHistoryDeletion at start-up hands the jobs a previous run left to the owner;
\* the owner is configured exactly when jobs are enabled.
ResumeHistoryDeletion(jobsEnabled) ==
    /\ owner' = [NoOwner EXCEPT !.pc = IF jobsEnabled THEN "idle" ELSE "none",
                                !.request = jobsEnabled]
    /\ UNCHANGED <<stored, jobs, mask, cached, reader>>

\* The owner wakes on a request or on its retry timer.
RunHistoryDeletionJobs ==
    /\ owner.pc = "idle"
    /\ \/ owner.request /\ owner' = [owner EXCEPT !.pc = "jobs", !.request = FALSE]
       \/ owner.retry   /\ owner' = [owner EXCEPT !.pc = "jobs", !.retry = FALSE]
    /\ UNCHANGED <<stored, jobs, mask, cached, reader, lock, up, faults>>

NoJobIsLeft ==
    /\ owner.pc = "jobs" /\ jobs = {}
    /\ owner' = [owner EXCEPT !.pc = "idle", !.retry = FALSE]
    /\ UNCHANGED <<stored, jobs, mask, cached, reader, lock, up, faults>>

\* The snapshot is opened under the lock, the plan is made on it without the lock.
PlanHistoryDeletionOnSnapshot ==
    /\ owner.pc = "jobs" /\ jobs # {} /\ LockIsFree
    /\ \E job \in jobs :
         /\ \A other \in jobs : job <= other
         /\ owner' = [owner EXCEPT !.pc = "publish", !.job = job,
                                   !.plan = PlanHistoryDeletion(stored, job)]
    /\ UNCHANGED <<stored, jobs, mask, cached, reader, lock, up, faults>>

PublishMask ==
    /\ owner.pc = "publish" /\ LockIsFree
    /\ mask' = owner.plan
    /\ owner' = [owner EXCEPT !.pc = "batch"]
    /\ UNCHANGED <<stored, jobs, cached, reader, lock, up, faults>>

\* Mutation: children are deleted before their parents.
Batch_TopDown == {b \in owner.plan : \A c \in owner.plan : c < b + BatchBlocks}

\* The first BatchBlocks blocks of what is left of the plan, which has no gaps on a chain.
Batch == {b \in owner.plan : \A c \in owner.plan : b < c + BatchBlocks}
IsLastBatch == Batch = owner.plan

\* One private transaction, committed without the lock; an empty plan runs one empty
\* batch.  The last batch also deletes the job's record.
DeleteHistoryBatch ==
    /\ owner.pc = "batch"
    /\ stored' = stored \ Batch
    /\ jobs' = IF IsLastBatch THEN jobs \ {owner.job} ELSE jobs
    /\ owner' = [owner EXCEPT !.pc = "evict"]
    /\ UNCHANGED <<mask, cached, reader, lock, up, faults>>

\* Mutation: a failed job waits for the next request.
FailHistoryBatch_NoRetry ==
    /\ owner.pc = "batch" /\ faults < MaxFaults
    /\ faults' = faults + 1
    /\ owner' = [owner EXCEPT !.pc = "idle"]
    /\ UNCHANGED <<stored, jobs, mask, cached, reader, lock, up>>

\* A failed commit leaves the mask published; the job is retried after a back-off.
FailHistoryBatch ==
    /\ owner.pc = "batch" /\ faults < MaxFaults
    /\ faults' = faults + 1
    /\ owner' = [owner EXCEPT !.pc = "idle", !.retry = TRUE]
    /\ UNCHANGED <<stored, jobs, mask, cached, reader, lock, up>>

EvictDeleted ==
    /\ owner.pc = "evict"
    /\ cached' = cached \ Batch
    /\ owner' = [owner EXCEPT !.pc = IF IsLastBatch THEN "retire" ELSE "batch",
                              !.plan = @ \ Batch]
    /\ UNCHANGED <<stored, jobs, mask, reader, lock, up, faults>>

RemoveMask ==
    /\ owner.pc = "retire" /\ LockIsFree
    /\ mask' = {}
    /\ owner' = [owner EXCEPT !.pc = "jobs", !.job = 0]
    /\ UNCHANGED <<stored, jobs, cached, reader, lock, up, faults>>

----------------------------------------------------------------------------
\* The readers of a block's body.

IsVisible(b) == b \notin mask /\ b \in cached \cup stored

\* Block: a reader that holds the consensus lock adds what it read to the cache.
ReadBlock(b) ==
    /\ LockIsFree /\ b \notin mask /\ b \in stored \ cached
    /\ cached' = cached \cup {b}
    /\ UNCHANGED <<stored, jobs, mask, reader, owner, lock, up, faults>>

\* BlockWithoutCaching: a lock-free reader looks the block up and returns it later.
FindBlock(b) ==
    /\ IsRunning /\ reader = NoBlock /\ IsVisible(b)
    /\ reader' = b
    /\ UNCHANGED <<stored, jobs, mask, cached, owner, lock, up, faults>>

\* Mutation: the lock-free reader puts the block it read into the cache.
ReturnBlock_Cached ==
    /\ IsRunning /\ reader # NoBlock
    /\ cached' = cached \cup {reader}
    /\ reader' = NoBlock
    /\ UNCHANGED <<stored, jobs, mask, owner, lock, up, faults>>

ReturnBlock ==
    /\ IsRunning /\ reader # NoBlock
    /\ reader' = NoBlock
    /\ UNCHANGED <<stored, jobs, mask, cached, owner, lock, up, faults>>

OwnerStep ==
    \/ RunHistoryDeletionJobs \/ NoJobIsLeft
    \/ PlanHistoryDeletionOnSnapshot \/ PublishMask
    \/ DeleteHistoryBatch \/ EvictDeleted \/ RemoveMask

HistoryNext ==
    \/ OwnerStep \/ FailHistoryBatch \/ ReturnBlock
    \/ \E b \in ReadBlocks : ReadBlock(b) \/ FindBlock(b)

HistoryTypeOK ==
    /\ stored \in SUBSET Blocks /\ mask \in SUBSET Blocks /\ cached \in SUBSET Blocks
    /\ jobs \in SUBSET (1 .. MaxIndex)
    /\ reader \in ReadBlocks \cup {NoBlock}
    /\ owner \in [pc : {"none", "idle", "jobs", "publish", "batch", "evict", "retire"},
                  request : BOOLEAN, retry : BOOLEAN, job : 0 .. MaxIndex, plan : SUBSET Blocks]
    /\ faults \in 0 .. MaxFaults
=============================================================================
