--------------------------- MODULE PruningJournal ---------------------------
(***************************************************************************)
(* The update of the pruning point UTXO set: the set a node serves to      *)
(* peers that sync from its pruning point.                                 *)
(*                                                                         *)
(* A block insertion that moves the pruning point only selects it and      *)
(* raises a durable pending flag (savePruningPoint).  The set itself       *)
(* follows, one move at a time, by one of three writers:                   *)
(*   - the journal (pruning_point_journal_worker.go, pruning_point_        *)
(*     journal.go): a worker goroutine derives the move's diff on a        *)
(*     snapshot, writes it as redo records, seals them, applies them to    *)
(*     the live set in batches that advance a durable cursor, all without  *)
(*     the consensus lock;                                                 *)
(*   - the disk fallback: when the journal may not begin a move for lack   *)
(*     of disk space, the move is written directly under the lock;         *)
(*   - the deferred legacy path (pruning_point_utxo_set_scan.go), which    *)
(*     runs when start-up found too little space to enable the journal.    *)
(* A scan then hashes the set without the lock.  Under the lock again, and *)
(* only if nothing moved meanwhile, the hash is compared with the header's *)
(* commitment; the finish clears the flag and records the history deletion *)
(* job in one commit.                                                      *)
(*                                                                         *)
(* A crash keeps the database and loses the memory.  All writes go to one  *)
(* write-ahead log, so the unsynced suffix that a power loss also loses    *)
(* leaves a database that a crash at an earlier step leaves too.           *)
(***************************************************************************)
EXTENDS HistoryDeletion, FiniteSets

CONSTANTS
    Outpoints,  \* the keys of the set, ordered: a finite set of positive integers
    SetAt,      \* [0 .. MaxIndex -> [Outpoints -> 0 .. 2]]: the chain's UTXO sets
    MaxCrashes, \* bound: crashes of the process
    AskedPoint  \* bound: the index whose set peers ask for

ASSUME JournalAssumption ==
    /\ Outpoints \subseteq Nat \ {0} /\ IsFiniteSet(Outpoints)
    /\ SetAt \in [0 .. MaxIndex -> [Outpoints -> 0 .. 2]]
    /\ MaxCrashes \in Nat /\ AskedPoint \in 0 .. MaxIndex

VARIABLES
    index,    \* database: the index of the selected pruning point
    pending,  \* database: HadStartedUpdatingPruningPointUTXOSet
    live,     \* database: the pruning point UTXO set; 0 is an absent outpoint
    manifest, \* database: the JournalState record
    records,  \* database: the journal's records, a function on some outpoints
    applied,  \* memory: appliedUTXOSetDiff, the index it names or -1
    request,  \* memory: the scanner's request channel, of capacity one
    worker,   \* memory: the scanner goroutine
    writer,   \* memory: the diff that the holder of the lock still has to write
    health,   \* a CheckUTXOHealth call in progress: its step, the answer when it has one
    crashes   \* the crashes that have happened

pointVars == <<index, pending, live, manifest, records>>
vars == <<historyVars, up, lock, faults, pointVars, applied, request, worker, writer, health, crashes>>

Absent == 0
NoRecords == [o \in {} |-> Absent]
NoManifest == [phase |-> "none", base |-> 0, target |-> 0, cursor |-> 0, sum |-> NoRecords]
Complete(i) == [phase |-> "complete", base |-> i, target |-> i, cursor |-> 0, sum |-> NoRecords]
NoDiff == [toRemove |-> {}, toAdd |-> {}]
IdleWorker == [pc |-> "idle", view |-> {}, target |-> 0, diff |-> NoDiff,
               point |-> 0, set |-> NoRecords, fresh |-> FALSE]

\* A restamped outpoint is in both collections of the diff.
Diff(from, to) ==
    [toRemove |-> {o \in Outpoints : SetAt[from][o] \notin {Absent, SetAt[to][o]}},
     toAdd    |-> {o \in Outpoints : SetAt[to][o] \notin {Absent, SetAt[from][o]}}]

\* The diff of the move to index i is derived from the data of the blocks from the
\* previous pruning point, whose own UTXO set is restored too, up to the new one.
IsDerivable(view, i) == PruningPoint(i - 1) .. PruningPoint(i) \subseteq view

\* The generation counter of the set matters only to a scan that is in flight.
Invalidate(w) == [w EXCEPT !.fresh = FALSE]

Init ==
    /\ stored = Blocks /\ jobs = {} /\ mask = {} /\ cached = {} /\ reader = NoBlock
    /\ owner = NoOwner /\ up = "down" /\ lock = "free" /\ faults = 0
    /\ index = 0 /\ pending = FALSE /\ live = SetAt[0]
    /\ manifest = NoManifest /\ records = NoRecords
    /\ applied = -1 /\ request = FALSE /\ worker = IdleWorker /\ writer = NoDiff
    /\ health = "none" /\ crashes = 0

----------------------------------------------------------------------------
\* The finish of an update, in one commit under the lock.

\* finishPruningPointUTXOSetUpdate: the retention and interval settings may put the
\* deletion off; the next finish that is due then deletes this history too.
FinishUpdate(point) ==
    \E due \in BOOLEAN :
      /\ pending' = FALSE
      /\ CASE ~due -> UNCHANGED historyVars
           [] due /\ owner.pc # "none" -> RecordHistoryDeletion(point)
           [] due /\ owner.pc = "none" -> DeletePastBlocks(point)

----------------------------------------------------------------------------
\* The direct writer: it holds the lock from the derivation to the last put.

BeginWrite(step) ==
    /\ IsDerivable(stored \ mask, index)
    /\ lock' = step
    /\ writer' = Diff(index - 1, index)
    /\ UNCHANGED <<historyVars, up, faults, pointVars, applied, request, health, crashes>>

\* UpdatePruningPointUTXOSet: every delete, then every put, each a write of its own.
WriteOutpoint ==
    /\ lock # "free"
    /\ \/ \E o \in writer.toRemove :
            /\ live' = [live EXCEPT ![o] = Absent]
            /\ writer' = [writer EXCEPT !.toRemove = @ \ {o}]
       \/ /\ writer.toRemove = {}
          /\ \E o \in writer.toAdd :
               /\ live' = [live EXCEPT ![o] = SetAt[index][o]]
               /\ writer' = [writer EXCEPT !.toAdd = @ \ {o}]
    /\ UNCHANGED <<historyVars, up, lock, faults, index, pending, manifest, records,
                   applied, request, worker, health, crashes>>

HasWritten(step) == lock = step /\ writer = NoDiff

----------------------------------------------------------------------------
\* Block insertion.

\* Mutation: the history is handed to deletion when the point is selected.
SelectPruningPoint_Deletes ==
    /\ LockIsFree /\ index < MaxIndex
    /\ up = "deferred" /\ pending => applied = index
    /\ index' = index + 1 /\ pending' = TRUE
    /\ request' = (request \/ up = "journal" \/ pending)
    /\ CASE owner.pc # "none" -> RecordHistoryDeletion(index + 1)
         [] owner.pc = "none" -> DeletePastBlocks(index + 1)
    /\ UNCHANGED <<up, lock, faults, live, manifest, records, applied, worker, writer, health, crashes>>

\* savePruningPoint and the commit of its insertion.  Without the journal it runs
\* UpdatePruningPointIfRequired for the pending diff of the previous point first.
SelectPruningPoint ==
    /\ LockIsFree /\ index < MaxIndex
    /\ up = "deferred" /\ pending => applied = index
    /\ index' = index + 1 /\ pending' = TRUE
    /\ request' = (request \/ up = "journal" \/ pending)
    /\ UNCHANGED <<historyVars, up, lock, faults, live, manifest, records, applied, worker,
                   writer, health, crashes>>

SelectAfterWrite ==
    /\ LockIsFree /\ index < MaxIndex
    /\ up = "deferred" /\ pending /\ applied # index
    /\ BeginWrite("select") /\ worker' = Invalidate(worker)

EndSelectWrite ==
    /\ HasWritten("select")
    /\ applied' = index /\ request' = TRUE
    /\ index' = index + 1 /\ pending' = TRUE /\ lock' = "free"
    /\ UNCHANGED <<historyVars, up, faults, live, manifest, records, worker, writer, health, crashes>>

\* UpdatePruningPointIfRequired, which runs after every added block.
RequestScan ==
    /\ LockIsFree /\ pending /\ ~request
    /\ up = "journal" \/ applied = index
    /\ request' = TRUE
    /\ UNCHANGED <<historyVars, up, lock, faults, pointVars, applied, worker, writer, health, crashes>>

UpdatePruningPoint ==
    /\ LockIsFree /\ pending /\ up = "deferred" /\ applied # index
    /\ BeginWrite("update") /\ worker' = Invalidate(worker)

EndUpdateWrite ==
    /\ HasWritten("update")
    /\ applied' = index /\ request' = TRUE /\ lock' = "free"
    /\ UNCHANGED <<historyVars, up, faults, pointVars, worker, writer, health, crashes>>

----------------------------------------------------------------------------
\* The worker: RunJournalWorker, or the scan alone on the deferred path.

Becomes(pc) == worker' = [worker EXCEPT !.pc = pc]
Stops == worker' = IdleWorker
OnlyWorker == UNCHANGED <<historyVars, up, lock, faults, pointVars, applied, request, writer, health, crashes>>

TakeRequest ==
    /\ IsRunning /\ worker.pc = "idle" /\ request
    /\ request' = FALSE
    /\ Becomes(IF up = "journal" THEN "capture" ELSE "scan")
    /\ UNCHANGED <<historyVars, up, lock, faults, pointVars, applied, writer, health, crashes>>

\* captureJournalJob: a COMPLETE job of the selected point goes on to the scan; a READY
\* one is resumed from its records; otherwise the next move is (re)derived on a snapshot.
CaptureJournalJob ==
    LET begin == manifest.phase = "complete" /\ manifest.target < index
        target == IF begin THEN manifest.target + 1 ELSE manifest.target
    IN  /\ worker.pc = "capture" /\ LockIsFree
        /\ IF ~pending \/ manifest.target > index
           THEN Stops /\ applied' = applied
           ELSE IF manifest.phase = "complete" /\ ~begin
           THEN /\ worker' = [IdleWorker EXCEPT !.pc = "admit", !.target = target]
                /\ applied' = applied
           ELSE /\ worker' = [IdleWorker EXCEPT !.target = target,
                                !.view = IF manifest.phase = "ready" THEN {} ELSE stored,
                                !.pc = CASE manifest.phase = "ready" -> "apply"
                                         [] begin -> "begin"
                                         [] OTHER -> "derive"]
                /\ applied' = -1
        /\ UNCHANGED <<historyVars, up, lock, faults, pointVars, request, writer, health, crashes>>

\* Begin: PREPARING is saved before anything else of the move is written.
BeginJob ==
    /\ worker.pc = "begin"
    /\ manifest' = [phase |-> "preparing", base |-> manifest.target,
                    target |-> manifest.target + 1, cursor |-> 0, sum |-> NoRecords]
    /\ Becomes("derive")
    /\ UNCHANGED <<historyVars, up, lock, faults, index, pending, live, records, applied,
                   request, writer, health, crashes>>

\* The reserve check refuses Begin: the snapshot is closed and the fallback is tried.
RefuseBegin ==
    /\ worker.pc = "begin" /\ faults < MaxFaults
    /\ faults' = faults + 1
    /\ worker' = [worker EXCEPT !.pc = "fallback", !.view = {}]
    /\ UNCHANGED <<historyVars, up, lock, pointVars, applied, request, writer, health, crashes>>

\* journalDiskFallback of a pruned node: only the move right after the COMPLETE base.
JournalDiskFallback ==
    /\ worker.pc = "fallback" /\ LockIsFree
    /\ manifest.phase = "complete" /\ manifest.target + 1 = index
    /\ BeginWrite("fallback") /\ Becomes("writing")

WaitForDisk ==
    /\ worker.pc = "fallback" /\ LockIsFree
    /\ ~(manifest.phase = "complete" /\ manifest.target + 1 = index)
    /\ Stops /\ OnlyWorker

AdoptSynchronousMove ==
    /\ HasWritten("fallback")
    /\ applied' = index /\ lock' = "free"
    /\ manifest' = [Complete(index) EXCEPT !.base = index - 1]
    /\ worker' = [IdleWorker EXCEPT !.pc = "admit", !.target = index]
    /\ UNCHANGED <<historyVars, up, faults, index, pending, live, records, request, writer, health, crashes>>

\* buildJournal: the diff of the move, from the snapshot.
DeriveDiff ==
    /\ worker.pc = "derive"
    /\ IF IsDerivable(worker.view, worker.target)
       THEN worker' = [worker EXCEPT !.pc = "clear", !.view = {},
                                     !.diff = Diff(worker.target - 1, worker.target)]
       ELSE Stops
    /\ OnlyWorker

\* Clear of the records of an earlier move or of an interrupted build, a batch at a time.
ClearBatch ==
    /\ worker.pc \in {"clear", "clearFinished"} /\ DOMAIN records # {}
    /\ \E o \in DOMAIN records :
         /\ \A q \in DOMAIN records : o <= q
         /\ records' = [q \in DOMAIN records \ {o} |-> records[q]]
    /\ UNCHANGED <<historyVars, up, lock, faults, index, pending, live, manifest, applied,
                   request, worker, writer, health, crashes>>

EndClear ==
    /\ worker.pc = "clear" /\ DOMAIN records = {}
    /\ Becomes("build") /\ OnlyWorker

Record(o, value) == [q \in DOMAIN records \cup {o} |-> IF q = o THEN value ELSE records[q]]

\* Build: the removals, then the additions; an addition overwrites a removal of its key.
BuildBatch ==
    /\ worker.pc = "build"
    /\ \/ \E o \in worker.diff.toRemove :
            /\ records' = Record(o, Absent)
            /\ worker' = [worker EXCEPT !.diff.toRemove = @ \ {o}]
       \/ /\ worker.diff.toRemove = {}
          /\ \E o \in worker.diff.toAdd :
               /\ records' = Record(o, SetAt[worker.target][o])
               /\ worker' = [worker EXCEPT !.diff.toAdd = @ \ {o}]
    /\ UNCHANGED <<historyVars, up, lock, faults, index, pending, live, manifest, applied,
                   request, writer, health, crashes>>

\* READY seals the records with their count and digest.
SealJob ==
    /\ worker.pc = "build" /\ worker.diff = NoDiff
    /\ manifest' = [manifest EXCEPT !.phase = "ready", !.sum = records]
    /\ Becomes("apply")
    /\ UNCHANGED <<historyVars, up, lock, faults, index, pending, live, records, applied,
                   request, writer, health, crashes>>

Unapplied == {o \in DOMAIN records : o > manifest.cursor}

\* Apply writes the first record after the cursor.
IsNext(o) == o \in Unapplied /\ \A q \in Unapplied : o <= q

\* Mutation: the cursor moves on before the record is applied.
ApplyBatch_CursorFirst ==
    /\ worker.pc = "apply" /\ records = manifest.sum
    /\ \/ /\ Unapplied = {}
          /\ live' = live /\ manifest' = [manifest EXCEPT !.phase = "complete", !.sum = NoRecords]
       \/ \E o \in Outpoints :
            /\ IsNext(o)
            /\ live' = IF manifest.cursor = 0 THEN live
                       ELSE [live EXCEPT ![manifest.cursor] = records[manifest.cursor]]
            /\ manifest' = [manifest EXCEPT !.cursor = o]
    /\ IF manifest'.phase = "complete" THEN Becomes("admit") ELSE UNCHANGED worker
    /\ UNCHANGED <<historyVars, up, lock, faults, index, pending, records, applied, request,
                   writer, health, crashes>>

\* Apply: a batch and the cursor it reaches are one commit; the last one is
\* COMPLETE, and the cursor of a complete job is never read again.
ApplyBatch ==
    /\ worker.pc = "apply" /\ records = manifest.sum
    /\ \/ /\ Unapplied = {}
          /\ live' = live /\ manifest' = [manifest EXCEPT !.phase = "complete", !.sum = NoRecords]
       \/ \E o \in Outpoints :
            /\ IsNext(o)
            /\ live' = [live EXCEPT ![o] = records[o]]
            /\ manifest' = IF Unapplied = {o}
                           THEN [manifest EXCEPT !.phase = "complete", !.cursor = 0, !.sum = NoRecords]
                           ELSE [manifest EXCEPT !.cursor = o]
    /\ IF manifest'.phase = "complete" THEN Becomes("admit") ELSE UNCHANGED worker
    /\ UNCHANGED <<historyVars, up, lock, faults, index, pending, records, applied, request,
                   writer, health, crashes>>

\* The reserve check refuses a write of the job: it stops and is retried by a later request.
RefuseJournalWrite ==
    /\ worker.pc \in {"build", "apply"} /\ faults < MaxFaults
    /\ faults' = faults + 1
    /\ Stops
    /\ UNCHANGED <<historyVars, up, lock, pointVars, applied, request, writer, health, crashes>>

AdmitScan ==
    /\ worker.pc = "admit" /\ LockIsFree
    /\ applied' = worker.target
    /\ Becomes(IF index = worker.target THEN "scan" ELSE "capture")
    /\ UNCHANGED <<historyVars, up, lock, faults, pointVars, request, writer, health, crashes>>

AfterScan ==
    worker' = [IdleWorker EXCEPT !.pc = IF up = "journal" THEN "finished" ELSE "idle"]

\* openPruningPointUTXOSetScan: the iterator shows the set as it is at this step.
OpenScan ==
    /\ worker.pc = "scan" /\ LockIsFree
    /\ IF /\ pending /\ applied = index
          /\ up = "journal" => manifest.phase = "complete" /\ manifest.target = index
       THEN worker' = [worker EXCEPT !.pc = "hash", !.point = index, !.set = live, !.fresh = TRUE]
       ELSE AfterScan
    /\ OnlyWorker

\* Mutation: the result is used without looking whether the point has moved.
CloseScan_NotRechecked ==
    /\ worker.pc = "hash" /\ LockIsFree
    /\ IF worker.set # SetAt[worker.point]
       THEN up' = "halted" /\ Stops /\ UNCHANGED <<historyVars, pending>>
       ELSE FinishUpdate(worker.point) /\ AfterScan /\ up' = up
    /\ UNCHANGED <<lock, faults, index, live, manifest, records, applied, request, writer, health, crashes>>

\* The end of scanPruningPointUTXOSet: a result that is stale is dropped; a mismatch with
\* the commitment stops the node; a match finishes the update.
CloseScan ==
    /\ worker.pc = "hash" /\ LockIsFree
    /\ IF index # worker.point \/ ~worker.fresh
       THEN AfterScan /\ UNCHANGED <<historyVars, pending, up>>
       ELSE IF worker.set # SetAt[worker.point]
       THEN up' = "halted" /\ Stops /\ UNCHANGED <<historyVars, pending>>
       ELSE FinishUpdate(worker.point) /\ AfterScan /\ up' = up
    /\ UNCHANGED <<lock, faults, index, live, manifest, records, applied, request, writer, health, crashes>>

\* clearFinishedJournal reads the flag without the lock, then clears (ClearBatch).
ClearFinishedJournal ==
    /\ worker.pc = "finished"
    /\ Becomes(IF pending THEN "capture" ELSE "clearFinished") /\ OnlyWorker

EndClearFinished ==
    /\ worker.pc = "clearFinished" /\ DOMAIN records = {}
    /\ Becomes("capture") /\ OnlyWorker

WorkerStep ==
    \/ TakeRequest \/ CaptureJournalJob \/ BeginJob \/ JournalDiskFallback \/ WaitForDisk
    \/ AdoptSynchronousMove \/ DeriveDiff \/ ClearBatch \/ EndClear \/ BuildBatch \/ SealJob
    \/ ApplyBatch \/ AdmitScan \/ OpenScan \/ CloseScan \/ ClearFinishedJournal \/ EndClearFinished

----------------------------------------------------------------------------
\* CheckUTXOHealth, which decides whether a peer may sync from the served set.  The set's
\* generation, which it compares too, changes only while the flag is up or for another
\* point, and a remembered answer is used under the same two conditions as a new one.

OnlyHealth == UNCHANGED <<historyVars, up, lock, faults, pointVars, applied, request, worker, writer, crashes>>
IsServed(i) == index = i /\ ~pending

\* servedUTXOSetState under the lock; an answer that is not Ready ends the call.
BeginHealthCheck ==
    /\ health = "none" /\ LockIsFree /\ IsServed(AskedPoint)
    /\ health' = "open" /\ OnlyHealth

\* The iterator is opened without the lock and hashed later.
HashServedSet ==
    /\ health = "open" /\ IsRunning
    /\ health' = IF live = SetAt[AskedPoint] THEN "match" ELSE "mismatch"
    /\ OnlyHealth

\* Mutation: the state is not read again after the walk.
EndHealthCheck_NotRechecked ==
    /\ health \in {"match", "mismatch"} /\ LockIsFree
    /\ health' = IF health = "mismatch" THEN "refuted" ELSE "none"
    /\ OnlyHealth

\* The state is read again: the answer is Ready only if the set is still the served one.
\* A Ready answer that calls the set wrong is kept as "refuted".
EndHealthCheck ==
    /\ health \in {"match", "mismatch"} /\ LockIsFree
    /\ health' = IF IsServed(AskedPoint) /\ health = "mismatch" THEN "refuted" ELSE "none"
    /\ OnlyHealth

HealthStep == BeginHealthCheck \/ HashServedSet \/ EndHealthCheck

----------------------------------------------------------------------------
\* Start-up: ConfigureJournalWorker, ConfigureHistoryJobs, ResumeHistoryDeletion and the
\* start of the goroutines.  No other process runs before the last of them.

\* The process is up; its scanner starts with a request where the journal is installed.
Started(mode) ==
    /\ up' = mode /\ lock' = "free"
    /\ request' = (mode = "journal")
    /\ ResumeHistoryDeletion(mode = "journal" \/ jobs # {})
    /\ UNCHANGED <<applied, worker, writer, health, crashes>>

DiskRefuses == faults < MaxFaults /\ faults' = faults + 1
DiskAllows  == faults' = faults

\* A manifest exists and its job is in flight, or the disk check passes.
StartJournal ==
    /\ up = "down" /\ manifest.phase # "none"
    /\ DiskAllows \/ (DiskRefuses /\ (pending \/ manifest.phase # "complete"))
    /\ Started("journal")
    /\ UNCHANGED pointVars

\* No manifest and too little space: the deferred legacy path is kept.
StartDeferred ==
    /\ up = "down" /\ manifest.phase = "none"
    /\ DiskRefuses /\ Started("deferred")
    /\ UNCHANGED pointVars

\* A finished manifest and too little space: RemoveAfterFinish, then the legacy path.
StartNormalize ==
    /\ up = "down" /\ manifest.phase = "complete" /\ ~pending
    /\ DiskRefuses
    /\ up' = "normalize" /\ records' = NoRecords
    /\ UNCHANGED <<historyVars, lock, index, pending, live, manifest, applied, request,
                   worker, writer, health, crashes>>

RemoveManifest ==
    /\ up = "normalize"
    /\ manifest' = NoManifest /\ Started("deferred")
    /\ UNCHANGED <<faults, index, pending, live, records>>

\* No manifest and enough space: a pending legacy update is finished synchronously, its
\* history deleted in the same commit (no job is enabled yet), then the journal starts.
StartRecovery ==
    /\ up = "down" /\ manifest.phase = "none" /\ pending
    /\ IsDerivable(stored, index)
    /\ up' = "recover" /\ lock' = "recover" /\ writer' = Diff(index - 1, index)
    /\ UNCHANGED <<historyVars, faults, pointVars, applied, request, worker, health, crashes>>

EndRecoveryWrite ==
    /\ HasWritten("recover")
    /\ IF live # SetAt[index]
       THEN up' = "halted" /\ UNCHANGED <<historyVars, pending>>
       ELSE FinishUpdate(index) /\ up' = "down"
    /\ lock' = "free"
    /\ UNCHANGED <<faults, index, live, manifest, records, applied, request, worker, writer, health, crashes>>

\* Initialize; a refusal ends the start-up, which is tried again.
InitializeJournal ==
    /\ up = "down" /\ manifest.phase = "none" /\ ~pending
    /\ DiskAllows
    /\ manifest' = Complete(index) /\ Started("journal")
    /\ UNCHANGED <<index, pending, live, records>>

\* A crash of a running or starting process.
Crash ==
    /\ up \notin {"down", "halted"} /\ crashes < MaxCrashes
    /\ crashes' = crashes + 1
    /\ up' = "down" /\ lock' = "free" /\ writer' = NoDiff
    /\ applied' = -1 /\ request' = FALSE /\ worker' = IdleWorker
    /\ LoseOwner
    /\ health' = "none"
    /\ UNCHANGED <<faults, pointVars>>

StartStep ==
    \/ StartJournal \/ StartDeferred \/ StartNormalize \/ RemoveManifest
    \/ StartRecovery \/ EndRecoveryWrite \/ InitializeJournal

InsertionStep ==
    \/ RequestScan \/ UpdatePruningPoint \/ EndUpdateWrite \/ EndSelectWrite \/ WriteOutpoint

Next ==
    \/ StartStep \/ Crash
    \/ SelectPruningPoint \/ SelectAfterWrite \/ InsertionStep
    \/ WorkerStep \/ RefuseBegin \/ RefuseJournalWrite \/ HealthStep
    \/ HistoryNext /\ UNCHANGED <<pointVars, applied, request, worker, writer, health, crashes>>

Spec == Init /\ [][Next]_vars

\* The goroutines run, the operator restarts a stopped node, and blocks keep arriving.
Fairness ==
    /\ WF_vars(StartStep) /\ WF_vars(InsertionStep) /\ WF_vars(WorkerStep)
    /\ WF_vars(OwnerStep /\ UNCHANGED <<pointVars, applied, request, worker, writer, health, crashes>>)

FairSpec == Spec /\ Fairness

----------------------------------------------------------------------------
\* Properties.

Records == UNION {[S -> 0 .. 2] : S \in SUBSET Outpoints}
Diffs == [toRemove : SUBSET Outpoints, toAdd : SUBSET Outpoints]
Manifest == [phase : {"none", "preparing", "ready", "complete"}, base : 0 .. MaxIndex,
             target : 0 .. MaxIndex, cursor : Outpoints \cup {0}, sum : Records]
Worker == [pc : {"idle", "capture", "begin", "fallback", "writing", "derive", "clear", "build",
                 "apply", "admit", "scan", "hash", "finished", "clearFinished"},
           view : SUBSET Blocks, target : 0 .. MaxIndex, diff : Diffs,
           point : 0 .. MaxIndex, set : Records, fresh : BOOLEAN]

\* Types of the state; the position of the journal never passes the selected point
\* ("selected position regressed" is unreachable).
TypeOK ==
    /\ HistoryTypeOK
    /\ up \in {"down", "normalize", "recover", "journal", "deferred", "halted"}
    /\ lock \in {"free", "recover", "select", "update", "fallback"}
    /\ index \in 0 .. MaxIndex /\ pending \in BOOLEAN
    /\ live \in [Outpoints -> 0 .. 2]
    /\ manifest \in Manifest /\ manifest.target <= index
    /\ records \in Records
    /\ applied \in -1 .. index /\ request \in BOOLEAN
    /\ worker \in Worker /\ writer \in Diffs
    /\ health \in {"none", "open", "match", "mismatch", "refuted"}
    /\ crashes \in 0 .. MaxCrashes

\* The health check never calls the node's own set wrong: a set that the journal writes
\* without the lock while it is being hashed gives no Ready answer.
ReadyAnswersAreRight == health # "refuted"

\* The index the live set is complete at, or was before the writes in progress.
Materialized ==
    CASE manifest.phase = "none" -> IF pending THEN index - 1 ELSE index
      [] manifest.phase = "complete" -> manifest.target
      [] OTHER -> manifest.base

\* The history of every move the live set is behind by is stored and visible, so the
\* update can still be derived: no finish, job or mask takes it ("an update is never left
\* pending without the blocks and UTXO diffs it re-derives its diff from").
PendingIsDerivable ==
    \A i \in (Materialized + 1) .. index : IsDerivable(stored \ mask, i)

\* The records of a sealed job take the live set to its target from any point of the
\* application, also after a restart: what is not applied yet overwrites what differs.
SealedJobReachesTarget ==
    manifest.phase = "ready" =>
        [o \in Outpoints |-> IF o \in Unapplied THEN records[o] ELSE live[o]] = SetAt[manifest.target]

\* A job's record goes away only when every block below its deletion point that the
\* point does not keep has lost its data, although crashes interrupt the batches and the
\* resumed walk stops at the first header-only block.
JobDeletesItsHistory ==
    [][\A j \in jobs \ jobs' : \A b \in 0 .. (PruningPoint(j) - 1) :
         b \in stored' => b \in CalculateBlocksToKeep(PruningPoint(j))]_vars

\* While the process runs, a block that readers have seen deleted does not come back:
\* not between batches, not after a failed batch, not from a cache once the mask is gone.
DeletedStaysDeleted ==
    [][\A b \in Blocks : IsRunning /\ IsRunning' /\ IsVisible(b)' => IsVisible(b)]_vars

\* Every recorded deletion is carried out, over failed batches and crashes.
JobsAreDone == (jobs # {}) ~> (jobs = {})

\* The point whose set is served: none during an update, and -2 for a set that is no
\* point's.
Served ==
    IF pending THEN -1
    ELSE CHOOSE i \in -2 .. MaxIndex : IF live = SetAt[index] THEN i = index ELSE i = -2

PointSet == INSTANCE PruningPointSet WITH served <- Served

\* The pruning point UTXO set update implements its abstract promise: outside an update
\* the served set is the chain's set at the selected point, and an update ends.
ServesCompleteSets == PointSet!Spec
=============================================================================
