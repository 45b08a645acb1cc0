------------------------ MODULE PruningJournalProofs ------------------------
(***************************************************************************)
(* Proofs about the pruning point UTXO set update and the deletion of      *)
(* history, for any chain of UTXO sets, any batch size, any number of      *)
(* pruning points, refused writes, failed batches and crashes.             *)
(***************************************************************************)
EXTENDS PruningJournal, TLAPS

-----------------------------------------------------------------------------
(* The inductive invariant                                                 *)

\* How the process runs and what the manifest says.  The flag is down only when
\* the live set is that of the selected point.
ModeInv ==
    /\ up \in {"deferred", "recover"} => manifest.phase = "none"
    /\ up \in {"journal", "normalize"} => manifest.phase # "none"
    /\ up = "normalize" => ~pending
    /\ up # "halted"
    /\ ~IsRunning => worker = IdleWorker /\ applied = -1
    /\ ~pending => manifest.phase = "none" \/ (manifest.phase = "complete" /\ manifest.target = index)
    /\ pending => index > 0
    /\ manifest.phase \in {"preparing", "ready"} => manifest.base + 1 = manifest.target
    /\ manifest.phase = "preparing" => manifest.cursor = 0

\* Where the chain does not change an outpoint, the live set has its value.
Between(from, to) ==
    \A o \in Outpoints : SetAt[from][o] = SetAt[to][o] => live[o] = SetAt[to][o]

\* The live set is that of the selected point, or on its way from the set it
\* was last complete at to the next one.
LiveInv ==
    IF Materialized = index THEN live = SetAt[index] ELSE Between(Materialized, Materialized + 1)

\* On the deferred path the memory of what was applied is right.
AppliedInv == manifest.phase = "none" /\ applied = index => live = SetAt[index]

\* The holder of the lock writes what the live set still lacks of the selected point.
LockInv ==
    /\ lock # "free" =>
         /\ pending /\ Materialized = index - 1 /\ manifest.phase \in {"none", "complete"}
         /\ manifest.phase = "none" => applied # index
         /\ \A o \in writer.toRemove : SetAt[index][o] = Absent \/ o \in writer.toAdd
         /\ \A o \in Outpoints : IF o \in writer.toRemove \cup writer.toAdd
                                 THEN SetAt[index - 1][o] # SetAt[index][o]
                                 ELSE live[o] = SetAt[index][o]
    /\ lock \in {"select", "update"} => up = "deferred"
    /\ lock = "select" => index < MaxIndex
    /\ lock = "recover" <=> up = "recover"
    /\ lock = "fallback" <=> worker.pc = "writing"

\* What the worker has read, by the step it is at.
JobInv ==
    /\ worker.pc \notin {"idle", "scan", "hash"} => up = "journal"
    /\ worker.pc = "begin" =>
         manifest.phase = "complete" /\ manifest.target < index /\ worker.target = manifest.target + 1
    /\ worker.pc \in {"derive", "clear", "build"} => manifest.phase = "preparing"
    /\ worker.pc = "apply" => manifest.phase = "ready"
    /\ worker.pc \in {"admit", "clearFinished"} => manifest.phase = "complete"
    /\ worker.pc \in {"derive", "clear", "build", "apply", "admit"} => worker.target = manifest.target
    /\ worker.pc = "clear" => worker.diff = Diff(worker.target - 1, worker.target)

\* A scan that nothing invalidated holds the live set, which is that of its point.
ScanInv ==
    worker.pc = "hash" =>
        /\ pending
        /\ up = "journal" => manifest.phase = "complete" /\ manifest.target = worker.point
        /\ worker.fresh => lock = "free" /\ worker.set = live /\ live = SetAt[worker.point]

\* The records of a build take the live set to the target but for what is still to be
\* recorded.
BuildInv ==
    worker.pc = "build" =>
        /\ \A o \in worker.diff.toRemove :
              SetAt[manifest.target][o] = Absent \/ o \in worker.diff.toAdd
        /\ \A o \in Outpoints \ (worker.diff.toRemove \cup worker.diff.toAdd) :
              (IF o \in DOMAIN records THEN records[o] ELSE live[o]) = SetAt[manifest.target][o]

\* A sealed job's records are those that were sealed, and what is not applied yet
\* overwrites what differs from the target.
SealInv ==
    manifest.phase = "ready" =>
        /\ records = manifest.sum
        /\ \A o \in Outpoints :
              (IF o \in Unapplied THEN records[o] ELSE live[o]) = SetAt[manifest.target][o]

\* A health check that began is about the selected point, or the point has moved on.
HealthInv ==
    /\ health # "refuted"
    /\ health # "none" => index > AskedPoint \/ (index = AskedPoint /\ ~pending)
    /\ health = "mismatch" => index > AskedPoint

\* The blocks that the job of a pruning point has yet to delete.
Deletable(i) == {b \in stored : b < PruningPoint(i) - Window}

\* Deletion goes from the bottom of the chain up, and stays below the point the live set
\* is complete at.
StoredInv ==
    /\ \A b \in stored : \A c \in Blocks : b <= c => c \in stored
    /\ PruningPoint(Materialized) \in stored
    /\ \A j \in jobs : j <= Materialized
    /\ cached \subseteq stored \cup (IF owner.pc = "evict" THEN Batch ELSE {})

\* The plan is what is left to delete of the job, and the mask hides all of it.
PlanInv ==
    /\ owner.pc \in {"publish", "batch", "evict"} =>
         owner.job <= Materialized /\ \A j \in jobs : owner.job <= j
    /\ owner.pc = "publish" => owner.job \in jobs
    /\ owner.pc \in {"publish", "batch"} => owner.plan = Deletable(owner.job)
    /\ owner.pc = "evict" => owner.plan \ Batch = Deletable(owner.job)
    /\ \A b \in mask : \A j \in jobs \cup (Materialized .. MaxIndex) : b < PruningPoint(j) - Window
    /\ owner.pc \in {"batch", "evict"} => mask \cap stored \subseteq Deletable(owner.job)
    /\ owner.pc = "retire" => mask \cap stored = {}

\* The owner lives while the process runs.
OwnerInv == ~IsRunning => owner.pc = "none"

JInv == ModeInv /\ LiveInv /\ AppliedInv /\ LockInv /\ JobInv /\ ScanInv /\ BuildInv /\ SealInv

IInv == TypeOK /\ JInv /\ HealthInv /\ StoredInv /\ PlanInv /\ OwnerInv

\* The types of the journal's state, apart from the history's.
JType ==
    /\ up \in {"down", "normalize", "recover", "journal", "deferred", "halted"}
    /\ lock \in {"free", "recover", "select", "update", "fallback"}
    /\ index \in 0 .. MaxIndex /\ pending \in BOOLEAN
    /\ live \in [Outpoints -> 0 .. 2]
    /\ manifest \in Manifest /\ manifest.target <= index
    /\ records \in Records
    /\ applied \in -1 .. index /\ request \in BOOLEAN
    /\ worker \in Worker /\ writer \in Diffs
    /\ health \in {"none", "open", "match", "mismatch", "refuted"}
    /\ crashes \in 0 .. MaxCrashes

-----------------------------------------------------------------------------
(* Facts about the operators                                               *)

\* Pruning points are in the order of their indices.
LEMMA PointsOrdered ==
    /\ \A i \in 0 .. MaxIndex : PruningPoint(i) \in Blocks /\ PruningPoint(i) \in Nat
    /\ \A i, j \in 0 .. MaxIndex : i <= j => PruningPoint(i) <= PruningPoint(j)
<1>1. ASSUME NEW i \in Nat, NEW k \in Nat
      PROVE  Span * i \in Nat /\ Span * (i + k) = Span * i + Span * k
  BY PruningAssumption
<1>2. ASSUME NEW i \in Nat, NEW j \in Nat, i <= j
      PROVE  Span * i <= Span * j
  <2>1. j - i \in Nat /\ i + (j - i) = j
    BY <1>2
  <2>2. Span * j = Span * i + Span * (j - i) /\ Span * (j - i) \in Nat /\ Span * i \in Nat
    BY <1>1, <2>1, Zenon
  <2>3. QED  BY <2>2
<1>3. ASSUME NEW i \in 0 .. MaxIndex
      PROVE  PruningPoint(i) \in Blocks /\ PruningPoint(i) \in Nat
  <2>1. i \in Nat /\ MaxIndex \in Nat /\ i <= MaxIndex
    BY PruningAssumption
  <2>2. Span * i \in Nat /\ Span * MaxIndex \in Nat /\ Span * i <= Span * MaxIndex
    BY <1>1, <1>2, <2>1
  <2>3. QED  BY <2>2 DEF PruningPoint, Blocks
<1>4. \A i, j \in 0 .. MaxIndex : i <= j => PruningPoint(i) <= PruningPoint(j)
  BY <1>2, PruningAssumption DEF PruningPoint
<1>5. QED  BY <1>3, <1>4

\* A journal's records are a function on some outpoints.
LEMMA RecordsFacts ==
    ASSUME NEW r
    PROVE  r \in Records <=> DOMAIN r \subseteq Outpoints /\ r \in [DOMAIN r -> 0 .. 2]
  BY DEF Records

\* The initial values have their types.
LEMMA InitialTypes ==
    /\ NoRecords \in Records /\ DOMAIN NoRecords = {}
    /\ NoDiff \in Diffs /\ IdleWorker \in Worker /\ NoManifest \in Manifest
    /\ \A i \in 0 .. MaxIndex : Complete(i) \in Manifest
<1>1. NoRecords \in Records /\ DOMAIN NoRecords = {}
  <2>1. DOMAIN NoRecords = {} /\ NoRecords \in [{} -> 0 .. 2]
    BY DEF NoRecords
  <2>2. QED  BY <2>1, RecordsFacts, Zenon
<1>2. NoDiff \in Diffs
  BY DEF NoDiff, Diffs
<1>3. 0 \in 0 .. MaxIndex
  BY PruningAssumption
<1>4. IdleWorker \in Worker
  BY <1>1, <1>2, <1>3 DEF IdleWorker, Worker
<1>5. NoManifest \in Manifest /\ \A i \in 0 .. MaxIndex : Complete(i) \in Manifest
  BY <1>1, <1>3 DEF NoManifest, Complete, Manifest
<1>6. QED  BY <1>1, <1>2, <1>4, <1>5

\* The diff of a move has the outpoints that differ, and adds what it does not only remove.
LEMMA DiffFacts ==
    ASSUME NEW i \in 0 .. MaxIndex, NEW j \in 0 .. MaxIndex
    PROVE  /\ Diff(i, j) \in Diffs
           /\ \A o \in Diff(i, j).toRemove : SetAt[j][o] = Absent \/ o \in Diff(i, j).toAdd
           /\ \A o \in Outpoints : o \in Diff(i, j).toRemove \cup Diff(i, j).toAdd
                                     <=> SetAt[i][o] # SetAt[j][o]
  BY JournalAssumption DEF Diff, Diffs, Absent

\* The UTXO sets of the chain are functions.
LEMMA SetAtType ==
    ASSUME NEW i \in 0 .. MaxIndex
    PROVE  SetAt[i] \in [Outpoints -> 0 .. 2]
  BY JournalAssumption

\* The live set equals a set of the chain when it does so at every outpoint.
LEMMA LiveEquals ==
    ASSUME JType, NEW i \in 0 .. MaxIndex, \A o \in Outpoints : live[o] = SetAt[i][o]
    PROVE  live = SetAt[i]
  BY SetAtType DEF JType

\* The index the live set is complete at is one of the chain.
LEMMA MaterializedType ==
    ASSUME JType, ModeInv
    PROVE  Materialized \in 0 .. index
  BY PruningAssumption DEF JType, ModeInv, Manifest, Materialized

\* Where nothing of the set and the manifest changes, the live set is as it was.
LEMMA SameLive ==
    ASSUME UNCHANGED <<index, pending, live, manifest>>, LiveInv
    PROVE  LiveInv' /\ Materialized' = Materialized
  BY DEF LiveInv, Materialized, Between

LEMMA SameSeal ==
    ASSUME UNCHANGED <<live, manifest, records>>, SealInv
    PROVE  SealInv'
  BY DEF SealInv, Unapplied

\* Once the holder of the lock has written everything, the set is that of the point.
LEMMA Written ==
    ASSUME JType, JInv, lock # "free", writer = NoDiff
    PROVE  live = SetAt[index] /\ pending /\ Materialized = index - 1 /\ index > 0
<1>1. writer.toRemove = {} /\ writer.toAdd = {}
  BY DEF NoDiff
<1>2. \A o \in Outpoints : live[o] = SetAt[index][o]
  BY <1>1 DEF JInv, LockInv
<1>3. QED  BY <1>2, LiveEquals DEF JType, JInv, LockInv, ModeInv

-----------------------------------------------------------------------------
(* Steps that leave the set and the manifest alone                         *)

\* A step of the worker alone needs only what its own step says.
LEMMA WorkerOnly ==
    ASSUME JType, JInv, UNCHANGED <<up, lock, pointVars, writer>>, IsRunning,
           applied' \in -1 .. index, manifest.phase = "none" => applied' = applied,
           request' \in BOOLEAN, UNCHANGED <<health, crashes>>,
           worker' \in Worker, lock = "fallback" <=> worker'.pc = "writing",
           JobInv', ScanInv', BuildInv'
    PROVE  JType' /\ JInv' /\ Materialized <= Materialized'
  BY SameLive, SameSeal, MaterializedType, PruningAssumption DEF JType, pointVars, JInv,
     ModeInv, IsRunning, AppliedInv, LockInv

\* The worker comes to a step at which it has read nothing.
LEMMA WorkerRests ==
    ASSUME JType, JInv, UNCHANGED <<up, lock, pointVars, writer>>, IsRunning,
           applied' \in -1 .. index, manifest.phase = "none" => applied' = applied,
           request' \in BOOLEAN, UNCHANGED <<health, crashes>>,
           worker' \in Worker, worker.pc # "writing",
           worker'.pc \in {"idle", "capture", "fallback", "scan", "finished"},
           worker'.pc \in {"capture", "fallback", "finished"} => up = "journal"
    PROVE  JType' /\ JInv' /\ Materialized <= Materialized'
<1>1. lock # "fallback" /\ worker'.pc # "writing"
  BY DEF JInv, LockInv
<1>2. JobInv' /\ ScanInv' /\ BuildInv'
  BY DEF JobInv, ScanInv, BuildInv
<1>3. QED  BY <1>1, <1>2, WorkerOnly

\* What a step changes beside the worker, for the steps of OnlyWorker.
LEMMA OnlyWorkerFacts ==
    ASSUME JType, OnlyWorker
    PROVE  /\ UNCHANGED <<up, lock, pointVars, writer, health, crashes>>
           /\ applied' = applied /\ applied' \in -1 .. index /\ request' \in BOOLEAN
           /\ UNCHANGED <<index, pending, live, manifest, records>>
  BY DEF JType, OnlyWorker, pointVars

\* The step of the worker, as the type and the fields of its new state.
LEMMA WorkerMoves ==
    ASSUME JType, NEW pc \in {"idle", "capture", "begin", "fallback", "writing", "derive", "clear",
                "build", "apply", "admit", "scan", "hash", "finished", "clearFinished"}, Becomes(pc)
    PROVE  /\ worker' \in Worker /\ worker'.pc = pc /\ worker'.view = worker.view
           /\ worker'.target = worker.target /\ worker'.diff = worker.diff
  BY DEF JType, Worker, Becomes

LEMMA WorkerIdles ==
    ASSUME Stops
    PROVE  worker' \in Worker /\ worker'.pc = "idle" /\ worker' = IdleWorker
  BY InitialTypes DEF Stops, IdleWorker

LEMMA TakeRequestStep ==
    ASSUME JType, JInv, TakeRequest
    PROVE  JType' /\ JInv' /\ Materialized <= Materialized'
<1>1. /\ UNCHANGED <<up, lock, pointVars, applied, writer, health, crashes>> /\ IsRunning
      /\ request' = FALSE /\ worker.pc = "idle"
      /\ Becomes(IF up = "journal" THEN "capture" ELSE "scan")
  BY DEF TakeRequest
<1>2. /\ worker' \in Worker /\ worker'.pc = IF up = "journal" THEN "capture" ELSE "scan"
  BY <1>1, WorkerMoves
<1>3. applied' \in -1 .. index
  BY <1>1 DEF JType
<1>4. QED  BY <1>1, <1>2, <1>3, WorkerRests, Zenon

LEMMA CaptureJournalJobStep ==
    ASSUME JType, JInv, HistoryTypeOK, CaptureJournalJob
    PROVE  JType' /\ JInv' /\ Materialized <= Materialized'
<1> DEFINE begin == manifest.phase = "complete" /\ manifest.target < index
           target == IF begin THEN manifest.target + 1 ELSE manifest.target
<1>1. /\ worker.pc = "capture" /\ LockIsFree
      /\ UNCHANGED <<up, lock, pointVars, request, writer, health, crashes>>
      /\ UNCHANGED <<index, pending, live, manifest, records>>
  BY DEF CaptureJournalJob, pointVars
<1>2. up = "journal" /\ manifest.phase \in {"preparing", "ready", "complete"} /\ lock = "free"
      /\ IsRunning
  BY <1>1 DEF JInv, JobInv, ModeInv, JType, Manifest, LockIsFree
<1>3. /\ manifest.target \in Nat /\ manifest.target <= index /\ index \in Nat /\ index <= MaxIndex
      /\ MaxIndex \in Nat
  BY PruningAssumption DEF JType, Manifest
<1>4. target \in 0 .. MaxIndex /\ target <= index
  BY <1>3
<1>5. request' \in BOOLEAN
  BY <1>1 DEF JType
<1>6. CASE ~pending \/ manifest.target > index
  <2>1. Stops /\ applied' = applied
    BY <1>6 DEF CaptureJournalJob
  <2>2. applied' \in -1 .. index
    BY <2>1 DEF JType
  <2>3. worker' \in Worker /\ worker'.pc = "idle"
    BY <2>1, WorkerIdles
  <2>4. QED  BY <1>1, <1>2, <1>5, <2>1, <2>2, <2>3, WorkerRests
<1>7. CASE ~(~pending \/ manifest.target > index) /\ manifest.phase = "complete" /\ ~begin
  <2>1. worker' = [IdleWorker EXCEPT !.pc = "admit", !.target = target] /\ applied' = applied
    BY <1>7 DEF CaptureJournalJob
  <2>2. applied' \in -1 .. index
    BY <2>1 DEF JType
  <2>3. worker' \in Worker /\ worker'.pc = "admit" /\ worker'.target = manifest.target
    BY <1>4, <1>7, <2>1, InitialTypes, Zenon DEF Worker, IdleWorker
  <2>4. JobInv' /\ ScanInv' /\ BuildInv'
    BY <1>1, <1>2, <1>7, <2>3 DEF JobInv, ScanInv, BuildInv
  <2>5. QED  BY <1>1, <1>2, <1>5, <2>1, <2>2, <2>3, <2>4, WorkerOnly
<1>8. CASE ~(~pending \/ manifest.target > index) /\ ~(manifest.phase = "complete" /\ ~begin)
  <2> DEFINE pc == CASE manifest.phase = "ready" -> "apply" [] begin -> "begin" [] OTHER -> "derive"
             view == IF manifest.phase = "ready" THEN {} ELSE stored
  <2>1. /\ worker' = [IdleWorker EXCEPT !.target = target, !.view = view, !.pc = pc]
        /\ applied' = -1
    BY <1>8 DEF CaptureJournalJob
  <2>2. applied' \in -1 .. index
    BY <1>3, <2>1
  <2>3. view \in SUBSET Blocks
    BY DEF HistoryTypeOK
  <2>4. /\ manifest.phase = "ready" => pc = "apply" /\ target = manifest.target
        /\ begin => pc = "begin" /\ target = manifest.target + 1
        /\ manifest.phase = "preparing" => pc = "derive" /\ target = manifest.target
        /\ manifest.phase = "ready" \/ begin \/ manifest.phase = "preparing"
    BY <1>2, <1>8
  <2> HIDE DEF view, pc, target
  <2>5. pc \in {"apply", "begin", "derive"}
    BY <2>4
  <2>6. worker' \in Worker /\ worker'.pc = pc /\ worker'.target = target
    BY <1>4, <2>1, <2>3, <2>5, InitialTypes, Zenon DEF Worker, IdleWorker
  <2>7. JobInv' /\ ScanInv' /\ BuildInv'
    BY <1>1, <1>2, <2>4, <2>5, <2>6 DEF JobInv, ScanInv, BuildInv
  <2>8. lock # "fallback" /\ worker'.pc # "writing"
    BY <1>2, <2>5, <2>6
  <2>9. QED  BY <1>1, <1>2, <1>5, <2>1, <2>2, <2>6, <2>7, <2>8, WorkerOnly
<1>9. QED  BY <1>6, <1>7, <1>8

LEMMA RefuseBeginStep ==
    ASSUME JType, JInv, RefuseBegin
    PROVE  JType' /\ JInv' /\ Materialized <= Materialized'
<1>1. /\ UNCHANGED <<up, lock, pointVars, writer, applied, request, health, crashes>>
      /\ worker.pc = "begin" /\ worker' = [worker EXCEPT !.pc = "fallback", !.view = {}]
  BY DEF RefuseBegin
<1>2. worker' \in Worker /\ worker'.pc = "fallback"
  BY <1>1, Zenon DEF JType, Worker
<1>3. up = "journal" /\ IsRunning
  BY <1>1 DEF JInv, JobInv, IsRunning
<1>4. applied' \in -1 .. index /\ request' \in BOOLEAN
  BY <1>1 DEF JType
<1>5. QED  BY <1>1, <1>2, <1>3, <1>4, WorkerRests

LEMMA WaitForDiskStep ==
    ASSUME JType, JInv, WaitForDisk
    PROVE  JType' /\ JInv' /\ Materialized <= Materialized'
<1>1. worker.pc = "fallback" /\ IsRunning /\ Stops /\ OnlyWorker
  BY DEF WaitForDisk, LockIsFree
<1>2. QED  BY <1>1, OnlyWorkerFacts, WorkerIdles, WorkerRests

LEMMA RefuseJournalWriteStep ==
    ASSUME JType, JInv, RefuseJournalWrite
    PROVE  JType' /\ JInv' /\ Materialized <= Materialized'
<1>1. /\ UNCHANGED <<up, lock, pointVars, writer, applied, request, health, crashes>>
      /\ worker.pc \in {"build", "apply"} /\ Stops
  BY DEF RefuseJournalWrite
<1>2. IsRunning
  BY <1>1 DEF JInv, JobInv, IsRunning
<1>3. applied' \in -1 .. index /\ request' \in BOOLEAN
  BY <1>1 DEF JType
<1>4. QED  BY <1>1, <1>2, <1>3, WorkerIdles, WorkerRests

LEMMA DeriveDiffStep ==
    ASSUME JType, JInv, DeriveDiff
    PROVE  JType' /\ JInv' /\ Materialized <= Materialized'
<1>1. worker.pc = "derive" /\ OnlyWorker
  BY DEF DeriveDiff
<1>2. up = "journal" /\ IsRunning /\ manifest.phase = "preparing" /\ worker.target = manifest.target
  BY <1>1 DEF JInv, JobInv, IsRunning
<1>3. CASE IsDerivable(worker.view, worker.target)
  <2> DEFINE d == Diff(worker.target - 1, worker.target)
  <2>1. worker' = [worker EXCEPT !.pc = "clear", !.view = {}, !.diff = d]
    BY <1>3 DEF DeriveDiff
  <2>2. worker.target \in 0 .. MaxIndex /\ worker.target - 1 \in 0 .. MaxIndex
    BY <1>2, PruningAssumption DEF JInv, ModeInv, JType, Manifest
  <2>3. d \in Diffs
    BY <2>2, DiffFacts
  <2> HIDE DEF d
  <2>4. worker' \in Worker /\ worker'.pc = "clear" /\ worker'.diff = d /\ worker'.target = worker.target
    BY <2>1, <2>3, Zenon DEF JType, Worker
  <2>5. JobInv' /\ ScanInv' /\ BuildInv'
    BY <1>1, <1>2, <2>4, OnlyWorkerFacts DEF JobInv, ScanInv, BuildInv, d
  <2>6. lock # "fallback"
    BY <1>1 DEF JInv, LockInv
  <2>7. QED  BY <1>1, <1>2, <2>4, <2>5, <2>6, OnlyWorkerFacts, WorkerOnly
<1>4. CASE ~IsDerivable(worker.view, worker.target)
  <2>1. Stops
    BY <1>4 DEF DeriveDiff
  <2>2. QED  BY <1>1, <1>2, <2>1, OnlyWorkerFacts, WorkerIdles, WorkerRests
<1>5. QED  BY <1>3, <1>4

LEMMA EndClearStep ==
    ASSUME JType, JInv, EndClear
    PROVE  JType' /\ JInv' /\ Materialized <= Materialized'
<1>1. worker.pc = "clear" /\ DOMAIN records = {} /\ Becomes("build") /\ OnlyWorker
  BY Zenon DEF EndClear
<1>2. /\ up = "journal" /\ IsRunning /\ manifest.phase = "preparing"
      /\ worker.target = manifest.target /\ manifest.base = manifest.target - 1
      /\ worker.diff = Diff(worker.target - 1, worker.target) /\ lock # "fallback"
      /\ manifest.target \in 0 .. MaxIndex /\ manifest.target - 1 \in 0 .. MaxIndex
  BY <1>1, PruningAssumption DEF JInv, JobInv, IsRunning, ModeInv, LockInv, JType, Manifest
<1>3. /\ worker' \in Worker /\ worker'.pc = "build" /\ worker'.target = worker.target
      /\ worker'.diff = worker.diff
  BY <1>1, WorkerMoves
<1>4. JobInv' /\ ScanInv'
  BY <1>1, <1>2, <1>3, OnlyWorkerFacts, Zenon DEF JobInv, ScanInv
<1>5. BuildInv'
  <2>1. Materialized = manifest.target - 1 /\ manifest.target <= index /\ index \in Nat
    BY <1>2, PruningAssumption DEF Materialized, JType
  <2>2. \A o \in Outpoints : SetAt[manifest.target - 1][o] = SetAt[manifest.target][o]
                               => live[o] = SetAt[manifest.target][o]
    BY <1>2, <2>1 DEF JInv, LiveInv, Between
  <2>3. /\ \A o \in worker.diff.toRemove : SetAt[manifest.target][o] = Absent \/ o \in worker.diff.toAdd
        /\ \A o \in Outpoints \ (worker.diff.toRemove \cup worker.diff.toAdd) :
              live[o] = SetAt[manifest.target][o]
    BY <1>2, <2>2, DiffFacts
  <2>4. QED  BY <1>1, <1>3, <2>3, OnlyWorkerFacts DEF BuildInv
<1>6. QED  BY <1>1, <1>2, <1>3, <1>4, <1>5, OnlyWorkerFacts, WorkerOnly

LEMMA AdmitScanStep ==
    ASSUME JType, JInv, AdmitScan
    PROVE  JType' /\ JInv' /\ Materialized <= Materialized'
<1>1. /\ worker.pc = "admit" /\ applied' = worker.target
      /\ Becomes(IF index = worker.target THEN "scan" ELSE "capture")
      /\ UNCHANGED <<up, lock, pointVars, request, writer, health, crashes>>
  BY DEF AdmitScan
<1>2. /\ up = "journal" /\ IsRunning /\ manifest.phase = "complete"
      /\ worker.target = manifest.target /\ request' \in BOOLEAN
  BY <1>1 DEF JInv, JobInv, IsRunning, JType
<1>3. applied' \in -1 .. index
  BY <1>1, <1>2, PruningAssumption DEF JType, Manifest
<1>4. worker' \in Worker /\ worker'.pc \in {"scan", "capture"}
  BY <1>1, WorkerMoves
<1>5. QED  BY <1>1, <1>2, <1>3, <1>4, WorkerRests

LEMMA AfterScanFacts ==
    ASSUME AfterScan
    PROVE  /\ worker' \in Worker /\ worker'.pc \in {"idle", "finished"}
           /\ worker'.pc = "finished" => up = "journal"
  BY InitialTypes, Zenon DEF AfterScan, Worker, IdleWorker

LEMMA OpenScanStep ==
    ASSUME JType, JInv, OpenScan
    PROVE  JType' /\ JInv' /\ Materialized <= Materialized'
<1>1. worker.pc = "scan" /\ IsRunning /\ lock = "free" /\ OnlyWorker
  BY DEF OpenScan, LockIsFree
<1> DEFINE open == /\ pending /\ applied = index
                   /\ up = "journal" => manifest.phase = "complete" /\ manifest.target = index
<1>2. CASE open
  <2>1. worker' = [worker EXCEPT !.pc = "hash", !.point = index, !.set = live, !.fresh = TRUE]
    BY <1>2 DEF OpenScan
  <2>2. live \in Records /\ index \in 0 .. MaxIndex
    BY RecordsFacts DEF JType
  <2>3. /\ worker' \in Worker /\ worker'.pc = "hash" /\ worker'.point = index /\ worker'.set = live
    BY <2>1, <2>2, Zenon DEF JType, Worker
  <2>4. live = SetAt[index]
    <3>1. CASE up = "journal"
      <4>1. Materialized = index
        BY <1>2, <3>1 DEF Materialized
      <4>2. QED  BY <4>1 DEF JInv, LiveInv
    <3>2. CASE up = "deferred"
      BY <1>2, <3>2 DEF JInv, ModeInv, AppliedInv
    <3>3. QED  BY <1>1, <3>1, <3>2 DEF IsRunning
  <2>5. JobInv' /\ ScanInv' /\ BuildInv'
    BY <1>1, <1>2, <2>3, <2>4, OnlyWorkerFacts DEF JobInv, ScanInv, BuildInv
  <2>6. QED  BY <1>1, <2>3, <2>5, OnlyWorkerFacts, WorkerOnly
<1>3. CASE ~open
  <2>1. AfterScan
    BY <1>3 DEF OpenScan
  <2>2. QED  BY <1>1, <2>1, AfterScanFacts, OnlyWorkerFacts, WorkerRests
<1>4. QED  BY <1>2, <1>3

LEMMA ClearFinishedJournalStep ==
    ASSUME JType, JInv, ClearFinishedJournal
    PROVE  JType' /\ JInv' /\ Materialized <= Materialized'
<1>1. worker.pc = "finished" /\ Becomes(IF pending THEN "capture" ELSE "clearFinished") /\ OnlyWorker
  BY Zenon DEF ClearFinishedJournal
<1>2. up = "journal" /\ IsRunning /\ manifest.phase # "none" /\ lock # "fallback"
  BY <1>1 DEF JInv, JobInv, IsRunning, ModeInv, LockInv
<1>3. CASE pending
  <2>1. worker' \in Worker /\ worker'.pc = "capture"
    BY <1>1, <1>3, WorkerMoves
  <2>2. QED  BY <1>1, <1>2, <2>1, OnlyWorkerFacts, WorkerRests
<1>4. CASE ~pending
  <2>1. worker' \in Worker /\ worker'.pc = "clearFinished"
    BY <1>1, <1>4, WorkerMoves
  <2>2. manifest.phase = "complete"
    BY <1>2, <1>4 DEF JInv, ModeInv
  <2>3. JobInv' /\ ScanInv' /\ BuildInv'
    BY <1>1, <1>2, <2>1, <2>2, OnlyWorkerFacts DEF JobInv, ScanInv, BuildInv
  <2>4. QED  BY <1>1, <1>2, <2>1, <2>3, OnlyWorkerFacts, WorkerOnly
<1>5. QED  BY <1>3, <1>4

LEMMA EndClearFinishedStep ==
    ASSUME JType, JInv, EndClearFinished
    PROVE  JType' /\ JInv' /\ Materialized <= Materialized'
<1>1. worker.pc = "clearFinished" /\ Becomes("capture") /\ OnlyWorker
  BY DEF EndClearFinished
<1>2. up = "journal" /\ IsRunning
  BY <1>1 DEF JInv, JobInv, IsRunning
<1>3. QED  BY <1>1, <1>2, OnlyWorkerFacts, WorkerMoves, WorkerRests

-----------------------------------------------------------------------------
(* Steps of the journal that write                                         *)

\* Begin leaves the set complete at the base of the new move.
LEMMA BeginJobStep ==
    ASSUME JType, JInv, BeginJob
    PROVE  JType' /\ JInv' /\ Materialized <= Materialized'
<1> DEFINE begun == [phase |-> "preparing", base |-> manifest.target,
                     target |-> manifest.target + 1, cursor |-> 0, sum |-> NoRecords]
<1>1. /\ worker.pc = "begin" /\ manifest' = begun /\ Becomes("derive")
      /\ UNCHANGED <<up, lock, index, pending, live, records, applied, request, writer, health, crashes>>
  BY Zenon DEF BeginJob
<1>2. /\ up = "journal" /\ manifest.phase = "complete" /\ manifest.target < index
      /\ worker.target = manifest.target + 1 /\ lock # "fallback" /\ lock = "free" /\ pending
  BY <1>1 DEF JInv, JobInv, LockInv, JType, ModeInv
<1>3. /\ manifest.target \in Nat /\ index \in Nat /\ index <= MaxIndex /\ MaxIndex \in Nat
  BY PruningAssumption DEF JType, Manifest
<1>4. /\ begun \in Manifest /\ begun.phase = "preparing" /\ begun.base = manifest.target
      /\ begun.target = manifest.target + 1 /\ begun.cursor = 0
  <2>1. manifest.target \in 0 .. MaxIndex /\ manifest.target + 1 \in 0 .. MaxIndex
    BY <1>2, <1>3
  <2>2. QED  BY <2>1, InitialTypes, Zenon DEF Manifest
<1> HIDE DEF begun
<1>5. worker' \in Worker /\ worker'.pc = "derive" /\ worker'.target = worker.target
  BY <1>1, WorkerMoves
<1>6. JType'
  BY <1>1, <1>2, <1>3, <1>4, <1>5 DEF JType
<1>7. Materialized = manifest.target /\ Materialized' = manifest.target
  BY <1>1, <1>2, <1>4 DEF Materialized
<1>8. LiveInv'
  BY <1>1, <1>2, <1>7, Zenon DEF JInv, LiveInv, Between
<1>9. ModeInv' /\ AppliedInv' /\ LockInv'
  BY <1>1, <1>2, <1>3, <1>4, <1>5, Zenon DEF JInv, ModeInv, AppliedInv, LockInv, IsRunning
<1>10. JobInv' /\ ScanInv' /\ BuildInv' /\ SealInv'
  BY <1>1, <1>2, <1>4, <1>5 DEF JobInv, ScanInv, BuildInv, SealInv
<1>11. QED  BY <1>3, <1>6, <1>7, <1>8, <1>9, <1>10 DEF JInv

LEMMA ClearBatchStep ==
    ASSUME JType, JInv, ClearBatch
    PROVE  JType' /\ JInv' /\ Materialized <= Materialized'
<1>1. /\ worker.pc \in {"clear", "clearFinished"}
      /\ UNCHANGED <<up, lock, index, pending, live, manifest, applied, request, worker, writer,
                     health, crashes>>
  BY DEF ClearBatch
<1>2. PICK o \in DOMAIN records : records' = [q \in DOMAIN records \ {o} |-> records[q]]
  BY DEF ClearBatch
<1>3. manifest.phase \in {"preparing", "complete"}
  BY <1>1 DEF JInv, JobInv
<1>4. records' \in Records
  BY <1>2, RecordsFacts DEF JType
<1>5. JType'
  BY <1>1, <1>4 DEF JType
<1>6. LiveInv' /\ Materialized' = Materialized
  BY <1>1, SameLive, Zenon DEF JInv
<1>7. ModeInv' /\ AppliedInv' /\ LockInv'
  BY <1>1, <1>6, Zenon DEF JInv, ModeInv, AppliedInv, LockInv, IsRunning
<1>8. JobInv' /\ ScanInv' /\ BuildInv' /\ SealInv'
  BY <1>1, <1>3 DEF JInv, JobInv, ScanInv, BuildInv, SealInv
<1>9. Materialized <= Materialized'
  BY <1>6, MaterializedType, PruningAssumption DEF JInv, JType
<1>10. QED  BY <1>5, <1>6, <1>7, <1>8, <1>9 DEF JInv

LEMMA BuildBatchStep ==
    ASSUME JType, JInv, BuildBatch
    PROVE  JType' /\ JInv' /\ Materialized <= Materialized'
<1>1. /\ worker.pc = "build"
      /\ UNCHANGED <<up, lock, index, pending, live, manifest, applied, request, writer, health, crashes>>
  BY Zenon DEF BuildBatch
<1>2. /\ up = "journal" /\ manifest.phase = "preparing" /\ worker.target = manifest.target
      /\ lock # "fallback" /\ manifest.target \in 0 .. MaxIndex
  BY <1>1 DEF JInv, JobInv, LockInv, JType, Manifest
<1>3. /\ worker.diff.toRemove \in SUBSET Outpoints /\ worker.diff.toAdd \in SUBSET Outpoints
      /\ worker \in Worker /\ worker.diff \in Diffs
  BY DEF JType, Worker, Diffs
<1>4. \A o \in Outpoints : SetAt[manifest.target][o] \in 0 .. 2
  BY <1>2, SetAtType
<1>5. PICK o \in Outpoints, value \in 0 .. 2 :
         /\ records' = Record(o, value)
         /\ \/ /\ o \in worker.diff.toRemove /\ value = Absent
               /\ worker' = [worker EXCEPT !.diff.toRemove = @ \ {o}]
            \/ /\ worker.diff.toRemove = {} /\ value = SetAt[manifest.target][o]
               /\ worker' = [worker EXCEPT !.diff.toAdd = @ \ {o}]
  BY <1>2, <1>3, <1>4 DEF BuildBatch, Absent
<1>6. /\ worker' \in Worker /\ worker'.pc = "build" /\ worker'.target = worker.target
      /\ \/ /\ o \in worker.diff.toRemove /\ value = Absent
            /\ worker'.diff.toRemove = worker.diff.toRemove \ {o}
            /\ worker'.diff.toAdd = worker.diff.toAdd
         \/ /\ worker.diff.toRemove = {} /\ value = SetAt[manifest.target][o]
            /\ worker'.diff.toRemove = {}
            /\ worker'.diff.toAdd = worker.diff.toAdd \ {o}
  BY <1>1, <1>3, <1>5 DEF Worker, Diffs
<1>7. /\ records' \in Records /\ DOMAIN records' = DOMAIN records \cup {o} /\ records'[o] = value
      /\ \A q \in DOMAIN records \ {o} : records'[q] = records[q]
  BY <1>5, RecordsFacts DEF JType, Record
<1>8. JType'
  BY <1>1, <1>6, <1>7 DEF JType
<1>9. LiveInv' /\ Materialized' = Materialized
  BY <1>1, SameLive, Zenon DEF JInv
<1>10. ModeInv' /\ AppliedInv' /\ LockInv'
  BY <1>1, <1>2, <1>6, <1>9, Zenon DEF JInv, ModeInv, AppliedInv, LockInv, IsRunning
<1>11. JobInv' /\ ScanInv' /\ SealInv'
  BY <1>1, <1>2, <1>6, Zenon DEF JobInv, ScanInv, SealInv
<1>12. BuildInv'
  BY <1>1, <1>6, <1>7 DEF JInv, BuildInv
<1>13. Materialized <= Materialized'
  BY <1>9, MaterializedType, PruningAssumption DEF JInv, JType
<1>14. QED  BY <1>8, <1>9, <1>10, <1>11, <1>12, <1>13 DEF JInv

\* READY is written when the records are complete, so what they seal reaches the target.
LEMMA SealJobStep ==
    ASSUME JType, JInv, SealJob
    PROVE  JType' /\ JInv' /\ Materialized <= Materialized'
<1>1. /\ worker.pc = "build" /\ worker.diff = NoDiff /\ Becomes("apply")
      /\ manifest' = [manifest EXCEPT !.phase = "ready", !.sum = records]
      /\ UNCHANGED <<up, lock, index, pending, live, records, applied, request, writer, health, crashes>>
  BY DEF SealJob
<1>2. /\ up = "journal" /\ manifest.phase = "preparing" /\ worker.target = manifest.target
      /\ lock # "fallback" /\ lock = "free" /\ pending
  BY <1>1 DEF JInv, JobInv, LockInv, JType, ModeInv
<1>3. worker' \in Worker /\ worker'.pc = "apply" /\ worker'.target = worker.target
  BY <1>1, WorkerMoves
<1>4. /\ manifest' \in Manifest /\ manifest'.phase = "ready" /\ manifest'.sum = records
      /\ manifest'.base = manifest.base /\ manifest'.target = manifest.target
  BY <1>1, Zenon DEF JType, Manifest
<1>5. JType'
  BY <1>1, <1>3, <1>4 DEF JType
<1>6. Materialized' = Materialized /\ Materialized = manifest.base
  BY <1>1, <1>2, <1>4 DEF Materialized
<1>7. LiveInv'
  BY <1>1, <1>6 DEF JInv, LiveInv, Between
<1>8. ModeInv' /\ AppliedInv' /\ LockInv'
  BY <1>1, <1>2, <1>3, <1>4 DEF JInv, ModeInv, AppliedInv, LockInv, IsRunning
<1>9. JobInv' /\ ScanInv' /\ BuildInv'
  BY <1>1, <1>2, <1>3, <1>4 DEF JobInv, ScanInv, BuildInv
<1>10. SealInv'
  <2>1. \A o \in Outpoints : (IF o \in DOMAIN records THEN records[o] ELSE live[o])
                                = SetAt[manifest.target][o]
    BY <1>1 DEF JInv, BuildInv, NoDiff
  <2>2. manifest'.cursor = 0
    BY <1>1, <1>2 DEF JInv, ModeInv, JType, Manifest
  <2>3. \A o \in DOMAIN records : o \in Outpoints /\ o > 0
    BY RecordsFacts, JournalAssumption DEF JType
  <2>4. Unapplied' = DOMAIN records
    BY <1>1, <2>2, <2>3 DEF Unapplied
  <2>5. QED  BY <1>1, <1>4, <2>1, <2>4 DEF SealInv
<1>11. Materialized <= Materialized'
  BY <1>6, MaterializedType, PruningAssumption DEF JInv, JType
<1>12. QED  BY <1>5, <1>7, <1>8, <1>9, <1>10, <1>11 DEF JInv

\* Whatever is applied last, the set is then that of the target: COMPLETE is true.
LEMMA ApplyBatchStep ==
    ASSUME JType, JInv, ApplyBatch
    PROVE  JType' /\ JInv' /\ Materialized <= Materialized'
<1>1. /\ worker.pc = "apply" /\ records = manifest.sum
      /\ IF manifest'.phase = "complete" THEN Becomes("admit") ELSE UNCHANGED worker
      /\ UNCHANGED <<up, lock, index, pending, records, applied, request, writer, health, crashes>>
  BY Zenon DEF ApplyBatch
<1>2. /\ up = "journal" /\ manifest.phase = "ready" /\ worker.target = manifest.target
      /\ lock # "fallback" /\ lock = "free" /\ pending /\ manifest.base + 1 = manifest.target
  BY <1>1 DEF JInv, JobInv, LockInv, JType, ModeInv
<1>3. /\ manifest.target \in 0 .. MaxIndex /\ manifest.base \in 0 .. MaxIndex /\ index \in 0 .. MaxIndex
      /\ MaxIndex \in Nat /\ manifest.target <= index
  BY PruningAssumption, Zenon DEF JType, Manifest
<1>4. \A o \in Outpoints : (IF o \in Unapplied THEN records[o] ELSE live[o])
                              = SetAt[manifest.target][o]
  BY <1>2 DEF JInv, SealInv
<1>5. Unapplied \subseteq Outpoints
  BY RecordsFacts DEF Unapplied, JType
<1>6. Materialized = manifest.base /\ Between(manifest.base, manifest.target)
  BY <1>2, <1>3 DEF JInv, LiveInv, Materialized
<1>7. ASSUME live' = SetAt[manifest.target], manifest' \in Manifest, manifest'.phase = "complete",
             manifest'.target = manifest.target
      PROVE  JType' /\ JInv' /\ Materialized <= Materialized'
  <2>1. worker' \in Worker /\ worker'.pc = "admit" /\ worker'.target = worker.target
    BY <1>1, <1>7, WorkerMoves
  <2>2. live' \in [Outpoints -> 0 .. 2]
    BY <1>3, <1>7, SetAtType, Zenon
  <2>3. JType'
    BY <1>1, <1>3, <1>7, <2>1, <2>2 DEF JType
  <2>4. Materialized' = manifest.target
    BY <1>7 DEF Materialized
  <2>5. LiveInv'
    BY <1>1, <1>7, <2>4, Zenon DEF LiveInv, Between
  <2>6. ModeInv' /\ AppliedInv' /\ LockInv'
    BY <1>1, <1>2, <1>7, <2>1, Zenon DEF JInv, ModeInv, AppliedInv, LockInv, IsRunning
  <2>7. JobInv' /\ ScanInv' /\ BuildInv' /\ SealInv'
    BY <1>1, <1>2, <1>7, <2>1 DEF JobInv, ScanInv, BuildInv, SealInv
  <2>8. QED  BY <1>2, <1>3, <1>6, <2>3, <2>4, <2>5, <2>6, <2>7 DEF JInv
<1>8. CASE Unapplied = {} /\ live' = live
             /\ manifest' = [manifest EXCEPT !.phase = "complete", !.sum = NoRecords]
  <2>1. live' = SetAt[manifest.target]
    BY <1>3, <1>4, <1>8, LiveEquals
  <2>2. /\ manifest' \in Manifest /\ manifest'.phase = "complete"
        /\ manifest'.target = manifest.target
    BY <1>8, InitialTypes, Zenon DEF JType, Manifest
  <2>3. QED  BY <1>7, <2>1, <2>2
<1>9. ASSUME NEW o \in Outpoints, IsNext(o), live' = [live EXCEPT ![o] = records[o]],
             manifest' = IF Unapplied = {o}
                         THEN [manifest EXCEPT !.phase = "complete", !.cursor = 0, !.sum = NoRecords]
                         ELSE [manifest EXCEPT !.cursor = o]
      PROVE  JType' /\ JInv' /\ Materialized <= Materialized'
  <2>1. o \in Unapplied /\ \A q \in Unapplied : o <= q
    BY <1>9 DEF IsNext
  <2>2. live'[o] = SetAt[manifest.target][o] /\ \A q \in Outpoints \ {o} : live'[q] = live[q]
    BY <1>4, <1>9, <2>1 DEF JType
  <2>3. live' \in [Outpoints -> 0 .. 2]
    <3>1. records[o] \in 0 .. 2
      BY <1>3, <1>4, <2>1, SetAtType
    <3>2. QED  BY <1>9, <3>1 DEF JType
  <2>4. CASE Unapplied = {o}
    <3>1. \A q \in Outpoints : live'[q] = SetAt[manifest.target][q]
      BY <1>4, <2>2, <2>4
    <3>2. live' = SetAt[manifest.target]
      BY <1>3, <2>3, <3>1, SetAtType
    <3>3. /\ manifest' \in Manifest /\ manifest'.phase = "complete"
          /\ manifest'.target = manifest.target
      BY <1>9, <2>4, InitialTypes, Zenon DEF JType, Manifest
    <3>4. QED  BY <1>7, <3>2, <3>3
  <2>5. CASE Unapplied # {o}
    <3>1. manifest' = [manifest EXCEPT !.cursor = o]
      BY <1>9, <2>5
    <3>2. /\ manifest' \in Manifest /\ manifest'.phase = "ready" /\ manifest'.sum = manifest.sum
          /\ manifest'.target = manifest.target /\ manifest'.base = manifest.base
          /\ manifest'.cursor = o
      BY <1>2, <1>9, <3>1, Zenon DEF JType, Manifest
    <3>3. UNCHANGED worker
      BY <1>1, <3>2, Zenon
    <3>4. JType'
      BY <1>1, <1>3, <2>3, <3>2, <3>3 DEF JType
    <3>5. Materialized' = manifest.base
      BY <3>2, SMTT(30) DEF Materialized
    <3>6. LiveInv'
      <4>1. Between(manifest.base, manifest.target)'
        BY <1>6, <2>2, <3>2, Zenon DEF Between
      <4>2. QED  BY <1>1, <1>2, <1>3, <3>2, <3>5, <4>1, SMTT(30) DEF LiveInv
    <3>7. ModeInv' /\ AppliedInv' /\ LockInv'
      BY <1>1, <1>2, <3>2, <3>3 DEF JInv, ModeInv, AppliedInv, LockInv, IsRunning
    <3>8. JobInv' /\ ScanInv' /\ BuildInv'
      BY <1>1, <1>2, <3>2, <3>3, Zenon DEF JobInv, ScanInv, BuildInv
    <3>9. SealInv'
      <4>1. DOMAIN records \subseteq Nat /\ manifest.cursor \in Nat /\ o \in Nat
        BY RecordsFacts, JournalAssumption DEF JType, Manifest
      <4>2. Unapplied' = Unapplied \ {o}
        BY <1>1, <2>1, <3>2, <4>1, SMTT(30) DEF Unapplied
      <4>3. \A q \in Outpoints : (IF q \in Unapplied' THEN records[q] ELSE live'[q])
                                    = SetAt[manifest.target][q]
        BY <1>4, <2>2, <4>2
      <4>4. QED  BY <1>1, <3>2, <4>3 DEF SealInv
    <3>10. Materialized <= Materialized'
      BY <1>3, <1>6, <3>5
    <3>11. QED  BY <3>4, <3>6, <3>7, <3>8, <3>9, <3>10 DEF JInv
  <2>6. QED  BY <2>4, <2>5
<1>10. QED  BY <1>8, <1>9 DEF ApplyBatch

-----------------------------------------------------------------------------
(* The direct writer                                                       *)

\* A write begins with a diff that takes the live set to the selected point.
LEMMA WriteBegins ==
    ASSUME JType, JInv, NEW step \in {"select", "update", "fallback"}, BeginWrite(step),
           IsRunning, pending, Materialized = index - 1, manifest.phase \in {"none", "complete"},
           manifest.phase = "none" => applied # index,
           step \in {"select", "update"} => up = "deferred", step = "select" => index < MaxIndex,
           worker' \in Worker, step = "fallback" <=> worker'.pc = "writing",
           JobInv', ScanInv', BuildInv'
    PROVE  JType' /\ JInv' /\ Materialized <= Materialized'
<1>1. /\ lock' = step /\ writer' = Diff(index - 1, index)
      /\ UNCHANGED <<up, index, pending, live, manifest, records, applied, request, health, crashes>>
  BY Zenon DEF BeginWrite, pointVars
<1>2. index \in 0 .. MaxIndex /\ index - 1 \in 0 .. MaxIndex /\ MaxIndex \in Nat
  BY PruningAssumption, SMTT(30) DEF JType, JInv, ModeInv
<1>3. JType'
  BY <1>1, <1>2, DiffFacts DEF JType
<1>4. LiveInv' /\ Materialized' = Materialized
  BY <1>1, SameLive DEF JInv
<1>5. SealInv'
  BY <1>1, SameSeal, Zenon DEF JInv
<1>6. ModeInv' /\ AppliedInv'
  BY <1>1, Zenon DEF JInv, ModeInv, AppliedInv, IsRunning
<1>7. LockInv'
  <2>1. \A o \in Outpoints : SetAt[index - 1][o] = SetAt[index][o] => live[o] = SetAt[index][o]
    BY <1>2 DEF JInv, LiveInv, Between
  <2>2. /\ \A o \in writer'.toRemove : SetAt[index][o] = Absent \/ o \in writer'.toAdd
        /\ \A o \in Outpoints : IF o \in writer'.toRemove \cup writer'.toAdd
                                THEN SetAt[index - 1][o] # SetAt[index][o]
                                ELSE live[o] = SetAt[index][o]
    BY <1>1, <1>2, <2>1, DiffFacts
  <2>3. up # "recover"
    BY DEF IsRunning
  <2>4. QED  BY <1>1, <1>4, <2>2, <2>3 DEF LockInv
<1>8. Materialized <= Materialized'
  BY <1>2, <1>4
<1>9. QED  BY <1>3, <1>4, <1>5, <1>6, <1>7, <1>8 DEF JInv

\* A write on the deferred path invalidates the scan in flight.
LEMMA DeferredWriteStep ==
    ASSUME JType, JInv, SelectAfterWrite \/ UpdatePruningPoint
    PROVE  JType' /\ JInv' /\ Materialized <= Materialized'
<1>1. PICK step \in {"select", "update"} : BeginWrite(step) /\ (step = "select" => index < MaxIndex)
  BY DEF SelectAfterWrite, UpdatePruningPoint
<1>2. /\ IsRunning /\ up = "deferred" /\ lock = "free" /\ pending /\ applied # index
      /\ worker' = [worker EXCEPT !.fresh = FALSE]
  BY DEF SelectAfterWrite, UpdatePruningPoint, LockIsFree, Invalidate
<1>3. UNCHANGED <<up, index, pending, live, manifest, records>>
  BY <1>1 DEF BeginWrite, pointVars
<1>4. manifest.phase = "none" /\ Materialized = index - 1
  BY <1>2 DEF JInv, ModeInv, Materialized
<1>5. worker.pc \in {"idle", "scan", "hash"}
  BY <1>2 DEF JInv, JobInv
<1>6. worker' \in Worker /\ worker'.pc = worker.pc /\ worker'.fresh = FALSE
  BY <1>2, Zenon DEF JType, Worker
<1>7. JobInv' /\ ScanInv' /\ BuildInv'
  BY <1>2, <1>3, <1>5, <1>6 DEF JobInv, ScanInv, BuildInv
<1>8. QED  BY <1>1, <1>2, <1>4, <1>5, <1>6, <1>7, WriteBegins

LEMMA JournalDiskFallbackStep ==
    ASSUME JType, JInv, JournalDiskFallback
    PROVE  JType' /\ JInv' /\ Materialized <= Materialized'
<1>1. /\ worker.pc = "fallback" /\ IsRunning /\ manifest.phase = "complete"
      /\ manifest.target + 1 = index /\ BeginWrite("fallback") /\ Becomes("writing")
  BY DEF JournalDiskFallback, LockIsFree
<1>2. UNCHANGED <<up, index, pending, live, manifest, records>>
  BY <1>1 DEF BeginWrite, pointVars
<1>3. up = "journal" /\ Materialized = index - 1
  BY <1>1, PruningAssumption DEF JInv, JobInv, Materialized, JType, Manifest
<1>4. pending
  BY <1>1, PruningAssumption DEF JInv, ModeInv, JType, Manifest
<1>5. worker' \in Worker /\ worker'.pc = "writing"
  BY <1>1, WorkerMoves, Zenon
<1>6. JobInv' /\ ScanInv' /\ BuildInv'
  BY <1>2, <1>3, <1>5 DEF JobInv, ScanInv, BuildInv
<1>7. QED  BY <1>1, <1>3, <1>4, <1>5, <1>6, WriteBegins

LEMMA WriteOutpointStep ==
    ASSUME JType, JInv, WriteOutpoint
    PROVE  JType' /\ JInv' /\ Materialized <= Materialized'
<1>1. /\ lock # "free"
      /\ UNCHANGED <<up, lock, index, pending, manifest, records, applied, request, worker,
                     health, crashes>>
  BY Zenon DEF WriteOutpoint
<1>2. /\ pending /\ Materialized = index - 1 /\ manifest.phase \in {"none", "complete"}
      /\ manifest.phase = "none" => applied # index
      /\ \A o \in writer.toRemove : SetAt[index][o] = Absent \/ o \in writer.toAdd
      /\ \A o \in Outpoints : IF o \in writer.toRemove \cup writer.toAdd
                              THEN SetAt[index - 1][o] # SetAt[index][o]
                              ELSE live[o] = SetAt[index][o]
  BY <1>1, Zenon DEF JInv, LockInv
<1>3. /\ index \in 0 .. MaxIndex /\ index - 1 \in 0 .. MaxIndex /\ MaxIndex \in Nat
      /\ writer.toRemove \in SUBSET Outpoints /\ writer.toAdd \in SUBSET Outpoints
  BY <1>2, PruningAssumption DEF JType, JInv, ModeInv, Diffs
<1>4. PICK o \in Outpoints, value \in 0 .. 2 :
         /\ live' = [live EXCEPT ![o] = value] /\ o \in writer.toRemove \cup writer.toAdd
         /\ \/ /\ o \in writer.toRemove /\ value = Absent
               /\ writer' = [writer EXCEPT !.toRemove = @ \ {o}]
            \/ /\ writer.toRemove = {} /\ value = SetAt[index][o]
               /\ writer' = [writer EXCEPT !.toAdd = @ \ {o}]
  BY <1>3, SetAtType DEF WriteOutpoint, Absent
<1>5. /\ writer' \in Diffs
      /\ \/ /\ o \in writer.toRemove /\ value = Absent
            /\ writer'.toRemove = writer.toRemove \ {o} /\ writer'.toAdd = writer.toAdd
         \/ /\ writer.toRemove = {} /\ value = SetAt[index][o]
            /\ writer'.toRemove = {} /\ writer'.toAdd = writer.toAdd \ {o}
  BY <1>4 DEF JType, Diffs
<1>6. live' \in [Outpoints -> 0 .. 2] /\ live'[o] = value /\ \A q \in Outpoints \ {o} : live'[q] = live[q]
  BY <1>4, Zenon DEF JType
<1>7. JType'
  BY <1>1, <1>5, <1>6 DEF JType
<1>8. Materialized' = Materialized
  BY <1>1, Zenon DEF Materialized
<1>9. LiveInv'
  <2>1. SetAt[index - 1][o] # SetAt[index][o]
    BY <1>2, <1>4, Zenon
  <2>2. \A q \in Outpoints : SetAt[index - 1][q] = SetAt[index][q] => live[q] = SetAt[index][q]
    BY <1>2, <1>3, Zenon DEF JInv, LiveInv, Between
  <2>3. \A q \in Outpoints : SetAt[index - 1][q] = SetAt[index][q] => live'[q] = SetAt[index][q]
    BY <1>6, <2>1, <2>2, Zenon
  <2>4. QED  BY <1>1, <1>2, <1>3, <1>8, <2>3 DEF LiveInv, Between
<1>10. LockInv'
  <2>1. \A q \in writer'.toRemove : SetAt[index][q] = Absent \/ q \in writer'.toAdd
    BY <1>2, <1>5
  <2>2. ASSUME NEW q \in Outpoints
        PROVE  IF q \in writer'.toRemove \cup writer'.toAdd
               THEN SetAt[index - 1][q] # SetAt[index][q]
               ELSE live'[q] = SetAt[index][q]
    BY <1>2, <1>4, <1>5, <1>6
  <2>3. QED  BY <1>1, <1>2, <1>8, <2>1, <2>2, Zenon DEF JInv, LockInv
<1>11. ModeInv' /\ AppliedInv' /\ JobInv' /\ ScanInv' /\ BuildInv' /\ SealInv'
  BY <1>1, <1>2, Zenon DEF JInv, ModeInv, AppliedInv, JobInv, ScanInv, BuildInv, SealInv, IsRunning
<1>12. Materialized <= Materialized'
  BY <1>2, <1>3, <1>8
<1>13. QED  BY <1>7, <1>9, <1>10, <1>11, <1>12 DEF JInv

LEMMA EndUpdateWriteStep ==
    ASSUME JType, JInv, EndUpdateWrite
    PROVE  JType' /\ JInv' /\ Materialized <= Materialized'
<1>1. /\ lock = "update" /\ writer = NoDiff /\ applied' = index /\ request' = TRUE /\ lock' = "free"
      /\ UNCHANGED <<up, index, pending, live, manifest, records, worker, writer, health, crashes>>
  BY Zenon DEF EndUpdateWrite, HasWritten, pointVars
<1>2. live = SetAt[index] /\ up = "deferred" /\ worker.pc # "writing"
  BY <1>1, Written DEF JInv, LockInv
<1>3. JType'
  BY <1>1, PruningAssumption DEF JType
<1>4. LiveInv' /\ Materialized' = Materialized
  BY <1>1, SameLive DEF JInv
<1>5. SealInv'
  BY <1>1, SameSeal, Zenon DEF JInv
<1>6. ModeInv' /\ AppliedInv' /\ LockInv'
  BY <1>1, <1>2 DEF JInv, ModeInv, AppliedInv, LockInv, IsRunning
<1>7. JobInv' /\ ScanInv' /\ BuildInv'
  BY <1>1, Zenon DEF JInv, JobInv, ScanInv, BuildInv
<1>8. Materialized <= Materialized'
  BY <1>4, MaterializedType, PruningAssumption DEF JInv, JType
<1>9. QED  BY <1>3, <1>4, <1>5, <1>6, <1>7, <1>8 DEF JInv

LEMMA AdoptSynchronousMoveStep ==
    ASSUME JType, JInv, AdoptSynchronousMove
    PROVE  JType' /\ JInv' /\ Materialized <= Materialized'
<1>1. /\ lock = "fallback" /\ writer = NoDiff /\ applied' = index /\ lock' = "free"
      /\ manifest' = [Complete(index) EXCEPT !.base = index - 1]
      /\ worker' = [IdleWorker EXCEPT !.pc = "admit", !.target = index]
      /\ UNCHANGED <<up, index, pending, live, records, request, writer, health, crashes>>
  BY DEF AdoptSynchronousMove, HasWritten
<1>2. live = SetAt[index] /\ Materialized = index - 1 /\ pending
  BY <1>1, Written
<1>3. worker.pc = "writing" /\ up = "journal"
  BY <1>1, Zenon DEF JInv, LockInv, JobInv
<1>4. index \in 0 .. MaxIndex /\ index - 1 \in 0 .. MaxIndex /\ MaxIndex \in Nat
  BY <1>2, PruningAssumption DEF JType, JInv, ModeInv
<1>5. manifest' \in Manifest /\ manifest'.phase = "complete" /\ manifest'.target = index
  BY <1>1, <1>4, InitialTypes DEF Manifest, Complete
<1>6. worker' \in Worker /\ worker'.pc = "admit" /\ worker'.target = index
  BY <1>1, <1>4, InitialTypes, Zenon DEF Worker, IdleWorker
<1>7. JType'
  BY <1>1, <1>4, <1>5, <1>6 DEF JType
<1>8. Materialized' = index
  BY <1>5 DEF Materialized
<1>9. LiveInv'
  BY <1>1, <1>2, <1>8 DEF LiveInv
<1>10. ModeInv' /\ AppliedInv' /\ LockInv'
  BY <1>1, <1>2, <1>3, <1>5, <1>6 DEF JInv, ModeInv, AppliedInv, LockInv, IsRunning
<1>11. JobInv' /\ ScanInv' /\ BuildInv' /\ SealInv'
  BY <1>1, <1>3, <1>5, <1>6 DEF JobInv, ScanInv, BuildInv, SealInv
<1>12. QED  BY <1>2, <1>4, <1>7, <1>8, <1>9, <1>10, <1>11 DEF JInv

-----------------------------------------------------------------------------
(* The pruning point moves                                                 *)

\* The point is selected when the set is complete at the previous one, or when the journal
\* keeps the moves it has yet to make.
LEMMA PointMoves ==
    ASSUME JType, JInv, IsRunning, index < MaxIndex,
           index' = index + 1, pending' = TRUE, lock' = "free", request' \in BOOLEAN,
           UNCHANGED <<up, live, manifest, records, worker, writer, health, crashes>>,
           applied' \in -1 .. index, worker.pc # "writing",
           manifest.phase = "none" => live = SetAt[index]
    PROVE  JType' /\ JInv' /\ Materialized <= Materialized'
<1>1. index \in Nat /\ index + 1 \in 0 .. MaxIndex /\ MaxIndex \in Nat /\ manifest.target \in Nat
      /\ manifest.target <= index /\ manifest.base \in Nat
  BY PruningAssumption, SMTT(30) DEF JType, Manifest
<1>2. JType'
  BY <1>1 DEF JType
<1>3. ModeInv'
  BY <1>1, SMTT(30) DEF JInv, ModeInv, IsRunning
<1>4. AppliedInv' /\ LockInv'
  BY <1>1, SMTT(30) DEF JInv, AppliedInv, LockInv, IsRunning
<1>5. JobInv' /\ ScanInv' /\ BuildInv'
  BY <1>1 DEF JInv, JobInv, ScanInv, BuildInv
<1>6. SealInv'
  BY SameSeal DEF JInv
<1>7. CASE manifest.phase = "none"
  <2>1. Materialized' = index /\ Materialized <= index
    BY <1>1, <1>7, MaterializedType DEF Materialized, JInv
  <2>2. LiveInv'
    BY <1>1, <1>7, <2>1, Zenon DEF LiveInv, Between
  <2>3. QED  BY <1>2, <1>3, <1>4, <1>5, <1>6, <2>1, <2>2 DEF JInv
<1>8. CASE manifest.phase # "none"
  <2>1. Materialized' = Materialized
    BY <1>8 DEF Materialized
  <2>2. Materialized \in 0 .. index
    BY MaterializedType DEF JInv
  <2>3. LiveInv'
    BY <1>1, <2>1, <2>2 DEF JInv, LiveInv, Between
  <2>4. QED  BY <1>1, <1>2, <1>3, <1>4, <1>5, <1>6, <2>1, <2>2, <2>3 DEF JInv
<1>9. QED  BY <1>7, <1>8, Zenon

LEMMA SelectPruningPointStep ==
    ASSUME JType, JInv, SelectPruningPoint
    PROVE  JType' /\ JInv' /\ Materialized <= Materialized'
<1>1. /\ IsRunning /\ lock = "free" /\ index < MaxIndex /\ index' = index + 1 /\ pending' = TRUE
      /\ up = "deferred" /\ pending => applied = index
      /\ lock' = "free" /\ request' = (request \/ up = "journal" \/ pending)
      /\ UNCHANGED <<up, live, manifest, records, applied, worker, writer, health, crashes>>
  BY DEF SelectPruningPoint, LockIsFree
<1>2. request' \in BOOLEAN
  BY <1>1, Zenon
<1>3. applied' \in -1 .. index /\ worker.pc # "writing"
  BY <1>1 DEF JType, JInv, LockInv
<1>4. ASSUME manifest.phase = "none"
      PROVE  live = SetAt[index]
  <2>1. up = "deferred"
    BY <1>1, <1>4 DEF JInv, ModeInv, IsRunning
  <2>2. CASE pending
    BY <1>1, <1>4, <2>1, <2>2 DEF JInv, AppliedInv
  <2>3. CASE ~pending
    <3>1. Materialized = index
      BY <1>4, <2>3, Zenon DEF Materialized
    <3>2. QED  BY <3>1 DEF JInv, LiveInv
  <2>4. QED  BY <2>2, <2>3, Zenon
<1>5. QED  BY <1>1, <1>2, <1>3, <1>4, PointMoves, Zenon

LEMMA EndSelectWriteStep ==
    ASSUME JType, JInv, EndSelectWrite
    PROVE  JType' /\ JInv' /\ Materialized <= Materialized'
<1>1. /\ lock = "select" /\ writer = NoDiff /\ applied' = index /\ request' = TRUE /\ lock' = "free"
      /\ index' = index + 1 /\ pending' = TRUE
      /\ UNCHANGED <<up, live, manifest, records, worker, writer, health, crashes>>
  BY Zenon DEF EndSelectWrite, HasWritten
<1>2. /\ live = SetAt[index] /\ up = "deferred" /\ IsRunning /\ worker.pc # "writing"
      /\ index < MaxIndex
  BY <1>1, Written DEF JInv, LockInv, IsRunning
<1>3. applied' \in -1 .. index
  BY <1>1, PruningAssumption DEF JType
<1>4. QED  BY <1>1, <1>2, <1>3, PointMoves

LEMMA RequestScanStep ==
    ASSUME JType, JInv, RequestScan
    PROVE  JType' /\ JInv' /\ Materialized <= Materialized'
<1>1. /\ IsRunning /\ request' = TRUE
      /\ UNCHANGED <<up, lock, pointVars, applied, worker, writer, health, crashes>>
  BY DEF RequestScan, LockIsFree
<1>2. UNCHANGED <<index, pending, live, manifest, records>>
  BY <1>1, Zenon DEF pointVars
<1>3. applied' \in -1 .. index /\ worker' \in Worker /\ (lock = "fallback" <=> worker'.pc = "writing")
  BY <1>1, SMTT(30) DEF JType, JInv, LockInv
<1>4. JobInv' /\ ScanInv' /\ BuildInv'
  BY <1>1, <1>2, Zenon DEF JInv, JobInv, ScanInv, BuildInv
<1>5. QED  BY <1>1, <1>3, <1>4, WorkerOnly

-----------------------------------------------------------------------------
(* Start-up and crash                                                      *)

\* The process is not running: nobody holds the lock and no worker is at work.
LEMMA AtRest ==
    ASSUME JType, JInv, up \in {"down", "normalize"}
    PROVE  worker = IdleWorker /\ worker.pc = "idle" /\ applied = -1 /\ lock = "free" /\ ~IsRunning
<1>1. ~IsRunning
  BY DEF IsRunning
<1>2. worker = IdleWorker /\ applied = -1
  BY <1>1, Zenon DEF JInv, ModeInv
<1>3. worker.pc = "idle"
  BY <1>2 DEF IdleWorker
<1>4. lock = "free"
  <2>1. lock \in {"free", "recover", "select", "update", "fallback"}
    BY Zenon DEF JType
  <2>2. /\ lock \in {"select", "update"} => up = "deferred"
        /\ lock = "recover" <=> up = "recover"
        /\ lock = "fallback" <=> worker.pc = "writing"
    BY Zenon DEF JInv, LockInv
  <2>3. QED  BY <1>3, <2>1, <2>2
<1>5. QED  BY <1>1, <1>2, <1>3, <1>4, Zenon

\* A step of the start-up that keeps what the live set is complete at.
LEMMA StartUp ==
    ASSUME JType, JInv, up \in {"down", "normalize"}, up' \in {"journal", "deferred", "normalize"},
           lock' = "free", request' \in BOOLEAN, records' \in Records,
           UNCHANGED <<index, pending, live, applied, worker, writer, health, crashes>>,
           manifest' \in Manifest, manifest'.target <= index, Materialized' = Materialized,
           manifest' = manifest \/ manifest'.phase \in {"none", "complete"},
           manifest'.phase \in {"none", "complete"} \/ records' = records,
           up' = "deferred" => manifest'.phase = "none",
           up' \in {"journal", "normalize"} => manifest'.phase # "none",
           up' = "normalize" => ~pending,
           ~pending => manifest'.phase = "none" \/ (manifest'.phase = "complete" /\ manifest'.target = index)
    PROVE  JType' /\ JInv' /\ Materialized <= Materialized'
<1>1. worker.pc = "idle" /\ worker = IdleWorker /\ applied = -1 /\ lock = "free"
  BY AtRest, Zenon
<1>2. JType'
  BY Zenon DEF JType
<1>3. index \in Nat
  BY PruningAssumption DEF JType
<1>4. LiveInv'
  BY Zenon DEF JInv, LiveInv, Between
<1>5. ModeInv'
  BY <1>1, Zenon DEF JInv, ModeInv, IsRunning
<1>6. AppliedInv' /\ LockInv' /\ JobInv' /\ ScanInv' /\ BuildInv'
  <2>1. AppliedInv'
    BY <1>1, <1>3 DEF AppliedInv
  <2>2. LockInv'
    BY <1>1, Zenon DEF LockInv
  <2>3. JobInv' /\ ScanInv' /\ BuildInv'
    BY <1>1, Zenon DEF JobInv, ScanInv, BuildInv
  <2>4. QED  BY <2>1, <2>2, <2>3, Zenon
<1>7. SealInv'
  BY SameSeal DEF SealInv, JInv
<1>8. Materialized <= Materialized'
  BY MaterializedType, PruningAssumption DEF JInv, JType
<1>9. QED  BY <1>2, <1>4, <1>5, <1>6, <1>7, <1>8, Zenon DEF JInv

LEMMA StartedFacts ==
    ASSUME NEW mode \in {"journal", "deferred"}, Started(mode)
    PROVE  /\ up' = mode /\ lock' = "free" /\ request' \in BOOLEAN
           /\ UNCHANGED <<applied, worker, writer, health, crashes>>
  BY DEF Started

LEMMA StartStepJ ==
    ASSUME JType, JInv, StartJournal \/ StartDeferred \/ StartNormalize \/ RemoveManifest \/ InitializeJournal
    PROVE  JType' /\ JInv' /\ Materialized <= Materialized'
<1>1. /\ manifest \in Manifest /\ manifest.target <= index /\ records \in Records /\ request \in BOOLEAN
      /\ index \in 0 .. MaxIndex /\ 0 <= index
  BY PruningAssumption DEF JType
<1>2. ASSUME UNCHANGED pointVars
      PROVE  UNCHANGED <<index, pending, live, manifest, records>> /\ Materialized' = Materialized
  BY <1>2 DEF pointVars, Materialized
<1>3. ~pending => manifest.phase = "none" \/ (manifest.phase = "complete" /\ manifest.target = index)
  BY Zenon DEF JInv, ModeInv
<1>4. CASE StartJournal
  <2>1. up = "down" /\ manifest.phase # "none" /\ Started("journal") /\ UNCHANGED pointVars
    BY <1>4 DEF StartJournal
  <2>2. up' = "journal" /\ lock' = "free" /\ request' \in BOOLEAN
        /\ UNCHANGED <<applied, worker, writer, health, crashes>>
    BY <2>1, StartedFacts, Zenon
  <2>3. QED  BY <1>1, <1>2, <1>3, <2>1, <2>2, StartUp
<1>5. CASE StartDeferred
  <2>1. up = "down" /\ manifest.phase = "none" /\ Started("deferred") /\ UNCHANGED pointVars
    BY <1>5 DEF StartDeferred
  <2>2. up' = "deferred" /\ lock' = "free" /\ request' \in BOOLEAN
        /\ UNCHANGED <<applied, worker, writer, health, crashes>>
    BY <2>1, StartedFacts, Zenon
  <2>3. QED  BY <1>1, <1>2, <1>3, <2>1, <2>2, StartUp
<1>6. CASE StartNormalize
  <2>1. /\ up = "down" /\ manifest.phase = "complete" /\ ~pending /\ up' = "normalize"
        /\ records' = NoRecords
        /\ UNCHANGED <<lock, index, pending, live, manifest, applied, request, worker, writer, health, crashes>>
    BY <1>6 DEF StartNormalize
  <2>2. lock' = "free" /\ records' \in Records /\ Materialized' = Materialized
    BY <2>1, AtRest, InitialTypes, Zenon DEF Materialized
  <2>3. QED  BY <1>1, <1>3, <2>1, <2>2, StartUp
<1>7. CASE RemoveManifest
  <2>1. /\ up = "normalize" /\ manifest' = NoManifest /\ Started("deferred")
        /\ UNCHANGED <<index, pending, live, records>>
    BY <1>7 DEF RemoveManifest
  <2>2. up' = "deferred" /\ lock' = "free" /\ request' \in BOOLEAN
        /\ UNCHANGED <<applied, worker, writer, health, crashes>>
    BY <2>1, StartedFacts, Zenon
  <2>3. manifest' \in Manifest /\ manifest'.phase = "none" /\ manifest'.target = 0
    BY <2>1, InitialTypes DEF NoManifest
  <2>4. Materialized = index /\ Materialized' = index
    BY <2>1, <2>3, Zenon DEF JInv, ModeInv, Materialized
  <2>5. QED  BY <1>1, <2>1, <2>2, <2>3, <2>4, StartUp
<1>8. CASE InitializeJournal
  <2>1. /\ up = "down" /\ manifest.phase = "none" /\ ~pending /\ manifest' = Complete(index)
        /\ Started("journal") /\ UNCHANGED <<index, pending, live, records>>
    BY <1>8 DEF InitializeJournal
  <2>2. up' = "journal" /\ lock' = "free" /\ request' \in BOOLEAN
        /\ UNCHANGED <<applied, worker, writer, health, crashes>>
    BY <2>1, StartedFacts, Zenon
  <2>3. manifest' \in Manifest /\ manifest'.phase = "complete" /\ manifest'.target = index
    BY <1>1, <2>1, InitialTypes DEF Complete
  <2>4. Materialized = index /\ Materialized' = index
    BY <2>1, <2>3 DEF Materialized
  <2>5. QED  BY <1>1, <2>1, <2>2, <2>3, <2>4, StartUp
<1>9. QED  BY <1>4, <1>5, <1>6, <1>7, <1>8

LEMMA StartRecoveryStep ==
    ASSUME JType, JInv, StartRecovery
    PROVE  JType' /\ JInv' /\ Materialized <= Materialized'
<1>1. /\ up = "down" /\ manifest.phase = "none" /\ pending /\ up' = "recover" /\ lock' = "recover"
      /\ writer' = Diff(index - 1, index)
      /\ UNCHANGED <<index, pending, live, manifest, records, applied, request, worker, health, crashes>>
  BY Zenon DEF StartRecovery, pointVars
<1>2. index \in 0 .. MaxIndex /\ index - 1 \in 0 .. MaxIndex /\ MaxIndex \in Nat
  BY <1>1, PruningAssumption DEF JType, JInv, ModeInv
<1>3. worker = IdleWorker /\ worker.pc = "idle" /\ applied = -1
  BY <1>1, AtRest, Zenon
<1>4. JType'
  BY <1>1, <1>2, DiffFacts DEF JType
<1>5. LiveInv' /\ Materialized' = Materialized
  BY <1>1, SameLive DEF JInv
<1>6. SealInv'
  BY <1>1, SameSeal DEF JInv
<1>7. Materialized = index - 1
  BY <1>1 DEF Materialized
<1>8. ModeInv' /\ AppliedInv' /\ JobInv' /\ ScanInv' /\ BuildInv'
  BY <1>1, <1>2, <1>3, Zenon DEF JInv, ModeInv, AppliedInv, JobInv, ScanInv, BuildInv, IsRunning
<1>9. LockInv'
  <2>1. \A o \in Outpoints : SetAt[index - 1][o] = SetAt[index][o] => live[o] = SetAt[index][o]
    BY <1>2, <1>7, SMTT(30) DEF JInv, LiveInv, Between
  <2>2. /\ \A o \in writer'.toRemove : SetAt[index][o] = Absent \/ o \in writer'.toAdd
        /\ \A o \in Outpoints : IF o \in writer'.toRemove \cup writer'.toAdd
                                THEN SetAt[index - 1][o] # SetAt[index][o]
                                ELSE live[o] = SetAt[index][o]
    BY <1>1, <1>2, <2>1, DiffFacts
  <2>3. QED  BY <1>1, <1>2, <1>3, <1>5, <1>7, <2>2 DEF LockInv
<1>10. QED  BY <1>2, <1>4, <1>5, <1>6, <1>7, <1>8, <1>9 DEF JInv

LEMMA CrashStep ==
    ASSUME JType, JInv, Crash
    PROVE  JType' /\ JInv' /\ Materialized <= Materialized'
<1>1. /\ crashes < MaxCrashes /\ crashes' = crashes + 1 /\ up' = "down" /\ lock' = "free" /\ writer' = NoDiff
      /\ applied' = -1 /\ request' = FALSE /\ worker' = IdleWorker /\ health' = "none"
      /\ UNCHANGED <<index, pending, live, manifest, records>>
  BY Zenon DEF Crash, pointVars
<1>2. worker'.pc = "idle" /\ index \in Nat
  BY <1>1, PruningAssumption DEF IdleWorker, JType
<1>3. JType'
  <2>1. writer' \in Diffs /\ worker' \in Worker
    BY <1>1, InitialTypes, Zenon
  <2>2. applied' \in -1 .. index' /\ crashes' \in 0 .. MaxCrashes
    BY <1>1, <1>2, JournalAssumption DEF JType
  <2>3. QED  BY <1>1, <2>1, <2>2, Zenon DEF JType
<1>4. LiveInv' /\ Materialized' = Materialized
  BY <1>1, SameLive DEF JInv
<1>5. SealInv'
  BY <1>1, SameSeal, Zenon DEF JInv
<1>6. AppliedInv' /\ LockInv' /\ JobInv' /\ ScanInv' /\ BuildInv'
  <2>1. AppliedInv'
    BY <1>1, <1>2 DEF AppliedInv
  <2>2. LockInv'
    <3>1. /\ ~(lock' # "free") /\ ~(lock' = "select") /\ ~(lock' \in {"select", "update"})
          /\ lock' # "recover" /\ up' # "recover" /\ lock' # "fallback" /\ worker'.pc # "writing"
      BY <1>1, <1>2
    <3>2. QED  BY <3>1, Zenon DEF LockInv
  <2>3. JobInv' /\ ScanInv' /\ BuildInv'
    BY <1>2 DEF JobInv, ScanInv, BuildInv
  <2>4. QED  BY <2>1, <2>2, <2>3, Zenon
<1>7. ModeInv'
  BY <1>1, <1>2, Zenon DEF JInv, ModeInv, IsRunning
<1>8. Materialized <= Materialized'
  BY <1>4, MaterializedType, PruningAssumption DEF JInv, JType
<1>9. QED  BY <1>3, <1>4, <1>5, <1>6, <1>7, <1>8, Zenon DEF JInv

\* An update is finished when the live set is that of the selected point.
LEMMA UpdateFinishes ==
    ASSUME JType, JInv, pending, live = SetAt[index], pending' = FALSE, lock' = "free",
           manifest.phase = "none" \/ (manifest.phase = "complete" /\ manifest.target = index),
           UNCHANGED <<index, live, manifest, records, applied, request, writer, health, crashes>>,
           worker' \in Worker, worker'.pc \in {"idle", "finished"},
           worker'.pc = "finished" => up' = "journal",
           up' \in {"journal", "deferred", "down"}, up' # "down" => up' = up,
           up' = "down" => worker' = IdleWorker /\ applied = -1
    PROVE  JType' /\ JInv' /\ Materialized' = index /\ Materialized <= Materialized'
<1>1. Materialized' = index
  BY DEF Materialized
<1>2. JType'
  BY Zenon DEF JType
<1>3. LiveInv'
  BY <1>1 DEF LiveInv
<1>4. ModeInv' /\ AppliedInv' /\ LockInv' /\ JobInv' /\ ScanInv' /\ BuildInv' /\ SealInv'
  BY Zenon DEF JInv, ModeInv, AppliedInv, LockInv, JobInv, ScanInv, BuildInv, SealInv, IsRunning
<1>5. Materialized <= Materialized'
  <2>1. Materialized \in 0 .. index
    BY MaterializedType, Zenon DEF JInv
  <2>2. index \in Nat
    BY PruningAssumption DEF JType
  <2>3. QED  BY <1>1, <2>1, <2>2, SMTT(30)
<1>6. QED  BY <1>1, <1>2, <1>3, <1>4, <1>5 DEF JInv

\* Recovery finishes: what the writer holds no more is in the live set, so the check of
\* the commitment does not fail.
LEMMA EndRecoveryWriteStep ==
    ASSUME JType, JInv, EndRecoveryWrite
    PROVE  /\ JType' /\ JInv' /\ Materialized <= Materialized'
           /\ FinishUpdate(index) /\ pending /\ Materialized' = index /\ index' = index
           /\ faults' = faults
<1>1. /\ lock = "recover" /\ writer = NoDiff /\ lock' = "free"
      /\ UNCHANGED <<faults, index, live, manifest, records, applied, request, worker, writer, health, crashes>>
  BY DEF EndRecoveryWrite, HasWritten
<1>2. live = SetAt[index] /\ pending
  BY <1>1, Written
<1>3. FinishUpdate(index) /\ up' = "down" /\ pending' = FALSE
  BY <1>2, Zenon DEF EndRecoveryWrite, FinishUpdate
<1>4. up = "recover" /\ manifest.phase = "none" /\ worker = IdleWorker /\ applied = -1
  BY <1>1, Zenon DEF JInv, LockInv, ModeInv, IsRunning
<1>5. worker' \in Worker /\ worker'.pc = "idle" /\ worker' = IdleWorker
  BY <1>1, <1>4, InitialTypes, Zenon DEF IdleWorker
<1>6. QED  BY <1>1, <1>2, <1>3, <1>4, <1>5, UpdateFinishes, Zenon

\* The end of a scan: the result is dropped, or it matches and the update is finished.
LEMMA CloseScanStep ==
    ASSUME JType, JInv, CloseScan
    PROVE  /\ JType' /\ JInv' /\ Materialized <= Materialized'
           /\ \/ UNCHANGED historyVars /\ pending' = pending
              \/ FinishUpdate(index) /\ pending /\ Materialized' = index
           /\ index' = index /\ faults' = faults
<1>1. /\ worker.pc = "hash" /\ IsRunning /\ lock = "free"
      /\ UNCHANGED <<lock, faults, index, live, manifest, records, applied, request, writer, health, crashes>>
  BY Zenon DEF CloseScan, LockIsFree
<1>2. /\ pending
      /\ up = "journal" => manifest.phase = "complete" /\ manifest.target = worker.point
      /\ worker.fresh => worker.set = live /\ live = SetAt[worker.point]
  BY <1>1, Zenon DEF JInv, ScanInv
<1>3. applied' \in -1 .. index /\ request' \in BOOLEAN
  BY <1>1, Zenon DEF JType
<1>4. CASE index # worker.point \/ ~worker.fresh
  <2>1. AfterScan /\ UNCHANGED <<historyVars, pending, up>>
    BY <1>4, Zenon DEF CloseScan
  <2>2. UNCHANGED pointVars
    BY <1>1, <2>1, Zenon DEF pointVars
  <2>3. QED  BY <1>1, <1>3, <2>1, <2>2, AfterScanFacts, WorkerRests, Zenon
<1>5. CASE ~(index # worker.point \/ ~worker.fresh)
  <2>1. live = SetAt[index] /\ worker.set = SetAt[worker.point] /\ worker.point = index
    BY <1>2, <1>5
  <2>2. FinishUpdate(index) /\ AfterScan /\ up' = up /\ pending' = FALSE
    BY <1>5, <2>1, Zenon DEF CloseScan, FinishUpdate
  <2>3. /\ manifest.phase = "none" \/ (manifest.phase = "complete" /\ manifest.target = index)
        /\ up \in {"journal", "deferred"}
    BY <1>1, <1>2, <2>1 DEF JInv, ModeInv, IsRunning
  <2>4. /\ worker' \in Worker /\ worker'.pc \in {"idle", "finished"}
        /\ worker'.pc = "finished" => up' = "journal"
        /\ up' \in {"journal", "deferred", "down"} /\ up' # "down"
    BY <2>2, <2>3, AfterScanFacts
  <2>5. JType' /\ JInv' /\ Materialized' = index /\ Materialized <= Materialized'
    BY <1>1, <1>2, <2>1, <2>2, <2>3, <2>4, UpdateFinishes, Zenon
  <2>6. QED  BY <1>1, <1>2, <2>2, <2>5, Zenon
<1>6. QED  BY <1>4, <1>5, SMTT(30)

\* Health checks and the history's own steps leave the journal alone.
LEMMA JournalUnchanged ==
    ASSUME JType, JInv, UNCHANGED <<up, lock, pointVars, applied, request, worker, writer, crashes>>,
           health' \in {"none", "open", "match", "mismatch", "refuted"}
    PROVE  JType' /\ JInv' /\ Materialized <= Materialized'
<1>1. UNCHANGED <<index, pending, live, manifest, records>>
  BY Zenon DEF pointVars
<1>2. JType'
  BY <1>1 DEF JType
<1>3. LiveInv' /\ Materialized' = Materialized
  BY <1>1, SameLive DEF JInv
<1>4. SealInv'
  BY <1>1, SameSeal DEF JInv
<1>5. ModeInv' /\ AppliedInv' /\ LockInv' /\ JobInv' /\ ScanInv' /\ BuildInv'
  <2>1. ModeInv' /\ AppliedInv' /\ LockInv'
    BY <1>1, <1>3, Zenon DEF JInv, ModeInv, AppliedInv, LockInv, IsRunning
  <2>2. JobInv' /\ ScanInv' /\ BuildInv'
    BY <1>1, <1>3, Zenon DEF JInv, JobInv, ScanInv, BuildInv
  <2>3. QED  BY <2>1, <2>2
<1>6. Materialized <= Materialized'
  BY <1>3, MaterializedType, PruningAssumption DEF JInv, JType
<1>7. QED  BY <1>2, <1>3, <1>4, <1>5, <1>6 DEF JInv

-----------------------------------------------------------------------------
(* The deletion of history                                                 *)

\* A batch is the lower end of what is left of the plan.
LEMMA BatchFacts ==
    ASSUME HistoryTypeOK
    PROVE  /\ Batch \in SUBSET owner.plan
           /\ \A b \in Batch : \A c \in owner.plan : c <= b => c \in Batch
<1>1. owner.plan \subseteq Int
  <2>1. Span * MaxIndex \in Int
    BY PruningAssumption
  <2>2. QED  BY <2>1 DEF HistoryTypeOK, Blocks
<1>2. ASSUME NEW b \in Batch, NEW c \in owner.plan, c <= b
      PROVE  c \in Batch
  BY <1>1, <1>2, PruningAssumption DEF Batch
<1>3. QED  BY <1>2 DEF Batch

\* As deletion goes from the bottom up, the walk of a job finds all that is left of it.
LEMMA PlanFacts ==
    ASSUME HistoryTypeOK, NEW i \in 0 .. MaxIndex,
           \A b \in stored : \A c \in Blocks : b <= c => c \in stored
    PROVE  PlanHistoryDeletion(stored, i) = Deletable(i)
<1> DEFINE point == PruningPoint(i)
           keep  == CalculateBlocksToKeep(point)
<1>1. point \in Nat /\ point \in Blocks /\ Window \in Nat
  BY PointsOrdered, PruningAssumption
<1>2. Blocks \subseteq Nat /\ 0 .. point \subseteq Blocks /\ stored \subseteq Blocks
  <2>1. Span * MaxIndex \in Nat
    BY PruningAssumption
  <2>2. QED  BY <1>1, <2>1 DEF Blocks, HistoryTypeOK
<1>3. PlanHistoryDeletion(stored, i) =
        {b \in (0 .. (point - 1)) \ keep : \A c \in b .. (point - 1) : c \in stored \cup keep}
  BY DEF PlanHistoryDeletion
<1>4. keep = {b \in Blocks : point - Window <= b /\ b <= point}
  BY DEF CalculateBlocksToKeep
<1>5. Deletable(i) = {b \in stored : b < point - Window}
  BY DEF Deletable
<1> HIDE DEF point, keep
<1>6. ASSUME NEW b \in Deletable(i)
      PROVE  b \in PlanHistoryDeletion(stored, i)
  <2>1. b \in stored /\ b \in Nat /\ b < point - Window
    BY <1>2, <1>5, Zenon
  <2>2. b \in 0 .. (point - 1) /\ b \notin keep
    BY <1>1, <1>4, <2>1
  <2>3. ASSUME NEW c \in b .. (point - 1)
        PROVE  c \in stored
    BY <1>1, <1>2, <2>1
  <2>4. QED  BY <1>3, <2>2, <2>3
<1>7. ASSUME NEW b \in PlanHistoryDeletion(stored, i)
      PROVE  b \in Deletable(i)
  <2>1. b \in 0 .. (point - 1) /\ b \notin keep /\ \A c \in b .. (point - 1) : c \in stored \cup keep
    BY <1>3
  <2>2. b \in b .. (point - 1) /\ b \in Blocks
    BY <1>1, <1>2, <2>1
  <2>3. b \in stored /\ b < point - Window
    BY <1>1, <1>2, <1>4, <2>1, <2>2
  <2>4. QED  BY <1>5, <2>3
<1>8. QED  BY <1>6, <1>7, <1>3, <1>5

\* What is deletable for a point is deletable for the points above it.
LEMMA DeletableOrdered ==
    ASSUME NEW i \in 0 .. MaxIndex, NEW j \in 0 .. MaxIndex, i <= j, NEW b \in Int,
           b < PruningPoint(i) - Window
    PROVE  b < PruningPoint(j) - Window
<1>1. PruningPoint(i) \in Nat /\ PruningPoint(j) \in Nat /\ PruningPoint(i) <= PruningPoint(j)
  BY PointsOrdered
<1>2. QED  BY <1>1, PruningAssumption

\* Blocks are numbers.
LEMMA BlocksAreNumbers ==
    ASSUME HistoryTypeOK
    PROVE  /\ Blocks \subseteq Nat /\ stored \subseteq Nat /\ mask \subseteq Nat
           /\ stored \subseteq Blocks /\ mask \subseteq Blocks /\ jobs \subseteq 0 .. MaxIndex
<1>1. Blocks \subseteq Nat
  BY PruningAssumption DEF Blocks
<1>2. stored \subseteq Blocks /\ mask \subseteq Blocks /\ jobs \subseteq 1 .. MaxIndex
  BY Zenon DEF HistoryTypeOK
<1>3. 1 .. MaxIndex \subseteq 0 .. MaxIndex
  BY PruningAssumption
<1>4. QED  BY <1>1, <1>2, <1>3, Zenon

\* Where the history is left alone, a set that is complete further on keeps its invariant.
LEMMA HistoryUnchanged ==
    ASSUME HistoryTypeOK, StoredInv, PlanInv, UNCHANGED historyVars,
           Materialized \in 0 .. MaxIndex, Materialized' \in 0 .. MaxIndex,
           Materialized <= Materialized'
    PROVE  StoredInv' /\ PlanInv'
<1>1. UNCHANGED <<stored, jobs, mask, cached, owner>> /\ Batch' = Batch
  BY Zenon DEF historyVars, Batch
<1>2. \A j \in 0 .. MaxIndex : j <= Materialized => j <= Materialized'
  OBVIOUS
<1>3. jobs \subseteq 0 .. MaxIndex /\ owner.job \in 0 .. MaxIndex
  BY BlocksAreNumbers DEF HistoryTypeOK
<1>4. StoredInv'
  <2>1. PruningPoint(Materialized') \in Blocks /\ PruningPoint(Materialized) <= PruningPoint(Materialized')
    BY PointsOrdered
  <2>2. PruningPoint(Materialized') \in stored
    BY <2>1 DEF StoredInv
  <2>3. QED  BY <1>1, <1>2, <1>3, <2>2, Zenon DEF StoredInv, PruningPoint
<1>5. PlanInv'
  <2>1. Materialized' .. MaxIndex \subseteq Materialized .. MaxIndex
    BY PruningAssumption
  <2>2. \A j : Deletable(j)' = Deletable(j)
    BY <1>1, Zenon DEF Deletable
  <2>3. QED  BY <1>1, <1>2, <1>3, <2>1, <2>2, Zenon DEF PlanInv, PruningPoint
<1>6. QED  BY <1>4, <1>5

\* The owner has no plan: what is hidden and cached can only have become less.
LEMMA OwnerRests ==
    ASSUME HistoryTypeOK, StoredInv, PlanInv, Materialized \in 0 .. MaxIndex,
           Materialized' = Materialized, UNCHANGED <<stored, jobs>>,
           mask' \subseteq mask, cached' \subseteq cached \cap stored,
           reader' \in ReadBlocks \cup {NoBlock}, faults' \in 0 .. MaxFaults,
           owner' \in [pc : {"none", "idle", "jobs"}, request : BOOLEAN, retry : BOOLEAN,
                       job : 0 .. MaxIndex, plan : SUBSET Blocks]
    PROVE  HistoryTypeOK' /\ StoredInv' /\ PlanInv'
  BY DEF HistoryTypeOK, StoredInv, PlanInv

\* The parts of the owner's state.
LEMMA OwnerType ==
    ASSUME HistoryTypeOK
    PROVE  /\ owner.pc \in {"none", "idle", "jobs", "publish", "batch", "evict", "retire"}
           /\ owner.request \in BOOLEAN /\ owner.retry \in BOOLEAN /\ owner.job \in 0 .. MaxIndex
           /\ owner.plan \in SUBSET Blocks
           /\ owner = [pc |-> owner.pc, request |-> owner.request, retry |-> owner.retry,
                       job |-> owner.job, plan |-> owner.plan]
  BY Zenon DEF HistoryTypeOK

LEMMA OwnerIdlesStep ==
    ASSUME HistoryTypeOK, StoredInv, PlanInv, Materialized \in 0 .. MaxIndex,
           Materialized' = Materialized,
           RunHistoryDeletionJobs \/ NoJobIsLeft \/ FailHistoryBatch \/ RemoveMask
    PROVE  HistoryTypeOK' /\ StoredInv' /\ PlanInv'
<1>1. owner.pc # "evict" /\ UNCHANGED <<stored, jobs, cached, reader>> /\ mask' \subseteq mask
  BY DEF RunHistoryDeletionJobs, NoJobIsLeft, FailHistoryBatch, RemoveMask
<1>2. cached' \subseteq cached \cap stored
  BY <1>1, Zenon DEF StoredInv
<1>3. reader' \in ReadBlocks \cup {NoBlock}
  BY <1>1 DEF HistoryTypeOK
<1>4. faults' \in 0 .. MaxFaults
  BY PruningAssumption DEF HistoryTypeOK, RunHistoryDeletionJobs, NoJobIsLeft, FailHistoryBatch, RemoveMask
<1>5. owner' \in [pc : {"none", "idle", "jobs"}, request : BOOLEAN, retry : BOOLEAN,
                  job : 0 .. MaxIndex, plan : SUBSET Blocks]
  <2>1. 0 \in 0 .. MaxIndex
    BY PruningAssumption
  <2>2. CASE RunHistoryDeletionJobs
    BY <2>2, OwnerType, Zenon DEF RunHistoryDeletionJobs
  <2>3. CASE NoJobIsLeft
    BY <2>3, OwnerType, Zenon DEF NoJobIsLeft
  <2>4. CASE FailHistoryBatch
    BY <2>4, OwnerType, Zenon DEF FailHistoryBatch
  <2>5. CASE RemoveMask
    BY <2>1, <2>5, OwnerType, Zenon DEF RemoveMask
  <2>6. QED  BY <2>2, <2>3, <2>4, <2>5
<1>6. QED  BY <1>1, <1>2, <1>3, <1>4, <1>5, OwnerRests

\* The start-up and the crash leave the owner without a plan.
LEMMA OwnerResets ==
    ASSUME HistoryTypeOK, StoredInv, PlanInv, Materialized \in 0 .. MaxIndex,
           Materialized' = Materialized, faults' \in 0 .. MaxFaults,
           LoseOwner \/ (owner.pc = "none" /\ \E enabled \in BOOLEAN : ResumeHistoryDeletion(enabled))
    PROVE  HistoryTypeOK' /\ StoredInv' /\ PlanInv'
<1>1. 0 \in 0 .. MaxIndex
  BY PruningAssumption
<1>2. CASE LoseOwner
  <2>1. owner' = NoOwner /\ mask' = {} /\ cached' = {} /\ reader' = NoBlock /\ UNCHANGED <<stored, jobs>>
    BY <1>2 DEF LoseOwner
  <2>2. owner' \in [pc : {"none", "idle", "jobs"}, request : BOOLEAN, retry : BOOLEAN,
                    job : 0 .. MaxIndex, plan : SUBSET Blocks]
    BY <1>1, <2>1, Zenon DEF NoOwner
  <2>3. QED  BY <2>1, <2>2, OwnerRests
<1>3. ASSUME NEW enabled \in BOOLEAN, ResumeHistoryDeletion(enabled), owner.pc = "none"
      PROVE  HistoryTypeOK' /\ StoredInv' /\ PlanInv'
  <2>1. /\ owner' = [NoOwner EXCEPT !.pc = IF enabled THEN "idle" ELSE "none", !.request = enabled]
        /\ UNCHANGED <<stored, jobs, mask, cached, reader>>
    BY <1>3, Zenon DEF ResumeHistoryDeletion
  <2>2. owner' \in [pc : {"none", "idle", "jobs"}, request : BOOLEAN, retry : BOOLEAN,
                    job : 0 .. MaxIndex, plan : SUBSET Blocks]
    BY <1>1, <2>1, Zenon DEF NoOwner
  <2>3. cached' \subseteq cached \cap stored
    BY <1>3, <2>1 DEF StoredInv
  <2>4. reader' \in ReadBlocks \cup {NoBlock}
    BY <2>1 DEF HistoryTypeOK
  <2>5. QED  BY <2>1, <2>2, <2>3, <2>4, OwnerRests
<1>4. QED  BY <1>2, <1>3

LEMMA PlanHistoryDeletionStep ==
    ASSUME HistoryTypeOK, StoredInv, PlanInv, Materialized \in 0 .. MaxIndex,
           Materialized' = Materialized, PlanHistoryDeletionOnSnapshot
    PROVE  HistoryTypeOK' /\ StoredInv' /\ PlanInv'
<1>1. PICK job \in jobs :
        /\ \A other \in jobs : job <= other
        /\ owner' = [owner EXCEPT !.pc = "publish", !.job = job,
                                  !.plan = PlanHistoryDeletion(stored, job)]
  BY Zenon DEF PlanHistoryDeletionOnSnapshot
<1>2. owner.pc = "jobs" /\ UNCHANGED <<stored, jobs, mask, cached, reader, faults>>
  BY DEF PlanHistoryDeletionOnSnapshot
<1>3. job \in 0 .. MaxIndex /\ job <= Materialized
  BY BlocksAreNumbers DEF StoredInv
<1>4. PlanHistoryDeletion(stored, job) = Deletable(job) /\ Deletable(job) \in SUBSET Blocks
  <2>1. PlanHistoryDeletion(stored, job) = Deletable(job)
    BY <1>3, PlanFacts DEF StoredInv
  <2>2. QED  BY <2>1, BlocksAreNumbers, Zenon DEF Deletable
<1>5. /\ owner' = [pc |-> "publish", request |-> owner.request, retry |-> owner.retry,
                   job |-> job, plan |-> Deletable(job)]
  BY <1>1, <1>4, OwnerType, Zenon
<1>6. owner'.pc = "publish" /\ owner'.job = job /\ owner'.plan = Deletable(job)
  BY <1>5, Zenon
<1>7. HistoryTypeOK'
  <2>1. owner' \in [pc : {"none", "idle", "jobs", "publish", "batch", "evict", "retire"},
                    request : BOOLEAN, retry : BOOLEAN, job : 0 .. MaxIndex, plan : SUBSET Blocks]
    BY <1>3, <1>4, <1>5, OwnerType
  <2>2. QED  BY <1>2, <2>1, Zenon DEF HistoryTypeOK
<1>8. StoredInv'
  BY <1>2, <1>6 DEF StoredInv
<1>9. PlanInv'
  <2>1. Deletable(job)' = Deletable(job)
    BY <1>2 DEF Deletable
  <2>2. QED  BY <1>1, <1>2, <1>3, <1>6, <2>1 DEF PlanInv, Deletable
<1>10. QED  BY <1>7, <1>8, <1>9

LEMMA PublishMaskStep ==
    ASSUME HistoryTypeOK, StoredInv, PlanInv, Materialized \in 0 .. MaxIndex,
           Materialized' = Materialized, PublishMask
    PROVE  HistoryTypeOK' /\ StoredInv' /\ PlanInv'
<1>1. /\ owner.pc = "publish" /\ mask' = owner.plan /\ owner' = [owner EXCEPT !.pc = "batch"]
      /\ UNCHANGED <<stored, jobs, cached, reader, faults>>
  BY DEF PublishMask
<1>2. /\ owner'.pc = "batch" /\ owner'.job = owner.job /\ owner'.plan = owner.plan
      /\ owner' \in [pc : {"none", "idle", "jobs", "publish", "batch", "evict", "retire"},
                     request : BOOLEAN, retry : BOOLEAN, job : 0 .. MaxIndex, plan : SUBSET Blocks]
  BY <1>1, OwnerType
<1>3. HistoryTypeOK'
  BY <1>1, <1>2, OwnerType DEF HistoryTypeOK
<1>4. StoredInv'
  BY <1>1, <1>2 DEF StoredInv
<1>5. /\ owner.job <= Materialized /\ (\A j \in jobs : owner.job <= j)
      /\ owner.plan = Deletable(owner.job)
  BY <1>1 DEF PlanInv
<1>6. ASSUME NEW b \in mask', NEW j \in jobs \cup (Materialized .. MaxIndex)
      PROVE  b < PruningPoint(j) - Window
  <2>1. b \in Int /\ b < PruningPoint(owner.job) - Window
    BY <1>1, <1>5, BlocksAreNumbers DEF Deletable
  <2>2. owner.job \in 0 .. MaxIndex /\ j \in 0 .. MaxIndex /\ owner.job <= j
    BY <1>5, OwnerType, BlocksAreNumbers, PruningAssumption
  <2>3. QED  BY <2>1, <2>2, DeletableOrdered
<1>7. Deletable(owner.job)' = Deletable(owner.job)
  BY <1>1, <1>2 DEF Deletable
<1>8. PlanInv'
  BY <1>1, <1>2, <1>5, <1>6, <1>7 DEF PlanInv
<1>9. QED  BY <1>3, <1>4, <1>8

LEMMA DeleteHistoryBatchStep ==
    ASSUME HistoryTypeOK, StoredInv, PlanInv, Materialized \in 0 .. MaxIndex,
           Materialized' = Materialized, DeleteHistoryBatch
    PROVE  HistoryTypeOK' /\ StoredInv' /\ PlanInv'
<1>1. /\ owner.pc = "batch" /\ stored' = stored \ Batch /\ jobs' \subseteq jobs
      /\ owner' = [owner EXCEPT !.pc = "evict"] /\ UNCHANGED <<mask, cached, reader, faults>>
  BY DEF DeleteHistoryBatch
<1>2. /\ owner'.pc = "evict" /\ owner'.job = owner.job /\ owner'.plan = owner.plan
      /\ owner' \in [pc : {"none", "idle", "jobs", "publish", "batch", "evict", "retire"},
                     request : BOOLEAN, retry : BOOLEAN, job : 0 .. MaxIndex, plan : SUBSET Blocks]
  BY <1>1, OwnerType, Zenon
<1>3. Batch' = Batch
  BY <1>2 DEF Batch
<1>4. HistoryTypeOK'
  BY <1>1, <1>2 DEF HistoryTypeOK
<1>5. /\ owner.job <= Materialized /\ (\A j \in jobs : owner.job <= j)
      /\ owner.plan = Deletable(owner.job) /\ mask \cap stored \subseteq Deletable(owner.job)
  BY <1>1 DEF PlanInv
<1>6. \A b \in Deletable(owner.job) : b \in stored /\ b \in Nat /\ b < PruningPoint(owner.job) - Window
  BY BlocksAreNumbers DEF Deletable
<1>7. ASSUME NEW b \in stored', NEW c \in Blocks, b <= c
      PROVE  c \in stored'
  <2>1. b \in stored /\ b \notin Batch /\ c \in stored /\ b \in Nat /\ c \in Nat
    BY <1>1, <1>7, BlocksAreNumbers DEF StoredInv
  <2>2. ASSUME c \in Batch
        PROVE  FALSE
    <3>1. c \in Deletable(owner.job)
      BY <1>5, <2>2, BatchFacts
    <3>2. PruningPoint(owner.job) - Window \in Int
      BY OwnerType, PointsOrdered, PruningAssumption
    <3>3. b < PruningPoint(owner.job) - Window
      BY <1>6, <1>7, <2>1, <3>1, <3>2
    <3>4. b \in owner.plan
      BY <1>5, <2>1, <3>3 DEF Deletable
    <3>5. QED  BY <1>7, <2>1, <2>2, <3>4, BatchFacts
  <2>3. QED  BY <1>1, <2>1, <2>2
<1>8. PruningPoint(Materialized) \in stored'
  <2>1. PruningPoint(Materialized) \in stored
    BY Zenon DEF StoredInv
  <2>2. PruningPoint(owner.job) \in Nat /\ PruningPoint(Materialized) \in Nat
        /\ PruningPoint(owner.job) <= PruningPoint(Materialized)
    BY <1>5, OwnerType, PointsOrdered, Zenon
  <2>3. PruningPoint(Materialized) \notin Deletable(owner.job)
    BY <1>6, <2>2, PruningAssumption
  <2>4. QED  BY <1>1, <1>5, <2>1, <2>3, BatchFacts
<1>9. StoredInv'
  BY <1>1, <1>2, <1>3, <1>7, <1>8 DEF StoredInv
<1>10. owner.plan \ Batch = Deletable(owner.job)'
  BY <1>1, <1>2, <1>5 DEF Deletable
<1>11. mask \cap stored' \subseteq Deletable(owner.job)'
  BY <1>1, <1>2, <1>5 DEF Deletable
<1>12. PlanInv'
  BY <1>1, <1>2, <1>3, <1>5, <1>10, <1>11 DEF PlanInv
<1>13. QED  BY <1>4, <1>9, <1>12

LEMMA EvictDeletedStep ==
    ASSUME HistoryTypeOK, StoredInv, PlanInv, Materialized \in 0 .. MaxIndex,
           Materialized' = Materialized, EvictDeleted
    PROVE  HistoryTypeOK' /\ StoredInv' /\ PlanInv'
<1> DEFINE pc == IF IsLastBatch THEN "retire" ELSE "batch"
<1>1. /\ owner.pc = "evict" /\ cached' = cached \ Batch
      /\ owner' = [owner EXCEPT !.pc = pc, !.plan = @ \ Batch]
      /\ UNCHANGED <<stored, jobs, mask, reader, faults>>
  BY DEF EvictDeleted
<1>2. pc \in {"retire", "batch"} /\ (pc = "retire" => Batch = owner.plan)
  BY Zenon DEF IsLastBatch
<1> HIDE DEF pc
<1>3. /\ owner'.pc = pc /\ owner'.job = owner.job /\ owner'.plan = owner.plan \ Batch
      /\ owner' \in [pc : {"none", "idle", "jobs", "publish", "batch", "evict", "retire"},
                     request : BOOLEAN, retry : BOOLEAN, job : 0 .. MaxIndex, plan : SUBSET Blocks]
  <2>1. owner' = [pc |-> pc, request |-> owner.request, retry |-> owner.retry, job |-> owner.job,
                  plan |-> owner.plan \ Batch]
    BY <1>1, OwnerType, Zenon
  <2>2. owner.plan \ Batch \in SUBSET Blocks
    BY OwnerType
  <2>3. QED  BY <1>2, <2>1, <2>2, OwnerType
<1>4. HistoryTypeOK'
  BY <1>1, <1>3 DEF HistoryTypeOK
<1>5. StoredInv'
  BY <1>1, <1>2, <1>3 DEF StoredInv
<1>6. /\ owner.job <= Materialized /\ (\A j \in jobs : owner.job <= j)
      /\ owner.plan \ Batch = Deletable(owner.job) /\ mask \cap stored \subseteq Deletable(owner.job)
  BY <1>1 DEF PlanInv
<1>7. Deletable(owner.job)' = Deletable(owner.job)
  BY <1>1, <1>3 DEF Deletable
<1>8. pc = "retire" => mask \cap stored = {}
  BY <1>2, <1>6
<1>9. PlanInv'
  BY <1>1, <1>2, <1>3, <1>6, <1>7, <1>8 DEF PlanInv
<1>10. QED  BY <1>4, <1>5, <1>9

\* A reader adds at most a stored block to the caches.
LEMMA ReadersStep ==
    ASSUME HistoryTypeOK, StoredInv, PlanInv, Materialized \in 0 .. MaxIndex,
           Materialized' = Materialized,
           ReturnBlock \/ \E b \in ReadBlocks : ReadBlock(b) \/ FindBlock(b)
    PROVE  HistoryTypeOK' /\ StoredInv' /\ PlanInv'
<1>1. /\ UNCHANGED <<stored, jobs, mask, owner, faults>> /\ cached' \subseteq cached \cup stored
      /\ reader' \in ReadBlocks \cup {NoBlock}
  BY Zenon DEF ReturnBlock, ReadBlock, FindBlock, HistoryTypeOK
<1>2. Batch' = Batch
  BY <1>1, Zenon DEF Batch
<1>3. HistoryTypeOK'
  BY <1>1, Zenon DEF HistoryTypeOK
<1>4. StoredInv'
  BY <1>1, <1>2, Zenon DEF StoredInv
<1>5. \A i : Deletable(i)' = Deletable(i)
  BY <1>1, Zenon DEF Deletable
<1>6. PlanInv'
  BY <1>1, <1>2, <1>5, Zenon DEF PlanInv
<1>7. QED  BY <1>3, <1>4, <1>6, Zenon

\* The finish of an update records the job of the selected point, or deletes its history.
LEMMA FinishStep ==
    ASSUME HistoryTypeOK, StoredInv, PlanInv, Materialized \in 0 .. MaxIndex,
           index \in 1 .. MaxIndex, Materialized <= index, Materialized' = index,
           FinishUpdate(index), faults' = faults
    PROVE  HistoryTypeOK' /\ StoredInv' /\ PlanInv'
<1>1. \/ UNCHANGED historyVars
      \/ owner.pc # "none" /\ RecordHistoryDeletion(index)
      \/ owner.pc = "none" /\ DeletePastBlocks(index)
  BY Zenon DEF FinishUpdate
<1>2. index \in 0 .. MaxIndex /\ MaxIndex \in Nat
  BY PruningAssumption
<1>3. PruningPoint(index) \in stored
  BY <1>2, PointsOrdered DEF StoredInv
<1>4. index .. MaxIndex \subseteq Materialized .. MaxIndex /\ index \in Materialized .. MaxIndex
  BY <1>2
<1>5. CASE UNCHANGED historyVars
  <2>1. HistoryTypeOK'
    BY <1>5 DEF historyVars, HistoryTypeOK
  <2>2. QED  BY <1>2, <1>5, <2>1, HistoryUnchanged, Zenon
<1>6. CASE RecordHistoryDeletion(index)
  <2>1. /\ jobs' = jobs \cup {index} /\ owner' = [owner EXCEPT !.request = TRUE]
        /\ UNCHANGED <<stored, mask, cached, reader>>
    BY <1>6 DEF RecordHistoryDeletion
  <2>2. /\ owner'.pc = owner.pc /\ owner'.job = owner.job /\ owner'.plan = owner.plan
        /\ owner' \in [pc : {"none", "idle", "jobs", "publish", "batch", "evict", "retire"},
                       request : BOOLEAN, retry : BOOLEAN, job : 0 .. MaxIndex, plan : SUBSET Blocks]
    BY <2>1, OwnerType, Zenon
  <2>3. HistoryTypeOK'
    BY <2>1, <2>2, Zenon DEF HistoryTypeOK
  <2>4. Batch' = Batch
    BY <2>2 DEF Batch
  <2>5. \A j \in jobs' : j <= index
    <3>1. \A j \in jobs : j <= Materialized /\ j \in 0 .. MaxIndex
      BY BlocksAreNumbers DEF StoredInv
    <3>2. QED  BY <1>2, <2>1, <3>1
  <2>6. StoredInv'
    BY <1>3, <2>1, <2>2, <2>4, <2>5 DEF StoredInv
  <2>7. Deletable(owner.job)' = Deletable(owner.job)
    BY <2>1, <2>2 DEF Deletable
  <2>8. owner.job <= Materialized => owner.job <= index
    BY <1>2, OwnerType
  <2>9. PlanInv'
    BY <1>4, <2>1, <2>2, <2>4, <2>7, <2>8 DEF PlanInv
  <2>10. QED  BY <2>3, <2>6, <2>9
<1>7. CASE owner.pc = "none" /\ DeletePastBlocks(index)
  <2>1. PlanHistoryDeletion(stored, index) = Deletable(index)
    BY <1>2, PlanFacts DEF StoredInv
  <2>2. /\ stored' = stored \ Deletable(index) /\ cached' = cached \ Deletable(index)
        /\ UNCHANGED <<jobs, mask, reader, owner>>
    BY <1>7, <2>1, Zenon DEF DeletePastBlocks
  <2>3. HistoryTypeOK'
    BY <2>2, Zenon DEF HistoryTypeOK
  <2>4. PruningPoint(index) \in Nat /\ Window \in Nat
    BY <1>2, PointsOrdered, PruningAssumption, Zenon
  <2>5. PruningPoint(index) \in stored'
    BY <1>3, <2>2, <2>4 DEF Deletable
  <2>6. ASSUME NEW b \in stored', NEW c \in Blocks, b <= c
        PROVE  c \in stored'
    BY <2>2, <2>6, <2>4, BlocksAreNumbers DEF StoredInv, Deletable
  <2>7. \A j \in jobs' : j <= index
    <3>1. \A j \in jobs : j <= Materialized /\ j \in 0 .. MaxIndex
      BY BlocksAreNumbers DEF StoredInv
    <3>2. QED  BY <1>2, <2>2, <3>1, SMTT(30)
  <2>8. StoredInv'
    BY <1>7, <2>2, <2>5, <2>6, <2>7, Zenon DEF StoredInv
  <2>9. PlanInv'
    BY <1>4, <1>7, <2>2 DEF PlanInv
  <2>10. QED  BY <2>3, <2>8, <2>9
<1>8. QED  BY <1>1, <1>5, <1>6, <1>7

-----------------------------------------------------------------------------
(* Every step                                                              *)

\* What a step does to the selected point and the flag.
PointStep ==
    \/ index' = index /\ pending' = pending
    \/ index' = index /\ pending /\ pending' = FALSE
    \/ index' = index + 1 /\ pending' = TRUE /\ index < MaxIndex

\* What a step does to the history.
HistoryStep ==
    \/ UNCHANGED historyVars
    \/ FinishUpdate(index) /\ pending /\ Materialized' = index /\ faults' = faults
    \/ HistoryNext /\ Materialized' = Materialized
    \/ LoseOwner /\ ~IsRunning' /\ Materialized' = Materialized
    \/ /\ ~IsRunning /\ IsRunning' /\ Materialized' = Materialized
       /\ \E enabled \in BOOLEAN : ResumeHistoryDeletion(enabled)

\* What every step keeps or does.
Step ==
    /\ JType' /\ JInv' /\ Materialized <= Materialized'
    /\ faults' \in 0 .. MaxFaults /\ PointStep /\ HistoryStep
    /\ health' \in {health, "none"} \/ HealthStep
    /\ IsRunning /\ ~IsRunning' => LoseOwner

\* A step of the journal or of a block insertion leaves the history and the mode alone.
Quiet ==
    /\ UNCHANGED <<historyVars, up, health>>
    /\ faults' \in 0 .. MaxFaults /\ PointStep

LEMMA QuietStep ==
    ASSUME Quiet, JType' /\ JInv' /\ Materialized <= Materialized'
    PROVE  Step
  BY DEF Quiet, Step, HistoryStep, IsRunning

LEMMA FaultsFacts ==
    ASSUME HistoryTypeOK
    PROVE  /\ faults \in 0 .. MaxFaults
           /\ faults < MaxFaults /\ faults' = faults + 1 => faults' \in 0 .. MaxFaults
  BY PruningAssumption DEF HistoryTypeOK

LEMMA WorkerIsQuiet ==
    ASSUME HistoryTypeOK,
           \/ TakeRequest \/ CaptureJournalJob \/ BeginJob \/ JournalDiskFallback \/ WaitForDisk
           \/ AdoptSynchronousMove \/ DeriveDiff \/ ClearBatch \/ EndClear \/ BuildBatch \/ SealJob
           \/ ApplyBatch \/ AdmitScan \/ OpenScan \/ ClearFinishedJournal \/ EndClearFinished
           \/ RefuseBegin \/ RefuseJournalWrite
    PROVE  Quiet
<1>1. CASE TakeRequest
  BY <1>1, FaultsFacts DEF TakeRequest, Quiet, PointStep, pointVars
<1>2. CASE CaptureJournalJob
  BY <1>2, FaultsFacts, Zenon DEF CaptureJournalJob, Quiet, PointStep, pointVars
<1>3. CASE BeginJob
  BY <1>3, FaultsFacts, Zenon DEF BeginJob, Quiet, PointStep
<1>4. CASE JournalDiskFallback
  BY <1>4, FaultsFacts, Zenon DEF JournalDiskFallback, BeginWrite, Quiet, PointStep, pointVars
<1>5. CASE WaitForDisk \/ DeriveDiff \/ EndClear \/ OpenScan \/ ClearFinishedJournal \/ EndClearFinished
  <2>1. OnlyWorker
    BY <1>5 DEF WaitForDisk, DeriveDiff, EndClear, OpenScan, ClearFinishedJournal, EndClearFinished
  <2>2. QED  BY <2>1, FaultsFacts DEF OnlyWorker, Quiet, PointStep, pointVars
<1>6. CASE AdoptSynchronousMove
  BY <1>6, FaultsFacts, Zenon DEF AdoptSynchronousMove, Quiet, PointStep
<1>7. CASE ClearBatch
  BY <1>7, FaultsFacts DEF ClearBatch, Quiet, PointStep
<1>8. CASE BuildBatch
  BY <1>8, FaultsFacts DEF BuildBatch, Quiet, PointStep
<1>9. CASE SealJob
  BY <1>9, FaultsFacts DEF SealJob, Quiet, PointStep
<1>10. CASE ApplyBatch
  BY <1>10, FaultsFacts, Zenon DEF ApplyBatch, Quiet, PointStep
<1>11. CASE AdmitScan
  BY <1>11, FaultsFacts DEF AdmitScan, Quiet, PointStep, pointVars
<1>12. CASE RefuseBegin
  BY <1>12, FaultsFacts, Zenon DEF RefuseBegin, Quiet, PointStep, pointVars
<1>13. CASE RefuseJournalWrite
  BY <1>13, FaultsFacts DEF RefuseJournalWrite, Quiet, PointStep, pointVars
<1>14. QED
  BY <1>1, <1>2, <1>3, <1>4, <1>5, <1>6, <1>7, <1>8, <1>9, <1>10, <1>11, <1>12, <1>13, Zenon

LEMMA WorkerSteps ==
    ASSUME HistoryTypeOK, JType, JInv, WorkerStep \/ RefuseBegin \/ RefuseJournalWrite
    PROVE  Step
<1>1. CASE CloseScan
  <2>1. /\ JType' /\ JInv' /\ Materialized <= Materialized' /\ index' = index /\ faults' = faults
        /\ \/ UNCHANGED historyVars /\ pending' = pending
           \/ FinishUpdate(index) /\ pending /\ Materialized' = index
    BY <1>1, CloseScanStep
  <2>2. PointStep
    BY <2>1, Zenon DEF PointStep, FinishUpdate
  <2>3. IsRunning /\ health' = health /\ up' \in {up, "halted"}
    BY <1>1, Zenon DEF CloseScan, LockIsFree
  <2>4. IsRunning'
    BY <2>1, <2>3 DEF JInv, ModeInv, IsRunning
  <2>5. HistoryStep
    BY <2>1 DEF HistoryStep
  <2>6. QED  BY <2>1, <2>2, <2>3, <2>4, <2>5, FaultsFacts DEF Step
<1>2. CASE \/ TakeRequest \/ CaptureJournalJob \/ BeginJob \/ JournalDiskFallback \/ WaitForDisk
           \/ AdoptSynchronousMove \/ DeriveDiff \/ ClearBatch \/ EndClear \/ BuildBatch \/ SealJob
           \/ ApplyBatch \/ AdmitScan \/ OpenScan \/ ClearFinishedJournal \/ EndClearFinished
           \/ RefuseBegin \/ RefuseJournalWrite
  <2>1. JType' /\ JInv' /\ Materialized <= Materialized'
    BY <1>2, TakeRequestStep, CaptureJournalJobStep, BeginJobStep, JournalDiskFallbackStep,
       WaitForDiskStep, AdoptSynchronousMoveStep, DeriveDiffStep, ClearBatchStep, EndClearStep,
       BuildBatchStep, SealJobStep, ApplyBatchStep, AdmitScanStep, OpenScanStep,
       ClearFinishedJournalStep, EndClearFinishedStep, RefuseBeginStep, RefuseJournalWriteStep, Zenon
  <2>2. Quiet
    BY <1>2, WorkerIsQuiet, Zenon
  <2>3. QED  BY <2>1, <2>2, QuietStep
<1>3. QED  BY <1>1, <1>2, Zenon DEF WorkerStep

LEMMA InsertionSteps ==
    ASSUME HistoryTypeOK, JType, JInv, SelectPruningPoint \/ SelectAfterWrite \/ InsertionStep
    PROVE  Step
<1>1. \/ SelectPruningPoint \/ SelectAfterWrite \/ UpdatePruningPoint \/ RequestScan \/ EndUpdateWrite
      \/ EndSelectWrite \/ WriteOutpoint
  BY DEF InsertionStep
<1>2. JType' /\ JInv' /\ Materialized <= Materialized'
  BY <1>1, SelectPruningPointStep, DeferredWriteStep, RequestScanStep, EndUpdateWriteStep,
     EndSelectWriteStep, WriteOutpointStep, Zenon
<1>3. CASE SelectPruningPoint
  <2>1. Quiet
    BY <1>3, FaultsFacts, Zenon DEF SelectPruningPoint, Quiet, PointStep
  <2>2. QED  BY <1>2, <2>1, QuietStep
<1>4. CASE SelectAfterWrite \/ UpdatePruningPoint
  <2>1. Quiet
    BY <1>4, FaultsFacts DEF SelectAfterWrite, UpdatePruningPoint, BeginWrite, Quiet, PointStep, pointVars
  <2>2. QED  BY <1>2, <2>1, QuietStep
<1>5. CASE RequestScan \/ EndUpdateWrite
  <2>1. Quiet
    BY <1>5, FaultsFacts, Zenon DEF RequestScan, EndUpdateWrite, Quiet, PointStep, pointVars
  <2>2. QED  BY <1>2, <2>1, QuietStep
<1>6. CASE EndSelectWrite
  <2>1. index < MaxIndex
    BY <1>6, Zenon DEF EndSelectWrite, HasWritten, JInv, LockInv
  <2>2. Quiet
    BY <1>6, <2>1, FaultsFacts, Zenon DEF EndSelectWrite, Quiet, PointStep
  <2>3. QED  BY <1>2, <2>2, QuietStep
<1>7. CASE WriteOutpoint
  <2>1. Quiet
    BY <1>7, FaultsFacts DEF WriteOutpoint, Quiet, PointStep
  <2>2. QED  BY <1>2, <2>1, QuietStep
<1>8. QED  BY <1>1, <1>3, <1>4, <1>5, <1>6, <1>7

LEMMA StartedResumes ==
    ASSUME NEW mode \in {"journal", "deferred"}, Started(mode)
    PROVE  IsRunning' /\ health' = health /\ \E enabled \in BOOLEAN : ResumeHistoryDeletion(enabled)
<1>1. up' = mode /\ ResumeHistoryDeletion(mode = "journal" \/ jobs # {}) /\ health' = health
  BY DEF Started
<1>2. (mode = "journal" \/ jobs # {}) \in BOOLEAN
  BY Zenon
<1>3. QED  BY <1>1, <1>2, Zenon DEF IsRunning

LEMMA StartSteps ==
    ASSUME HistoryTypeOK, JType, JInv, StartStep
    PROVE  Step
<1>1. CASE StartRecovery
  <2>1. JType' /\ JInv' /\ Materialized <= Materialized'
    BY <1>1, StartRecoveryStep
  <2>2. /\ up = "down" /\ UNCHANGED historyVars /\ health' = health /\ faults' = faults
        /\ index' = index /\ pending' = pending
    BY <1>1 DEF StartRecovery, pointVars
  <2>3. QED  BY <2>1, <2>2, FaultsFacts DEF Step, PointStep, HistoryStep, IsRunning
<1>2. CASE EndRecoveryWrite
  <2>1. /\ JType' /\ JInv' /\ Materialized <= Materialized' /\ FinishUpdate(index) /\ pending
        /\ Materialized' = index /\ index' = index /\ faults' = faults
    BY <1>2, EndRecoveryWriteStep, SMTT(30)
  <2>2. up = "recover" /\ health' = health
    BY <1>2, Zenon DEF EndRecoveryWrite, HasWritten, JInv, LockInv
  <2>3. PointStep /\ HistoryStep
    BY <2>1, Zenon DEF PointStep, HistoryStep, FinishUpdate
  <2>4. QED  BY <2>1, <2>2, <2>3, FaultsFacts DEF Step, IsRunning
<1>3. CASE StartNormalize
  <2>1. JType' /\ JInv' /\ Materialized <= Materialized'
    BY <1>3, StartStepJ
  <2>2. /\ up = "down" /\ UNCHANGED historyVars /\ health' = health /\ faults' \in 0 .. MaxFaults
        /\ index' = index /\ pending' = pending
    BY <1>3, FaultsFacts, Zenon DEF StartNormalize, DiskRefuses
  <2>3. QED  BY <2>1, <2>2 DEF Step, PointStep, HistoryStep, IsRunning
<1>4. CASE StartJournal \/ StartDeferred \/ RemoveManifest \/ InitializeJournal
  <2>1. JType' /\ JInv' /\ Materialized <= Materialized'
    BY <1>4, StartStepJ
  <2>2. PICK mode \in {"journal", "deferred"} : Started(mode)
    BY <1>4 DEF StartJournal, StartDeferred, RemoveManifest, InitializeJournal
  <2>3. IsRunning' /\ health' = health /\ \E enabled \in BOOLEAN : ResumeHistoryDeletion(enabled)
    BY <2>2, StartedResumes, Zenon
  <2>4. up \in {"down", "normalize"} /\ index' = index /\ pending' = pending /\ faults' \in 0 .. MaxFaults
    BY <1>4, FaultsFacts DEF StartJournal, StartDeferred, RemoveManifest, InitializeJournal,
                             DiskAllows, DiskRefuses, pointVars
  <2>5. Materialized' = Materialized
    <3>1. CASE StartJournal \/ StartDeferred
      BY <3>1 DEF StartJournal, StartDeferred, pointVars, Materialized
    <3>2. CASE RemoveManifest
      <4>1. /\ up = "normalize" /\ manifest'.phase = "none"
            /\ index' = index /\ pending' = pending
        BY <3>2 DEF RemoveManifest, NoManifest
      <4>2. QED  BY <4>1, Zenon DEF JInv, ModeInv, Materialized
    <3>3. CASE InitializeJournal
      <4>1. /\ manifest.phase = "none" /\ ~pending /\ manifest'.phase = "complete"
            /\ manifest'.target = index
        BY <3>3 DEF InitializeJournal, Complete
      <4>2. QED  BY <4>1, Zenon DEF Materialized
    <3>4. QED  BY <1>4, <3>1, <3>2, <3>3
  <2>6. HistoryStep
    BY <2>3, <2>4, <2>5 DEF HistoryStep, IsRunning
  <2>7. QED  BY <2>1, <2>3, <2>4, <2>6 DEF Step, PointStep
<1>5. QED  BY <1>1, <1>2, <1>3, <1>4, Zenon DEF StartStep

LEMMA OtherSteps ==
    ASSUME HistoryTypeOK, JType, JInv,
           \/ Crash \/ HealthStep
           \/ HistoryNext /\ UNCHANGED <<pointVars, applied, request, worker, writer, health, crashes>>
    PROVE  Step
<1>1. CASE Crash
  <2>1. JType' /\ JInv' /\ Materialized <= Materialized'
    BY <1>1, CrashStep, Zenon
  <2>2. /\ LoseOwner /\ up' = "down" /\ health' = "none" /\ faults' = faults
        /\ index' = index /\ pending' = pending /\ manifest' = manifest
    BY <1>1 DEF Crash, pointVars
  <2>3. HistoryStep
    BY <2>2, Zenon DEF HistoryStep, IsRunning, Materialized
  <2>4. QED  BY <2>1, <2>2, <2>3, FaultsFacts DEF Step, PointStep
<1>2. CASE HealthStep
  <2>1. OnlyHealth /\ health' \in {"none", "open", "match", "mismatch", "refuted"}
    BY <1>2, Zenon DEF HealthStep, BeginHealthCheck, HashServedSet, EndHealthCheck
  <2>2. /\ UNCHANGED <<up, lock, pointVars, applied, request, worker, writer, crashes>>
        /\ UNCHANGED historyVars /\ faults' = faults /\ index' = index /\ pending' = pending
    BY <2>1, Zenon DEF OnlyHealth, pointVars
  <2>3. JType' /\ JInv' /\ Materialized <= Materialized'
    BY <2>1, <2>2, JournalUnchanged, Zenon
  <2>4. QED  BY <1>2, <2>2, <2>3, FaultsFacts, Zenon DEF Step, PointStep, HistoryStep, IsRunning
<1>3. CASE HistoryNext /\ UNCHANGED <<pointVars, applied, request, worker, writer, health, crashes>>
  <2>1. UNCHANGED <<up, lock>> /\ faults' \in 0 .. MaxFaults
    BY <1>3, FaultsFacts, Zenon
      DEF HistoryNext, OwnerStep, RunHistoryDeletionJobs, NoJobIsLeft, PlanHistoryDeletionOnSnapshot,
           PublishMask, DeleteHistoryBatch, EvictDeleted, RemoveMask, FailHistoryBatch, ReturnBlock,
           ReadBlock, FindBlock
  <2>2. JType' /\ JInv' /\ Materialized <= Materialized'
    <3>1. health' \in {"none", "open", "match", "mismatch", "refuted"}
      BY <1>3 DEF JType
    <3>2. QED  BY <1>3, <2>1, <3>1, JournalUnchanged, Zenon
  <2>3. index' = index /\ pending' = pending /\ Materialized' = Materialized
    BY <1>3 DEF pointVars, Materialized
  <2>4. QED  BY <1>3, <2>1, <2>2, <2>3 DEF Step, PointStep, HistoryStep, IsRunning
<1>4. QED  BY <1>1, <1>2, <1>3

LEMMA EveryStep ==
    ASSUME HistoryTypeOK, JType, JInv, Next
    PROVE  Step
  BY WorkerSteps, InsertionSteps, StartSteps, OtherSteps, Zenon DEF Next

-----------------------------------------------------------------------------
(* Invariance                                                              *)

LEMMA TypeParts ==
    TypeOK <=> HistoryTypeOK /\ JType
  BY DEF TypeOK, JType

LEMMA HealthKept ==
    ASSUME JType, JInv, HealthInv, PointStep, health' \in {health, "none"} \/ HealthStep
    PROVE  HealthInv'
<1>1. index \in Nat /\ AskedPoint \in Nat /\ pending \in BOOLEAN
  BY PruningAssumption, JournalAssumption DEF JType
<1>2. CASE health' \in {health, "none"}
  BY <1>1, <1>2 DEF HealthInv, PointStep
<1>3. CASE BeginHealthCheck
  BY <1>3 DEF BeginHealthCheck, IsServed, OnlyHealth, pointVars, HealthInv
<1>4. CASE HashServedSet
  BY <1>4 DEF HashServedSet, OnlyHealth, pointVars, HealthInv, JInv, ModeInv, Materialized,
     LiveInv
<1>5. CASE EndHealthCheck
  BY <1>5, <1>1 DEF EndHealthCheck, HealthInv, IsServed
<1>6. QED  BY <1>2, <1>3, <1>4, <1>5, Zenon DEF HealthStep

LEMMA MaterializedAlways ==
    JType /\ ModeInv => Materialized \in 0 .. index
  BY MaterializedType, Zenon

LEMMA HistoryKept ==
    ASSUME HistoryTypeOK, JType, JInv, StoredInv, PlanInv, OwnerInv, Step
    PROVE  HistoryTypeOK' /\ StoredInv' /\ PlanInv'
<1>1. /\ Materialized \in 0 .. MaxIndex /\ Materialized' \in 0 .. MaxIndex
      /\ Materialized <= index /\ Materialized <= Materialized' /\ faults' \in 0 .. MaxFaults
  <2>1. Materialized \in 0 .. index /\ index \in 0 .. MaxIndex
    BY MaterializedType DEF JInv, JType
  <2>2. (JType /\ ModeInv => Materialized \in 0 .. index)'
    BY MaterializedAlways, PTL
  <2>4. (Materialized \in 0 .. index /\ index \in 0 .. MaxIndex)'
    BY <2>2 DEF Step, JInv, JType
  <2>3. QED  BY <2>1, <2>4, PruningAssumption, SMTT(30) DEF Step
<1>2. CASE UNCHANGED historyVars
  <2>1. HistoryTypeOK'
    BY <1>1, <1>2, Zenon DEF historyVars, HistoryTypeOK
  <2>2. QED  BY <1>1, <1>2, <2>1, HistoryUnchanged, Zenon
<1>3. CASE FinishUpdate(index) /\ pending /\ Materialized' = index /\ faults' = faults
  <2>1. index \in 1 .. MaxIndex
    BY <1>3, PruningAssumption, SMTT(30) DEF JInv, ModeInv, JType
  <2>2. QED  BY <1>1, <1>3, <2>1, FinishStep, Zenon
<1>4. CASE HistoryNext /\ Materialized' = Materialized
  <2>1. CASE RunHistoryDeletionJobs \/ NoJobIsLeft \/ FailHistoryBatch \/ RemoveMask
    BY <1>1, <1>4, <2>1, OwnerIdlesStep
  <2>2. CASE PlanHistoryDeletionOnSnapshot
    BY <1>1, <1>4, <2>2, PlanHistoryDeletionStep
  <2>3. CASE PublishMask
    BY <1>1, <1>4, <2>3, PublishMaskStep
  <2>4. CASE DeleteHistoryBatch
    BY <1>1, <1>4, <2>4, DeleteHistoryBatchStep
  <2>5. CASE EvictDeleted
    BY <1>1, <1>4, <2>5, EvictDeletedStep
  <2>6. CASE ReturnBlock \/ \E b \in ReadBlocks : ReadBlock(b) \/ FindBlock(b)
    BY <1>1, <1>4, <2>6, ReadersStep
  <2>7. QED  BY <1>4, <2>1, <2>2, <2>3, <2>4, <2>5, <2>6 DEF HistoryNext, OwnerStep
<1>5. CASE LoseOwner /\ ~IsRunning' /\ Materialized' = Materialized
  BY <1>1, <1>5, OwnerResets
<1>6. CASE /\ ~IsRunning /\ IsRunning' /\ Materialized' = Materialized
           /\ \E enabled \in BOOLEAN : ResumeHistoryDeletion(enabled)
  BY <1>1, <1>6, OwnerResets DEF OwnerInv
<1>7. QED  BY <1>2, <1>3, <1>4, <1>5, <1>6, Zenon DEF Step, HistoryStep

LEMMA OwnerKept ==
    ASSUME OwnerInv, Step
    PROVE  OwnerInv'
<1>1. SUFFICES ASSUME ~IsRunning'
               PROVE  owner'.pc = "none"
  BY Zenon DEF OwnerInv
<1>2. CASE LoseOwner
  BY <1>2, Zenon DEF LoseOwner, NoOwner
<1>3. CASE ~IsRunning
  <2>1. owner.pc = "none"
    BY <1>3 DEF OwnerInv
  <2>2. CASE UNCHANGED historyVars
    BY <2>1, <2>2 DEF historyVars
  <2>3. CASE FinishUpdate(index)
    BY <2>1, <2>3, Zenon DEF FinishUpdate, DeletePastBlocks, historyVars
  <2>4. CASE HistoryNext
    BY <2>1, <2>4
     DEF HistoryNext, OwnerStep, RunHistoryDeletionJobs, NoJobIsLeft, PlanHistoryDeletionOnSnapshot,
           PublishMask, DeleteHistoryBatch, EvictDeleted, RemoveMask, FailHistoryBatch, ReturnBlock,
           ReadBlock, FindBlock
  <2>5. QED  BY <1>1, <1>2, <2>2, <2>3, <2>4 DEF Step, HistoryStep
<1>4. QED  BY <1>1, <1>2, <1>3 DEF Step

LEMMA InitiallyIInv ==
    ASSUME Init
    PROVE  IInv
<1> USE DEF Init
<1>1. 0 \in 0 .. MaxIndex /\ 0 \in 0 .. MaxFaults /\ 0 \in 0 .. MaxCrashes /\ MaxIndex \in Nat
  BY PruningAssumption, JournalAssumption, SMTT(30)
<1>2. SetAt[0] \in [Outpoints -> 0 .. 2]
  BY <1>1, SetAtType
<1>3. JType
  <2>1. manifest \in Manifest /\ worker \in Worker /\ writer \in Diffs /\ records \in Records
    BY InitialTypes, Zenon
  <2>2. manifest.target <= index /\ applied \in -1 .. index
    BY DEF NoManifest
  <2>3. QED  BY <1>1, <1>2, <2>1, <2>2, Zenon DEF JType
<1>4. HistoryTypeOK
  BY <1>1, Zenon DEF HistoryTypeOK, NoOwner
<1>5. manifest.phase = "none" /\ worker.pc = "idle" /\ owner.pc = "none" /\ Materialized = 0
  BY DEF NoManifest, IdleWorker, NoOwner, Materialized
<1>6. ModeInv /\ LiveInv /\ AppliedInv /\ LockInv /\ JobInv /\ ScanInv /\ BuildInv /\ SealInv
  BY <1>5, Zenon
     DEF ModeInv, IsRunning, LiveInv, AppliedInv, LockInv, JobInv, ScanInv, BuildInv, SealInv
<1>7. HealthInv /\ OwnerInv /\ PlanInv
  BY <1>5, SMTT(30) DEF HealthInv, OwnerInv, PlanInv
<1>8. StoredInv
  BY <1>1, <1>5, PointsOrdered DEF StoredInv
<1>9. QED  BY <1>3, <1>4, <1>6, <1>7, <1>8, TypeParts, Zenon DEF IInv, JInv

LEMMA Inductive ==
    ASSUME IInv, [Next]_vars
    PROVE  IInv'
<1>1. CASE Next
  <2>1. HistoryTypeOK /\ JType /\ JInv /\ HealthInv /\ StoredInv /\ PlanInv /\ OwnerInv
    BY TypeParts DEF IInv
  <2>2. Step
    BY <1>1, <2>1, EveryStep
  <2>3. HistoryTypeOK' /\ StoredInv' /\ PlanInv'
    BY <2>1, <2>2, HistoryKept, Zenon
  <2>4. HealthInv' /\ OwnerInv' /\ JType' /\ JInv'
    BY <2>1, <2>2, HealthKept, OwnerKept, SMTT(30) DEF Step
  <2>5. TypeOK'
    BY <2>3, <2>4, Zenon DEF TypeOK, JType
  <2>6. QED  BY <2>3, <2>4, <2>5 DEF IInv
<1>2. CASE UNCHANGED vars
  <2>1. /\ UNCHANGED <<historyVars, up, lock, faults, pointVars, applied, request, worker, writer>>
        /\ UNCHANGED <<health, crashes>>
    BY <1>2, Zenon DEF vars
  <2>2. HistoryTypeOK /\ JType /\ JInv /\ HealthInv /\ StoredInv /\ PlanInv /\ OwnerInv
    BY TypeParts DEF IInv
  <2>3. index' = index /\ pending' = pending
    BY <2>1, SMTT(30) DEF pointVars
  <2>4. health' \in {"none", "open", "match", "mismatch", "refuted"}
    BY <2>1, <2>2, SMTT(30) DEF JType
  <2>5. JType' /\ JInv' /\ Materialized <= Materialized'
    BY <2>1, <2>2, <2>4, JournalUnchanged, SMTT(30)
  <2>6. Step
    BY <2>1, <2>2, <2>3, <2>5, FaultsFacts, SMTT(30) DEF Step, PointStep, HistoryStep, IsRunning
  <2>7. HistoryTypeOK' /\ StoredInv' /\ PlanInv'
    BY <2>2, <2>6, HistoryKept
  <2>8. HealthInv' /\ OwnerInv'
    BY <2>2, <2>6, HealthKept, OwnerKept, SMTT(30) DEF Step
  <2>9. TypeOK'
    BY <2>5, <2>7 DEF TypeOK, JType
  <2>10. QED  BY <2>5, <2>7, <2>8, <2>9, Zenon DEF IInv
<1>3. QED  BY <1>1, <1>2, Zenon

\* The inductive invariant holds in every reachable state, whatever the crashes, the
\* refused writes and the interleaving of the goroutines.
THEOREM Invariance == Spec => []IInv
  BY InitiallyIInv, Inductive, PTL DEF Spec

-----------------------------------------------------------------------------
(* What follows                                                            *)

\* The types of the state, and the position of the journal never passes the selected
\* point.
THEOREM TypeCorrect == Spec => []TypeOK
<1>1. IInv => TypeOK
  BY DEF IInv
<1>2. QED  BY <1>1, Invariance, PTL

\* CheckUTXOHealth never calls the node's own set wrong, although the journal writes the
\* set without the lock while it is being hashed.
THEOREM HealthAnswersAreRight == Spec => []ReadyAnswersAreRight
<1>1. IInv => ReadyAnswersAreRight
  BY DEF IInv, HealthInv, ReadyAnswersAreRight
<1>2. QED  BY <1>1, Invariance, PTL

\* A scan never finds a mismatch with the header's commitment: no interleaving, crash or
\* refused write makes the node stop itself.
THEOREM NodeNeverHalts == Spec => [](up # "halted")
<1>1. IInv => up # "halted"
  BY DEF IInv, JInv, ModeInv
<1>2. QED  BY <1>1, Invariance, PTL

LEMMA InvariantIsDerivable ==
    ASSUME IInv
    PROVE  PendingIsDerivable
<1>1. HistoryTypeOK /\ JType /\ StoredInv /\ PlanInv /\ MaxIndex \in Nat
  BY TypeParts, PruningAssumption, SMTT(30) DEF IInv
<1>2. Materialized \in 0 .. index /\ index \in 0 .. MaxIndex
  BY <1>1, MaterializedType DEF IInv, JInv, JType
<1>3. ASSUME NEW i \in (Materialized + 1) .. index
      PROVE  IsDerivable(stored \ mask, i)
  <2>1. i \in 0 .. MaxIndex /\ i - 1 \in 0 .. MaxIndex /\ Materialized \in 0 .. MaxIndex
        /\ Materialized <= i - 1 /\ Materialized \in Materialized .. MaxIndex
    BY <1>1, <1>2, SMTT(30)
  <2>2. /\ PruningPoint(i) \in Nat /\ PruningPoint(i) \in Blocks
        /\ PruningPoint(i - 1) \in Nat /\ PruningPoint(Materialized) \in Nat
        /\ PruningPoint(Materialized) <= PruningPoint(i - 1)
    BY <2>1, PointsOrdered
  <2>3. ASSUME NEW b \in PruningPoint(i - 1) .. PruningPoint(i)
        PROVE  b \in stored \ mask
    BY <2>2, <1>1, <2>1, PruningAssumption DEF Blocks, StoredInv, PlanInv
  <2>4. QED  BY <2>3 DEF IsDerivable
<1>4. QED  BY <1>3 DEF PendingIsDerivable

\* No finish, job or mask takes the history that the moves still to be made are derived
\* from.
THEOREM UpdatesStayDerivable == Spec => []PendingIsDerivable
  BY InvariantIsDerivable, Invariance, PTL

LEMMA InvariantReachesTarget ==
    ASSUME IInv
    PROVE  SealedJobReachesTarget
<1>1. SUFFICES ASSUME manifest.phase = "ready"
               PROVE  [o \in Outpoints |-> IF o \in Unapplied THEN records[o] ELSE live[o]]
                        = SetAt[manifest.target]
  BY SMTT(30) DEF SealedJobReachesTarget
<1>2. \A o \in Outpoints :
        (IF o \in Unapplied THEN records[o] ELSE live[o]) = SetAt[manifest.target][o]
  BY <1>1, SMTT(30) DEF IInv, JInv, SealInv
<1>3. SetAt[manifest.target] \in [Outpoints -> 0 .. 2]
  <2>1. manifest.target \in 0 .. MaxIndex
    BY Zenon DEF IInv, TypeOK, Manifest
  <2>2. QED  BY <2>1, SetAtType, Zenon
<1>4. SetAt[manifest.target] = [o \in Outpoints |-> SetAt[manifest.target][o]]
  BY <1>3, Zenon
<1>5. QED  BY <1>2, <1>4, SMTT(30)

\* The records of a sealed job take the live set to the target from any point of the
\* application, also after a crash.
THEOREM JournalReachesTarget == Spec => []SealedJobReachesTarget
  BY InvariantReachesTarget, Invariance, PTL

\* A step of the history leaves the recorded jobs, or deletes the last of a job's history.
LEMMA JobsKept ==
    ASSUME IInv, [Next]_vars
    PROVE  \A j \in jobs \ jobs' : \A b \in 0 .. (PruningPoint(j) - 1) :
             b \in stored' => b \in CalculateBlocksToKeep(PruningPoint(j))
<1>1. HistoryTypeOK /\ JType /\ JInv /\ PlanInv /\ StoredInv
  BY TypeParts DEF IInv
<1>2. CASE jobs \subseteq jobs'
  BY <1>2, Zenon
<1>3. CASE DeleteHistoryBatch
  <2>1. ASSUME NEW j \in jobs \ jobs', NEW b \in 0 .. (PruningPoint(j) - 1), b \in stored'
        PROVE  b \in CalculateBlocksToKeep(PruningPoint(j))
    <3>1. j = owner.job /\ Batch = owner.plan /\ owner.pc = "batch" /\ stored' = stored \ Batch
      BY <1>3, <2>1, SMTT(30) DEF DeleteHistoryBatch, IsLastBatch
    <3>2. owner.plan = Deletable(j)
      BY <1>1, <3>1, SMTT(30) DEF PlanInv
    <3>3. b \in stored /\ ~(b < PruningPoint(j) - Window)
      BY <2>1, <3>1, <3>2, SMTT(30) DEF Deletable
    <3>4. PruningPoint(j) \in Nat /\ b \in Blocks /\ b \in Nat
      BY <1>1, <3>1, <3>3, OwnerType, PointsOrdered, BlocksAreNumbers, SMTT(30)
    <3>5. QED  BY <3>3, <3>4, PruningAssumption DEF CalculateBlocksToKeep
  <2>2. QED  BY <2>1, Zenon
<1>4. CASE UNCHANGED vars
  BY <1>4, SMTT(30) DEF vars, historyVars
<1>5. CASE Next
  <2>1. HistoryStep
    BY <1>1, <1>5, EveryStep, Zenon DEF Step
  <2>2. ASSUME ~DeleteHistoryBatch
        PROVE  jobs \subseteq jobs'
    <3>1. CASE UNCHANGED historyVars
      BY <3>1 DEF historyVars
    <3>2. CASE FinishUpdate(index)
      BY <3>2, Zenon DEF FinishUpdate, RecordHistoryDeletion, DeletePastBlocks, historyVars
    <3>3. CASE HistoryNext
      BY <2>2, <3>3, Zenon
        DEF HistoryNext, OwnerStep, RunHistoryDeletionJobs, NoJobIsLeft, PlanHistoryDeletionOnSnapshot,
             PublishMask, EvictDeleted, RemoveMask, FailHistoryBatch, ReturnBlock, ReadBlock, FindBlock
    <3>4. CASE LoseOwner \/ \E enabled \in BOOLEAN : ResumeHistoryDeletion(enabled)
      BY <3>4, Zenon DEF LoseOwner, ResumeHistoryDeletion
    <3>5. QED  BY <2>1, <3>1, <3>2, <3>3, <3>4 DEF HistoryStep
  <2>3. QED  BY <1>2, <1>3, <2>2
<1>6. QED  BY <1>4, <1>5

\* A job's record goes away only when everything its point does not keep has lost its data,
\* although crashes and failed batches interrupt the job.
THEOREM JobsDeleteTheirHistory == Spec => JobDeletesItsHistory
<1>1. IInv /\ [Next]_vars =>
        [\A j \in jobs \ jobs' : \A b \in 0 .. (PruningPoint(j) - 1) :
           b \in stored' => b \in CalculateBlocksToKeep(PruningPoint(j))]_vars
  BY JobsKept, Zenon
<1>2. QED  BY <1>1, Invariance, PTL DEF Spec, JobDeletesItsHistory

\* What a step makes visible to readers was visible.
LEMMA VisibilityKept ==
    ASSUME IInv, Next, NEW b \in Blocks, IsRunning, IsRunning', IsVisible(b)'
    PROVE  IsVisible(b)
<1>1. HistoryTypeOK /\ JType /\ JInv /\ PlanInv /\ StoredInv
  BY TypeParts DEF IInv
<1>2. HistoryStep
  BY <1>1, EveryStep DEF Step
<1>3. b \notin mask' /\ b \in cached' \cup stored'
  BY DEF IsVisible
<1>4. CASE mask \subseteq mask' /\ cached' \cup stored' \subseteq cached \cup stored
  BY <1>3, <1>4 DEF IsVisible
<1>5. CASE UNCHANGED historyVars
  BY <1>4, <1>5 DEF historyVars
<1>6. CASE FinishUpdate(index)
  BY <1>4, <1>6, Zenon DEF FinishUpdate, RecordHistoryDeletion, DeletePastBlocks, historyVars
<1>7. CASE PublishMask
  <2>1. owner.pc = "publish" /\ mask' = owner.plan /\ UNCHANGED <<stored, cached>>
    BY <1>7, SMTT(30) DEF PublishMask
  <2>2. b \in stored /\ b \notin owner.plan
    BY <1>1, <1>3, <2>1, SMTT(30) DEF StoredInv
  <2>3. owner.job \in jobs /\ owner.plan = Deletable(owner.job)
    BY <1>1, <2>1 DEF PlanInv
  <2>4. b \in mask => b \in Deletable(owner.job)
    BY <1>1, <2>2, <2>3, Zenon DEF PlanInv, Deletable
  <2>5. QED  BY <2>2, <2>3, <2>4 DEF IsVisible
<1>8. CASE RemoveMask
  <2>1. owner.pc = "retire" /\ UNCHANGED <<stored, cached>>
    BY <1>8, SMTT(30) DEF RemoveMask
  <2>2. b \in stored /\ mask \cap stored = {}
    BY <1>1, <1>3, <2>1 DEF StoredInv, PlanInv
  <2>3. QED  BY <2>2 DEF IsVisible
<1>9. CASE HistoryNext /\ ~PublishMask /\ ~RemoveMask
  <2>1. mask \subseteq mask' /\ cached' \cup stored' \subseteq cached \cup stored
    BY <1>9, Zenon
      DEF HistoryNext, OwnerStep, RunHistoryDeletionJobs, NoJobIsLeft, PlanHistoryDeletionOnSnapshot,
           DeleteHistoryBatch, EvictDeleted, FailHistoryBatch, ReturnBlock, ReadBlock, FindBlock
  <2>2. QED  BY <1>4, <2>1
<1>10. QED  BY <1>2, <1>5, <1>6, <1>7, <1>8, <1>9 DEF HistoryStep

\* While the process runs, a block that readers have seen deleted does not come back.
THEOREM DeletionIsFinal == Spec => DeletedStaysDeleted
<1>1. IInv /\ [Next]_vars =>
        [\A b \in Blocks : IsRunning /\ IsRunning' /\ IsVisible(b)' => IsVisible(b)]_vars
  BY VisibilityKept
<1>2. QED  BY <1>1, Invariance, PTL DEF Spec, DeletedStaysDeleted

-----------------------------------------------------------------------------
(* The abstract promise                                                    *)

LEMMA ServedFacts ==
    ASSUME IInv
    PROVE  Served = IF pending THEN -1 ELSE index
  BY PruningAssumption DEF Served, IInv, JInv, ModeInv, Materialized, LiveInv, TypeOK

LEMMA ServedAlways ==
    IInv => Served = IF pending THEN -1 ELSE index
  BY ServedFacts

LEMMA StepRefines ==
    ASSUME IInv, IInv', [Next]_vars
    PROVE  [PointSet!Next]_<<index, Served>>
<1>1. (IInv => Served = IF pending THEN -1 ELSE index)'
  BY ServedAlways, PTL
<1>2. /\ Served = (IF pending THEN -1 ELSE index) /\ Served' = (IF pending' THEN -1 ELSE index')
      /\ index \in 0 .. MaxIndex /\ pending \in BOOLEAN /\ pending' \in BOOLEAN
  BY <1>1, ServedFacts, Zenon DEF IInv, TypeOK
<1>3. PointStep
  BY TypeParts, EveryStep, Zenon DEF IInv, Step, vars, pointVars, PointStep
<1>4. CASE index' = index /\ pending' = pending
  BY <1>2, <1>4
<1>5. CASE index' = index /\ pending /\ pending' = FALSE
  <2>1. PointSet!Serve
    BY <1>2, <1>5 DEF PointSet!Serve, PointSet!Nothing
  <2>2. QED  BY <2>1 DEF PointSet!Next
<1>6. CASE index' = index + 1 /\ pending' = TRUE /\ index < MaxIndex
  <2>1. PointSet!Move
    BY <1>2, <1>6 DEF PointSet!Move, PointSet!Nothing
  <2>2. QED  BY <2>1, Zenon DEF PointSet!Next
<1>7. QED  BY <1>3, <1>4, <1>5, <1>6, Zenon DEF PointStep

\* The update of the pruning point UTXO set implements the safety of its promise: a peer is
\* served either nothing or the chain's complete set at the selected pruning point.
THEOREM ServesOnlyCompleteSets == Spec => PointSet!Safety
<1>1. Init => PointSet!Init
  <2>1. SUFFICES ASSUME Init
                 PROVE  PointSet!Init
    OBVIOUS
  <2>2. Served = 0 /\ index = 0
    BY <2>1, InitiallyIInv, ServedFacts, Zenon DEF Init
  <2>3. QED  BY <2>2 DEF PointSet!Init
<1>2. IInv /\ IInv' /\ [Next]_vars => [PointSet!Next]_<<index, Served>>
  BY StepRefines
<1>3. QED  BY <1>1, <1>2, Invariance, PTL DEF Spec, PointSet!Safety
=============================================================================
