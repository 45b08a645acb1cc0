-------------------------- MODULE StagingConsensus --------------------------
(***************************************************************************)
(* The staging consensus of an initial block download (IBD) with a headers *)
(* proof, and the two database prefixes it lives on: domain.go,            *)
(* prefixmanager/prefix.go, migrate.go, and the control of ibd.go and      *)
(* ibd_with_headers_proof.go.                                              *)
(*                                                                         *)
(* A node serves the consensus stored under the active prefix.  An IBD     *)
(* builds another one under the other prefix, which it records as the      *)
(* inactive prefix first, then swaps the two records in one transaction,   *)
(* switches the served consensus and deletes the data of the old prefix    *)
(* key by key.  The process may crash between any two steps, database      *)
(* calls may fail, and an IBD that times out gives up its place while its  *)
(* goroutine goes on.                                                      *)
(*                                                                         *)
(* The data of a prefix is a set of keys: which part of a consensus, and   *)
(* whose.  Process 0 is New with the migration it may run; process a > 0   *)
(* is the a-th IBD the node starts.                                        *)
(***************************************************************************)
EXTENDS Naturals, FiniteSets

CONSTANTS
    MaxAttempts,    \* IBDs the node starts, over all restarts
    MaxTimeouts,    \* IBDs that exceed their timeout
    MaxFaults,      \* database calls that fail
    MaxCrashes      \* crashes of the process

ASSUME BoundsAssumption ==
    /\ MaxAttempts \in Nat \ {0}
    /\ MaxTimeouts \in Nat
    /\ MaxFaults \in Nat
    /\ MaxCrashes \in Nat

Attempt == 1..MaxAttempts
Process == 0..MaxAttempts

\* Whose data it is: a consensus built by New or by the migration, by an IBD,
\* or by a version of the program whose data has to be migrated.
OldVersion == MaxAttempts + 1
Source == Process \cup {OldVersion}

Prefix == {0, 1}
NoPrefix == 2
Flip(prefix) == 1 - prefix

Kept == {"proof", "points", "headers", "table"}
Key == (Kept \cup {"utxos", "block"}) \X Source
AllOf(s) == Kept \X {s}
UTXOKeys(keys) == {k \in keys : k[1] = "utxos"}

VARIABLES
    active,     \* the record of the active prefix
    inactive,   \* the record of the inactive prefix
    data,       \* the keys stored under each prefix
    consensus,  \* the prefix of the consensus the domain serves
    staging,    \* the prefix of the staging consensus
    lock,       \* stagingConsensusLock: the processes in a long section of it
    cursor,     \* the keys the deletion in that section has yet to visit
    ibdPeer,    \* the IBD that holds the one place, 0 when it is free
    pc,         \* where each process is
    held,       \* the staging consensus an IBD keeps in a local variable
    route,      \* the connection of each IBD's peer
    writer,     \* the consensus a block insertion is running on
    timeouts, faults, crashes,
    overtaken,  \* history: an IBD started while a timed-out one was running
    late        \* history: an insertion wrote to a consensus no longer served

database == <<active, inactive, data>>
domain == <<consensus, staging, lock, cursor>>
flows == <<ibdPeer, pc, held, route>>
bounds == <<timeouts, faults, crashes>>
history == <<overtaken, late>>
vars == <<database, domain, flows, writer, bounds, history>>

IsUp == pc[0] = "up"
Goto(p, step) == pc' = [pc EXCEPT ![p] = step]
Fault == faults < MaxFaults /\ faults' = faults + 1
NoFault == UNCHANGED faults

Init ==
    /\ \/ active = NoPrefix /\ data = [p \in Prefix |-> {}]
       \/ active = 0 /\ data = [p \in Prefix |-> IF p = 0 THEN AllOf(OldVersion) ELSE {}]
    /\ inactive = NoPrefix
    /\ consensus = NoPrefix /\ staging = NoPrefix
    /\ lock = {} /\ cursor = {}
    /\ ibdPeer = 0
    /\ pc = [p \in Process |-> IF p = 0 THEN "down" ELSE "idle"]
    /\ held = [a \in Attempt |-> NoPrefix]
    /\ route = [a \in Attempt |-> "open"]
    /\ writer = NoPrefix
    /\ timeouts = 0 /\ faults = 0 /\ crashes = 0
    /\ overtaken = FALSE /\ late = FALSE

-----------------------------------------------------------------------------
(* The process ends: everything in memory is gone.                         *)

ProcessEnds ==
    /\ consensus' = NoPrefix /\ staging' = NoPrefix
    /\ lock' = {} /\ cursor' = {}
    /\ ibdPeer' = 0
    /\ pc' = [p \in Process |-> IF p = 0 THEN "down" ELSE IF pc[p] = "idle" THEN "idle" ELSE "done"]
    /\ held' = [a \in Attempt |-> NoPrefix]
    /\ route' = [a \in Attempt |-> "open"]
    /\ writer' = NoPrefix

Crash ==
    /\ pc[0] # "down"
    /\ crashes < MaxCrashes
    /\ crashes' = crashes + 1
    /\ ProcessEnds
    /\ UNCHANGED <<database, timeouts, faults, history>>

\* A method called on the nil interface StagingConsensus() returns, or on the
\* nil pointer CommitStagingConsensus stored, ends the process.
Panic ==
    /\ ProcessEnds
    /\ UNCHANGED <<database, bounds, history>>

-----------------------------------------------------------------------------
(* prefixmanager and the staging consensus of the domain                   *)

\* DeleteInactivePrefix, and the callers of it: New, DeleteStagingConsensus
\* before a retry or after a failed download, and CommitStagingConsensus, which
\* only logs a failure.
Deletes == {"delete", "clean", "drop", "obsolete"}
AfterDelete(p, step) ==
    CASE step = "delete" -> "active"
      [] step = "clean" -> "reinit"
      [] step = "drop" -> "end"
      [] step = "obsolete" -> IF p = 0 THEN "up" ELSE "end"
AfterFailedDelete(p, step) ==
    CASE step = "delete" -> "down"
      [] step = "obsolete" -> AfterDelete(p, step)
      [] OTHER -> "end"

\* DeleteStagingConsensus forgets the staging consensus once its data is gone.
ForgetStaging(step) ==
    staging' = IF step \in {"clean", "drop"} THEN NoPrefix ELSE staging

\* The cursor reads a snapshot of the prefix.
BeginDelete(p) ==
    /\ pc[p] \in Deletes \ {"obsolete"}
    /\ lock = {}
    /\ IF inactive = NoPrefix
       THEN /\ Goto(p, AfterDelete(p, pc[p]))
            /\ ForgetStaging(pc[p])
            /\ UNCHANGED <<lock, cursor>>
       ELSE /\ lock' = {p}
            /\ cursor' = data[inactive]
            /\ UNCHANGED <<staging, pc>>
    /\ UNCHANGED <<database, consensus, ibdPeer, held, route, writer, bounds, history>>

DeleteKey(p) ==
    /\ pc[p] \in Deletes
    /\ p \in lock
    /\ cursor # {}
    /\ LET key == CHOOSE k \in cursor : TRUE
       IN  /\ data' = [data EXCEPT ![inactive] = @ \ {key}]
           /\ cursor' = cursor \ {key}
    /\ UNCHANGED <<active, inactive, consensus, staging, lock, flows, writer, bounds, history>>

\* The record goes after the data.  The compaction that follows may fail.
EndDelete(p) ==
    /\ pc[p] \in Deletes
    /\ p \in lock
    /\ cursor = {}
    /\ inactive' = NoPrefix
    /\ lock' = {}
    /\ \/ NoFault /\ Goto(p, AfterDelete(p, pc[p])) /\ ForgetStaging(pc[p])
       \/ Fault /\ Goto(p, AfterFailedDelete(p, pc[p])) /\ UNCHANGED staging
    /\ UNCHANGED <<active, data, consensus, cursor, ibdPeer, held, route, writer, timeouts, crashes, history>>

\* Mutation: the record is deleted although its data is not.
FailDelete_RecordGone(p) ==
    /\ pc[p] \in Deletes
    /\ p \in lock
    /\ Fault
    /\ Goto(p, AfterFailedDelete(p, pc[p]))
    /\ inactive' = NoPrefix
    /\ lock' = {} /\ cursor' = {}
    /\ UNCHANGED <<active, data, consensus, staging, ibdPeer, held, route, writer,
                   timeouts, crashes, history>>

FailDelete(p) ==
    /\ pc[p] \in Deletes
    /\ p \in lock
    /\ Fault
    /\ Goto(p, AfterFailedDelete(p, pc[p]))
    /\ lock' = {} /\ cursor' = {}
    /\ UNCHANGED <<database, consensus, staging, ibdPeer, held, route, writer,
                   timeouts, crashes, history>>

\* initStagingConsensus once it found no inactive prefix: the record is written
\* before the consensus is built, which may fail.  The migration of a consensus
\* that has not pruned builds it with the genesis, and has nothing to copy.
BuildStaging ==
    /\ inactive' = Flip(active)
    /\ staging' = inactive'

InitStagingConsensus(p) ==
    /\ pc[p] \in {"init", "reinit"}
    /\ lock = {}
    /\ \/ /\ inactive = NoPrefix
          /\ NoFault
          /\ BuildStaging
          /\ \/ Goto(p, "proof") /\ UNCHANGED data
             \/ /\ p = 0 /\ Goto(p, "commit")
                /\ data' = [data EXCEPT ![staging'] = AllOf(0)]
       \/ /\ inactive = NoPrefix
          /\ Fault
          /\ inactive' = Flip(active)
          /\ Goto(p, IF p = 0 THEN "down" ELSE "end")
          /\ UNCHANGED <<staging, data>>
       \/ /\ inactive # NoPrefix
          /\ NoFault
          /\ Goto(p, IF p = 0 THEN "down" ELSE IF pc[p] = "init" THEN "clean" ELSE "end")
          /\ UNCHANGED <<inactive, staging, data>>
    /\ consensus' = IF pc'[0] = "down" THEN NoPrefix ELSE consensus
    /\ UNCHANGED <<active, lock, cursor, ibdPeer, held, route, writer,
                   timeouts, crashes, history>>

\* CommitStagingConsensus: one transaction swaps the two records ...
CommitStagingConsensus(p) ==
    /\ pc[p] = "commit"
    /\ lock = {}
    /\ IF inactive = NoPrefix
       THEN Goto(p, "end") /\ UNCHANGED <<active, inactive, lock>>
       ELSE /\ active' = inactive
            /\ inactive' = active
            /\ lock' = {p}
            /\ Goto(p, "switch")
    /\ UNCHANGED <<data, consensus, staging, cursor, ibdPeer, held, route, writer, bounds, history>>

\* Mutation: the old data is deleted before the staging consensus is served.
SwitchConsensus_AfterDelete(p) ==
    /\ pc[p] = "switch"
    /\ IF data[inactive] # {}
       THEN /\ data' = [data EXCEPT ![inactive] = @ \ {CHOOSE k \in @ : TRUE}]
            /\ UNCHANGED <<consensus, staging, cursor, pc>>
       ELSE /\ consensus' = staging
            /\ staging' = NoPrefix
            /\ cursor' = {}
            /\ Goto(p, "obsolete")
            /\ UNCHANGED data
    /\ UNCHANGED <<active, inactive, lock, ibdPeer, held, route, writer, bounds, history>>

\* ... then the staging consensus is served, and the deletion of the data of
\* the previous one begins.
SwitchConsensus(p) ==
    /\ pc[p] = "switch"
    /\ consensus' = staging
    /\ staging' = NoPrefix
    /\ cursor' = data[inactive]
    /\ Goto(p, "obsolete")
    /\ UNCHANGED <<database, lock, ibdPeer, held, route, writer, bounds, history>>

-----------------------------------------------------------------------------
(* New, at the start of the process, and the migration                     *)

\* Mutation: New does not delete the inactive prefix.
StartProcess_NoDelete ==
    /\ pc[0] = "down"
    /\ Goto(0, "active")
    /\ UNCHANGED <<database, domain, ibdPeer, held, route, writer, bounds, history>>

StartProcess ==
    /\ pc[0] = "down"
    /\ Goto(0, "delete")
    /\ UNCHANGED <<database, domain, ibdPeer, held, route, writer, bounds, history>>

SetActivePrefix ==
    /\ pc[0] = "active"
    /\ active' = IF active = NoPrefix THEN 0 ELSE active
    /\ Goto(0, "open")
    /\ UNCHANGED <<inactive, data, domain, ibdPeer, held, route, writer, bounds, history>>

\* NewConsensus on the active prefix: an empty one gets the genesis, an imported
\* set is cleared, data of an old version has to be migrated first.
OpenConsensus ==
    /\ pc[0] = "open"
    /\ \/ /\ NoFault
          /\ data' = [data EXCEPT ![active] = IF @ = {} THEN AllOf(0) ELSE @ \ UTXOKeys(@)]
          /\ consensus' = active
          /\ Goto(0, IF AllOf(OldVersion) \subseteq data[active] THEN "init" ELSE "up")
       \/ /\ Fault
          /\ Goto(0, "down")
          /\ UNCHANGED <<data, consensus>>
    /\ UNCHANGED <<active, inactive, staging, lock, cursor, ibdPeer, held, route, writer,
                   timeouts, crashes, history>>

\* migrate copies the old consensus into the staging consensus: the proof, the
\* pruning points, the blocks and the set of the pruning point.  Its imported
\* form is left out: nothing reads it until the next opening clears it.
Copies == {"proof", "points", "headers", "validate"}
Copied(step) == IF step = "validate" THEN "table" ELSE step
AfterCopy(step) ==
    CASE step = "proof" -> "points"
      [] step = "points" -> "headers"
      [] step = "headers" -> "validate"
      [] step = "validate" -> "commit"

SyncConsensuses ==
    /\ pc[0] \in Copies
    /\ \/ /\ NoFault
          /\ data' = [data EXCEPT ![staging] = @ \cup {<<Copied(pc[0]), 0>>}]
          /\ Goto(0, AfterCopy(pc[0]))
          /\ UNCHANGED <<consensus, staging>>
       \/ /\ Fault
          /\ Goto(0, "down")
          /\ consensus' = NoPrefix /\ staging' = NoPrefix
          /\ UNCHANGED data
    /\ UNCHANGED <<active, inactive, lock, cursor, ibdPeer, held, route, writer,
                   timeouts, crashes, history>>

-----------------------------------------------------------------------------
(* IBD with a headers proof                                                *)

IsRunning(a) == pc[a] \notin {"idle", "done"}

\* runIBDIfNotRunning takes the one place.
TrySetIBDRunning(a) ==
    /\ IsUp /\ consensus # NoPrefix
    /\ ibdPeer = 0
    /\ pc[a] = "idle"
    /\ \A b \in Attempt : b < a => pc[b] # "idle"
    /\ ibdPeer' = a
    /\ Goto(a, "init")
    /\ overtaken' = (overtaken \/ \E b \in Attempt : IsRunning(b))
    /\ UNCHANGED <<database, domain, held, route, writer, bounds, late>>

\* Mutation: only a timeout frees the place.
UnsetIBDRunning_NotFreed(a) ==
    /\ pc[a] = "end"
    /\ Goto(a, "done")
    /\ UNCHANGED <<database, domain, ibdPeer, held, route, writer, bounds, history>>

\* The result of the run arrives: the place is free again.  Nobody waits for
\* the result of a run that timed out.
UnsetIBDRunning(a) ==
    /\ pc[a] = "end"
    /\ ibdPeer' = IF ibdPeer = a THEN 0 ELSE ibdPeer
    /\ Goto(a, "done")
    /\ UNCHANGED <<database, domain, held, route, writer, bounds, history>>

\* The timeout frees the place and disconnects the peer.  The run is not
\* stopped: it may have the answer to its last request in hand.
TimeoutIBD(a) ==
    /\ ibdPeer = a
    /\ timeouts < MaxTimeouts
    /\ timeouts' = timeouts + 1
    /\ ibdPeer' = 0
    /\ route' = [route EXCEPT ![a] = "closing"]
    /\ UNCHANGED <<database, domain, pc, held, writer, faults, crashes, history>>

\* A request to a closed connection fails at once.
Request(a) ==
    /\ route[a] # "closed"
    /\ route' = [route EXCEPT ![a] = IF @ = "open" THEN "open" ELSE "closed"]

\* requireStagingConsensus creates a staging consensus when there is none, and
\* ignores that it cannot.
RequireStagingConsensus ==
    IF staging # NoPrefix \/ inactive # NoPrefix
    THEN UNCHANGED <<inactive, staging>>
    ELSE BuildStaging

\* syncAndValidatePruningPointProof
ApplyPruningPointProof(a) ==
    /\ pc[a] = "proof"
    /\ lock = {}
    /\ \/ /\ Request(a)
          /\ RequireStagingConsensus
          /\ staging' # NoPrefix
          /\ data' = [data EXCEPT ![staging'] = @ \cup {<<"proof", a>>}]
          /\ Goto(a, "points")
          /\ UNCHANGED <<active, consensus, lock, cursor, ibdPeer, held, writer, bounds, history>>
       \/ staging = NoPrefix /\ inactive # NoPrefix /\ Panic

\* syncPruningPointsAndPruningPointAnticone
ImportPruningPoints(a) ==
    /\ pc[a] = "points"
    /\ lock = {}
    /\ \/ /\ Request(a)
          /\ staging # NoPrefix
          /\ data' = [data EXCEPT ![staging] = @ \cup {<<"points", a>>}]
          /\ Goto(a, "headers")
          /\ UNCHANGED <<active, inactive, domain, ibdPeer, held, writer, bounds, history>>
       \/ staging = NoPrefix /\ Panic

\* syncPruningPointFutureHeaders, into the consensus downloadHeadersAndPruning-
\* UTXOSet keeps from here on.
SyncHeaders(a) ==
    /\ pc[a] = "headers"
    /\ lock = {}
    /\ \/ /\ Request(a)
          /\ RequireStagingConsensus
          /\ staging' # NoPrefix
          /\ held' = [held EXCEPT ![a] = staging']
          /\ data' = [data EXCEPT ![staging'] = @ \cup {<<"headers", a>>}]
          /\ Goto(a, "utxos")
          /\ UNCHANGED <<active, consensus, lock, cursor, ibdPeer, writer, bounds, history>>
       \/ staging = NoPrefix /\ inactive # NoPrefix /\ Panic

\* receiveAndInsertPruningPointUTXOSet
AppendImportedUTXOs(a) ==
    /\ pc[a] = "utxos"
    /\ Request(a)
    /\ data' = [data EXCEPT ![held[a]] = @ \cup {<<"utxos", a>>}]
    /\ Goto(a, "validate")
    /\ UNCHANGED <<active, inactive, domain, ibdPeer, held, writer, bounds, history>>

\* Mutation: a set that failed to sync passes for a finished download.
FailedDownload_Committed == {"drop", "end", "commit"}

\* Where a failed download goes: an error that is recoverable, or the answer
\* that the pruning point did not change, deletes the staging consensus.
FailedDownload == {"drop", "end"}

FailDownload(a) ==
    /\ pc[a] \in {"proof", "points", "headers"}
    /\ \E step \in FailedDownload : Goto(a, step)
    /\ UNCHANGED <<database, domain, ibdPeer, held, route, writer, bounds, history>>

\* fetchMissingUTXOSet: the imported set is checked against the commitment of
\* the pruning point's header and becomes the table.  However it ends, the
\* deferred call clears the imported set.
SetIsValid(a) ==
    /\ UTXOKeys(data[staging]) = {<<"utxos", a>>}
    /\ <<"headers", a>> \in data[staging]

ValidateImportedPruningPoint(a) ==
    /\ pc[a] \in {"utxos", "validate"}
    /\ lock = {}
    /\ \/ /\ staging # NoPrefix
          /\ \/ /\ pc[a] = "validate" /\ SetIsValid(a)
                /\ data' = [data EXCEPT ![staging] = (@ \ UTXOKeys(@)) \cup {<<"table", a>>}]
                /\ Goto(a, "commit")
             \/ /\ data' = [data EXCEPT ![staging] = @ \ UTXOKeys(@)]
                /\ \E step \in FailedDownload : Goto(a, step)
          /\ UNCHANGED <<active, inactive, domain, ibdPeer, held, route, writer, bounds, history>>
       \/ staging = NoPrefix /\ Panic

-----------------------------------------------------------------------------
(* Block insertions from flows and RPC calls, on the consensus they read   *)
(* when they began.                                                        *)

BeginInsertion ==
    /\ IsUp /\ consensus # NoPrefix
    /\ writer = NoPrefix
    /\ writer' = consensus
    /\ UNCHANGED <<database, domain, flows, bounds, history>>

EndInsertion ==
    /\ writer # NoPrefix
    /\ data' = [data EXCEPT ![writer] = @ \cup {<<"block", 0>>}]
    /\ late' = (late \/ writer # consensus)
    /\ writer' = NoPrefix
    /\ UNCHANGED <<active, inactive, domain, flows, bounds, overtaken>>

NilConsensus ==
    /\ IsUp /\ consensus = NoPrefix
    /\ Panic

-----------------------------------------------------------------------------

DomainStep(p) ==
    \/ BeginDelete(p) \/ DeleteKey(p) \/ EndDelete(p) \/ FailDelete(p)
    \/ InitStagingConsensus(p) \/ CommitStagingConsensus(p) \/ SwitchConsensus(p)

NewStep ==
    \/ StartProcess \/ SetActivePrefix \/ OpenConsensus \/ SyncConsensuses
    \/ DomainStep(0)

IBDStep(a) ==
    \/ UnsetIBDRunning(a)
    \/ ApplyPruningPointProof(a) \/ ImportPruningPoints(a) \/ SyncHeaders(a)
    \/ AppendImportedUTXOs(a) \/ FailDownload(a) \/ ValidateImportedPruningPoint(a)
    \/ DomainStep(a)

Next ==
    \/ NewStep
    \/ \E a \in Attempt : TrySetIBDRunning(a) \/ IBDStep(a) \/ TimeoutIBD(a)
    \/ BeginInsertion \/ EndInsertion \/ NilConsensus
    \/ Crash

Spec == Init /\ [][Next]_vars

\* The node is restarted after it stops, a run waits for its peer for a
\* bounded time only, and the scheduler runs every goroutine.
Fairness ==
    /\ WF_vars(NewStep)
    /\ WF_vars(NilConsensus)
    /\ \A a \in Attempt : WF_vars(IBDStep(a))

FairSpec == Spec /\ Fairness

-----------------------------------------------------------------------------
(* Properties                                                              *)

TypeOK ==
    /\ active \in Prefix \cup {NoPrefix}
    /\ inactive \in (Prefix \cup {NoPrefix}) \ ({active} \cap Prefix)
    /\ data \in [Prefix -> SUBSET Key]
    /\ consensus \in Prefix \cup {NoPrefix}
    /\ staging \in Prefix \cup {NoPrefix}
    /\ lock \in SUBSET Process /\ Cardinality(lock) <= 1
    /\ cursor \in SUBSET Key
    /\ ibdPeer \in Process
    /\ held \in [Attempt -> Prefix \cup {NoPrefix}]
    /\ route \in [Attempt -> {"open", "closing", "closed"}]
    /\ writer \in Prefix \cup {NoPrefix}

\* A prefix holds a whole consensus: every part of one source and no part of
\* another.
IsComplete(prefix) ==
    \E s \in Source : {k \in data[prefix] : k[1] \in Kept} = AllOf(s)

\* Once New has opened a consensus, the active prefix of the database holds a
\* complete consensus at every step of every IBD, migration, failed database
\* call and crash: whenever the process stops, New finds one to serve.
ActiveIsComplete ==
    active # NoPrefix /\ ~overtaken =>
        IsComplete(active) \/ (data[active] = {} /\ ~IsUp)

\* The consensus the domain serves keeps all of its data for as long as it is
\* served: the data deleted after a commit is never that of the consensus
\* flows and RPC calls still reach through Consensus().
ServedIsComplete ==
    IsUp /\ ~overtaken => consensus # NoPrefix /\ IsComplete(consensus)

\* Data under a prefix that neither record names is never deleted, and the
\* next staging consensus would be built on top of it.  There is none, wherever
\* a deletion was interrupted by a crash or a failed call.
NoUnreachableData ==
    ~overtaken /\ ~late =>
        \A p \in Prefix : p \in {active, inactive} \/ data[p] = {}

\* Whatever a crash or a failed call left in the database, the node comes up.
NodeComesUp == (pc[0] = "down") ~> IsUp

\* An IBD gives up the one place, however it ends.
PlaceIsFreed == \A a \in Attempt : (ibdPeer = a) ~> (ibdPeer # a)

=============================================================================
