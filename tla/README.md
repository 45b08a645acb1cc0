# HTND in TLA+

HTND is the Go node of the Hoosat network, a proof-of-work block DAG. This
directory models the parts of the node whose correctness depends on order:
blocks arrive in any order, virtual moves back and forth over the DAG, the
database is written in several commits and the process may stop between two of
them; flows of several peers meet at its locks. The modules are checked with TLC
on small instances; the diff algebra, the replay, the UTXO index, the staging
consensus, the mempool, the block flows and the update of the pruning point's UTXO
set are proved correct with TLAPS for all instances.

Paths below are relative to the repository; `csm/` stands for
`domain/consensus/processes/consensusstatemanager/` and `utxo/` for
`domain/consensus/utils/utxo/`.

## 1. The system

### Components and what makes each correct

| Component | State it keeps | Operations | What has to hold |
|---|---|---|---|
| UTXO diff algebra (`utxo/`) | a diff is two maps from outpoint to entry, `toAdd` and `toRemove` | `diffFrom`, `withDiff`, `addEntry`, `removeEntry`, `Reversed` | composing and subtracting diffs gives the diff between the views, and never fails on diffs a node can hold |
| Merge-set replay (`csm/calculate_past_utxo.go`, `utxo/acceptance.go`) | the accumulated diff, the multiset, the recorded changes | one pass per resolved block | diff, multiset and stored diff describe one set |
| UTXO diff store (`datastructures/utxodiffstore`) | a diff and a diff child per block | staging on the selected parent, on the old tip, as root; reversal; restoring | each past can be restored from committed data at all times |
| Consensus state manager (`csm/`) | statuses, tips, virtual's parents, the virtual UTXO table | `AddBlock`, `ResolveVirtual`, `ReverseUTXODiffs`, `RecomputeVirtual` | right and final verdicts; the table is virtual's past; virtual is the heaviest valid chain; finality |
| Consensus facade (`domain/consensus/consensus.go`) | the consensus lock, `virtualNotUpdated`, the event channel | insertion, `ResolveVirtual` in chunks, repairs, queries | virtual is drained before a block is added to it; events follow commits |
| Block processor and validator | statuses, header tips, block bodies | `ValidateAndInsertBlock` and its variants | a block is stored with its header, body and status in one commit |
| GHOSTDAG / DAGKnight | blue sets, blue work, K | colouring of a block from its parents | the k-cluster rule; the same result from the same past |
| Reachability | a tree with intervals, future covering sets | adding a block, reindexing | `IsDAGAncestorOf` equals ancestry |
| Pruning manager | pruning point, its UTXO set, redo journal, history jobs | advance, build and replay the journal, delete history in batches | the stored set is the past of the pruning point; no reader sees deleted history |
| Pruning proof, sync manager, IBD flows | staging consensus, locators, the IBD slot | headers proof, bodies, resolve | one IBD at a time; a failed one leaves the active consensus alone |
| Domain and prefixes (`domain/domain.go`) | active and inactive database prefix, two consensus pointers | init, commit and delete of the staging consensus | exactly one complete consensus is active after any crash |
| Consensus events and UTXO index | a bounded channel, the drop flag, index entries and the virtual parents they stand for | `Update`, `Reset`, the start-up test | the index equals virtual's table whenever it claims to be synced |
| Mempool | transactions, orphans, indices of what each pool spends, fee order | insert, replace, unorphan, new block, expire | one spender per outpoint; mutual links; the limits hold |
| Network: routes, flows, connection and address managers | bounded queues, requested-sets, connection sets, bans | send, receive, close, connect, ban | no lost wake-up, no permanent mark, limits and bans respected |
| RPC, wallet, miner, tools, automatic update | requests and files | conversions and I/O | not a matter of order |

### How the parts interact

A block arrives from a flow (or RPC, or the miner) at the facade, which takes the
consensus lock, drains virtual if bodies were stored without updating it, and
calls the block processor. The processor validates, calls `AddBlock`, commits
one staging area, and then runs `ReverseUTXODiffs`, which commits once per
block. After the commit a change set goes to the event channel, which the RPC
event handler consumes in order to update the UTXO index and to notify clients;
the flow then tells the mempool. IBD stores headers and bodies without touching
virtual and calls `ResolveVirtual` at the end, chunk by chunk, releasing the lock
between chunks. The pruning worker takes the same lock in short batches.

The difficult behaviours are therefore: the interleaving of arrivals with the
chunks of `ResolveVirtual`; the several commits of one operation with a crash
between them; reorganisations, which re-root the diff store; restamped coins,
which give one coin different entries on different branches; the bounded event
channel; and everything that is cached in memory beside the database.
`PROJECT.json` lists each hazard at its line, with the properties aimed at it.

## 2. Plan

The order puts first what everything else reads.

1. `UTXODiff`, `ChainReplay`, `VirtualState`, `ConsensusState`: the UTXO state of the
   DAG. Done; the first two are proved about.
2. `UTXOIndex`: consensus events, the drop flag, the index and its reset, with
   crashes. Done and proved about.
3. `StagingConsensus`: prefixes, the staging consensus, its commit and the IBD that
   fills it, with crashes. Done and proved about.
4. `Mempool`: pool, orphans, replacement, new blocks. Done and proved about.
5. `PruningJournal`, `HistoryDeletion`, `PruningPointSet`: the redo journal and the
   history worker. Done and proved about, with the refinement.
6. `Reachability`, `BlockDAG`: the index and the colouring against reference
   definitions. Checked.
7. `BlockFlows`: block relay, orphans, templates. Done and proved about. Open on the
   network side: routes, connections, handshake, transaction relay.
8. Open: the composition of an IBD over a staging consensus with the index reset
   behind it, and of the pruning worker with `VirtualState`.

Theorem modules in use: seven.

## 3. The modules

### UTXODiff

Collections are total functions with `None` for a missing key. An entry keeps the
value (amount and script), the coinbase flag and the stamp, the DAA score of the
block that merged the coin. Each conflict rule of `diff_algebra.go` is an operator
at one outpoint; the subtractions of `diffFrom` keep their order because a later
one overwrites an earlier. `DiffOf(x, y)` is the reference: the only diff between
two views whose removals name the entry that is there. Serialization and the
immutability flags of the Go types are left out.

### ChainReplay (instance: MCChainReplay)

One pass of `applyMergeSetBlocks` per resolved block. `BeginChain` restores the
selected parent's past, `ContinueChain` uses the one just computed, as the loop
of `ResolveBlockStatus` does. `AcceptTransaction` is `maybeAcceptTransaction` for
transactions that pass: the inputs are in the set, unspent in this pass and
mature; scripts and masses are the choice not to accept. Each acceptance updates
the diff, the MuHash multiset and the recorded changes; `FinishBlock` computes the
stored diff from the changes alone. `MoveVirtual` moves the table to another
resolved set between two resolutions. MuHash is what it hashes, a count per
serialized entry. `DuplicateCoinbases` allows byte-identical coinbases, which the
comments of `utxo/acceptance.go` report from mainnet. The toleration of a block
that inherits a known commitment offset is not modelled.

### VirtualState (instance: MCVirtualState) and ConsensusState

Blocks are numbers in selection order, so `ChooseSelectedParent` is `Max`. `Init`
chooses any DAG that obeys the header rules (parent limit, merge-set limit,
bounded merge), the blocks that fail verification and nothing else. `db` is the
committed database; `op` is an operation between two of its commits.

| Action | Code |
|---|---|
| `InsertHeader`, `InsertBlock` | `ValidateAndInsertBlock` with and without `updateVirtual`, through `AddBlock`, tips, `pickVirtualParents`, `updateVirtual` and the commit |
| `ResolveVirtualChunk` | `ResolveVirtual` up to its first commit, with `findNextPendingTip` and its cache of violating tips |
| `ReverseUTXODiff` | one commit of `ReverseUTXODiffs` |
| `UpdateVirtualAfterResolve` | the rest of the chunk, to the second commit |
| `Crash`, `Restart` | a stop between commits; `consensus.Init` with the repair of a collapsed virtual |
| `RepairDisqualifiedTipChains` | the repair of the same name |

Colouring is abstracted: the whole merge set counts for the score, and the
colouring never changes the selection order. One coin, spent differently by two
blocks, makes validity depend on the chain; coinbases are stamped with the score
of the merging block. `verifyUTXO` fails for the blocks in `bad` and for blocks
whose spend is not in their past.

A resolved block keeps a diff and a diff child. `SettleOnSelectedParent` and
`SettleResolveTip` are the ways in which `resolveSingleBlockStatus` stages them, and
`RestorePastUTXO` is the walk that composes diffs along diff children; it is `None`, an
internal error, also where the code would not return from a loop. The code re-points virtual's selected parent whether or not it is the root of the store, and so
does the model. `damaged` is a history variable: the process stopped between the two
commits of a chunk. A node is `Whole` when that never happened and nothing was repaired.

`ConsensusState` is what a reader of virtual may rely on: verdicts that are right
and final, and a UTXO set that moves in one step with virtual's parents.
`VirtualState` implements it under the mapping given at the end of the module, on a
node that crashes as long as it is whole (`ImplementsWhileWhole`).

### UTXOIndex (instance: MCUTXOIndex)

Virtual's parents determine virtual's past, so the UTXO set of virtual is a
function of its parents, and a change set is the exact diff between two of them,
which is what the modules above are about. `count` stands for the per-address
counts and the circulating supply. The running node, the events handler and the
IBD flow interleave at every database write of the index.

| Action | Code |
|---|---|
| `UpdateVirtual` | `validateAndInsertBlockNoLock` or a chunk of `ResolveVirtual` that moves virtual, with `sendBlockAddedEvent` and `sendVirtualChangedEvent`; a full channel drops the change set and sets the flag |
| `UpdateVirtualFailsLate` | the same, when a step between the commit and the send fails |
| `CommitStagingConsensus`, `NotifyPruningPointUTXOSetOverride` | the end of an IBD with a new pruning point: another consensus, then the queued reset |
| `TakeEvent`, `MarkNeedsReset`, `Update` | the events handler and `UTXOIndex.Update`: the mark is written first, the change set in one transaction |
| `DeleteVirtualParents`, `DeleteNeedsReset`, `DeleteEntries` | `deleteAll` in its order |
| `GetVirtualInfo`, `GetVirtualUTXOs`, `AddAndCommitOutpoints`, `FinishReset`, `ResetFails` | `Reset`, a page at a time; a page is refused when virtual has moved |
| `Crash`, `New` | a stop that leaves any part of a page or of the deletion, loses channel and flag; the start-up test `isSynced` |

Pages are any outpoints not read yet, since the key order plays no part. The
start-up test also asks for two keys introduced by migrations; every reset writes
them before the parents, so they are never missing when the parents are there.
`undelivered` is a history variable: no guard and no other variable depends on it.

### Reachability and BlockDAG (instance: MCBlockDAG)

`BlockDAG` inserts blocks with any parents the header rules allow. `InsertHeader`
is `processHeader`: parent checks (`checkParentsIncest`), the GHOSTDAG data from the
parents, the insertion into the reachability index, the headers selected tip and
chain, the reindex root. `InsertBody` is the later insertion of the body of a known
header, which runs `AddHeaderTip` and `UpdateReindexRoot` again.

`Reachability` is the index: the tree with its intervals, the future covering sets,
`reindexIntervals`, the reclaiming of slack before and after the chain to the
reindex root, `exponentialFractions` and `propagateInterval`, `UpdateReindexRoot`. The
code has two copies of most of the reclaiming, for the siblings before and after the
chosen child; here they are one definition over a `side`. The floats of
`exponentialFractions` are rationals, rounded half up. `index.failed` stands for an
error return, which ends the behaviour and falsifies the properties.

The rules are those of block versions from 10 on: dynamic K, an anticone bound of
k + 1, and no parent that is an ancestor of another one. With antichain parents the
DAGKnight rank is the smallest k of the list the code tries that is at least the
number of parents. The pruning point stays at genesis, so every header may become
the headers selected tip. Left out: the reset of the reindex root during an import,
and the branches of the future covering set that replace a covered block, which a
new block, always a leaf, never takes.

### UTXO set of the pruning point: PruningJournal, HistoryDeletion, PruningPointSet

`PruningJournal` extends `HistoryDeletion`; one consensus lock (`lock`) is shared by
insertion, journal worker, start-up and the deletion of history.

| Action | Code |
|---|---|
| `StartStep` | start-up: resuming the journal, or recovering a pending update and initializing it, or, when the disk is too full, removing it for the deferred path |
| `SelectPruningPoint`, `SelectAfterWrite` | `savePruningPoint` and the commit that moves the pruning point and raises the pending flag; without the journal the previous move is written first |
| `InsertionStep` | `UpdatePruningPointIfRequired` after an insertion: a request to the worker, or the writes of the deferred path |
| `WorkerStep` | the worker: capture, begin, derive on a snapshot, records in batches, seal, apply in batches with a durable cursor, scan without the lock, finish; the disk fallback |
| `RefuseBegin`, `RefuseJournalWrite` | the disk is too full for a journal, at its beginning or in the middle |
| `HealthStep` | the health check of the served set, which hashes without the lock |
| `OwnerStep`, `FailHistoryBatch`, `ReadBlock`, `FindBlock`, `ReturnBlock` | the history worker: publish the mask, delete in batches, evict, retire the job; readers that fill a cache |
| `Crash` | a stop between any two writes; all writes go to one log, so a loss of power leaves what an earlier crash leaves too |

`PruningPointSet` is what a peer may rely on: the node serves nothing, or the complete
set of its pruning point, and serves again once the pruning point rests. `PruningJournal` implements
it, fairness included.

Not modelled: archival nodes, `--prepare-downgrade` and binaries of earlier releases,
`ResetJournalAfterImport`, the depth of deletion. The fallback exists only at `Begin`;
its clause "unless this process still records it as written" never holds, because
`captureJournalJob` clears what it would refer to, and does no harm.

### StagingConsensus (instance: MCStagingConsensus)

The keys of a prefix are sets of parts of a consensus with the process that wrote
them, so that a mixture of two is visible. Process 0 is `New` with the migration,
process a > 0 the a-th IBD.

| Action | Code |
|---|---|
| `StartProcess`, `SetActivePrefix`, `OpenConsensus`, `SyncConsensuses` | `domain.New` and `migrate`, which copies the old consensus part by part, or builds the new one on the genesis |
| `BeginDelete`, `DeleteKey`, `EndDelete`, `FailDelete` | `DeleteInactivePrefix`, key by key, and what each caller does afterwards |
| `InitStagingConsensus`, `CommitStagingConsensus`, `SwitchConsensus` | the functions of `domain.go`; the commit is one transaction, the switch of the served consensus a later step under the same lock |
| `TrySetIBDRunning`, `UnsetIBDRunning`, `TimeoutIBD` | the place of the one IBD; a timeout frees it and closes the route, the goroutine goes on |
| `ApplyPruningPointProof`, `ImportPruningPoints`, `SyncHeaders`, `AppendImportedUTXOs`, `ValidateImportedPruningPoint`, `FailDownload` | `downloadHeadersAndPruningUTXOSet` and the end of the download |
| `BeginInsertion`, `EndInsertion` | a block insertion on the consensus it read when it began |
| `NilConsensus`, `Crash` | the end of the process: a call on a nil consensus, or a crash |

`overtaken` and `late` are history variables that name the two conditions under which
the code's own assumptions fail (see Deviations); no guard reads them.

### Mempool (instance: MCMempool)

The mutex makes operations exclude each other, but virtual moves between two
questions an operation asks consensus, so `OperationStep` takes the operation in `op`
from one question to the next.

| Action | Code |
|---|---|
| `SubmitTransaction`, `SubmitTransactionReplacement` | `ValidateAndInsertTransaction` with and without replacement, from RPC or a peer |
| `OperationStep` | validation, `maybeAddOrphan`, `addTransaction`, `processOrphansAfterAcceptedTransaction`, `limitTransactionCount`, eviction, revalidation |
| `FlowsCall` | `HandleNewBlockTransactions` with the expiry that ends it, the revalidation of high-priority transactions, the removal of what a template build found invalid |
| `VirtualMoves` | virtual accepts transactions, or a reorganisation takes them back |

Masses, scripts and fees are constants of a transaction; the index of the pool's
unspent outputs is written and never read, and left out. Chains inside the pool
exist only between the moment virtual accepts a parent and the handling of its
block, because an input in the pool makes a transaction an orphan. The redeemers of
a transaction are the least set that has its children and theirs, which is what the
loop of `getRedeemers` collects. `leftover` and `op.shifted` are history: they name the
two cases in which the code itself gives up a property (see Deviations).

### BlockFlows (instance: MCBlockFlows)

Relay flows and RPC submissions, step by step between the locks they take: the consensus
lock, the orphans mutex, the requested set, the mutex of the mining manager's cache.

| Action | Code |
|---|---|
| `ReceiveInv`, `ReadInv`, `SkipInv` | the inv queue and the early returns of the relay loop |
| `EndWait`, `HandleInv` | the request and its answer or timeout; orphan or insertion, and the request of missing roots |
| `AddBlock`, `OnNewBlockStep` | a block submitted over RPC; `OnNewBlock`: template, unorphaning, mempool, disqualified blocks |
| `CommitInsertion` | the commit of an insertion; what it disqualifies was noted before |
| `GetBlockTemplate`, `BuildStep` | the template cache and a build that races the insertions |

`quiet` is a history variable: virtual last moved in a way after which no flow clears
the template. That is a move by an unorphaned block, or by a relay flow that finds
no parent of virtual it did not see before its block; such a template lives until its
age limit.

A block that breaks a rule leaves its status and nothing else. The orphan set takes such
a parent for present (`orphans.go:37`), validation for a reason to refuse the block
without a trace (`ErrInvalidAncestorBlock`), so an orphan built on one waits until it is
evicted, although `unorphanBlock` may be tried on it whenever another block arrives.
Blocks refused up to proof of work, which leave no status either, and the state of a
block known by its header only are left out.

## 4. Runs

| Run | Question | Result |
|---|---|---|
| `chain_replay` | do diff, multiset and stored diff agree on chains of distinct coinbases? | holds |
| `virtual_resolve` | verdicts, table, virtual, one root and restorable pasts for every arrival order of every DAG | holds |
| `virtual_finality` | finality, legal parents and right verdicts under tight limits, with the repair of disqualified chains | holds |
| `virtual_crash` | crashes between commits while bodies arrive apart from virtual: is virtual eventually up to date, and, unless the crash came inside a chunk, the refinement and restorable pasts | holds |
| `virtual_chunk_crash` | is every past restorable after a crash inside a chunk of `ResolveVirtual`? | violated, see Deviations |
| `virtual_bounded_merge` | is the table virtual's past when the bounded merge rule rejects parents? | violated, see Deviations |
| `utxo_index` | is an index that passes for synced virtual's UTXO set, do the counts match, and does it catch up, when every move of virtual is announced? | holds |
| `mempool` | one spender per outpoint, mutual links, protected priorities, limits, and does every operation end, while virtual moves? | holds |
| `block_flows` | no forgotten orphan, request or template, and does every flow come back? | holds |
| `staging` | complete active and served consensus, no unreachable data, a node that comes up, a place that is freed | holds |
| `pruning_journal` | complete served sets, derivable pending moves, deletions that are done, once and for good | holds |
| `block_dag` | index against ancestry, merge sets against pasts, chain store against the tip | holds |

### Bounds

ChainReplay: scores up to 3 and four resolved blocks, which is a chain of three
above the start or two branches with virtual on either; two spenders of one coin,
two coinbases, and a transaction that spends a transaction output with a
coinbase. A restamp needs two branches of one block each, a resurrection three
blocks. VirtualState: four blocks
above genesis and two parents each give every shape of a reorganisation of depth
two with a merge; chunks of one block make `ResolveVirtual` stop everywhere;
finality depth 2 and merge-set limit 2 make both limits bite; two crashes allow
one in the recovery from another, on three blocks of which two may fail, with bodies
that arrive before virtual is resolved, so that chunks find a backlog. The runs without a small finality or merge
depth set them to 9, out of reach, so that each limit is examined alone.
`virtual_finality` does not check for deadlock, since a node that met an internal
error stops.

UTXOIndex: three sets of parents over three outpoints, between which a coin is
created, spent and restamped; a channel of two, pages of two out of up to three
coins, four moves of virtual and one crash. A dropped change set that is noted
needs two moves, one that comes back to the indexed parents three, and an override
with a change set queued before and after it three. A node whose moves are used
up comes to rest, so this run does not check for deadlock; `IndexFollowsVirtual`
says that it rests in the right place.

Mempool: four transactions, two that spend one coin and a child that competes with
another transaction for its second input; one place in each pool, so that every
insertion is at the limit. A transaction held in both pools, a replacement of it and
a promotion after its coin was spent all occur. BlockFlows: a block on genesis,
which virtual may refuse to merge, an invalid one on it and one on that; one peer
with one queued inv beside one RPC call, one place for orphans. The hazards are
races of two flows, and a peer and an RPC call are two. A node without further invs comes to
rest, so deadlock is not checked; `FlowsComeBack` says that no flow is stuck.

StagingConsensus: two IBDs, one timeout, one failed call, one crash: enough for a
run that overtakes another, for a failure in the recovery from a crash and for a
second IBD on the remains of the first, and for a crash at every part the migration
copies. The invariants are proved without bounds.

PruningJournal: two moves over three outpoints, of which one is spent, one created
and one restamped by each; two blocks per move, batches of one; one refusal by the
disk and one crash (the properties also hold with two). Two moves are what makes a
pending move follow a finished one, or two pending at once.

BlockDAG: eight parent links. The least number with a block that is red for the size
of its anticone is eight (a chain of five, one block beside it, one that merges
both). Five nodes' worth of interval and a slack of one make nearly every insertion
reindex, on both sides of the chain to the reindex root and at every level, and a
window of one makes the root move and change chains. Not reached within the bounds:
a candidate that is red because the anticone of a blue is full, and the limit of the
walk in `blueAnticoneSize`.

### Fairness

`FairSpec` of VirtualState says that a node which can resolve keeps doing so and that
a stopped node is started again. `consensus.ResolveVirtual` loops over chunks until
one is done, and insertion drains virtual before it updates it, so a chunk that is
possible is taken. The condition is weak fairness with its enabling condition
written out (`CanResolve`): exactly then a `Resolve` step changes something,
because a chunk that is done clears `notUpdated` and any other one changes `op` or
`fault`. No fairness is assumed of arrivals, crashes or repairs.

UTXOIndex: weak fairness of the events handler, of the send of the IBD flow and
of the restart: the handler's goroutine loops over the channel until the node
stops, and the flow blocks in a channel send. Mempool: weak fairness of the steps of
an operation that holds the mutex, which wait for nobody. BlockFlows: weak
fairness of a flow's own steps, of the end of its wait (a timer or the closed route
ends it) and of a commit in progress; strong fairness of `ClearBlockTemplate`, because
template builds may take its lock again and again, and Go's mutexes hand over to
a goroutine that has waited long. StagingConsensus: weak fairness of the start-up,
which an operator repeats, and of each IBD's goroutine, whose requests time out.
PruningJournal: weak fairness of start-up, worker and history worker, and of the
check that follows every block, since blocks keep arriving.

## 5. Deviations

Some statements of the code's own comments and tests fail in the model.

With a run:

- Bounded merge: parents that are staged only to test them are committed when the
  result equals the previous parents (`virtual_bounded_merge`).
- Crash inside a chunk of `ResolveVirtual` (`virtual_chunk_crash`): the first commit of a
  chunk roots the diff store at the block it resolved, the second moves virtual there.
  After a crash between the two, the next chunk leads virtual's selected parent through
  the block it resolves (`csm/resolve_block_status.go:532`) and moves virtual there. The
  first block keeps its diff without a diff child, a second root that is read against
  a table it was not computed from.

The rest are known from the models; the properties of the runs name the condition or
the instance excludes it, as said.

- Duplicate coinbases (`DuplicateCoinbases = TRUE` in ChainReplay, property
  `MultisetMatchesDiff`): `resolveExisting` looks at pending removals before pending
  additions, so a past that restamped the output is hashed twice. The diff is
  inexact in the same circumstances, since an addition that cancels a pending
  removal leaves an older pending addition in place; the algebra does not fail.
- Repair (`consensus.go:2103`): virtual stands on a disqualified block when
  no valid tip is left; the block is then the root of the diff store and the diff child
  of its selected parent. Reset to pending and disqualified again, it gets its selected
  parent as diff child: a loop, from which `restorePastUTXO` does not return.
  `PastIsRestorable` fails with one repair, three blocks and one that fails verification.
- Undelivered change sets (`TrustedIndexIsTable` of UTXOIndex, which no run checks):
  when a pruning-point update fails after the commit of virtual, the change set is
  neither sent nor noted as dropped, so a later one is applied to an index it does
  not follow, and the stored parents pass for synced. A second way leads to the same
  state without any failure: virtual moves between the commit of a staging consensus
  and the end of the queued reset, for example by a block submitted over RPC.
  `app/rpc/manager.go:250` says that "Waiting keeps virtual still while the reset
  pages through it", but only the waiting flow is kept from moving it. A reset that
  gives up leaves a partial index without parents, and the next `Update` stores
  parents again.
- Disqualified blocks: a block is accepted and its transactions handled; a later
  insertion disqualifies it and notes it before the commit; another flow empties the
  queue between the note and the commit, finds the block not disqualified and passes
  over it (`disqualified_blocks.go:92`); nothing queues it again, so its transactions
  are not restored. The comment at line 72 says "this covers a block that was pending
  verification then and was disqualified afterwards." `GetBlockInfo` reads statuses
  without the consensus lock (`consensus.go:789`).
- IBD after a timeout (`overtaken`): the goroutine of a run that timed out goes on; a
  run started meanwhile shares its staging consensus, which either may delete or
  commit. `ibd_with_headers_proof.go:22` takes a staging consensus that is there for the
  remains of an IBD that ended.
- Insertion across a commit of the staging consensus (`late`): it writes to the prefix
  of the previous consensus, after its deletion perhaps. `domain.go:179` says "Its data
  is deleted below, and its background work must not write there afterwards."; `Close`
  stops the background work, not an insertion that is under way.
- With `DisableIBDTimeout`, `getIBDTimeout` returns 0 and the test `!DisableIBDTimeout ||
  timeout == 0` makes every IBD time out at once.
- Template age: `miningmanager.go:66-70` says 250 ms in the comment and 100 ms in code.
- Relay: `addToRelayInv` removes another flow's mark of a requested block; and a root
  left out because another flow requests it is not requested again when that
  flow's request times out.
- Mempool: a transaction held in both pools loses only its orphan copy when it is mined,
  and the copy in the pool follows with its redeemers (`remove_transaction.go:10-11`);
  when it is replaced, the conflicting copy stays in the pool (`leftover`,
  `orphan_pool.go:204-207`). An orphan's entry found earlier is kept
  after virtual spent the coin (`orphan_pool.go:159-161`). Promotions by a new block do not
  apply the transaction limit, hence `InsertionEndsWithinLimit` and no invariant.
- `limitTransactionCount` (`transactions_pool.go:231`): its index counts the high-priority
  transactions passed so far. When one of these is a redeemer of the transaction
  evicted next, it leaves with it, and as many low-priority transactions move below
  the index, where the loop does not look again. The insertion may then end with the
  pool above its limit and low-priority transactions in it (`op.shifted`). It takes a
  chain inside the pool, a high-priority child with a lower fee rate than its parent.
- Colouring: the comment at `ghostdag.go:31-46` has the anticone of a candidate
  counted in the blue set of the new block; `checkBlueCandidate` begins at the data of
  the selected parent, so the blues of the new merge set, and the selected parent, are
  not counted.
- Import: the doc comment at `import_pruning_utxo_set.go:158-168` says a set that does not
  match is accepted; the code returns `ErrBadPruningPointUTXOSet`.

## 6. Proofs

`UTXODiffProofs` fixes one outpoint, enumerates the entries the exact diffs have
there and lifts the result by extensionality. The assumption is `Agree`: two views
that hold an outpoint hold the same coin, up to its stamp, because a transaction
ID is derived from content. `SameStampSameEntry` is why comparing stamps is enough.

`ChainReplayProofs` assumes distinct coinbases along a chain (`~DuplicateCoinbases`),
without which the statements are false. The inductive invariant says, beside the
types, that every resolved set holds each coin under its content's value and only
if its creator was accepted, that the diff and the multiset are those of the set
being built, that untouched outpoints are as in the selected parent's past, and
that spent coins are not in the set. It is needed because the step from one
acceptance to the next must know that an output is new to the set.

`StagingConsensusProofs` shows the three invariants of the staging consensus for every
number of IBDs, timeouts, failed calls and crashes. The invariant is `IInv`: as long as
no IBD was started beside one that had timed out, a single process at a time
works on the prefixes (`Alone`, `LockInv`), so that its step determines what the
records name (`RecordsInv`), what a deletion has yet to visit (`DeletionInv`), which parts
the staging consensus has (`StagingInv`) and which prefix is served (`ServedInv`). None
of the three properties is inductive without them: that a commit makes a
complete consensus active rests on the download having begun on an empty prefix,
which rests on the last deletion having visited everything.

`UTXOIndexProofs` shows that an index that passes for synced is virtual's UTXO set and
that the counts are right, for any sets of parents and outpoints and any size of the
channel and of the pages. The property speaks of the index alone; what makes it inductive
follows each change set on its way: the queued change sets link up with each other and
with the index unless one says that another was dropped (`ChainInv`), the queue ends at
virtual unless the next change set will say so (`DeliveryInv`), an override is the last event
of the queue (`OverrideInv`), a rebuild holds exactly what it has read (`RebuildInv`).

`BlockFlowsProofs` shows that no orphan, no mark of a request and no stale template is
left behind, for any finite set of blocks and any peers and RPC calls: an orphan has a
parent that is unknown or invalid, or a flow is on its way to it. The invariant adds
that an insertion belongs to a flow that waits for it and adds only that flow's block
(`InsertionInv`), that only the holder of the orphans mutex has children to unorphan
(`ChildrenInv`), and that a template which a builder is about to cache counts as cached
(`TemplateInv`). Most steps change one flow between two waits and nothing that others depend
on; one lemma (`PrivateStepInv`) covers them.

`MempoolProofs` shows the two invariants of the indices, and, as properties of steps, that
priority protects and that insertions keep the limits, for any finite set of transactions.
The invariant `PoolsInv` is that links are mutual and the indices exact; it needs that what
leaves the pool leaves with all its redeemers, which follows from the definition of the
redeemers as a least closed set. `ReplaceInv` says that what a replacement has yet to evict is all
that spends its inputs, so the insertion at its end finds them free; `LimitInv` that the
index of `limitTransactionCount` has passed no low-priority transaction, for which the
fee-rate order must be total and transitive: rates are compared by cross multiplication.

`PruningJournalProofs` shows, for any chain of UTXO sets, any number of moves, crashes,
refused writes and failed batches and any batch size (`JournalAssumption`, `PruningAssumption`):
a health check that answers is right, the node never halts on its own data, a pending update can
be derived, a sealed job takes the live set to its target, a job deletes all of its
history, what is deleted stays deleted for readers, and the safety part of
`PruningPointSet`. All of them rest on one number, the point at which the live set was
last complete (`Materialized`). `LiveInv` says that the live set is on its way from there
to the next point; `LockInv`, `BuildInv` and `SealInv` say what is left of the way, for a
direct write under the lock, for a journal under construction and for a sealed journal that
is being applied; `ScanInv` that a scan which nothing invalidated holds the live set. Deletion
goes from the bottom of the chain up and stays below `Materialized` (`StoredInv`), which
leaves the next diff derivable; the plan of the owner is what is left of its job, and the
mask hides it and nothing that a later reader needs (`PlanInv`). The chain has no
gaps for that reason, so a batch, the blocks less than `BatchBlocks` above the lowest one of
the plan, is the first `BatchBlocks` of it.

Only model-checked: VirtualState and its refinement, Reachability and BlockDAG, which
recurse over the DAG, out of the prover's reach; and all liveness, of which
`JobsAreDone`, `VirtualIsDrained` and the fairness part of `ServesCompleteSets` are examples.

## 7. Not modelled

The components marked `not_modelled` in `PROJECT.json`: the network below the flows
(routes, connections, addresses, handshake), transaction relay, the pruning proof
and the sync manager, and those without protocol state of their own (formats,
scripts, tools, configuration). Within the modelled parts: the commitment offset
toleration, the effect of colouring on VirtualState (BlockDAG has it, without UTXO
state), caches of the stores, trusted-data insertion, and the batches of the import
of a pruning-point UTXO set, which StagingConsensus takes in one step.
