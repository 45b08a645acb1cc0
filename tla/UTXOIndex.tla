----------------------------- MODULE UTXOIndex -----------------------------
(***************************************************************************)
(* The UTXO index (domain/utxoindex) and the consensus events feeding it.  *)
(*                                                                         *)
(* Consensus commits a move of virtual and then sends its change set to a  *)
(* bounded channel; a change set that does not fit is dropped, and a flag  *)
(* in memory makes the next one say so.  The events handler of the RPC     *)
(* manager applies the change sets in order.  The index is rebuilt page by *)
(* page at start-up when its stored virtual parents are not virtual's, and *)
(* by the handler after an initial block download replaced the consensus.  *)
(*                                                                         *)
(* A set of virtual parents determines virtual's past, so the UTXO set of  *)
(* virtual is a function of its parents.  That the change set of a move is *)
(* the exact diff between the two sets is what VirtualState is about.      *)
(***************************************************************************)
EXTENDS UTXODiff, Integers, FiniteSets, Sequences

CONSTANTS
    Parents,           \* the sets of parents virtual may have
    UTXOSetOf,         \* the UTXO set of virtual with given parents
    Genesis,           \* virtual's parents when the node is first started
    ChannelCapacity,   \* bound on queued change sets
    PageSize,          \* outpoints per page of a rebuild
    MaxMoves,          \* bound on moves of virtual
    MaxCrashes         \* bound on crashes

ASSUME IndexAssumption ==
    /\ UTXOSetOf \in [Parents -> Collection]
    /\ Genesis \in Parents
    /\ None \notin Parents
    /\ IsFiniteSet(Outpoint)
    /\ ChannelCapacity \in Nat /\ PageSize \in Nat \ {0}
    /\ MaxMoves \in Nat /\ MaxCrashes \in Nat

VARIABLES
    virtual,       \* virtual's parents in the database
    mode,          \* "running", "down", or "starting" while New rebuilds
    dropped,       \* consensus.virtualChangeSetDropped
    chan,          \* the queued events the index is concerned with
    index,         \* the index in the database
    handler,       \* the events handler, or New, inside Update or Reset
    override,      \* the IBD flow in OnPruningPointUTXOSetOverride
    undelivered,   \* history: virtual moved in a way the index is not told of
    moves, crashes

nodeVars == <<virtual, mode, dropped, override, undelivered>>
bounds == <<moves, crashes>>
vars == <<virtual, mode, dropped, chan, index, handler, override, undelivered, moves, crashes>>

-----------------------------------------------------------------------------
(* Data                                                                    *)

Event == [kind : {"change", "override"}, from : Parents, to : Parents, dropped : BOOLEAN]

VirtualChangeSet(from, to, earlierDropped) ==
    [kind |-> "change", from |-> from, to |-> to, dropped |-> earlierDropped]

PruningPointUTXOSetOverride ==
    [kind |-> "override", from |-> virtual, to |-> virtual, dropped |-> FALSE]

VirtualUTXODiff(e) == DiffOf(UTXOSetOf[e.from], UTXOSetOf[e.to])

\* count stands for the circulating supply and the per-address counts, which
\* the code maintains by the same additions and subtractions.
Index == [entries : Collection, parents : Parents \cup {None}, needsReset : BOOLEAN, count : Int]

Stored(c) == {o \in Outpoint : c[o] # None}

Stage == {"idle", "mark", "commit",
          "deleteParents", "deleteMark", "deleteEntries", "info", "page", "put", "finish"}

Handler == [stage : Stage, to : Parents, from : Parents, expected : Parents,
            read : SUBSET Outpoint, page : SUBSET Outpoint]

Writing(c, s, values) == [o \in Outpoint |-> IF o \in s THEN values[o] ELSE c[o]]

-----------------------------------------------------------------------------
(* store.go: staging a change set and committing it                        *)

\* add: an addition cancels a staged removal of the equal entry.
StagedToAdd(d) == {o \in Outpoint : d.toAdd[o] # None /\ d.toAdd[o] # d.toRemove[o]}

StagedToRemove(d) == {o \in Outpoint : d.toRemove[o] # None /\ d.toAdd[o] # d.toRemove[o]}

\* Mutation: counts follow the staged changes, not what the database holds.
Commit_CountsStaged(i, d, parents) ==
    LET replaced == StagedToRemove(d) \ StagedToAdd(d)
        removed == Writing(i.entries, replaced, EmptyCollection)
    IN  [i EXCEPT !.entries = Writing(removed, StagedToAdd(d), d.toAdd),
                  !.parents = parents,
                  !.count = @ + Cardinality(StagedToAdd(d)) - Cardinality(StagedToRemove(d))]

\* commit, in one database transaction.
Commit(i, d, parents) ==
    LET deleted == (StagedToRemove(d) \ StagedToAdd(d)) \cap Stored(i.entries)
        created == StagedToAdd(d) \ Stored(i.entries)
        removed == Writing(i.entries, deleted, EmptyCollection)
    IN  [i EXCEPT !.entries = Writing(removed, StagedToAdd(d), d.toAdd),
                  !.parents = parents,
                  !.count = @ + Cardinality(created) - Cardinality(deleted)]

-----------------------------------------------------------------------------
Idle == [stage |-> "idle", to |-> Genesis, from |-> Genesis, expected |-> Genesis,
         read |-> {}, page |-> {}]

Resetting == [Idle EXCEPT !.stage = "deleteParents"]

Init ==
    /\ virtual = Genesis
    /\ mode = "starting"
    /\ dropped = FALSE
    /\ chan = <<>>
    /\ index = [entries |-> EmptyCollection, parents |-> None, needsReset |-> FALSE, count |-> 0]
    /\ handler = Resetting
    /\ override = "none"
    /\ undelivered = FALSE
    /\ moves = 0
    /\ crashes = 0

-----------------------------------------------------------------------------
(* Consensus                                                               *)

CommitVirtual(q) ==
    /\ mode = "running"
    /\ moves < MaxMoves
    /\ q # virtual
    /\ virtual' = q
    /\ moves' = moves + 1

\* Mutation: the flag is cleared although no change set carries it.
SendVirtualChangedEvent_FlagLost(q, full) ==
    /\ Len(chan) = ChannelCapacity => full
    /\ dropped' = FALSE
    /\ chan' = IF full THEN chan ELSE Append(chan, VirtualChangeSet(virtual, q, dropped))

\* sendVirtualChangedEvent, with the failure of sendBlockAddedEvent before it.
\* Block-added events share the channel, so it may be full at any time.
SendVirtualChangedEvent(q, full) ==
    /\ Len(chan) = ChannelCapacity => full
    /\ dropped' = full
    /\ chan' = IF full THEN chan ELSE Append(chan, VirtualChangeSet(virtual, q, dropped))

\* A block or a chunk of ResolveVirtual moves virtual and is announced.
UpdateVirtual(q) ==
    /\ CommitVirtual(q)
    /\ \E full \in BOOLEAN : SendVirtualChangedEvent(q, full)
    /\ undelivered' = (undelivered \/ override # "none")
    /\ UNCHANGED <<mode, index, handler, override, crashes>>

\* Virtual is committed, and an error before the send ends the operation:
\* ReverseUTXODiffs of a block, or the pruning point update of a chunk.
UpdateVirtualFailsLate(q) ==
    /\ CommitVirtual(q)
    /\ undelivered' = TRUE
    /\ UNCHANGED <<mode, dropped, chan, index, handler, override, crashes>>

\* CommitStagingConsensus: another consensus, with a flag of its own.
CommitStagingConsensus(q) ==
    /\ override = "none"
    /\ CommitVirtual(q)
    /\ dropped' = FALSE
    /\ override' = "committed"
    /\ UNCHANGED <<mode, chan, index, handler, undelivered, crashes>>

\* NotifyPruningPointUTXOSetOverride: the send waits for room, and the flow
\* waits for the reset.
NotifyPruningPointUTXOSetOverride ==
    /\ mode = "running"
    /\ override = "committed"
    /\ Len(chan) < ChannelCapacity
    /\ chan' = Append(chan, PruningPointUTXOSetOverride)
    /\ override' = "queued"
    /\ UNCHANGED <<virtual, mode, dropped, index, handler, undelivered, moves, crashes>>

-----------------------------------------------------------------------------
(* The events handler: Update                                              *)

\* Mutation: the handler ignores the override.
FirstStageOf_OverrideIgnored(e) ==
    IF e.kind = "override" THEN "idle"
    ELSE IF e.dropped THEN "mark" ELSE "commit"

FirstStageOf(e) ==
    IF e.kind = "override" THEN "deleteParents"
    ELSE IF e.dropped THEN "mark" ELSE "commit"

TakeEvent ==
    /\ mode = "running"
    /\ handler.stage = "idle"
    /\ chan # <<>>
    /\ chan' = Tail(chan)
    /\ handler' = [Idle EXCEPT !.stage = FirstStageOf(Head(chan)),
                               !.from = Head(chan).from, !.to = Head(chan).to]
    /\ UNCHANGED <<nodeVars, index, bounds>>

MarkNeedsReset ==
    /\ handler.stage = "mark"
    /\ index' = [index EXCEPT !.needsReset = TRUE]
    /\ handler' = [handler EXCEPT !.stage = "commit"]
    /\ UNCHANGED <<nodeVars, chan, bounds>>

Update ==
    /\ handler.stage = "commit"
    /\ index' = Commit(index, VirtualUTXODiff(handler), handler.to)
    /\ handler' = Idle
    /\ UNCHANGED <<nodeVars, chan, bounds>>

-----------------------------------------------------------------------------
(* Reset, by the handler or by New                                         *)

\* deleteAll deletes the virtual parents first ...
DeleteVirtualParents ==
    /\ handler.stage = "deleteParents"
    /\ index' = [index EXCEPT !.parents = None]
    /\ handler' = [handler EXCEPT !.stage = "deleteMark"]
    /\ UNCHANGED <<nodeVars, chan, bounds>>

\* ... then the mark ...
DeleteNeedsReset ==
    /\ handler.stage = "deleteMark"
    /\ index' = [index EXCEPT !.needsReset = FALSE]
    /\ handler' = [handler EXCEPT !.stage = "deleteEntries"]
    /\ UNCHANGED <<nodeVars, chan, bounds>>

\* ... then the counts and, key by key, the entries.
DeleteEntries ==
    /\ handler.stage = "deleteEntries"
    /\ index' = [index EXCEPT !.entries = EmptyCollection, !.count = 0]
    /\ handler' = [handler EXCEPT !.stage = "info"]
    /\ UNCHANGED <<nodeVars, chan, bounds>>

\* The parents for which the pages will be asked.
GetVirtualInfo ==
    /\ handler.stage = "info"
    /\ handler' = [handler EXCEPT !.stage = "page", !.expected = virtual, !.read = {}]
    /\ UNCHANGED <<nodeVars, chan, index, bounds>>

\* What GetVirtualUTXOs has not returned yet.
Remaining == Stored(UTXOSetOf[virtual]) \ handler.read

\* GetVirtualUTXOs refuses when virtual is not the one the reset began with.
VirtualIsExpected == virtual = handler.expected

\* A page is full, or has all that remains.
GetVirtualUTXOs(page) ==
    /\ handler.stage = "page"
    /\ VirtualIsExpected
    /\ Cardinality(page) = PageSize \/ (page = Remaining /\ Cardinality(page) < PageSize)
    /\ handler' = [handler EXCEPT !.stage = "put", !.page = page]
    /\ UNCHANGED <<nodeVars, chan, index, bounds>>

\* The error reaches the IBD flow, which ends; the node goes on.
ResetFails ==
    /\ handler.stage = "page"
    /\ ~VirtualIsExpected
    /\ handler' = Idle
    /\ override' = "none"
    /\ UNCHANGED <<virtual, mode, dropped, chan, index, undelivered, bounds>>

\* addAndCommitOutpointsWithoutTransaction.  A page that is not full is the
\* last.
AddAndCommitOutpoints ==
    /\ handler.stage = "put"
    /\ index' = [index EXCEPT !.entries = Writing(@, handler.page, UTXOSetOf[handler.expected]),
                              !.count = @ + Cardinality(handler.page)]
    /\ handler' = [handler EXCEPT
                     !.stage = IF Cardinality(handler.page) < PageSize THEN "finish" ELSE "page",
                     !.read = @ \cup handler.page,
                     !.page = {}]
    /\ UNCHANGED <<nodeVars, chan, bounds>>

\* The virtual parents are written last.
FinishReset ==
    /\ handler.stage = "finish"
    /\ index' = [index EXCEPT !.parents = handler.expected]
    /\ handler' = Idle
    /\ mode' = "running"
    /\ override' = "none"
    /\ undelivered' = (undelivered /\ ~(chan = <<>> /\ virtual = handler.expected))
    /\ UNCHANGED <<virtual, dropped, chan, bounds>>

-----------------------------------------------------------------------------
(* Crash and start                                                         *)

\* A page and the deletion of the entries are written key by key, so a crash
\* leaves any part of them.
PartlyWritten(part) ==
    IF handler.stage = "put" THEN Writing(index.entries, part, UTXOSetOf[handler.expected])
    ELSE Writing(index.entries, part, EmptyCollection)

KeysBeingWritten ==
    IF handler.stage = "put" THEN handler.page
    ELSE IF handler.stage = "deleteEntries" THEN Stored(index.entries)
    ELSE {}

Crash ==
    /\ mode # "down"
    /\ crashes < MaxCrashes
    /\ crashes' = crashes + 1
    /\ mode' = "down"
    /\ \E part \in SUBSET KeysBeingWritten : index' = [index EXCEPT !.entries = PartlyWritten(part)]
    /\ dropped' = FALSE
    /\ chan' = <<>>
    /\ handler' = Idle
    /\ override' = "none"
    /\ UNCHANGED <<virtual, undelivered, moves>>

IsSynced == ~index.needsReset /\ index.parents = virtual

\* New, while no block can be added.
New ==
    /\ mode = "down"
    /\ mode' = IF IsSynced THEN "running" ELSE "starting"
    /\ handler' = IF IsSynced THEN Idle ELSE Resetting
    /\ UNCHANGED <<virtual, dropped, chan, index, override, undelivered, bounds>>

-----------------------------------------------------------------------------
HandlerStep ==
    \/ TakeEvent
    \/ MarkNeedsReset
    \/ Update
    \/ DeleteVirtualParents
    \/ DeleteNeedsReset
    \/ DeleteEntries
    \/ GetVirtualInfo
    \/ \E page \in SUBSET Remaining : GetVirtualUTXOs(page)
    \/ ResetFails
    \/ AddAndCommitOutpoints
    \/ FinishReset

Next ==
    \/ \E q \in Parents : UpdateVirtual(q)
    \/ \E q \in Parents : UpdateVirtualFailsLate(q)
    \/ \E q \in Parents : CommitStagingConsensus(q)
    \/ NotifyPruningPointUTXOSetOverride
    \/ HandlerStep
    \/ Crash
    \/ New

Spec == Init /\ [][Next]_vars

\* The handler's goroutine and the IBD flow keep running while the node does,
\* and a stopped node is started again.
FairSpec ==
    /\ Spec
    /\ WF_vars(HandlerStep)
    /\ WF_vars(NotifyPruningPointUTXOSetOverride)
    /\ WF_vars(New)

-----------------------------------------------------------------------------
(* Properties                                                              *)

TypeOK ==
    /\ virtual \in Parents
    /\ mode \in {"running", "down", "starting"}
    /\ dropped \in BOOLEAN
    /\ chan \in Seq(Event)
    /\ index \in Index
    /\ handler \in Handler
    /\ override \in {"none", "committed", "queued"}
    /\ undelivered \in BOOLEAN
    /\ moves \in Nat /\ crashes \in Nat

\* An index that isSynced would trust is virtual's UTXO set, provided that
\* every move of virtual was announced and none came between the commit of a
\* staging consensus and the end of the reset it asks for.
SyncedIndexIsTable ==
    ~undelivered /\ IsSynced => index.entries = UTXOSetOf[virtual]

\* An index that isSynced would trust is virtual's UTXO set: an undelivered
\* change set is announced by the next one, and parents are stored last "to
\* mark that the reset went smoothly and no reset has to be called next time".
TrustedIndexIsTable ==
    IsSynced => index.entries = UTXOSetOf[virtual]

\* The counts are those of the coins stored, also when a change set repeats
\* what a rebuild has read already (commit).
CountsMatchEntries ==
    index.parents # None => index.count = Cardinality(Stored(index.entries))

\* When virtual rests, the index reaches it: the events handler works off the
\* queue and every rebuild ends, unless a change set was dropped or lost.
IndexFollowsVirtual ==
    <>[](index.parents = virtual \/ dropped \/ undelivered)
=============================================================================
