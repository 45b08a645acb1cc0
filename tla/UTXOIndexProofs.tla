-------------------------- MODULE UTXOIndexProofs --------------------------
(***************************************************************************)
(* An index that New would trust is virtual's UTXO set, and its counts are *)
(* those of its entries, for every set of virtual parents, every UTXO set, *)
(* every capacity of the channel and page size, and any number of moves    *)
(* and crashes.                                                            *)
(*                                                                         *)
(* The argument follows the queue: a change set begins where the one       *)
(* before it ends or says that one was dropped, an override is the last    *)
(* event of the queue, and a rebuild holds what it has read.               *)
(***************************************************************************)
EXTENDS UTXOIndex, FiniteSetTheorems, TLAPS

-----------------------------------------------------------------------------
(* The inductive invariant                                                 *)

Resets == {"deleteParents", "deleteMark", "deleteEntries", "info", "page", "put", "finish"}

Rebuilds == {"page", "put", "finish"}

\* The virtual parents the index is at once the event under way is applied,
\* and the first i queued ones after it.
After(i) ==
    IF i # 0 THEN chan[i].to
    ELSE IF handler.stage \in {"mark", "commit"} THEN handler.to
    ELSE index.parents

\* A change set that says nothing of a dropped one begins where the one
\* before it ends.
ChainInv ==
    /\ handler.stage = "commit" => index.needsReset \/ index.parents = handler.from
    /\ \A i \in 1..Len(chan) :
          chan[i].kind = "change" /\ ~chan[i].dropped => chan[i].from = After(i - 1)

\* An override is the last event of the queue, and there is one as long as
\* the flow waits for the reset.
OverrideInv ==
    /\ \A i \in 1..Len(chan) : chan[i].kind = "override" => override = "queued" /\ i = Len(chan)
    /\ override = "queued" => chan # <<>> /\ chan[Len(chan)].kind = "override"

\* Virtual is where the queue ends, unless the next change set will say that
\* one was dropped or the queue ends with an override.
DeliveryInv ==
    mode = "running" /\ ~undelivered =>
        IF handler.stage \in Resets
        THEN /\ override = "queued"
             /\ chan = <<>>
             /\ handler.stage \in Rebuilds => handler.expected = virtual
        ELSE /\ ChainInv
             /\ OverrideInv
             /\ override = "none" => dropped \/ virtual = After(Len(chan))

\* No block is added while the node is down or New rebuilds the index.
StartInv ==
    mode # "running" =>
        /\ chan = <<>>
        /\ override = "none"
        /\ mode = "down" => handler.stage = "idle"
        /\ mode = "starting" => handler.stage \in Resets
        /\ handler.stage \in Rebuilds => handler.expected = virtual

\* What a rebuild has read is what the index holds.
RebuildInv ==
    LET table == UTXOSetOf[handler.expected]
    IN  /\ handler.stage \in Resets \ {"deleteParents"} => index.parents = None
        /\ handler.stage = "info" => index.entries = EmptyCollection
        /\ handler.stage \in Rebuilds =>
              /\ index.entries = Writing(EmptyCollection, handler.read, table)
              /\ handler.read \subseteq Stored(table)
        /\ handler.stage = "put" =>
              /\ handler.page \subseteq Stored(table) \ handler.read
              /\ Cardinality(handler.page) < PageSize => handler.page = Stored(table) \ handler.read
        /\ handler.stage = "finish" => handler.read = Stored(table)

\* An index that needs no reset is the table of its parents.
TableInv ==
    ~undelivered /\ ~index.needsReset /\ index.parents # None
        => index.entries = UTXOSetOf[index.parents]

\* The counts are wrong only where a reset will set them.
CountInv ==
    \/ index.count = Cardinality(Stored(index.entries))
    \/ /\ index.parents = None
       /\ mode = "down" \/ handler.stage \in {"deleteParents", "deleteMark", "deleteEntries"}

IInv == TypeOK /\ DeliveryInv /\ StartInv /\ RebuildInv /\ TableInv /\ CountInv

-----------------------------------------------------------------------------
(* Staging and committing a change set                                     *)

\* What is stored is finite.
LEMMA Finite ==
    ASSUME NEW S \in SUBSET Outpoint
    PROVE  IsFiniteSet(S) /\ Cardinality(S) \in Nat
  BY IndexAssumption, FS_Subset, FS_CardinalityType

\* Writing entries at some outpoints gives a collection.
LEMMA WritingType ==
    ASSUME NEW c \in Collection, NEW values \in Collection, NEW s \in SUBSET Outpoint
    PROVE  Writing(c, s, values) \in Collection
  BY DEF Writing, Collection

\* Writing nowhere changes nothing.
LEMMA WritingNothing ==
    ASSUME NEW c \in Collection, NEW values
    PROVE  Writing(c, {}, values) = c
  BY DEF Writing, Collection

\* The diff between two UTXO sets is a diff.
LEMMA DiffType ==
    ASSUME NEW x \in Collection, NEW y \in Collection
    PROVE  DiffOf(x, y) \in Diff
  BY DEF DiffOf, Diff, Collection

\* commit writes the parents and leaves the mark.
LEMMA CommitType ==
    ASSUME NEW i \in Index, NEW d \in Diff, NEW p \in Parents
    PROVE  /\ Commit(i, d, p) \in Index
           /\ Commit(i, d, p).parents = p
           /\ Commit(i, d, p).needsReset = i.needsReset
<1> DEFINE deleted == (StagedToRemove(d) \ StagedToAdd(d)) \cap Stored(i.entries)
           created == StagedToAdd(d) \ Stored(i.entries)
           removed == Writing(i.entries, deleted, EmptyCollection)
           written == Writing(removed, StagedToAdd(d), d.toAdd)
<1>1. /\ i.entries \in Collection /\ d.toAdd \in Collection /\ EmptyCollection \in Collection
      /\ StagedToAdd(d) \in SUBSET Outpoint /\ deleted \in SUBSET Outpoint
      /\ created \in SUBSET Outpoint
  BY DEF Index, Diff, EmptyCollection, Collection, StagedToAdd, Stored
<1>2. removed \in Collection
  BY <1>1, WritingType
<1>3. written \in Collection
  BY <1>1, <1>2, WritingType
<1>4. Cardinality(created) \in Nat /\ Cardinality(deleted) \in Nat
  BY <1>1, Finite
<1>5. Commit(i, d, p) =
        [i EXCEPT !.entries = written, !.parents = p,
                  !.count = @ + Cardinality(created) - Cardinality(deleted)]
  BY DEF Commit
<1> HIDE DEF created, deleted, removed, written
<1>6. i.count + Cardinality(created) - Cardinality(deleted) \in Int
  BY <1>4 DEF Index
<1>7. Commit(i, d, p) \in Index
  BY <1>3, <1>5, <1>6, Zenon DEF Index
<1>8. QED  BY <1>5, <1>7 DEF Index

\* Committing the diff of a move to the table of its beginning gives the
\* table of its end.
LEMMA CommitTable ==
    ASSUME NEW i \in Index, NEW x \in Collection, NEW y \in Collection, NEW p, i.entries = x
    PROVE  Commit(i, DiffOf(x, y), p).entries = y
<1> DEFINE d == DiffOf(x, y)
           deleted == (StagedToRemove(d) \ StagedToAdd(d)) \cap Stored(i.entries)
           removed == Writing(i.entries, deleted, EmptyCollection)
           written == Writing(removed, StagedToAdd(d), d.toAdd)
<1>1. Commit(i, d, p).entries = written
  BY DEF Commit, Index
<1>2. ASSUME NEW o \in Outpoint
      PROVE  written[o] = y[o]
  <2>1. /\ d.toAdd[o] = (IF x[o] # y[o] THEN y[o] ELSE None)
        /\ d.toRemove[o] = (IF x[o] # y[o] THEN x[o] ELSE None)
    BY DEF DiffOf
  <2>2. /\ o \in StagedToAdd(d) <=> d.toAdd[o] # None /\ d.toAdd[o] # d.toRemove[o]
        /\ o \in StagedToRemove(d) <=> d.toRemove[o] # None /\ d.toAdd[o] # d.toRemove[o]
    BY DEF StagedToAdd, StagedToRemove
  <2>3. removed[o] = IF o \in deleted THEN None ELSE x[o]
    BY DEF Writing, EmptyCollection
  <2>4. o \in deleted <=> o \in StagedToRemove(d) /\ o \notin StagedToAdd(d) /\ x[o] # None
    BY DEF Stored
  <2>5. written[o] = IF o \in StagedToAdd(d) THEN d.toAdd[o] ELSE removed[o]
    BY DEF Writing
  <2> HIDE DEF d, deleted, removed, written
  <2>6. QED  BY <2>1, <2>2, <2>3, <2>4, <2>5
<1>3. written = [o \in Outpoint |-> written[o]] /\ y = [o \in Outpoint |-> y[o]]
  BY DEF Writing, Collection
<1> HIDE DEF written
<1>4. QED  BY <1>1, <1>2, <1>3

\* commit counts what it really adds and deletes, so the counts stay right
\* whatever the index held.
LEMMA CommitCounts ==
    ASSUME NEW i \in Index, NEW d \in Diff, NEW p,
           i.count = Cardinality(Stored(i.entries))
    PROVE  Commit(i, d, p).count = Cardinality(Stored(Commit(i, d, p).entries))
<1> DEFINE held == Stored(i.entries)
           added == StagedToAdd(d)
           deleted == (StagedToRemove(d) \ added) \cap held
           created == added \ held
           removed == Writing(i.entries, deleted, EmptyCollection)
           written == Writing(removed, added, d.toAdd)
<1>1. /\ Commit(i, d, p).entries = written
      /\ Commit(i, d, p).count = i.count + Cardinality(created) - Cardinality(deleted)
  BY DEF Commit, Index
<1>2. Stored(written) = (held \ deleted) \cup created
  <2>1. ASSUME NEW o \in Outpoint
        PROVE  o \in Stored(written) <=> o \in (held \ deleted) \cup created
    <3>1. removed[o] = IF o \in deleted THEN None ELSE i.entries[o]
      BY DEF Writing, EmptyCollection
    <3>2. written[o] = IF o \in added THEN d.toAdd[o] ELSE removed[o]
      BY DEF Writing
    <3>3. o \in added => d.toAdd[o] # None
      BY DEF StagedToAdd
    <3>4. o \in held <=> i.entries[o] # None
      BY DEF Stored
    <3>5. o \in Stored(written) <=> written[o] # None
      BY DEF Stored
    <3>6. o \in deleted => o \in held /\ o \notin added
      OBVIOUS
    <3>7. o \in created <=> o \in added /\ o \notin held
      OBVIOUS
    <3> HIDE DEF held, added, deleted, created, removed, written
    <3>8. QED  BY <3>1, <3>2, <3>3, <3>4, <3>5, <3>6, <3>7
  <2>2. Stored(written) \subseteq Outpoint /\ (held \ deleted) \cup created \subseteq Outpoint
    BY Zenon DEF Stored, StagedToAdd
  <2> HIDE DEF held, added, deleted, created, removed, written
  <2>3. QED  BY <2>1, <2>2
<1>3. /\ held \in SUBSET Outpoint /\ created \in SUBSET Outpoint /\ deleted \in SUBSET Outpoint
      /\ held \ deleted \in SUBSET Outpoint
      /\ deleted \subseteq held /\ (held \ deleted) \cap created = {}
  BY DEF Stored, StagedToAdd
<1> HIDE DEF held, added, deleted, created, removed, written
<1>4. /\ IsFiniteSet(held) /\ IsFiniteSet(created) /\ IsFiniteSet(deleted)
      /\ IsFiniteSet(held \ deleted)
      /\ Cardinality(held) \in Nat /\ Cardinality(created) \in Nat
      /\ Cardinality(deleted) \in Nat /\ Cardinality(held \ deleted) \in Nat
  BY <1>3, Finite
<1>5. held \cap deleted = deleted
  BY <1>3
<1>6. Cardinality(held \ deleted) = Cardinality(held) - Cardinality(deleted)
  <2>1. Cardinality(held \ deleted) = Cardinality(held) - Cardinality(held \cap deleted)
    BY <1>4, FS_Difference, Zenon
  <2>2. QED  BY <1>5, <2>1
<1>7. Cardinality((held \ deleted) \cup created)
        = Cardinality(held \ deleted) + Cardinality(created)
  <2>1. Cardinality((held \ deleted) \cap created) = 0
    BY <1>3, FS_EmptySet
  <2>2. Cardinality((held \ deleted) \cup created)
          = Cardinality(held \ deleted) + Cardinality(created)
              - Cardinality((held \ deleted) \cap created)
    BY <1>4, FS_Union
  <2>3. QED  BY <1>4, <2>1, <2>2
<1>8. i.count = Cardinality(held)
  BY DEF held
<1>9. QED  BY <1>1, <1>2, <1>4, <1>6, <1>7, <1>8

-----------------------------------------------------------------------------
(* Types                                                                   *)

\* The collections the constants name.
LEMMA Tables ==
    /\ \A p \in Parents : UTXOSetOf[p] \in Collection
    /\ EmptyCollection \in Collection
    /\ Stored(EmptyCollection) = {}
    /\ \A c : Stored(c) \in SUBSET Outpoint
  BY IndexAssumption DEF EmptyCollection, Collection, Stored

\* A handler with nothing to do, and one at the beginning of a reset.
LEMMA IdleType ==
    /\ Idle \in Handler /\ Idle.stage = "idle"
    /\ Resetting \in Handler /\ Resetting.stage = "deleteParents"
  BY IndexAssumption DEF Idle, Resetting, Handler, Stage

\* New entries and a new count make an index.
LEMMA IndexType ==
    ASSUME NEW i \in Index, NEW c \in Collection, NEW n \in Int
    PROVE  [i EXCEPT !.entries = c, !.count = n] \in Index
  BY Zenon DEF Index

\* The change set under way is a diff.
LEMMA UnderWay ==
    ASSUME TypeOK
    PROVE  VirtualUTXODiff(handler) \in Diff
  BY Tables, DiffType DEF TypeOK, Handler, VirtualUTXODiff

\* Types: the consensus.
LEMMA ConsensusTypes ==
    ASSUME TypeOK, NEW q \in Parents,
           \/ UpdateVirtual(q) \/ UpdateVirtualFailsLate(q) \/ CommitStagingConsensus(q)
           \/ NotifyPruningPointUTXOSetOverride
    PROVE  TypeOK'
<1>1. CASE UpdateVirtual(q)
  <2>1. VirtualChangeSet(virtual, q, dropped) \in Event
    BY DEF TypeOK, VirtualChangeSet, Event
  <2>2. chan' \in Seq(Event) /\ dropped' \in BOOLEAN
    BY <1>1, <2>1 DEF TypeOK, UpdateVirtual, SendVirtualChangedEvent
  <2>3. virtual' \in Parents /\ moves' \in Nat
    BY <1>1 DEF TypeOK, UpdateVirtual, CommitVirtual
  <2>4. undelivered' \in BOOLEAN
    BY <1>1 DEF UpdateVirtual
  <2>5. QED  BY <1>1, <2>2, <2>3, <2>4 DEF TypeOK, UpdateVirtual
<1>2. CASE UpdateVirtualFailsLate(q)
  BY <1>2 DEF TypeOK, UpdateVirtualFailsLate, CommitVirtual
<1>3. CASE CommitStagingConsensus(q)
  <2>1. dropped' \in BOOLEAN /\ undelivered' \in BOOLEAN
    BY <1>3, Zenon DEF TypeOK, CommitStagingConsensus
  <2>2. QED  BY <1>3, <2>1 DEF TypeOK, CommitStagingConsensus, CommitVirtual
<1>4. CASE NotifyPruningPointUTXOSetOverride
  <2>1. PruningPointUTXOSetOverride \in Event
    BY DEF TypeOK, PruningPointUTXOSetOverride, Event
  <2>2. QED  BY <1>4, <2>1 DEF TypeOK, NotifyPruningPointUTXOSetOverride
<1>5. QED  BY <1>1, <1>2, <1>3, <1>4

\* Types: the events handler.
LEMMA HandlerTypes ==
    ASSUME TypeOK, HandlerStep
    PROVE  TypeOK'
<1>1. CASE TakeEvent
  <2>1. Head(chan) \in Event /\ Tail(chan) \in Seq(Event)
    BY <1>1 DEF TypeOK, TakeEvent
  <2>2. FirstStageOf(Head(chan)) \in Stage
    BY DEF FirstStageOf, Stage
  <2>3. handler' \in Handler
    BY <1>1, <2>1, <2>2, IdleType, Zenon DEF TakeEvent, Event, Handler
  <2>4. QED  BY <1>1, <2>1, <2>3 DEF TypeOK, TakeEvent, nodeVars, bounds
<1>2. CASE MarkNeedsReset
  BY <1>2, Zenon DEF TypeOK, MarkNeedsReset, Index, Handler, Stage, nodeVars, bounds
<1>3. CASE Update
  <2>1. index' \in Index
    BY <1>3, UnderWay, CommitType DEF TypeOK, Update, Handler
  <2>2. QED  BY <1>3, <2>1, IdleType DEF TypeOK, Update, nodeVars, bounds
<1>4. CASE DeleteVirtualParents
  BY <1>4 DEF TypeOK, DeleteVirtualParents, Index, Handler, Stage, nodeVars, bounds
<1>5. CASE DeleteNeedsReset
  BY <1>5, Zenon DEF TypeOK, DeleteNeedsReset, Index, Handler, Stage, nodeVars, bounds
<1>6. CASE DeleteEntries
  <2>1. EmptyCollection \in Collection
    BY Tables
  <2>2. index' \in Index
    <3>1. index \in Index /\ index' = [index EXCEPT !.entries = EmptyCollection, !.count = 0]
      BY <1>6 DEF TypeOK, DeleteEntries
    <3>2. 0 \in Int
      OBVIOUS
    <3>3. QED  BY <2>1, <3>1, <3>2, IndexType, Zenon
  <2>3. handler' \in Handler
    BY <1>6 DEF TypeOK, DeleteEntries, Handler, Stage
  <2>4. QED  BY <1>6, <2>2, <2>3 DEF TypeOK, DeleteEntries, nodeVars, bounds
<1>7. CASE GetVirtualInfo
  BY <1>7, Zenon DEF TypeOK, GetVirtualInfo, Index, Handler, Stage, nodeVars, bounds
<1>8. CASE \E page \in SUBSET Remaining : GetVirtualUTXOs(page)
  <2>1. PICK page \in SUBSET Remaining : GetVirtualUTXOs(page)
    BY <1>8
  <2>2. page \in SUBSET Outpoint
    BY Tables DEF Remaining
  <2>3. QED  BY <2>1, <2>2, Zenon DEF TypeOK, GetVirtualUTXOs, Handler, Stage, nodeVars, bounds
<1>9. CASE ResetFails
  BY <1>9, IdleType DEF TypeOK, ResetFails, bounds
<1>10. CASE AddAndCommitOutpoints
  <2>1. handler' \in Handler
    BY <1>10, Zenon DEF TypeOK, AddAndCommitOutpoints, Handler, Stage
  <2>2. Writing(index.entries, handler.page, UTXOSetOf[handler.expected]) \in Collection
    BY Tables, WritingType DEF TypeOK, Handler, Index
  <2>3. Cardinality(handler.page) \in Nat
    BY Finite DEF TypeOK, Handler
  <2>4. index.count + Cardinality(handler.page) \in Int
    BY <2>3 DEF TypeOK, Index
  <2>5. index' \in Index
    BY <1>10, <2>2, <2>4, Zenon DEF TypeOK, AddAndCommitOutpoints, Index
  <2>6. QED  BY <1>10, <2>1, <2>5 DEF TypeOK, AddAndCommitOutpoints, nodeVars, bounds
<1>11. CASE FinishReset
  <2>1. index' \in Index
    BY <1>11 DEF TypeOK, FinishReset, Index, Handler
  <2>2. undelivered' \in BOOLEAN
    BY <1>11 DEF FinishReset
  <2>3. QED  BY <1>11, <2>1, <2>2, IdleType DEF TypeOK, FinishReset, bounds
<1>12. QED
  BY <1>1, <1>2, <1>3, <1>4, <1>5, <1>6, <1>7, <1>8, <1>9, <1>10, <1>11 DEF HandlerStep

\* Types: a crash leaves a collection, and New what it finds.
LEMMA CrashTypes ==
    ASSUME TypeOK, Crash \/ New
    PROVE  TypeOK'
<1>1. CASE Crash
  <2>1. PICK part \in SUBSET KeysBeingWritten :
           index' = [index EXCEPT !.entries = PartlyWritten(part)]
    BY <1>1, Zenon DEF Crash
  <2>2. part \in SUBSET Outpoint
    BY Tables DEF TypeOK, Handler, KeysBeingWritten
  <2>3. PartlyWritten(part) \in Collection
    BY <2>2, Tables, WritingType DEF TypeOK, Handler, Index, PartlyWritten
  <2>4. index' \in Index
    BY <2>1, <2>3 DEF TypeOK, Index
  <2>5. dropped' \in BOOLEAN /\ undelivered' \in BOOLEAN
    BY <1>1, Zenon DEF TypeOK, Crash
  <2>6. /\ virtual' \in Parents /\ mode' \in {"running", "down", "starting"}
        /\ chan' \in Seq(Event) /\ override' \in {"none", "committed", "queued"}
        /\ moves' \in Nat /\ crashes' \in Nat
    BY <1>1 DEF TypeOK, Crash
  <2>7. handler' \in Handler
    BY <1>1, IdleType DEF Crash
  <2>8. QED  BY <2>4, <2>5, <2>6, <2>7 DEF TypeOK
<1>2. CASE New
  BY <1>2, IdleType DEF TypeOK, New, bounds
<1>3. QED  BY <1>1, <1>2

\* Every step keeps the types.
LEMMA NextTypes ==
    ASSUME TypeOK, [Next]_vars
    PROVE  TypeOK'
<1>1. CASE UNCHANGED vars
  BY <1>1 DEF TypeOK, vars
<1>2. CASE Next
  BY <1>2, IndexAssumption, ConsensusTypes, HandlerTypes, CrashTypes DEF Next
<1>3. QED  BY <1>1, <1>2

-----------------------------------------------------------------------------
(* The steps of consensus                                                  *)

\* What holds of the index and of a rebuild does not depend on virtual.
LEMMA IndexUnchanged ==
    ASSUME IInv, UNCHANGED <<index, handler>>, undelivered => undelivered', mode' = mode
    PROVE  RebuildInv' /\ TableInv' /\ CountInv'
<1>1. RebuildInv'
  BY DEF IInv, RebuildInv
<1>2. TableInv'
  BY DEF IInv, TableInv
<1>3. CountInv'
  BY DEF IInv, CountInv
<1>4. QED  BY <1>1, <1>2, <1>3

\* A change set that is sent begins where virtual was; one that is not is
\* announced by the next.
LEMMA UpdateVirtualStep ==
    ASSUME IInv, TypeOK', NEW q \in Parents, UpdateVirtual(q)
    PROVE  IInv'
<1>1. /\ mode = "running" /\ mode' = mode /\ virtual' = q
      /\ UNCHANGED <<index, handler, override>>
      /\ undelivered' = (undelivered \/ override # "none")
  BY DEF UpdateVirtual, CommitVirtual
<1>2. RebuildInv' /\ TableInv' /\ CountInv'
  BY <1>1, IndexUnchanged, Zenon
<1>3. StartInv'
  BY <1>1 DEF StartInv
<1>4. DeliveryInv'
  <2> SUFFICES ASSUME ~undelivered' PROVE DeliveryInv'
    BY DEF DeliveryInv
  <2>1. ~undelivered /\ override = "none"
    BY <1>1, Zenon
  <2>2. handler.stage \notin Resets /\ ChainInv /\ OverrideInv
        /\ (dropped \/ virtual = After(Len(chan)))
    BY <1>1, <2>1 DEF IInv, DeliveryInv
  <2>3. PICK full \in BOOLEAN : SendVirtualChangedEvent(q, full)
    BY DEF UpdateVirtual
  <2>4. CASE full
    <3>1. dropped' /\ chan' = chan
      BY <2>3, <2>4 DEF SendVirtualChangedEvent
    <3>2. ChainInv' /\ OverrideInv'
      BY <1>1, <2>2, <3>1 DEF ChainInv, OverrideInv, After
    <3>3. QED  BY <1>1, <2>2, <3>1, <3>2 DEF DeliveryInv
  <2>5. CASE ~full
    <3> DEFINE e == VirtualChangeSet(virtual, q, dropped)
    <3>1. chan' = Append(chan, e)
      BY <2>3, <2>5 DEF SendVirtualChangedEvent
    <3>2. e.kind = "change" /\ e.from = virtual /\ e.to = q /\ e.dropped = dropped
      BY DEF VirtualChangeSet
    <3> HIDE DEF e
    <3>3. /\ Len(chan') = Len(chan) + 1 /\ chan'[Len(chan) + 1] = e /\ Len(chan) \in Nat
          /\ \A i \in 1..Len(chan) : chan'[i] = chan[i]
      BY <3>1 DEF IInv, TypeOK
    <3>4. \A i \in 0..Len(chan) : After(i)' = After(i)
      BY <1>1, <3>3 DEF After
    <3>5. ChainInv'
      <4>1. handler'.stage = "commit" => index'.needsReset \/ index'.parents = handler'.from
        BY <1>1, <2>2 DEF ChainInv
      <4>2. ASSUME NEW i \in 1..Len(chan'), chan'[i].kind = "change", ~chan'[i].dropped
            PROVE  chan'[i].from = After(i - 1)'
        <5>1. CASE i = Len(chan) + 1
          BY <2>2, <3>2, <3>3, <3>4, <4>2, <5>1
        <5>2. CASE i # Len(chan) + 1
          BY <2>2, <3>3, <3>4, <4>2, <5>2 DEF ChainInv
        <5>3. QED  BY <5>1, <5>2
      <4>3. QED  BY <4>1, <4>2 DEF ChainInv
    <3>6. OverrideInv'
      BY <1>1, <2>1, <2>2, <3>2, <3>3 DEF OverrideInv
    <3>7. virtual' = After(Len(chan))'
      BY <1>1, <3>2, <3>3 DEF After
    <3>8. QED  BY <1>1, <2>2, <3>5, <3>6, <3>7 DEF DeliveryInv
  <2>6. QED  BY <2>4, <2>5
<1>5. QED  BY <1>2, <1>3, <1>4 DEF IInv

\* A move that is not announced is remembered as one.
LEMMA UpdateVirtualFailsLateStep ==
    ASSUME IInv, TypeOK', NEW q \in Parents, UpdateVirtualFailsLate(q)
    PROVE  IInv'
<1>1. mode = "running" /\ mode' = mode /\ UNCHANGED <<index, handler>> /\ undelivered'
  BY DEF UpdateVirtualFailsLate, CommitVirtual
<1>2. RebuildInv' /\ TableInv' /\ CountInv'
  BY <1>1, IndexUnchanged
<1>3. StartInv' /\ DeliveryInv'
  BY <1>1 DEF StartInv, DeliveryInv
<1>4. QED  BY <1>2, <1>3 DEF IInv

\* The staging consensus replaces the other between two events.
LEMMA CommitStagingConsensusStep ==
    ASSUME IInv, TypeOK', NEW q \in Parents, CommitStagingConsensus(q)
    PROVE  IInv'
<1>1. /\ mode = "running" /\ mode' = mode /\ override = "none" /\ override' = "committed"
      /\ UNCHANGED <<chan, index, handler, undelivered>>
  BY DEF CommitStagingConsensus, CommitVirtual
<1>2. RebuildInv' /\ TableInv' /\ CountInv'
  BY <1>1, IndexUnchanged
<1>3. StartInv'
  BY <1>1 DEF StartInv
<1>4. ASSUME ~undelivered
      PROVE  /\ handler.stage \notin Resets
             /\ ChainInv' /\ OverrideInv'
  <2>1. handler.stage \notin Resets /\ ChainInv /\ OverrideInv
    BY <1>1, <1>4 DEF IInv, DeliveryInv
  <2>2. ChainInv'
    BY <1>1, <2>1 DEF ChainInv, After
  <2>3. OverrideInv'
    BY <1>1, <2>1 DEF OverrideInv
  <2>4. QED  BY <2>1, <2>2, <2>3
<1>5. DeliveryInv'
  BY <1>1, <1>4 DEF DeliveryInv
<1>6. QED  BY <1>2, <1>3, <1>5 DEF IInv

\* The override is the last event of the queue.
LEMMA NotifyStep ==
    ASSUME IInv, TypeOK', NotifyPruningPointUTXOSetOverride
    PROVE  IInv'
<1> DEFINE e == PruningPointUTXOSetOverride
<1>1. /\ mode = "running" /\ mode' = mode /\ override = "committed" /\ override' = "queued"
      /\ chan' = Append(chan, e)
      /\ UNCHANGED <<virtual, index, handler, undelivered>>
  BY DEF NotifyPruningPointUTXOSetOverride
<1>2. RebuildInv' /\ TableInv' /\ CountInv'
  BY <1>1, IndexUnchanged
<1>3. StartInv'
  BY <1>1 DEF StartInv
<1>4. e.kind = "override"
  BY DEF PruningPointUTXOSetOverride
<1> HIDE DEF e
<1>5. /\ Len(chan') = Len(chan) + 1 /\ chan'[Len(chan) + 1] = e /\ Len(chan) \in Nat
      /\ \A i \in 1..Len(chan) : chan'[i] = chan[i]
  BY <1>1 DEF IInv, TypeOK
<1>6. ASSUME ~undelivered
      PROVE  /\ handler.stage \notin Resets
             /\ ChainInv' /\ OverrideInv'
  <2>1. handler.stage \notin Resets /\ ChainInv /\ OverrideInv
    BY <1>1, <1>6 DEF IInv, DeliveryInv
  <2>2. \A i \in 0..Len(chan) : After(i)' = After(i)
    BY <1>1, <1>5 DEF After
  <2>3. ChainInv'
    BY <1>1, <1>4, <1>5, <2>1, <2>2 DEF ChainInv
  <2>4. OverrideInv'
    BY <1>1, <1>4, <1>5, <2>1 DEF OverrideInv
  <2>5. QED  BY <2>1, <2>3, <2>4
<1>7. DeliveryInv'
  BY <1>1, <1>6 DEF DeliveryInv
<1>8. QED  BY <1>2, <1>3, <1>7 DEF IInv

-----------------------------------------------------------------------------
(* The steps of the events handler: Update                                 *)

\* The event that is taken begins where the index is, or says that one was
\* dropped.  Nothing follows an override.
LEMMA TakeEventStep ==
    ASSUME IInv, TypeOK', TakeEvent
    PROVE  IInv'
<1> DEFINE e == Head(chan)
<1>1. /\ mode = "running" /\ handler.stage = "idle" /\ chan # <<>> /\ chan' = Tail(chan)
      /\ handler'.stage = FirstStageOf(e) /\ handler'.from = e.from /\ handler'.to = e.to
      /\ UNCHANGED <<virtual, mode, dropped, override, undelivered, index>>
  BY DEF TakeEvent, nodeVars, Idle
<1>2. /\ e = chan[1] /\ e \in Event /\ Len(chan) \in Nat \ {0} /\ Len(chan') = Len(chan) - 1
      /\ \A i \in 1..Len(chan') : chan'[i] = chan[i + 1]
  BY <1>1 DEF IInv, TypeOK
<1> HIDE DEF e
<1>3. handler'.stage \in {"deleteParents", "mark", "commit"}
  BY <1>1 DEF FirstStageOf
<1>4. StartInv' /\ RebuildInv'
  BY <1>1, <1>3 DEF StartInv, RebuildInv, Rebuilds, Resets
<1>5. TableInv'
  BY <1>1 DEF IInv, TableInv
<1>6. CountInv'
  BY <1>1 DEF IInv, CountInv
<1>7. DeliveryInv'
  <2> SUFFICES ASSUME ~undelivered PROVE DeliveryInv'
    BY <1>1 DEF DeliveryInv
  <2>1. /\ ChainInv /\ OverrideInv /\ (override = "none" => dropped \/ virtual = After(Len(chan)))
    BY <1>1 DEF IInv, DeliveryInv, Resets
  <2>2. e.kind \in {"change", "override"}
    BY <1>2 DEF IInv, TypeOK, Event
  <2>3. CASE e.kind = "override"
    <3>1. override = "queued" /\ Len(chan) = 1
      BY <1>2, <2>1, <2>3 DEF OverrideInv
    <3>2. chan' = <<>>
      BY <1>2, <3>1 DEF TypeOK
    <3>3. handler'.stage = "deleteParents"
      BY <1>1, <2>3 DEF FirstStageOf
    <3>4. QED  BY <1>1, <3>1, <3>2, <3>3 DEF DeliveryInv, Rebuilds, Resets
  <2>4. CASE e.kind = "change"
    <3>1. handler'.stage = IF e.dropped THEN "mark" ELSE "commit"
      BY <1>1, <2>4 DEF FirstStageOf
    <3>2. \A i \in 0..Len(chan') : After(i)' = After(i + 1)
      BY <1>1, <1>2, <3>1 DEF After
    <3>3. ~e.dropped => e.from = index.parents
      <4>1. After(0) = index.parents
        BY <1>1 DEF After
      <4>2. QED  BY <1>2, <2>1, <2>4, <4>1 DEF ChainInv
    <3>4. ChainInv'
      <4>1. ASSUME NEW i \in 1..Len(chan'), chan'[i].kind = "change", ~chan'[i].dropped
            PROVE  chan'[i].from = After(i - 1)'
        <5>1. i + 1 \in 1..Len(chan) /\ chan'[i] = chan[i + 1] /\ i - 1 \in 0..Len(chan')
          BY <1>2
        <5>2. chan[i + 1].from = After((i + 1) - 1)
          BY <2>1, <4>1, <5>1 DEF ChainInv
        <5>3. (i + 1) - 1 = i /\ (i - 1) + 1 = i
          OBVIOUS
        <5>4. QED  BY <3>2, <5>1, <5>2, <5>3
      <4>2. handler'.stage = "commit" => index'.parents = handler'.from
        BY <1>1, <3>1, <3>3
      <4>3. QED  BY <4>1, <4>2 DEF ChainInv
    <3>5. OverrideInv'
      <4>1. \A i \in 1..Len(chan') : chan'[i].kind = "override" => override = "queued" /\ i = Len(chan')
        BY <1>2, <2>1 DEF OverrideInv
      <4>2. override = "queued" => chan' # <<>> /\ chan'[Len(chan')].kind = "override"
        <5> SUFFICES ASSUME override = "queued"
                     PROVE  chan' # <<>> /\ chan'[Len(chan')].kind = "override"
          OBVIOUS
        <5>1. chan[Len(chan)].kind = "override"
          BY <2>1 DEF OverrideInv
        <5>2. Len(chan) # 1
          BY <1>2, <2>4, <5>1
        <5>3. Len(chan') \in 1..Len(chan') /\ Len(chan') + 1 = Len(chan)
          BY <1>2, <5>2
        <5>4. QED  BY <1>2, <5>1, <5>3
      <4>3. QED  BY <1>1, <4>1, <4>2 DEF OverrideInv
    <3>6. After(Len(chan))' = After(Len(chan))
      <4>1. Len(chan') \in 0..Len(chan') /\ Len(chan') + 1 = Len(chan)
        BY <1>2
      <4>2. QED  BY <3>2, <4>1
    <3>7. handler'.stage \notin Resets
      BY <3>1 DEF Resets
    <3>8. QED  BY <1>1, <2>1, <3>4, <3>5, <3>6, <3>7 DEF DeliveryInv
  <2>5. QED  BY <2>2, <2>3, <2>4
<1>8. QED  BY <1>4, <1>5, <1>6, <1>7 DEF IInv

\* A marked index is trusted by nobody.
LEMMA MarkNeedsResetStep ==
    ASSUME IInv, TypeOK', MarkNeedsReset
    PROVE  IInv'
<1>1. /\ handler.stage = "mark" /\ handler'.stage = "commit" /\ handler'.to = handler.to
      /\ index'.needsReset /\ index'.parents = index.parents
      /\ index'.entries = index.entries /\ index'.count = index.count
      /\ UNCHANGED <<virtual, mode, dropped, override, undelivered, chan>>
  BY Zenon DEF IInv, TypeOK, Index, Handler, MarkNeedsReset, nodeVars
<1>2. StartInv' /\ RebuildInv' /\ TableInv'
  BY <1>1, Zenon DEF IInv, StartInv, RebuildInv, TableInv, Rebuilds, Resets
<1>3. CountInv'
  BY <1>1 DEF IInv, CountInv
<1>4. \A i : After(i)' = After(i)
  BY <1>1 DEF After
<1>5. ChainInv => ChainInv'
  BY <1>1, <1>4 DEF ChainInv
<1>6. OverrideInv => OverrideInv'
  BY <1>1 DEF OverrideInv
<1>7. DeliveryInv'
  BY <1>1, <1>4, <1>5, <1>6 DEF IInv, DeliveryInv, Resets
<1>8. QED  BY <1>2, <1>3, <1>7 DEF IInv

\* A change set takes the table of where it begins to that of where it ends.
LEMMA UpdateStep ==
    ASSUME IInv, TypeOK', Update
    PROVE  IInv'
<1>1. /\ handler.stage = "commit" /\ handler' = Idle /\ handler'.stage = "idle"
      /\ index' = Commit(index, VirtualUTXODiff(handler), handler.to)
      /\ UNCHANGED <<virtual, mode, dropped, override, undelivered, chan>>
  BY IdleType DEF Update, nodeVars
<1>2. /\ index'.parents = handler.to /\ index'.needsReset = index.needsReset
      /\ handler.to \in Parents
  <2>1. VirtualUTXODiff(handler) \in Diff /\ handler.to \in Parents /\ index \in Index
    BY UnderWay DEF IInv, TypeOK, Handler
  <2>2. QED  BY <1>1, <2>1, CommitType
<1>3. mode = "running"
  BY <1>1, Zenon DEF IInv, TypeOK, StartInv, Resets
<1>4. StartInv' /\ RebuildInv'
  BY <1>1, <1>3 DEF StartInv, RebuildInv, Rebuilds, Resets
<1>5. CountInv'
  <2>1. index.count = Cardinality(Stored(index.entries))
    BY <1>1, <1>3, Zenon DEF IInv, CountInv
  <2>2. QED  BY <1>1, <2>1, UnderWay, CommitCounts DEF IInv, TypeOK, CountInv
<1>6. TableInv'
  <2> SUFFICES ASSUME ~undelivered, ~index.needsReset
               PROVE  index'.entries = UTXOSetOf[handler.to]
    BY <1>1, <1>2 DEF TableInv
  <2>1. index.parents = handler.from /\ handler.from \in Parents
    BY <1>1, <1>3 DEF IInv, TypeOK, Handler, DeliveryInv, ChainInv, Resets
  <2>2. index.entries = UTXOSetOf[handler.from]
    BY <2>1, IndexAssumption DEF IInv, TableInv
  <2>3. QED  BY <1>1, <1>2, <2>1, <2>2, Tables, CommitTable DEF IInv, TypeOK, VirtualUTXODiff
<1>7. DeliveryInv'
  <2>1. \A i : After(i)' = After(i)
    BY <1>1, <1>2, Zenon DEF After
  <2>2. ChainInv => ChainInv'
    BY <1>1, <2>1 DEF ChainInv
  <2>3. OverrideInv => OverrideInv'
    BY <1>1 DEF OverrideInv
  <2>4. QED  BY <1>1, <2>1, <2>2, <2>3 DEF IInv, DeliveryInv, Resets
<1>8. QED  BY <1>4, <1>5, <1>6, <1>7 DEF IInv

-----------------------------------------------------------------------------
(* The steps of a reset                                                    *)

\* A step of a reset before the last sees virtual where the reset began or
\* a move that it does not know of.
LEMMA ResetStep ==
    ASSUME IInv, handler.stage \in Resets, handler'.stage \in Resets,
           UNCHANGED <<virtual, mode, override, undelivered, chan>>,
           \/ handler'.stage \notin Rebuilds
           \/ handler'.expected = virtual
           \/ handler.stage \in Rebuilds /\ handler'.expected = handler.expected
    PROVE  DeliveryInv' /\ StartInv'
<1>1. DeliveryInv'
  BY DEF IInv, DeliveryInv
<1>2. StartInv'
  BY DEF IInv, StartInv, TypeOK, Resets
<1>3. QED  BY <1>1, <1>2

\* Without parents the index is trusted by nobody.
LEMMA DeleteVirtualParentsStep ==
    ASSUME IInv, TypeOK', DeleteVirtualParents
    PROVE  IInv'
<1>1. /\ handler.stage = "deleteParents" /\ handler'.stage = "deleteMark"
      /\ index'.parents = None
      /\ index'.entries = index.entries /\ index'.count = index.count
      /\ UNCHANGED <<virtual, mode, dropped, override, undelivered, chan>>
  BY DEF IInv, TypeOK, Index, Handler, DeleteVirtualParents, nodeVars
<1>2. DeliveryInv' /\ StartInv'
  BY <1>1, ResetStep, Zenon DEF Resets, Rebuilds
<1>3. RebuildInv' /\ TableInv' /\ CountInv'
  BY <1>1 DEF RebuildInv, TableInv, CountInv, Resets, Rebuilds
<1>4. QED  BY <1>2, <1>3 DEF IInv

\* The mark goes when there are no parents any more.
LEMMA DeleteNeedsResetStep ==
    ASSUME IInv, TypeOK', DeleteNeedsReset
    PROVE  IInv'
<1>1. /\ handler.stage = "deleteMark" /\ handler'.stage = "deleteEntries"
      /\ index'.parents = index.parents
      /\ UNCHANGED <<virtual, mode, dropped, override, undelivered, chan>>
  BY Zenon DEF IInv, TypeOK, Index, Handler, DeleteNeedsReset, nodeVars
<1>2. index.parents = None
  BY <1>1, Zenon DEF IInv, RebuildInv, Resets
<1>3. DeliveryInv' /\ StartInv'
  BY <1>1, ResetStep DEF Resets, Rebuilds
<1>4. RebuildInv' /\ TableInv' /\ CountInv'
  BY <1>1, <1>2 DEF RebuildInv, TableInv, CountInv, Resets, Rebuilds
<1>5. QED  BY <1>3, <1>4 DEF IInv

\* The counts are deleted with the entries.
LEMMA DeleteEntriesStep ==
    ASSUME IInv, TypeOK', DeleteEntries
    PROVE  IInv'
<1>1. /\ handler.stage = "deleteEntries" /\ handler'.stage = "info"
      /\ index'.parents = index.parents /\ index'.entries = EmptyCollection /\ index'.count = 0
      /\ UNCHANGED <<virtual, mode, dropped, override, undelivered, chan>>
  BY DEF IInv, TypeOK, Index, Handler, DeleteEntries, nodeVars
<1>2. index.parents = None
  BY <1>1 DEF IInv, RebuildInv, Resets
<1>3. DeliveryInv' /\ StartInv'
  BY <1>1, ResetStep DEF Resets, Rebuilds
<1>4. RebuildInv' /\ TableInv'
  BY <1>1, <1>2 DEF RebuildInv, TableInv, Resets, Rebuilds
<1>5. CountInv'
  BY <1>1, Tables, FS_EmptySet DEF CountInv
<1>6. QED  BY <1>3, <1>4, <1>5 DEF IInv

\* The rebuild begins with what virtual is.
LEMMA GetVirtualInfoStep ==
    ASSUME IInv, TypeOK', GetVirtualInfo
    PROVE  IInv'
<1>1. /\ handler.stage = "info" /\ handler'.stage = "page"
      /\ handler'.expected = virtual /\ handler'.read = {}
      /\ UNCHANGED <<virtual, mode, dropped, override, undelivered, chan, index>>
  BY DEF IInv, TypeOK, Handler, GetVirtualInfo, nodeVars
<1>2. index.parents = None /\ index.entries = EmptyCollection
  BY <1>1 DEF IInv, RebuildInv, Resets
<1>3. DeliveryInv' /\ StartInv'
  BY <1>1, ResetStep DEF Resets, Rebuilds
<1>4. Writing(EmptyCollection, {}, UTXOSetOf[virtual]) = EmptyCollection
  BY Tables, WritingNothing, Zenon
<1>5. RebuildInv'
  BY <1>1, <1>2, <1>4 DEF RebuildInv, Resets
<1>6. TableInv' /\ CountInv'
  BY <1>1, <1>2 DEF IInv, TableInv, CountInv
<1>7. QED  BY <1>3, <1>5, <1>6 DEF IInv

\* A page is of the table the rebuild began with.
LEMMA GetVirtualUTXOsStep ==
    ASSUME IInv, TypeOK', NEW page \in SUBSET Remaining, GetVirtualUTXOs(page)
    PROVE  IInv'
<1>1. /\ handler.stage = "page" /\ handler'.stage = "put" /\ handler.expected = virtual
      /\ handler'.expected = virtual /\ handler'.read = handler.read /\ handler'.page = page
      /\ Cardinality(page) = PageSize \/ (page = Remaining /\ Cardinality(page) < PageSize)
      /\ UNCHANGED <<virtual, mode, dropped, override, undelivered, chan, index>>
  BY DEF IInv, TypeOK, Handler, GetVirtualUTXOs, VirtualIsExpected, nodeVars
<1>2. DeliveryInv' /\ StartInv'
  BY <1>1, ResetStep, Zenon DEF Resets, Rebuilds
<1>3. RebuildInv'
  <2>1. /\ index.parents = None
        /\ index.entries = Writing(EmptyCollection, handler.read, UTXOSetOf[virtual])
        /\ handler.read \subseteq Stored(UTXOSetOf[virtual])
    BY <1>1 DEF IInv, RebuildInv, Resets, Rebuilds
  <2>2. PageSize \in Nat /\ ~(PageSize < PageSize)
    BY IndexAssumption
  <2>3. page \subseteq Stored(UTXOSetOf[virtual]) \ handler.read
    BY Zenon DEF Remaining
  <2>4. Cardinality(page) < PageSize => page = Stored(UTXOSetOf[virtual]) \ handler.read
    BY <1>1, <2>2, Zenon DEF Remaining
  <2>5. QED  BY <1>1, <2>1, <2>3, <2>4, Zenon DEF RebuildInv
<1>4. TableInv' /\ CountInv'
  BY <1>1 DEF IInv, TableInv, CountInv
<1>5. QED  BY <1>2, <1>3, <1>4 DEF IInv

\* A rebuild that is refused has no parents, and knows of no move.
LEMMA ResetFailsStep ==
    ASSUME IInv, TypeOK', ResetFails
    PROVE  IInv'
<1>1. /\ handler.stage = "page" /\ handler'.stage = "idle" /\ handler.expected # virtual
      /\ UNCHANGED <<virtual, mode, dropped, undelivered, chan, index>>
  BY IdleType DEF ResetFails, VirtualIsExpected
<1>2. mode = "running" /\ undelivered
  BY <1>1, Zenon DEF IInv, StartInv, DeliveryInv, Resets, Rebuilds
<1>3. DeliveryInv' /\ StartInv' /\ RebuildInv' /\ TableInv'
  BY <1>1, <1>2 DEF DeliveryInv, StartInv, RebuildInv, TableInv, Resets, Rebuilds
<1>4. CountInv'
  BY <1>1, <1>2 DEF IInv, CountInv
<1>5. QED  BY <1>3, <1>4 DEF IInv

\* A page that is not full is the last.
LEMMA AddAndCommitOutpointsStep ==
    ASSUME IInv, TypeOK', AddAndCommitOutpoints
    PROVE  IInv'
<1> DEFINE table == UTXOSetOf[handler.expected]
           read == handler.read \cup handler.page
<1>1. /\ handler.stage = "put"
      /\ handler'.stage = IF Cardinality(handler.page) < PageSize THEN "finish" ELSE "page"
      /\ handler'.expected = handler.expected /\ handler'.read = read
      /\ index'.entries = Writing(index.entries, handler.page, table)
      /\ index'.count = index.count + Cardinality(handler.page)
      /\ index'.parents = index.parents
      /\ UNCHANGED <<virtual, mode, dropped, override, undelivered, chan>>
  BY Zenon DEF IInv, TypeOK, Index, Handler, AddAndCommitOutpoints, nodeVars
<1>2. /\ index.parents = None
      /\ index.entries = Writing(EmptyCollection, handler.read, table)
      /\ handler.read \subseteq Stored(table)
      /\ handler.page \subseteq Stored(table) \ handler.read
      /\ Cardinality(handler.page) < PageSize => handler.page = Stored(table) \ handler.read
  BY <1>1, Zenon DEF IInv, RebuildInv, Resets, Rebuilds
<1>3. DeliveryInv' /\ StartInv'
  BY <1>1, ResetStep, Zenon DEF Resets, Rebuilds
<1>4. index'.entries = Writing(EmptyCollection, read, table)
  BY <1>1, <1>2 DEF Writing
<1>5. read \subseteq Stored(table)
  BY <1>2, Zenon
<1>6. RebuildInv'
  <2>1. handler'.stage = "finish" => read = Stored(table)
    BY <1>1, <1>2
  <2>2. handler'.stage \in {"finish", "page"}
    BY <1>1, Zenon
  <2> HIDE DEF read
  <2>3. QED  BY <1>1, <1>2, <1>4, <1>5, <2>1, <2>2, Zenon DEF RebuildInv
<1>7. TableInv'
  BY <1>1, <1>2 DEF TableInv
<1>8. CountInv'
  <2>1. index.count = Cardinality(Stored(index.entries))
    <3>1. mode # "down"
      BY <1>1 DEF IInv, StartInv
    <3>2. QED  BY <1>1, <3>1 DEF IInv, CountInv
  <2>2. ASSUME NEW s \in SUBSET Stored(table)
        PROVE  Stored(Writing(EmptyCollection, s, table)) = s
    BY Zenon DEF Stored, Writing, EmptyCollection
  <2>3. Stored(index.entries) = handler.read /\ Stored(index'.entries) = read
    BY <1>2, <1>4, <1>5, <2>2
  <2>4. handler.read \in SUBSET Outpoint /\ handler.page \in SUBSET Outpoint
    BY DEF IInv, TypeOK, Handler
  <2>5. /\ IsFiniteSet(handler.read) /\ Cardinality(handler.read) \in Nat
        /\ IsFiniteSet(handler.page) /\ Cardinality(handler.page) \in Nat
    BY <2>4, Finite, Zenon
  <2>6. Cardinality(handler.read \cup handler.page)
          = Cardinality(handler.read) + Cardinality(handler.page)
              - Cardinality(handler.read \cap handler.page)
    BY <2>5, FS_Union
  <2>7. Cardinality(handler.read \cap handler.page) = 0
    <3>1. handler.read \cap handler.page = {}
      BY <1>2, Zenon
    <3>2. QED  BY <3>1, FS_EmptySet
  <2>8. index'.count = Cardinality(Stored(index'.entries))
    BY <1>1, <2>1, <2>3, <2>5, <2>6, <2>7
  <2>9. QED  BY <2>8 DEF CountInv
<1>9. QED  BY <1>3, <1>6, <1>7, <1>8 DEF IInv

\* The parents are stored when the whole table is, and virtual has stayed or
\* its moves are queued or undelivered.
LEMMA FinishResetStep ==
    ASSUME IInv, TypeOK', FinishReset
    PROVE  IInv'
<1>1. /\ handler.stage = "finish" /\ handler'.stage = "idle" /\ mode' = "running"
      /\ override' = "none"
      /\ undelivered' = (undelivered /\ ~(chan = <<>> /\ virtual = handler.expected))
      /\ index'.parents = handler.expected /\ index'.entries = index.entries
      /\ index'.count = index.count /\ index'.needsReset = index.needsReset
      /\ UNCHANGED <<virtual, dropped, chan>>
  BY IdleType DEF IInv, TypeOK, Index, FinishReset
<1>2. index.entries = UTXOSetOf[handler.expected]
  <2> DEFINE table == UTXOSetOf[handler.expected]
  <2>1. index.entries = Writing(EmptyCollection, Stored(table), table)
    BY <1>1 DEF IInv, RebuildInv, Rebuilds
  <2>2. table \in Collection
    BY Tables DEF IInv, TypeOK, Handler
  <2>3. Writing(EmptyCollection, Stored(table), table) = table
    BY <2>2 DEF Writing, Stored, EmptyCollection, Collection
  <2>4. QED  BY <2>1, <2>3, Zenon
<1>3. StartInv' /\ RebuildInv'
  BY <1>1 DEF StartInv, RebuildInv, Resets, Rebuilds
<1>4. TableInv'
  BY <1>1, <1>2 DEF TableInv
<1>5. CountInv'
  BY <1>1 DEF IInv, CountInv, StartInv
<1>6. DeliveryInv'
  <2> SUFFICES ASSUME ~undelivered' PROVE DeliveryInv'
    BY DEF DeliveryInv
  <2>1. chan = <<>> /\ virtual = handler.expected
    <3>1. CASE undelivered
      BY <1>1, <3>1, Zenon
    <3>2. CASE ~undelivered /\ mode = "running"
      BY <1>1, <3>2 DEF IInv, DeliveryInv, Resets, Rebuilds
    <3>3. CASE mode # "running"
      BY <1>1, <3>3 DEF IInv, StartInv, Rebuilds
    <3>4. QED  BY <3>1, <3>2, <3>3
  <2>2. Len(chan') = 0
    BY <1>1, <2>1
  <2>3. virtual' = After(Len(chan))'
    BY <1>1, <2>1, <2>2 DEF After
  <2>4. ChainInv' /\ OverrideInv'
    BY <1>1, <2>2 DEF ChainInv, OverrideInv
  <2>5. QED  BY <1>1, <2>3, <2>4 DEF DeliveryInv, Resets
<1>7. QED  BY <1>3, <1>4, <1>5, <1>6 DEF IInv

-----------------------------------------------------------------------------
(* Crash and start                                                         *)

\* A crash tears only what has no parents.
LEMMA CrashStep ==
    ASSUME IInv, TypeOK', Crash
    PROVE  IInv'
<1>1. /\ mode # "down" /\ mode' = "down" /\ chan' = <<>> /\ override' = "none"
      /\ handler'.stage = "idle" /\ undelivered' = undelivered
  BY IdleType DEF Crash
<1>2. PICK part \in SUBSET KeysBeingWritten :
         index' = [index EXCEPT !.entries = PartlyWritten(part)]
  BY Zenon DEF Crash
<1>3. /\ index'.parents = index.parents /\ index'.needsReset = index.needsReset
      /\ index'.count = index.count /\ index'.entries = PartlyWritten(part)
  BY <1>2 DEF IInv, TypeOK, Index
<1>4. index'.parents = None \/ index'.entries = index.entries
  <2>1. CASE handler.stage \in {"put", "deleteEntries"}
    BY <1>3, <2>1 DEF IInv, RebuildInv, Resets
  <2>2. CASE handler.stage \notin {"put", "deleteEntries"}
    <3>1. part = {}
      BY <2>2 DEF KeysBeingWritten
    <3>2. index.entries \in Collection
      BY DEF IInv, TypeOK, Index
    <3>3. PartlyWritten(part) = index.entries
      BY <2>2, <3>1, <3>2, WritingNothing, Zenon DEF PartlyWritten
    <3>4. QED  BY <1>3, <3>3
  <2>3. QED  BY <2>1, <2>2, Zenon
<1>5. DeliveryInv' /\ StartInv' /\ RebuildInv'
  BY <1>1 DEF DeliveryInv, StartInv, RebuildInv, Resets, Rebuilds
<1>6. TableInv'
  BY <1>1, <1>3, <1>4 DEF IInv, TableInv
<1>7. CountInv'
  BY <1>1, <1>3, <1>4 DEF IInv, CountInv
<1>8. QED  BY <1>5, <1>6, <1>7 DEF IInv

\* New goes on with an index whose parents are virtual's, and rebuilds any
\* other.
LEMMA NewStep ==
    ASSUME IInv, TypeOK', New
    PROVE  IInv'
<1>1. /\ mode = "down" /\ UNCHANGED <<virtual, dropped, chan, index, override, undelivered>>
      /\ chan = <<>> /\ override = "none"
  BY DEF IInv, StartInv, New
<1>2. TableInv'
  BY <1>1 DEF IInv, TableInv
<1>3. CASE IsSynced
  <2>1. mode' = "running" /\ handler'.stage = "idle"
    BY <1>3, IdleType DEF New
  <2>2. StartInv' /\ RebuildInv'
    BY <2>1 DEF StartInv, RebuildInv, Resets, Rebuilds
  <2>3. CountInv'
    BY <1>1, <1>3, IndexAssumption DEF IInv, TypeOK, CountInv, IsSynced
  <2>4. virtual' = After(Len(chan))' /\ ChainInv' /\ OverrideInv'
    BY <1>1, <1>3, <2>1 DEF IsSynced, After, ChainInv, OverrideInv
  <2>5. DeliveryInv'
    BY <2>1, <2>4 DEF DeliveryInv, Resets
  <2>6. QED  BY <1>2, <2>2, <2>3, <2>5 DEF IInv
<1>4. CASE ~IsSynced
  <2>1. mode' = "starting" /\ handler'.stage = "deleteParents"
    BY <1>4, IdleType, Zenon DEF New
  <2>2. DeliveryInv' /\ StartInv' /\ RebuildInv'
    BY <1>1, <2>1 DEF DeliveryInv, StartInv, RebuildInv, Resets, Rebuilds
  <2>3. CountInv'
    BY <1>1, <2>1 DEF IInv, CountInv
  <2>4. QED  BY <1>2, <2>2, <2>3 DEF IInv
<1>5. QED  BY <1>3, <1>4

-----------------------------------------------------------------------------
(* The theorems                                                            *)

\* The node is first started with an empty index.
LEMMA InitInv ==
    ASSUME Init
    PROVE  IInv
<1>1. TypeOK
  <2>1. index \in Index
    BY Tables DEF Init, Index
  <2>2. handler \in Handler
    BY IdleType DEF Init
  <2>3. dropped \in BOOLEAN /\ undelivered \in BOOLEAN
    BY Zenon DEF Init
  <2>4. QED  BY <2>1, <2>2, <2>3, IndexAssumption DEF Init, TypeOK
<1>2. handler.stage = "deleteParents"
  BY IdleType, Zenon DEF Init
<1>3. DeliveryInv /\ StartInv /\ RebuildInv
  BY <1>2 DEF Init, DeliveryInv, StartInv, RebuildInv, Resets, Rebuilds
<1>4. TableInv /\ CountInv
  BY <1>2 DEF Init, TableInv, CountInv
<1>5. QED  BY <1>1, <1>3, <1>4 DEF IInv

\* Every step preserves the invariant.
LEMMA NextInv ==
    ASSUME IInv, [Next]_vars
    PROVE  IInv'
<1>1. TypeOK'
  BY NextTypes DEF IInv
<1>2. CASE UNCHANGED vars
  <2>1. DeliveryInv'
    BY <1>2, Zenon DEF vars, IInv, DeliveryInv, ChainInv, OverrideInv, After
  <2>2. StartInv' /\ RebuildInv' /\ TableInv' /\ CountInv'
    BY <1>2, Zenon DEF vars, IInv, StartInv, RebuildInv, TableInv, CountInv
  <2>3. QED  BY <1>1, <2>1, <2>2, Zenon DEF IInv
<1>3. CASE Next
  <2>1. CASE HandlerStep
    BY <1>1, <2>1, TakeEventStep, MarkNeedsResetStep, UpdateStep, DeleteVirtualParentsStep,
       DeleteNeedsResetStep, DeleteEntriesStep, GetVirtualInfoStep, GetVirtualUTXOsStep,
       ResetFailsStep, AddAndCommitOutpointsStep, FinishResetStep
       DEF HandlerStep
  <2>2. QED
    BY <1>1, <1>3, <2>1, UpdateVirtualStep, UpdateVirtualFailsLateStep,
       CommitStagingConsensusStep, NotifyStep, CrashStep, NewStep
       DEF Next
<1>4. QED  BY <1>2, <1>3

\* Every state of the node: the queue of change sets, the rebuild and the
\* index fit together.
THEOREM Invariance == Spec => []IInv
<1>1. Init => IInv
  BY InitInv
<1>2. IInv /\ [Next]_vars => IInv'
  BY NextInv
<1>3. QED  BY <1>1, <1>2, PTL DEF Spec

\* An index that New would trust is virtual's UTXO set, unless virtual moved
\* in a way the index is not told of.
THEOREM SyncedIndexIsRight == Spec => []SyncedIndexIsTable
<1>1. IInv => SyncedIndexIsTable
  BY IndexAssumption DEF IInv, TypeOK, TableInv, SyncedIndexIsTable, IsSynced
<1>2. QED  BY <1>1, Invariance, PTL

\* The counts of an index with parents are those of its entries, whatever
\* the change sets committed to it.
THEOREM CountsAreRight == Spec => []CountsMatchEntries
<1>1. IInv => CountsMatchEntries
  BY DEF IInv, CountInv, CountsMatchEntries
<1>2. QED  BY <1>1, Invariance, PTL

=============================================================================
