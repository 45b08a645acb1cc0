---------------------------- MODULE ChainReplay ----------------------------
(***************************************************************************)
(* Replaying merge sets along selected chains: applyMergeSetBlocks and     *)
(* calculateMultiset of the consensus state manager, over the diff algebra *)
(* of UTXODiff.                                                            *)
(*                                                                         *)
(* A node keeps one UTXO table, virtual's.  The past UTXO set of any other *)
(* block is a diff from that table.  To resolve a block the node clones    *)
(* the diff of its selected parent, applies the transactions of the merge  *)
(* set one after another, and replays the same transactions on the         *)
(* selected parent's multiset (MuHash), which the header commits to.  So   *)
(* the set exists twice, as a diff and as a multiset, and a third time as  *)
(* the diff stored between the block and its selected parent.              *)
(*                                                                         *)
(* The multiset pass visits the accepted transactions in the order of the  *)
(* diff pass and reads nothing the diff pass writes, so one step does      *)
(* both.  MuHash is modelled by what it hashes: how often each serialized  *)
(* entry was added less how often it was removed.                          *)
(***************************************************************************)
EXTENDS UTXODiff, Integers, FiniteSets

CONSTANTS
    Tx,             \* transactions: [inputs, outputs : SUBSET Outpoint, isCoinbase : BOOLEAN]
    InitialCoins,   \* the set the chains start from (an imported pruning point)
    ValueOf,        \* the value an outpoint's content-derived ID fixes
    MaxScore,       \* bound: the DAA score at which chains stop growing
    MaxResolved,    \* bound: the number of distinct resolved blocks
    CoinbaseMaturity,   \* score a coinbase output must age before it is spent
    DuplicateCoinbases  \* may two selected parents carry byte-identical coinbases?

\* An output belongs to one transaction, since its outpoint holds the
\* transaction's ID; only coinbases have no inputs; initial coins have no
\* creating transaction; an output is spent by a transaction other than its own.
ASSUME TxAssumption ==
    /\ \A tx \in Tx : /\ tx.inputs \subseteq Outpoint
                      /\ tx.outputs \subseteq Outpoint \ InitialCoins
                      /\ tx.isCoinbase \in BOOLEAN
                      /\ tx.isCoinbase <=> tx.inputs = {}
                      /\ tx.inputs \cap tx.outputs = {}
    /\ \A t1, t2 \in Tx : t1 # t2 => t1.outputs \cap t2.outputs = {}

ASSUME ScoreAssumption == MaxScore \in Nat /\ DAAScore = 0 .. MaxScore

ASSUME ValueAssumption == ValueOf \in [Outpoint -> Value] /\ InitialCoins \subseteq Outpoint

ASSUME ParameterAssumption == DuplicateCoinbases \in BOOLEAN /\ CoinbaseMaturity \in Nat

VARIABLES
    table,     \* virtual's UTXO set
    resolved,  \* resolved blocks, each a ResolvedBlock record
    pass,      \* the merge-set pass in progress, or Idle
    previous,  \* the block this chain resolution finished last, with its past as a diff
    staged,    \* the last diff staged between a block and its selected parent
    failed     \* did an operation return an error that aborts the resolution?

vars == <<table, resolved, pass, previous, staged, failed>>

Coinbases == {tx \in Tx : tx.isCoinbase}

\* The outputs of coinbases, whose entries carry the coinbase flag
CoinbaseOutputs == UNION {tx.outputs : tx \in Coinbases}

\* NewUTXOEntry under AcceptedUTXOBlockDAAScore: the stamp is the score of the
\* merging block.
NewUTXOEntry(o, score) ==
    [value |-> ValueOf[o], isCoinbase |-> o \in CoinbaseOutputs, daaScore |-> score]

Multiset == [Outpoint -> [Entry -> Int]]

\* The multiset of a set: each entry once.
MultisetOf(view) ==
    [o \in Outpoint |-> [e \in Entry |-> IF view[o] = e THEN 1 ELSE 0]]

InitialView ==
    [o \in Outpoint |-> IF o \in InitialCoins THEN NewUTXOEntry(o, 0) ELSE None]

Idle == [active |-> FALSE]

NoPrevious == [known |-> FALSE]

-----------------------------------------------------------------------------
(* The set a block's past holds, by the definition of acceptance: inputs   *)
(* leave, outputs enter with the merging block's stamp.                    *)
AfterTransaction(view, tx, score) ==
    [o \in Outpoint |-> IF o \in tx.inputs THEN None
                        ELSE IF o \in tx.outputs THEN NewUTXOEntry(o, score)
                        ELSE view[o]]

-----------------------------------------------------------------------------
(* mutableUTXODiff.AddTransaction.  The inputs and outputs of a            *)
(* transaction are distinct outpoints, so removeEntry and addEntry act on  *)
(* each of them independently.                                             *)

AddTransactionFails(d, tx, score) ==
    \/ \E o \in tx.inputs  : RemoveEntryFails(d, o, Lookup(table, d, o))
    \/ \E o \in tx.outputs : AddEntryFails(d, o, NewUTXOEntry(o, score))

TouchedDiff(d, tx, score, o) ==
    IF o \in tx.inputs THEN RemoveEntry(d, o, Lookup(table, d, o))
    ELSE IF o \in tx.outputs THEN AddEntry(d, o, NewUTXOEntry(o, score))
    ELSE d

AddTransaction(d, tx, score) ==
    [toAdd    |-> [o \in Outpoint |-> TouchedDiff(d, tx, score, o).toAdd[o]],
     toRemove |-> [o \in Outpoint |-> TouchedDiff(d, tx, score, o).toRemove[o]]]

-----------------------------------------------------------------------------
(* ApplyAcceptanceDataToMultiset                                           *)

\* Mutation: an outpoint the past restamped is taken for one it holds at
\* the old stamp.
ResolveExisting_TableFirst(spDiff, o) ==
    IF table[o] # None THEN table[o] ELSE spDiff.toAdd[o]

\* resolveExisting: what the set this block starts from holds at an outpoint.
\* A pending removal is looked at before a pending addition.
ResolveExisting(spDiff, o) ==
    IF spDiff.toRemove[o] # None THEN None
    ELSE IF spDiff.toAdd[o] # None THEN spDiff.toAdd[o]
    ELSE table[o]

Plus(f, e, n) == [f EXCEPT ![e] = @ + n]

\* The output side of applyTransactionToMultiset at one outpoint: skip what
\* the pass already added or what is held with this stamp, replace the
\* serialization of the same coin under another stamp, else add.
AddOutputToMultiset(counts, spDiff, addedHere, o, e) ==
    LET held == ResolveExisting(spDiff, o)
    IN  IF o \in addedHere THEN counts
        ELSE IF held = None \/ ~SameCoin(held, e) THEN Plus(counts, e, 1)
        ELSE IF held.daaScore = e.daaScore THEN counts
        ELSE Plus(Plus(counts, held, -1), e, 1)

ApplyTransactionToMultiset(ms, d, spDiff, addedHere, tx, score) ==
    [o \in Outpoint |->
        IF o \in tx.inputs THEN Plus(ms[o], Lookup(table, d, o), -1)
        ELSE IF o \in tx.outputs
             THEN AddOutputToMultiset(ms[o], spDiff, addedHere, o, NewUTXOEntry(o, score))
        ELSE ms[o]]

-----------------------------------------------------------------------------
(* DiffFromChanged: diffFrom over the outpoints the clone recorded          *)

RestrictToOutpoints(d, S) ==
    [toAdd    |-> [o \in Outpoint |-> IF o \in S THEN d.toAdd[o] ELSE None],
     toRemove |-> [o \in Outpoint |-> IF o \in S THEN d.toRemove[o] ELSE None]]

DiffFromChanged(this, other, changed) ==
    DiffFrom(RestrictToOutpoints(this, changed), RestrictToOutpoints(other, changed))

DiffFromChangedFails(this, other, changed) ==
    DiffFromFails(RestrictToOutpoints(this, changed), RestrictToOutpoints(other, changed))

-----------------------------------------------------------------------------
Init ==
    /\ table = InitialView
    /\ resolved = {[past |-> InitialView, ms |-> MultisetOf(InitialView),
                    score |-> 0, accepted |-> {}]}
    /\ pass = Idle
    /\ previous = NoPrevious
    /\ staged = [from |-> InitialView, to |-> InitialView, diff |-> NewUTXODiff]
    /\ failed = FALSE

\* Mutation: the clone records the outputs a transaction makes, not its inputs.
Accepting_InputsNotRecorded(p, tx) ==
    [p EXCEPT !.past = AfterTransaction(p.past, tx, p.score),
              !.diff = AddTransaction(p.diff, tx, p.score),
              !.ms = ApplyTransactionToMultiset(p.ms, p.diff, p.spDiff, p.addedHere, tx, p.score),
              !.spentInPass = @ \cup tx.inputs,
              !.addedHere = @ \cup tx.outputs,
              !.changed = @ \cup tx.outputs,
              !.accepted = @ \cup {tx}]

\* The state of the pass after one more accepted transaction
Accepting(p, tx) ==
    [p EXCEPT !.past = AfterTransaction(p.past, tx, p.score),
              !.diff = AddTransaction(p.diff, tx, p.score),
              !.ms = ApplyTransactionToMultiset(p.ms, p.diff, p.spDiff, p.addedHere, tx, p.score),
              !.spentInPass = @ \cup tx.inputs,
              !.addedHere = @ \cup tx.outputs,
              !.changed = @ \cup tx.inputs \cup tx.outputs,
              !.accepted = @ \cup {tx}]

\* The start of a pass for a child of resolved block b, whose past is the diff
\* d from the table; CloneMutableRecordingChanges clones it.
StartPass(b, d) ==
    [active |-> TRUE, spPast |-> b.past, past |-> b.past, spDiff |-> d, diff |-> d,
     ms |-> b.ms, score |-> b.score + 1, spentInPass |-> {}, addedHere |-> {},
     changed |-> {}, accepted |-> b.accepted]

\* The first transaction of a pass is the coinbase of the selected parent, the
\* only coinbase the pass accepts.  Before per-block entropy entered coinbase
\* payloads two blocks could carry the same coinbase (DuplicateCoinbases).
BeginPass(b, d, coinbase) ==
    /\ ~pass.active
    /\ b.score < MaxScore /\ Cardinality(resolved) < MaxResolved
    /\ DuplicateCoinbases \/ coinbase \notin b.accepted
    /\ LET p == StartPass(b, d)
       IN  IF AddTransactionFails(p.diff, coinbase, p.score)
           THEN failed' = TRUE /\ UNCHANGED pass
           ELSE pass' = Accepting(p, coinbase) /\ UNCHANGED failed
    /\ previous' = NoPrevious
    /\ UNCHANGED <<table, resolved, staged>>

\* The lowest unverified block of a chain: restorePastUTXO gives its selected
\* parent's past.
BeginChain(b, coinbase) == BeginPass(b, DiffOf(table, b.past), coinbase)

\* Every further block of the chain: its selected parent was resolved in the
\* previous iteration, and the past computed there is used as it is.
ContinueChain(coinbase) ==
    /\ previous.known
    /\ BeginPass(previous.block, previous.diff, coinbase)

\* checkTransactionCoinbaseMaturity
IsMature(e, score) == e.isCoinbase => e.daaScore + CoinbaseMaturity <= score

\* maybeAcceptTransaction for a transaction that is not a coinbase: every input
\* is unspent in this pass, present in the set, and mature.  A transaction
\* that fails this, or whose scripts fail, is rejected and changes nothing.
AcceptTransaction(tx) ==
    /\ pass.active
    /\ \A o \in tx.inputs : /\ o \notin pass.spentInPass
                            /\ Lookup(table, pass.diff, o) # None
                            /\ IsMature(Lookup(table, pass.diff, o), pass.score)
    /\ IF AddTransactionFails(pass.diff, tx, pass.score)
       THEN failed' = TRUE /\ pass' = Idle
       ELSE pass' = Accepting(pass, tx) /\ UNCHANGED failed
    /\ UNCHANGED <<table, resolved, previous, staged>>

\* The end of resolveSingleBlockStatus for a block below the resolved tip: the
\* diff from its selected parent is computed and staged with the multiset.
FinishBlock ==
    /\ pass.active
    /\ LET b == [past |-> pass.past, ms |-> pass.ms, score |-> pass.score,
                 accepted |-> pass.accepted]
       IN  IF DiffFromChangedFails(pass.spDiff, pass.diff, pass.changed)
           THEN failed' = TRUE /\ UNCHANGED <<resolved, previous, staged>>
           ELSE /\ resolved' = resolved \cup {b}
                /\ previous' = [known |-> TRUE, block |-> b, diff |-> pass.diff]
                /\ staged' = [from |-> pass.spPast, to |-> pass.past,
                              diff |-> DiffFromChanged(pass.spDiff, pass.diff, pass.changed)]
                /\ UNCHANGED failed
    /\ pass' = Idle
    /\ UNCHANGED table

\* Virtual moves between chain resolutions: its UTXO set becomes another
\* resolved set.
MoveVirtual(b) ==
    /\ ~pass.active
    /\ table' = Apply(table, DiffOf(table, b.past))
    /\ previous' = NoPrevious
    /\ UNCHANGED <<resolved, pass, staged, failed>>

Next ==
    \/ \E b \in resolved, coinbase \in Coinbases : BeginChain(b, coinbase)
    \/ \E coinbase \in Coinbases : ContinueChain(coinbase)
    \/ \E tx \in Tx \ Coinbases : AcceptTransaction(tx)
    \/ FinishBlock
    \/ \E b \in resolved : MoveVirtual(b)

Spec == Init /\ [][Next]_vars

-----------------------------------------------------------------------------
(* Properties *)

ResolvedBlock ==
    [past : Collection, ms : Multiset, score : DAAScore, accepted : SUBSET Tx]

Pass ==
    [active : {TRUE}, spPast : Collection, past : Collection, spDiff : Diff, diff : Diff,
     ms : Multiset, score : DAAScore, spentInPass : SUBSET Outpoint,
     addedHere : SUBSET Outpoint, changed : SUBSET Outpoint, accepted : SUBSET Tx]

TypeOK ==
    /\ table \in Collection
    /\ resolved \subseteq ResolvedBlock
    /\ pass \in Pass \cup {Idle}
    /\ previous \in [known : {TRUE}, block : ResolvedBlock, diff : Diff] \cup {NoPrevious}
    /\ staged \in [from : Collection, to : Collection, diff : Diff]
    /\ failed \in BOOLEAN

\* The accumulated diff is exactly the difference between virtual's table and
\* the set being built, whatever the table is: every removal names the entry
\* the table holds, and no addition sits on top of an entry.
DiffIsExact == pass.active => pass.diff = DiffOf(table, pass.past)

\* The multiset a header commits to is the multiset of the set the diff
\* describes: each coin hashed once, under the stamp the diff gives it.
MultisetMatchesDiff ==
    pass.active => pass.ms = MultisetOf(Apply(table, pass.diff))

\* The diff staged between a block and its selected parent, computed from the
\* recorded changes alone, leads from one past to the other and back.
StagedDiffIsExact ==
    /\ staged.diff = DiffOf(staged.from, staged.to)
    /\ Apply(staged.to, Reversed(staged.diff)) = staged.from

\* A transaction that passed validation never collides in the diff: neither
\* AddTransaction nor the diff to the selected parent returns an error.
NoCollision == ~failed

\* A coin is stamped once along a chain: no set a block's past can be holds
\* an outpoint whose creator the chain accepts again, and no accepted spend is
\* undone (AcceptedUTXOBlockDAAScore: "each coin is stamped exactly once").
SpentStaysSpent ==
    \A b \in resolved : \A tx \in b.accepted : \A o \in tx.inputs : b.past[o] = None
=============================================================================
