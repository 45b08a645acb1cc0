------------------------------ MODULE Mempool ------------------------------
(***************************************************************************)
(* The mempool (domain/miningmanager/mempool): the transaction pool, the   *)
(* index of what its transactions spend, and the orphan pool.              *)
(*                                                                         *)
(* Every exported operation holds the mempool's mutex, but virtual is not  *)
(* behind that mutex: it moves between any two questions an operation asks *)
(* consensus.  An operation is therefore a chain of steps over op, one per *)
(* question, that no other operation of the mempool interleaves with.      *)
(*                                                                         *)
(* Virtual is the set of transactions its past accepts.  A transaction's   *)
(* inputs and outputs are sequences of outpoints; its fee, its mass and    *)
(* its place in the fee-rate order are constants, as they are in the code  *)
(* once it is populated.  The fee-rate list holds the pool's transactions  *)
(* in that order: with standard transactions, whose fees are never zero,   *)
(* Push and Remove do not fail.                                            *)
(***************************************************************************)
EXTENDS Integers, FiniteSets, Sequences, Functions

CONSTANTS
    Tx,                              \* transaction ids, numbers
    NoTx,                            \* no transaction
    Coin,                            \* outpoints virtual starts with
    Inputs, Outputs,                 \* [Tx -> Seq(outpoint)]
    Fee, Mass,                       \* [Tx -> Nat]
    Compound,                        \* the transactions shaped as compounds
    MaximumTransactionCount,
    MaximumOrphanTransactionCount,
    HoldOrphans,                     \* InputMinAgeDAAScore is 0
    BlockTransactions                \* what blocks carry, without the coinbase

Ins(t) == Range(Inputs[t])
Outs(t) == Range(Outputs[t])
Outpoint == Coin \cup UNION {Outs(t) : t \in Tx}

ASSUME MempoolAssumption ==
    /\ Tx \subseteq Nat /\ IsFiniteSet(Tx) /\ NoTx \notin Tx
    /\ Inputs \in [Tx -> Seq(Outpoint)] /\ Outputs \in [Tx -> Seq(Outpoint)]
    /\ \A t \in Tx : Ins(t) # {} /\ Outs(t) \cap Coin = {}
    /\ \A t, u \in Tx : t # u => Outs(t) \cap Outs(u) = {}
    /\ \A t \in Tx : Fee[t] \in Nat \ {0} /\ Mass[t] \in Nat \ {0}
    /\ Compound \subseteq Tx
    /\ MaximumTransactionCount \in Nat /\ MaximumOrphanTransactionCount \in Nat
    /\ HoldOrphans \in BOOLEAN
    /\ BlockTransactions \subseteq Seq(Tx)

VARIABLES
    mp,        \* the two pools and their indices
    op,        \* the operation holding the mempool's mutex
    accepted,  \* the transactions virtual's past accepts
    leftover   \* history: a replacement left a transaction it conflicts with

vars == <<mp, op, accepted, leftover>>

-----------------------------------------------------------------------------
(* Virtual, as the mempool sees it                                         *)

\* The UTXO set after accepting the transactions of A.
UTXOSet(A) == (Coin \cup UNION {Outs(t) : t \in A}) \ UNION {Ins(t) : t \in A}

\* What virtual may accept: nothing twice, nothing out of thin air.
Acceptable ==
    {A \in SUBSET Tx :
        /\ \A t, u \in A : t # u => Ins(t) \cap Ins(u) = {}
        /\ \A t \in A : Ins(t) \subseteq Coin \cup UNION {Outs(u) : u \in A}}

-----------------------------------------------------------------------------
(* The pools                                                               *)

EmptyPools ==
    [pool |-> {},                               \* allTransactions
     high |-> {},                               \* highPriorityTransactions
     parents |-> [t \in Tx |-> {}],             \* ParentTransactionsInPool
     chained |-> [t \in Tx |-> {}],             \* chainedTransactionsByParentID
     spender |-> [o \in Outpoint |-> NoTx],     \* transactionByPreviousOutpoint
     orphans |-> {},                            \* allOrphans
     orphanHigh |-> {}, orphanLocal |-> {},
     orphanBy |-> [o \in Outpoint |-> NoTx],    \* orphansByPreviousOutpoint
     filled |-> [t \in Tx |-> {}]]              \* inputs of an orphan that have a UTXO entry

GetParentTransactionsInPool(m, t) == {p \in m.pool : Ins(t) \cap Outs(p) # {}}

CheckDoubleSpends(m, t) == \A o \in Ins(t) : m.spender[o] = NoTx

AddMempoolTransaction(m, t, isHighPriority) ==
    [m EXCEPT
        !.pool = @ \cup {t},
        !.high = IF isHighPriority THEN @ \cup {t} ELSE @,
        !.parents[t] = GetParentTransactionsInPool(m, t),
        !.chained = [p \in Tx |-> IF p \in GetParentTransactionsInPool(m, t)
                                  THEN @[p] \cup {t} ELSE @[p]],
        !.spender = [o \in Outpoint |-> IF o \in Ins(t) THEN t ELSE @[o]]]

\* The children of the transactions of S.
Children(children, S) == UNION {children[t] : t \in S}

\* What following `children' from S reaches in one step or more: the least set
\* that has the children of S and its own.
Descendants(children, S) ==
    {t \in Tx : \A D \in SUBSET Tx : Children(children, S \cup D) \subseteq D => t \in D}

GetRedeemers(m, t) == Descendants(m.chained, {t})

\* The orphans spending an output of t.
OrphanChildren(m, t) == {m.orphanBy[o] : o \in Outs(t)} \ {NoTx}

OrphanRedeemers(m, S) == Descendants([t \in Tx |-> OrphanChildren(m, t)], S)

-----------------------------------------------------------------------------
(* Removal                                                                 *)

RemoveOrphans(m, S) ==
    [m EXCEPT
        !.orphans = @ \ S, !.orphanHigh = @ \ S, !.orphanLocal = @ \ S,
        !.orphanBy = [o \in Outpoint |-> IF \E t \in S : o \in Ins(t) THEN NoTx ELSE @[o]],
        !.filled = [t \in Tx |-> IF t \in S THEN {} ELSE @[t]]]

RemoveTransactionsFromPool(m, S) ==
    [m EXCEPT
        !.pool = @ \ S, !.high = @ \ S,
        !.parents = [t \in Tx |-> IF t \in S THEN {} ELSE @[t]],
        !.chained = [p \in Tx |->
            IF p \in S THEN {} ELSE @[p] \ {t \in S : p \in m.parents[t]}],
        !.spender = [o \in Outpoint |-> IF \E t \in S : o \in Ins(t) THEN NoTx ELSE @[o]]]

\* Mutation: The redeemers keep waiting for t.
Detach_ParentKept(m, t, redeemers) ==
    [m EXCEPT
        !.filled = [u \in Tx |-> IF u \in OrphanChildren(m, t) THEN @[u] \ Outs(t) ELSE @[u]]]

\* The redeemers stop waiting for t, and an orphan spending t forgets the
\* entries it had of t's outputs.
Detach(m, t, redeemers) ==
    [m EXCEPT
        !.parents = [u \in Tx |-> IF u \in redeemers THEN @[u] \ {t} ELSE @[u]],
        !.filled = [u \in Tx |-> IF u \in OrphanChildren(m, t) THEN @[u] \ Outs(t) ELSE @[u]]]

\* A transaction held as an orphan leaves the orphan pool only.
RemoveTransaction(t, removeRedeemers) ==
    \/ /\ t \notin mp.orphans \cup mp.pool
       /\ UNCHANGED mp
    \/ /\ t \in mp.orphans
       /\ \E S \in {IF removeRedeemers THEN OrphanRedeemers(mp, {t}) ELSE {}} :
              mp' = RemoveOrphans(mp, {t} \cup S)
    \/ /\ t \in mp.pool \ mp.orphans
       /\ \E redeemers \in {GetRedeemers(mp, t)} :
              IF removeRedeemers
              THEN \E S \in {OrphanRedeemers(mp, {t} \cup redeemers)},
                      m \in {RemoveTransactionsFromPool(mp, {t} \cup redeemers)} :
                          mp' = RemoveOrphans(m, S)
              ELSE \E m \in {Detach(mp, t, redeemers)} :
                          mp' = RemoveTransactionsFromPool(m, {t})

-----------------------------------------------------------------------------
(* The fee-rate order                                                      *)

LowerFeeRate(t, u) ==
    \/ Fee[t] * Mass[u] < Fee[u] * Mass[t]
    \/ Fee[t] * Mass[u] = Fee[u] * Mass[t] /\ t < u

\* Where transactionsOrderedByFeeRate holds t, counted from 0.
FeeRateIndex(m, t) == Cardinality({u \in m.pool : LowerFeeRate(u, t)})

-----------------------------------------------------------------------------
(* Submission                                                              *)

utxo == UTXOSet(accepted)

NoOperation ==
    [kind |-> "none",
     tx |-> NoTx,         \* the transaction being handled or inserted
     high |-> FALSE,      \* its priority
     conflicts |-> {},    \* what a replacement still has to evict
     spent |-> <<>>,      \* the inputs whose spenders still have to go
     work |-> <<>>,       \* the outputs whose orphans are to be promoted
     rest |-> <<>>,       \* the block's transactions still to handle
     index |-> 0,         \* limitTransactionCount's currentIndex
     shifted |-> FALSE,   \* history: an eviction moved the list under that index
     doomed |-> {}]       \* what an expiry or a revalidation has yet to visit

MutexIsFree == op = NoOperation

IsProtectedOrphan(m, t) == t \in m.orphanHigh /\ t \in m.orphanLocal

AddOrphan(m, t, isHighPriority, isLocalSubmission) ==
    [m EXCEPT
        !.orphans = @ \cup {t},
        !.orphanHigh = IF isHighPriority THEN @ \cup {t} ELSE @,
        !.orphanLocal = IF isLocalSubmission THEN @ \cup {t} ELSE @,
        !.orphanBy = [o \in Outpoint |-> IF o \in Ins(t) THEN t ELSE @[o]],
        !.filled[t] = Ins(t) \cap utxo]

\* limitOrphanPoolSize takes out orphans in the random order of a Go map.
OrphanEvictions(m) ==
    LET evictable == {t \in m.orphans : ~IsProtectedOrphan(m, t)}
        excess == Cardinality(m.orphans) - MaximumOrphanTransactionCount
    IN  {E \in SUBSET evictable :
            Cardinality(E) = IF excess <= 0 THEN 0
                             ELSE IF excess < Cardinality(evictable) THEN excess
                             ELSE Cardinality(evictable)}

MaybeAddOrphan(t, isHighPriority, isLocalSubmission) ==
    /\ HoldOrphans /\ MaximumOrphanTransactionCount > 0
    /\ t \notin mp.orphans
    /\ \A o \in Ins(t) : mp.orphanBy[o] = NoTx
    /\ LET m == AddOrphan(mp, t, isHighPriority, isLocalSubmission)
       IN  \E E \in OrphanEvictions(m) : mp' = RemoveOrphans(m, E)

RaisePriorityIfCompound(t, isHighPriority) == isHighPriority \/ t \in Compound

\* Whatever the code rejects leaves the mempool as it was.
ValidateAndInsertTransaction(t, isHighPriority, allowOrphan, isLocalSubmission) ==
    /\ MutexIsFree
    /\ t \notin mp.pool /\ CheckDoubleSpends(mp, t)
    /\ \/ /\ Ins(t) \subseteq utxo
          /\ mp' = AddMempoolTransaction(mp, t, RaisePriorityIfCompound(t, isHighPriority))
          /\ op' = [NoOperation EXCEPT !.kind = "insert", !.work = Outputs[t]]
       \/ /\ ~(Ins(t) \subseteq utxo) /\ allowOrphan
          /\ MaybeAddOrphan(t, RaisePriorityIfCompound(t, isHighPriority), isLocalSubmission)
          /\ UNCHANGED op
    /\ UNCHANGED <<accepted, leftover>>

MempoolConflicts(m, t) == {m.spender[o] : o \in Ins(t)} \ {NoTx}

ReplacementRemovalSet(m, conflicts) ==
    conflicts \cup Descendants(m.chained, conflicts)

Total(f, S) == FoldFunctionOnSet(+, 0, f, S)

ReplacementPays(t, evicted) ==
    /\ Fee[t] > Total(Fee, evicted)
    /\ Fee[t] * Total(Mass, evicted) > Total(Fee, evicted) * Mass[t]

\* Without a conflict the code falls back on ValidateAndInsertTransaction.
ValidateAndInsertTransactionReplacement(t, isHighPriority) ==
    /\ MutexIsFree
    /\ t \notin mp.pool
    /\ MempoolConflicts(mp, t) # {}
    /\ Ins(t) \subseteq utxo
    /\ \E evicted \in {ReplacementRemovalSet(mp, MempoolConflicts(mp, t))} :
        /\ \A u \in evicted : Ins(t) \cap Outs(u) = {}
        /\ ReplacementPays(t, evicted)
    /\ op' = [NoOperation EXCEPT
                 !.kind = "replace", !.tx = t,
                 !.high = RaisePriorityIfCompound(t, isHighPriority),
                 !.conflicts = MempoolConflicts(mp, t)]
    /\ UNCHANGED <<mp, accepted, leftover>>

\* In ascending order.
EvictConflict ==
    /\ op.kind = "replace"
    /\ \E t \in op.conflicts :
        /\ \A u \in op.conflicts : t <= u
        /\ RemoveTransaction(t, TRUE)
        /\ op' = [op EXCEPT !.conflicts = @ \ {t}]
        /\ leftover' = (leftover \/ t \in mp.orphans)
    /\ UNCHANGED accepted

AddReplacement ==
    /\ op.kind = "replace" /\ op.conflicts = {}
    /\ mp' = AddMempoolTransaction(mp, op.tx, op.high)
    /\ op' = [NoOperation EXCEPT !.kind = "insert", !.work = Outputs[op.tx]]
    /\ UNCHANGED <<accepted, leftover>>

-----------------------------------------------------------------------------
(* Promotion of orphans, after an insertion and in a block                 *)

\* fillInputsAndGetMissingParents looks up the inputs that have no entry yet,
\* and an entry it finds stays with the orphan.
FillInputs(t) == mp.filled[t] \cup (Ins(t) \cap utxo)

NothingToPromote ==
    /\ op.work # <<>> /\ mp.orphanBy[Head(op.work)] = NoTx
    /\ op' = [op EXCEPT !.work = Tail(@)]
    /\ UNCHANGED <<mp, accepted, leftover>>

\* Mutation: The output of a kept orphan stays in the queue.
KeepOrphan_Requeued ==
    /\ op.work # <<>> /\ mp.orphanBy[Head(op.work)] # NoTx
    /\ LET t == mp.orphanBy[Head(op.work)]
       IN  mp' = [mp EXCEPT !.filled[t] = FillInputs(t)]
    /\ UNCHANGED <<op, accepted, leftover>>

\* An input is missing, or consensus rejects the orphan that has them all.
KeepOrphan ==
    /\ op.work # <<>> /\ mp.orphanBy[Head(op.work)] # NoTx
    /\ LET t == mp.orphanBy[Head(op.work)]
       IN  mp' = [mp EXCEPT !.filled[t] = FillInputs(t)]
    /\ op' = [op EXCEPT !.work = Tail(@)]
    /\ UNCHANGED <<accepted, leftover>>

\* The orphan has left its pool before unorphanTransaction checks it, so a
\* failed check loses it: a double spend, consensus, the policy of the pool or
\* the rate limit of local compounds.
LoseOrphan ==
    /\ op.work # <<>> /\ mp.orphanBy[Head(op.work)] # NoTx
    /\ LET t == mp.orphanBy[Head(op.work)]
       IN  /\ FillInputs(t) = Ins(t)
           /\ mp' = RemoveOrphans(mp, {t})
    /\ op' = [op EXCEPT !.work = Tail(@)]
    /\ UNCHANGED <<accepted, leftover>>

\* Mutation: The pool may have got another spender while the orphan waited.
UnorphanTransaction_Unchecked ==
    /\ op.work # <<>> /\ mp.orphanBy[Head(op.work)] # NoTx
    /\ LET t == mp.orphanBy[Head(op.work)]
       IN  /\ FillInputs(t) = Ins(t)
           /\ \E m \in {RemoveOrphans(mp, {t})} :
                  mp' = AddMempoolTransaction(m, t, t \in mp.orphanHigh)
           /\ op' = [op EXCEPT !.work = Tail(@) \o Outputs[t]]
    /\ UNCHANGED <<accepted, leftover>>

UnorphanTransaction ==
    /\ op.work # <<>> /\ mp.orphanBy[Head(op.work)] # NoTx
    /\ LET t == mp.orphanBy[Head(op.work)]
       IN  /\ FillInputs(t) = Ins(t)
           /\ CheckDoubleSpends(mp, t)
           /\ \E m \in {RemoveOrphans(mp, {t})} :
                  mp' = AddMempoolTransaction(m, t, t \in mp.orphanHigh)
           /\ op' = [op EXCEPT !.work = Tail(@) \o Outputs[t]]
    /\ UNCHANGED <<accepted, leftover>>

ProcessOrphansAfterAcceptedTransaction ==
    NothingToPromote \/ KeepOrphan \/ LoseOrphan \/ UnorphanTransaction

-----------------------------------------------------------------------------
(* The end of an insertion: limitTransactionCount                          *)

\* Mutation: Priority does not protect.
Evictable_AnyPriority == {t \in mp.pool : FeeRateIndex(mp, t) >= op.index}

Evictable == {t \in mp.pool \ mp.high : FeeRateIndex(mp, t) >= op.index}

PoolIsFull == Cardinality(mp.pool) > MaximumTransactionCount

\* A redeemer with a lower fee rate than t leaves with t.
ShiftsList(t) == \E u \in mp.pool \ mp'.pool : LowerFeeRate(u, t)

\* Mutation: The index moves on although the list has shrunk.
EvictTransaction_Skipping ==
    /\ op.kind = "insert" /\ op.work = <<>>
    /\ PoolIsFull
    /\ \E t \in Evictable :
        /\ \A u \in Evictable : ~LowerFeeRate(u, t)
        /\ RemoveTransaction(t, TRUE)
        /\ op' = [op EXCEPT !.index = FeeRateIndex(mp, t) + 1, !.shifted = @ \/ ShiftsList(t)]
    /\ UNCHANGED <<accepted, leftover>>

EvictTransaction ==
    /\ op.kind = "insert" /\ op.work = <<>>
    /\ PoolIsFull
    /\ \E t \in Evictable :
        /\ \A u \in Evictable : ~LowerFeeRate(u, t)
        /\ RemoveTransaction(t, TRUE)
        /\ op' = [op EXCEPT !.index = FeeRateIndex(mp, t), !.shifted = @ \/ ShiftsList(t)]
    /\ UNCHANGED <<accepted, leftover>>

EndInsertion ==
    /\ op.kind = "insert" /\ op.work = <<>>
    /\ ~PoolIsFull \/ Evictable = {}
    /\ op' = NoOperation
    /\ UNCHANGED <<mp, accepted, leftover>>

-----------------------------------------------------------------------------
(* A new block: handleNewBlockTransactions                                 *)

HandleNewBlockTransactions(ts) ==
    /\ MutexIsFree
    /\ op' = [NoOperation EXCEPT !.kind = "block", !.rest = ts]
    /\ UNCHANGED <<mp, accepted, leftover>>

HandleBlockTransaction ==
    /\ op.kind = "block" /\ op.tx = NoTx /\ op.work = <<>> /\ op.rest # <<>>
    /\ RemoveTransaction(Head(op.rest), FALSE)
    /\ op' = [op EXCEPT !.tx = Head(op.rest), !.spent = Inputs[Head(op.rest)], !.rest = Tail(@)]
    /\ UNCHANGED <<accepted, leftover>>

RemoveDoubleSpends ==
    /\ op.kind = "block" /\ op.spent # <<>>
    /\ RemoveTransaction(mp.spender[Head(op.spent)], TRUE)
    /\ op' = [op EXCEPT !.spent = Tail(@)]
    /\ UNCHANGED <<accepted, leftover>>

RemoveMinedOrphan ==
    /\ op.kind = "block" /\ op.tx # NoTx /\ op.spent = <<>>
    /\ mp' = IF op.tx \in mp.orphans THEN RemoveOrphans(mp, {op.tx}) ELSE mp
    /\ op' = [op EXCEPT !.tx = NoTx, !.work = Outputs[op.tx]]
    /\ UNCHANGED <<accepted, leftover>>

\* When a transaction was added is not modelled, nor when the two scans last
\* ran: they find any of the unprotected transactions past the interval.
ExpireTransactions ==
    /\ op.kind = "block" /\ op.tx = NoTx /\ op.work = <<>> /\ op.rest = <<>>
    /\ \E E \in SUBSET {t \in mp.orphans : ~IsProtectedOrphan(mp, t)} :
        mp' = RemoveOrphans(mp, E)
    /\ \E E \in SUBSET (mp.pool \ mp.high) :
        op' = IF E = {} THEN NoOperation ELSE [NoOperation EXCEPT !.kind = "expire", !.doomed = E]
    /\ UNCHANGED <<accepted, leftover>>

\* expireOldTransactions, one transaction at a time in any order; a
\* transaction that already left as a redeemer is not met again.
ExpireOldTransaction ==
    /\ op.kind = "expire"
    /\ \E t \in op.doomed :
        /\ RemoveTransaction(t, TRUE)
        /\ LET left == (op.doomed \ {t}) \cap mp'.pool
           IN  op' = IF left = {} THEN NoOperation ELSE [op EXCEPT !.doomed = left]
    /\ UNCHANGED <<accepted, leftover>>

-----------------------------------------------------------------------------
(* Revalidation and removal on request                                     *)

\* revalidateHighPriorityTransactions asks consensus about one transaction at
\* a time, parents before children.
RevalidateHighPriorityTransactions ==
    /\ MutexIsFree
    /\ op' = IF mp.high = {} THEN NoOperation
             ELSE [NoOperation EXCEPT !.kind = "revalidate", !.doomed = mp.high]
    /\ UNCHANGED <<mp, accepted, leftover>>

RevalidateTransaction ==
    /\ op.kind = "revalidate"
    /\ \E t \in op.doomed :
        /\ \A u \in op.doomed : Ins(t) \cap Outs(u) = {}
        /\ IF Ins(t) \subseteq utxo THEN UNCHANGED mp ELSE RemoveTransaction(t, FALSE)
        /\ op' = IF op.doomed = {t} THEN NoOperation ELSE [op EXCEPT !.doomed = @ \ {t}]
    /\ UNCHANGED <<accepted, leftover>>

\* What a block template built for virtual could not include.  The redeemers
\* stay when the fault is a missing output, and leave with it otherwise.
RemoveInvalidTransaction(t) ==
    /\ MutexIsFree
    /\ \E removeRedeemers \in BOOLEAN : RemoveTransaction(t, removeRedeemers)
    /\ UNCHANGED <<op, accepted, leftover>>

-----------------------------------------------------------------------------
(* The specification                                                       *)

Init == mp = EmptyPools /\ op = NoOperation /\ accepted = {} /\ leftover = FALSE

\* RPC says the priority and whether an orphan may wait; relay and the
\* restoring of a disqualified block's transactions do not.
SubmitTransaction ==
    \E t \in Tx :
        \/ \E isHighPriority, allowOrphan \in BOOLEAN :
              ValidateAndInsertTransaction(t, isHighPriority, allowOrphan, TRUE)
        \/ \E allowOrphan \in BOOLEAN : ValidateAndInsertTransaction(t, FALSE, allowOrphan, FALSE)

SubmitTransactionReplacement ==
    \E t \in Tx, isHighPriority \in BOOLEAN :
        ValidateAndInsertTransactionReplacement(t, isHighPriority)

\* The steps of the operation that holds the mutex.
OperationStep ==
    \/ EvictConflict
    \/ AddReplacement
    \/ ProcessOrphansAfterAcceptedTransaction
    \/ EvictTransaction
    \/ EndInsertion
    \/ HandleBlockTransaction
    \/ RemoveDoubleSpends
    \/ RemoveMinedOrphan
    \/ ExpireTransactions
    \/ ExpireOldTransaction
    \/ RevalidateTransaction

\* The block and template flows; what a template build found invalid may
\* have become valid again.
FlowsCall ==
    \/ \E ts \in BlockTransactions : HandleNewBlockTransactions(ts)
    \/ RevalidateHighPriorityTransactions
    \/ \E t \in mp.pool : RemoveInvalidTransaction(t)

VirtualMoves ==
    /\ accepted' \in Acceptable \ {accepted}
    /\ UNCHANGED <<mp, op, leftover>>

Next ==
    \/ SubmitTransaction
    \/ SubmitTransactionReplacement
    \/ OperationStep
    \/ FlowsCall
    \/ VirtualMoves

Spec == Init /\ [][Next]_vars

\* Nothing blocks an operation that holds the mutex.
FairSpec == Spec /\ WF_vars(OperationStep)

-----------------------------------------------------------------------------
(* Properties                                                              *)

TypeOK ==
    /\ mp.pool \subseteq Tx /\ mp.orphans \subseteq Tx
    /\ mp.high \subseteq mp.pool
    /\ mp.orphanHigh \cup mp.orphanLocal \subseteq mp.orphans
    /\ op.kind \in {"none", "insert", "replace", "block", "expire", "revalidate"}
    /\ op.doomed \subseteq Tx /\ op.index \in 0..Cardinality(Tx)
    /\ accepted \in Acceptable

\* No two transactions of the pool spend the same output, nor two orphans,
\* and the index of each names the one that does, whatever order insertions,
\* promotions, blocks, evictions and reorganisations come in: a template takes
\* the pool's word for it, as consensus validates its transactions one by one,
\* and promotion follows the index of the orphans.  (The code breaks it in one
\* case, recorded in leftover: a replaced transaction that is also held as an
\* orphan only leaves the orphan pool.)
OneSpenderPerOutpoint ==
    \A o \in Outpoint :
        /\ ~leftover => {t \in mp.pool : o \in Ins(t)} = {mp.spender[o]} \ {NoTx}
        /\ {t \in mp.orphans : o \in Ins(t)} = {mp.orphanBy[o]} \ {NoTx}

\* A transaction waits for a parent exactly as long as the parent is in the
\* pool and lists it among its redeemers; a stale parent would keep it out of
\* every template.
LinksAreMutual ==
    \A p, t \in Tx :
        /\ p \in mp.parents[t] <=> t \in mp.chained[p]
        /\ p \in mp.parents[t] => {p, t} \subseteq mp.pool

\* Making room and expiry take a high-priority transaction only together with
\* a low-priority transaction it descends from.
HighPriorityStays ==
    [][op.kind \in {"insert", "expire"} /\ op.work = <<>> =>
          \A t \in mp.high \ mp'.pool :
              \E p \in mp.pool \ (mp'.pool \cup mp.high) : t \in GetRedeemers(mp, p)]_vars

\* An insertion ends with both pools within their limits: past its limit the
\* pool holds only high priority, and the orphan pool only what this node's
\* own RPC submitted with high priority, so peers cannot make either grow.
\* (The code stops short of the pool's limit in one case, recorded in
\* op.shifted: a high-priority redeemer that the index had passed leaves with
\* its parent, and as many transactions move below the index, which no longer
\* looks at them.)
InsertionEndsWithinLimit ==
    [][op.kind = "insert" /\ op' = NoOperation =>
          /\ ~PoolIsFull \/ mp.pool \subseteq mp.high \/ op.shifted
          /\ \/ Cardinality(mp'.orphans) <= MaximumOrphanTransactionCount
             \/ mp'.orphans \subseteq mp'.orphanHigh \cap mp'.orphanLocal]_vars

\* Every operation ends and releases the mutex: promotion and eviction come
\* to an end although they feed their own queues.
OperationsEnd == []<>MutexIsFree
=============================================================================
