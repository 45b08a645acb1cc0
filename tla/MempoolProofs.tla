--------------------------- MODULE MempoolProofs ---------------------------
(***************************************************************************)
(* The indices of the two pools are exact, priority protects, and          *)
(* insertions keep the limits, for every set of transactions, every order  *)
(* of the mempool's operations and every move of virtual between them.     *)
(*                                                                         *)
(* What an operator on the pools does to the indices is a lemma of its     *)
(* own; what is removed with a transaction is a least closed set, so it    *)
(* has every redeemer and nothing that is not in the pool.                 *)
(***************************************************************************)
EXTENDS Mempool, FiniteSetTheorems, TLAPS

-----------------------------------------------------------------------------
(* The inductive invariant                                                 *)

Pools ==
    [pool : SUBSET Tx, high : SUBSET Tx,
     parents : [Tx -> SUBSET Tx], chained : [Tx -> SUBSET Tx],
     spender : [Outpoint -> Tx \cup {NoTx}],
     orphans : SUBSET Tx, orphanHigh : SUBSET Tx, orphanLocal : SUBSET Tx,
     orphanBy : [Outpoint -> Tx \cup {NoTx}],
     filled : [Tx -> SUBSET Outpoint]]

Operation ==
    [kind : {"none", "insert", "replace", "block", "expire", "revalidate"},
     tx : Tx \cup {NoTx}, high : BOOLEAN, conflicts : SUBSET Tx,
     spent : Seq(Outpoint), work : Seq(Outpoint), rest : Seq(Tx),
     index : 0..Cardinality(Tx), shifted : BOOLEAN, doomed : SUBSET Tx]

\* The links are mutual, between transactions of the pool of which one spends
\* the other.
Linked(m) ==
    \A p, t \in Tx :
        /\ p \in m.parents[t] <=> t \in m.chained[p]
        /\ p \in m.parents[t] => p \in m.pool /\ t \in m.pool /\ Ins(t) \cap Outs(p) # {}

\* The index of a pool names the one transaction that spends an output.
IsIndexOf(by, S) == \A o \in Outpoint : {t \in S : o \in Ins(t)} = {by[o]} \ {NoTx}

Prioritised(m) == m.high \subseteq m.pool /\ m.orphanHigh \cup m.orphanLocal \subseteq m.orphans

OrphansWithinLimit(m) ==
    \/ Cardinality(m.orphans) <= MaximumOrphanTransactionCount
    \/ m.orphans \subseteq m.orphanHigh \cap m.orphanLocal

PoolsInv(m) ==
    /\ m \in Pools
    /\ Linked(m)
    /\ IsIndexOf(m.orphanBy, m.orphans)
    /\ Prioritised(m)
    /\ OrphansWithinLimit(m)

\* What a replacement still has to evict is all that spends its inputs.
ReplaceInv ==
    op.kind = "replace" =>
        /\ op.tx \in Tx
        /\ ~leftover => \A o \in Ins(op.tx) : mp.spender[o] \in op.conflicts \cup {NoTx}

\* What limitTransactionCount has passed is not evictable.
LimitInv ==
    op.kind = "insert" =>
        /\ op.work # <<>> => op.index = 0
        /\ ~op.shifted => \A t \in mp.pool \ mp.high : FeeRateIndex(mp, t) >= op.index

OpInv ==
    /\ op \in Operation
    /\ op.kind \notin {"insert", "block"} => op.work = <<>>
    /\ op.kind = "expire" => op.doomed \cap mp.high = {}
    /\ ReplaceInv
    /\ LimitInv

IInv ==
    /\ PoolsInv(mp)
    /\ ~leftover => IsIndexOf(mp.spender, mp.pool)
    /\ OpInv
    /\ accepted \in Acceptable
    /\ leftover \in BOOLEAN

-----------------------------------------------------------------------------
(* What follows from a transaction                                         *)

\* The inputs and outputs of a transaction are outpoints.
LEMMA Outpoints ==
    ASSUME NEW t \in Tx
    PROVE  Ins(t) \in SUBSET Outpoint /\ Outs(t) \in SUBSET Outpoint
  BY MempoolAssumption DEF Ins, Outs, Range

\* The descendants are closed under children.
LEMMA DescendantsAreClosed ==
    ASSUME NEW children \in [Tx -> SUBSET Tx], NEW S \in SUBSET Tx,
           NEW u \in S \cup Descendants(children, S)
    PROVE  children[u] \subseteq Descendants(children, S)
<1> SUFFICES ASSUME NEW t \in children[u], NEW D \in SUBSET Tx,
                    Children(children, S \cup D) \subseteq D
             PROVE  t \in D
  BY DEF Descendants
<1>1. u \in S \cup D
  BY DEF Descendants
<1>2. QED  BY <1>1 DEF Children

\* They are the least such set.
LEMMA DescendantsAreLeast ==
    ASSUME NEW children, NEW S, NEW D \in SUBSET Tx,
           \A u \in S \cup D : children[u] \subseteq D
    PROVE  Descendants(children, S) \subseteq D
<1>1. Children(children, S \cup D) \subseteq D
  BY DEF Children
<1>2. QED  BY <1>1 DEF Descendants

-----------------------------------------------------------------------------
(* The operators on the pools, field by field: m before, n after            *)

\* An index with one more transaction, and one without some.
With(by, t, by2) == \A o \in Outpoint : by2[o] = IF o \in Ins(t) THEN t ELSE by[o]

Without(by, S, by2) ==
    \A o \in Outpoint : by2[o] = IF \E t \in S : o \in Ins(t) THEN NoTx ELSE by[o]

SameOrphans(m, n) ==
    /\ n.orphans = m.orphans /\ n.orphanHigh = m.orphanHigh
    /\ n.orphanLocal = m.orphanLocal /\ n.orphanBy = m.orphanBy

SamePool(m, n) ==
    /\ n.pool = m.pool /\ n.high = m.high /\ n.parents = m.parents
    /\ n.chained = m.chained /\ n.spender = m.spender

Added(m, n, t, high) ==
    /\ n \in Pools
    /\ n.pool = m.pool \cup {t}
    /\ n.high = IF high THEN m.high \cup {t} ELSE m.high
    /\ \A u \in Tx : n.parents[u] = IF u = t THEN GetParentTransactionsInPool(m, t)
                                    ELSE m.parents[u]
    /\ \A p \in Tx : n.chained[p] = IF p \in GetParentTransactionsInPool(m, t)
                                    THEN m.chained[p] \cup {t} ELSE m.chained[p]
    /\ With(m.spender, t, n.spender)
    /\ SameOrphans(m, n)

\* addTransaction puts t into the pool, its maps and the index of outputs, and
\* leaves the orphans alone.
LEMMA AddEffect ==
    ASSUME NEW m \in Pools, NEW t \in Tx, NEW high \in BOOLEAN
    PROVE  Added(m, AddMempoolTransaction(m, t, high), t, high)
<1>1. GetParentTransactionsInPool(m, t) \in SUBSET Tx
  BY DEF GetParentTransactionsInPool, Pools
<1> DEFINE n == AddMempoolTransaction(m, t, high)
<1>2. /\ n.pool = m.pool \cup {t} /\ n.high = IF high THEN m.high \cup {t} ELSE m.high
      /\ n.parents = [m.parents EXCEPT ![t] = GetParentTransactionsInPool(m, t)]
      /\ n.chained = [p \in Tx |-> IF p \in GetParentTransactionsInPool(m, t)
                                   THEN m.chained[p] \cup {t} ELSE m.chained[p]]
      /\ n.spender = [o \in Outpoint |-> IF o \in Ins(t) THEN t ELSE m.spender[o]]
  BY DEF AddMempoolTransaction, Pools
<1>3. SameOrphans(m, n)
  BY DEF AddMempoolTransaction, Pools, SameOrphans
<1>4. /\ n.pool \in SUBSET Tx /\ n.high \in SUBSET Tx /\ n.parents \in [Tx -> SUBSET Tx]
      /\ n.chained \in [Tx -> SUBSET Tx] /\ n.spender \in [Outpoint -> Tx \cup {NoTx}]
  BY <1>1, <1>2 DEF Pools
<1>5. n \in Pools
  BY <1>4, Zenon DEF AddMempoolTransaction, Pools
<1>6. /\ \A u \in Tx : n.parents[u] = IF u = t THEN GetParentTransactionsInPool(m, t)
                                       ELSE m.parents[u]
      /\ \A p \in Tx : n.chained[p] = IF p \in GetParentTransactionsInPool(m, t)
                                       THEN m.chained[p] \cup {t} ELSE m.chained[p]
  BY <1>2 DEF Pools
<1>7. With(m.spender, t, n.spender)
  BY <1>2 DEF With
<1> HIDE DEF n
<1>8. Added(m, n, t, high)
  BY <1>2, <1>3, <1>5, <1>6, <1>7, Zenon DEF Added
<1>9. QED  BY <1>8 DEF n

OrphansRemoved(m, n, S) ==
    /\ n \in Pools
    /\ n.orphans = m.orphans \ S
    /\ n.orphanHigh = m.orphanHigh \ S /\ n.orphanLocal = m.orphanLocal \ S
    /\ Without(m.orphanBy, S, n.orphanBy)
    /\ SamePool(m, n)

\* removeOrphan takes S out of the orphan pool and its index only.
LEMMA RemoveOrphansEffect ==
    ASSUME NEW m \in Pools, NEW S \in SUBSET Tx
    PROVE  OrphansRemoved(m, RemoveOrphans(m, S), S)
  BY Zenon DEF RemoveOrphans, Pools, OrphansRemoved, Without, SamePool

RemovedFromPool(m, n, S) ==
    /\ n \in Pools
    /\ n.pool = m.pool \ S /\ n.high = m.high \ S
    /\ \A t \in Tx : n.parents[t] = IF t \in S THEN {} ELSE m.parents[t]
    /\ \A p \in Tx : n.chained[p] = IF p \in S THEN {}
                                    ELSE m.chained[p] \ {t \in S : p \in m.parents[t]}
    /\ Without(m.spender, S, n.spender)
    /\ SameOrphans(m, n)

\* removeTransaction takes S out of the pool, its maps and its index only.
LEMMA RemoveFromPoolEffect ==
    ASSUME NEW m \in Pools, NEW S \in SUBSET Tx
    PROVE  RemovedFromPool(m, RemoveTransactionsFromPool(m, S), S)
  BY Zenon DEF RemoveTransactionsFromPool, Pools, RemovedFromPool, Without, SameOrphans

Detached(m, n, t, redeemers) ==
    /\ n \in Pools
    /\ \A u \in Tx : n.parents[u] = IF u \in redeemers THEN m.parents[u] \ {t}
                                    ELSE m.parents[u]
    /\ n.pool = m.pool /\ n.high = m.high /\ n.chained = m.chained
    /\ n.spender = m.spender
    /\ SameOrphans(m, n)

\* Detaching t changes what its redeemers wait for, and no index.
LEMMA DetachEffect ==
    ASSUME NEW m \in Pools, NEW t \in Tx, NEW redeemers
    PROVE  Detached(m, Detach(m, t, redeemers), t, redeemers)
  BY Zenon DEF Detach, Pools, Detached, SameOrphans

OrphanAdded(m, n, t, high, local) ==
    /\ n \in Pools
    /\ n.orphans = m.orphans \cup {t}
    /\ n.orphanHigh = IF high THEN m.orphanHigh \cup {t} ELSE m.orphanHigh
    /\ n.orphanLocal = IF local THEN m.orphanLocal \cup {t} ELSE m.orphanLocal
    /\ With(m.orphanBy, t, n.orphanBy)
    /\ SamePool(m, n)

\* addOrphan puts t into the orphan pool and its index, and leaves the pool
\* alone.
LEMMA AddOrphanEffect ==
    ASSUME NEW m \in Pools, NEW t \in Tx, NEW high \in BOOLEAN, NEW local \in BOOLEAN
    PROVE  OrphanAdded(m, AddOrphan(m, t, high, local), t, high, local)
<1>1. Ins(t) \cap utxo \in SUBSET Outpoint
  BY Outpoints
<1> DEFINE n == AddOrphan(m, t, high, local)
<1>2. /\ n.orphans = m.orphans \cup {t}
      /\ n.orphanHigh = IF high THEN m.orphanHigh \cup {t} ELSE m.orphanHigh
      /\ n.orphanLocal = IF local THEN m.orphanLocal \cup {t} ELSE m.orphanLocal
  BY DEF AddOrphan, Pools
<1>3. n \in Pools
  <2>1. ASSUME NEW F \in SUBSET Outpoint, NEW H \in SUBSET Tx, NEW L \in SUBSET Tx
        PROVE  [m EXCEPT !.orphans = @ \cup {t}, !.orphanHigh = H, !.orphanLocal = L,
                         !.orphanBy = [o \in Outpoint |-> IF o \in Ins(t) THEN t ELSE @[o]],
                         !.filled[t] = F] \in Pools
    BY Zenon DEF Pools
  <2>2. /\ (IF high THEN m.orphanHigh \cup {t} ELSE m.orphanHigh) \in SUBSET Tx
        /\ (IF local THEN m.orphanLocal \cup {t} ELSE m.orphanLocal) \in SUBSET Tx
    BY DEF Pools
  <2>3. QED  BY <1>1, <2>1, <2>2, Zenon DEF AddOrphan
<1>4. With(m.orphanBy, t, n.orphanBy) /\ SamePool(m, n)
  BY DEF AddOrphan, Pools, With, SamePool
<1>5. QED  BY <1>2, <1>3, <1>4 DEF OrphanAdded

-----------------------------------------------------------------------------
(* What the operators preserve                                             *)

\* Taking some of the indexed transactions out of an index.
LEMMA IndexAfterRemoval ==
    ASSUME NEW by, NEW S \in SUBSET Tx, NEW R \in SUBSET S, IsIndexOf(by, S),
           NEW by2, Without(by, R, by2)
    PROVE  IsIndexOf(by2, S \ R)
<1> SUFFICES ASSUME NEW o \in Outpoint
             PROVE  {t \in S \ R : o \in Ins(t)} = {by2[o]} \ {NoTx}
  BY DEF IsIndexOf
<1>1. {t \in S : o \in Ins(t)} = {by[o]} \ {NoTx}
  BY DEF IsIndexOf
<1>2. CASE \E t \in R : o \in Ins(t)
  BY <1>1, <1>2 DEF Without
<1>3. CASE ~ \E t \in R : o \in Ins(t)
  BY <1>1, <1>3 DEF Without
<1>4. QED  BY <1>2, <1>3

\* Putting one into an index that has none of its inputs.
LEMMA IndexAfterAddition ==
    ASSUME NEW by, NEW S \in SUBSET Tx, NEW t \in Tx, IsIndexOf(by, S),
           \A o \in Ins(t) : by[o] = NoTx,
           NEW by2, With(by, t, by2)
    PROVE  IsIndexOf(by2, S \cup {t})
<1> SUFFICES ASSUME NEW o \in Outpoint
             PROVE  {u \in S \cup {t} : o \in Ins(u)} = {by2[o]} \ {NoTx}
  BY DEF IsIndexOf
<1>1. {u \in S : o \in Ins(u)} = {by[o]} \ {NoTx}
  BY DEF IsIndexOf
<1>2. t # NoTx
  BY MempoolAssumption
<1>3. CASE o \in Ins(t)
  BY <1>1, <1>2, <1>3 DEF With
<1>4. CASE o \notin Ins(t)
  BY <1>1, <1>4 DEF With
<1>5. QED  BY <1>3, <1>4

\* What an index names is indexed.
LEMMA IndexNames ==
    ASSUME NEW by, NEW S, IsIndexOf(by, S), NEW o \in Outpoint, by[o] # NoTx
    PROVE  by[o] \in S /\ o \in Ins(by[o])
  BY DEF IsIndexOf

\* Adding a transaction of which the pool may already have the links.
LEMMA AddKeepsInv ==
    ASSUME NEW m, PoolsInv(m), NEW t \in Tx, NEW high, NEW n, Added(m, n, t, high)
    PROVE  /\ PoolsInv(n)
           /\ CheckDoubleSpends(m, t) /\ IsIndexOf(m.spender, m.pool)
                 => IsIndexOf(n.spender, n.pool)
<1> DEFINE new == GetParentTransactionsInPool(m, t)
<1>1. m \in Pools /\ m.pool \in SUBSET Tx /\ n \in Pools
  BY DEF PoolsInv, Pools, Added
<1>2. Linked(n)
  <2>1. \A p \in Tx : p \in new <=> p \in m.pool /\ Ins(t) \cap Outs(p) # {}
    BY <1>1 DEF GetParentTransactionsInPool
  <2>2. /\ \A u \in Tx : n.parents[u] = IF u = t THEN new ELSE m.parents[u]
        /\ \A p \in Tx : n.chained[p] = IF p \in new THEN m.chained[p] \cup {t} ELSE m.chained[p]
        /\ n.pool = m.pool \cup {t}
    BY DEF Added
  <2> HIDE DEF new
  <2> SUFFICES ASSUME NEW p \in Tx, NEW u \in Tx
               PROVE  /\ p \in n.parents[u] <=> u \in n.chained[p]
                      /\ p \in n.parents[u] => p \in n.pool /\ u \in n.pool
                                               /\ Ins(u) \cap Outs(p) # {}
    BY DEF Linked
  <2>3. /\ p \in m.parents[u] <=> u \in m.chained[p]
        /\ p \in m.parents[u] => p \in m.pool /\ u \in m.pool /\ Ins(u) \cap Outs(p) # {}
    BY DEF PoolsInv, Linked
  <2>4. CASE u = t
    BY <2>1, <2>2, <2>3, <2>4, Zenon
  <2>5. CASE u # t
    <3>1. n.parents[u] = m.parents[u] /\ (u \in n.chained[p] <=> u \in m.chained[p])
      BY <2>2, <2>5, Zenon
    <3>2. QED  BY <2>2, <2>3, <3>1
  <2>6. QED  BY <2>4, <2>5
<1>3. IsIndexOf(n.orphanBy, n.orphans) /\ OrphansWithinLimit(n)
  BY DEF PoolsInv, OrphansWithinLimit, Added, SameOrphans
<1>4. Prioritised(n)
  BY DEF PoolsInv, Prioritised, Added, SameOrphans
<1>5. CheckDoubleSpends(m, t) /\ IsIndexOf(m.spender, m.pool) => IsIndexOf(n.spender, n.pool)
  BY <1>1, IndexAfterAddition DEF Added, CheckDoubleSpends
<1>6. QED  BY <1>1, <1>2, <1>3, <1>4, <1>5 DEF PoolsInv

\* Fewer orphans are within the limit still.
LEMMA FewerOrphans ==
    ASSUME NEW m \in Pools, NEW n \in Pools, OrphansWithinLimit(m), NEW S,
           n.orphans = m.orphans \ S, n.orphanHigh = m.orphanHigh \ S,
           n.orphanLocal = m.orphanLocal \ S
    PROVE  OrphansWithinLimit(n)
<1>1. CASE m.orphans \subseteq m.orphanHigh \cap m.orphanLocal
  BY <1>1 DEF OrphansWithinLimit
<1>2. CASE Cardinality(m.orphans) <= MaximumOrphanTransactionCount
  <2>1. IsFiniteSet(m.orphans) /\ n.orphans \in SUBSET m.orphans
    BY MempoolAssumption, FS_Subset DEF Pools
  <2>2. Cardinality(n.orphans) <= Cardinality(m.orphans)
    BY <2>1, FS_Subset
  <2>3. Cardinality(n.orphans) \in Nat /\ Cardinality(m.orphans) \in Nat
    BY <2>1, FS_Subset, FS_CardinalityType
  <2>4. QED  BY <1>2, <2>2, <2>3, MempoolAssumption DEF OrphansWithinLimit
<1>3. QED  BY <1>1, <1>2 DEF OrphansWithinLimit

\* Taking orphans out.
LEMMA RemoveOrphansKeepsInv ==
    ASSUME NEW m, PoolsInv(m), NEW S \in SUBSET m.orphans, NEW n, OrphansRemoved(m, n, S)
    PROVE  PoolsInv(n)
<1>1. m \in Pools /\ n \in Pools /\ m.orphans \in SUBSET Tx
  BY DEF PoolsInv, Pools, OrphansRemoved
<1>2. IsIndexOf(n.orphanBy, n.orphans)
  BY <1>1, IndexAfterRemoval DEF PoolsInv, OrphansRemoved
<1>3. Linked(n)
  BY DEF PoolsInv, Linked, OrphansRemoved, SamePool
<1>4. Prioritised(n)
  BY DEF PoolsInv, Prioritised, OrphansRemoved, SamePool
<1>5. OrphansWithinLimit(n)
  BY <1>1, FewerOrphans DEF PoolsInv, OrphansRemoved
<1>6. QED  BY <1>1, <1>2, <1>3, <1>4, <1>5 DEF PoolsInv

\* Taking out of the pool what has all its redeemers.
LEMMA RemoveFromPoolKeepsInv ==
    ASSUME NEW m, PoolsInv(m), NEW S \in SUBSET m.pool,
           \A p \in S : m.chained[p] \subseteq S,
           NEW n, RemovedFromPool(m, n, S)
    PROVE  /\ PoolsInv(n)
           /\ IsIndexOf(m.spender, m.pool) => IsIndexOf(n.spender, n.pool)
<1>1. m \in Pools /\ n \in Pools /\ S \in SUBSET Tx /\ m.pool \in SUBSET Tx
  BY DEF PoolsInv, Pools, RemovedFromPool
<1>2. Linked(n)
  <2> SUFFICES ASSUME NEW p \in Tx, NEW t \in Tx
               PROVE  /\ p \in n.parents[t] <=> t \in n.chained[p]
                      /\ p \in n.parents[t] => p \in n.pool /\ t \in n.pool
                                               /\ Ins(t) \cap Outs(p) # {}
    BY DEF Linked
  <2>1. /\ p \in m.parents[t] <=> t \in m.chained[p]
        /\ p \in m.parents[t] => p \in m.pool /\ t \in m.pool /\ Ins(t) \cap Outs(p) # {}
    BY DEF PoolsInv, Linked
  <2>2. /\ n.parents[t] = IF t \in S THEN {} ELSE m.parents[t]
        /\ n.chained[p] = IF p \in S THEN {} ELSE m.chained[p] \ {u \in S : p \in m.parents[u]}
        /\ n.pool = m.pool \ S
    BY DEF RemovedFromPool
  <2>3. p \in S /\ t \in m.chained[p] => t \in S
    OBVIOUS
  <2>4. QED  BY <2>1, <2>2, <2>3
<1>3. IsIndexOf(n.orphanBy, n.orphans) /\ OrphansWithinLimit(n)
  BY DEF PoolsInv, OrphansWithinLimit, RemovedFromPool, SameOrphans
<1>4. Prioritised(n)
  BY DEF PoolsInv, Prioritised, RemovedFromPool, SameOrphans
<1>5. IsIndexOf(m.spender, m.pool) => IsIndexOf(n.spender, n.pool)
  BY <1>1, IndexAfterRemoval DEF RemovedFromPool
<1>6. QED  BY <1>1, <1>2, <1>3, <1>4, <1>5 DEF PoolsInv

\* Taking one out of the pool whose redeemers stay.
LEMMA DetachKeepsInv ==
    ASSUME NEW m, PoolsInv(m), NEW t \in m.pool, NEW redeemers,
           m.chained[t] \subseteq redeemers,
           NEW d, Detached(m, d, t, redeemers), NEW n, RemovedFromPool(d, n, {t})
    PROVE  /\ PoolsInv(n)
           /\ IsIndexOf(m.spender, m.pool) => IsIndexOf(n.spender, n.pool)
<1>1. m \in Pools /\ n \in Pools /\ t \in Tx /\ {t} \in SUBSET m.pool /\ m.pool \in SUBSET Tx
  BY DEF PoolsInv, Pools, RemovedFromPool
<1>2. /\ n.pool = m.pool \ {t} /\ n.high = m.high \ {t} /\ Without(m.spender, {t}, n.spender)
      /\ SameOrphans(m, n)
  BY DEF Detached, RemovedFromPool, SameOrphans
<1>3. Linked(n)
  <2> SUFFICES ASSUME NEW p \in Tx, NEW u \in Tx
               PROVE  /\ p \in n.parents[u] <=> u \in n.chained[p]
                      /\ p \in n.parents[u] => p \in n.pool /\ u \in n.pool
                                               /\ Ins(u) \cap Outs(p) # {}
    BY DEF Linked
  <2>1. /\ p \in m.parents[u] <=> u \in m.chained[p]
        /\ p \in m.parents[u] => p \in m.pool /\ u \in m.pool /\ Ins(u) \cap Outs(p) # {}
    BY DEF PoolsInv, Linked
  <2>2. /\ d.parents[u] = IF u \in redeemers THEN m.parents[u] \ {t} ELSE m.parents[u]
        /\ d.chained[p] = m.chained[p]
    BY DEF Detached
  <2>3. /\ n.parents[u] = IF u \in {t} THEN {} ELSE d.parents[u]
        /\ n.chained[p] = IF p \in {t} THEN {} ELSE d.chained[p] \ {v \in {t} : p \in d.parents[v]}
    BY DEF RemovedFromPool
  <2>4. p = t /\ u \in m.chained[p] => u \in redeemers
    OBVIOUS
  <2>5. QED  BY <1>2, <2>1, <2>2, <2>3, <2>4
<1>4. IsIndexOf(n.orphanBy, n.orphans) /\ OrphansWithinLimit(n)
  BY <1>2 DEF PoolsInv, OrphansWithinLimit, SameOrphans
<1>5. Prioritised(n)
  BY <1>2 DEF PoolsInv, Prioritised, SameOrphans
<1>6. IsIndexOf(m.spender, m.pool) => IsIndexOf(n.spender, n.pool)
  BY <1>1, <1>2, IndexAfterRemoval
<1>7. QED  BY <1>1, <1>3, <1>4, <1>5, <1>6 DEF PoolsInv

\* The redeemers of a transaction of the pool are in the pool, with theirs.
LEMMA Redeemers ==
    ASSUME NEW m, PoolsInv(m), NEW t \in m.pool
    PROVE  LET S == {t} \cup GetRedeemers(m, t)
           IN  /\ S \in SUBSET m.pool
               /\ \A p \in S : m.chained[p] \subseteq GetRedeemers(m, t)
<1>1. m.chained \in [Tx -> SUBSET Tx] /\ m.pool \in SUBSET Tx /\ t \in Tx
  BY DEF PoolsInv, Pools
<1>2. \A p \in Tx : m.chained[p] \subseteq m.pool
  BY <1>1 DEF PoolsInv, Linked
<1>3. GetRedeemers(m, t) \subseteq m.pool
  BY <1>1, <1>2, DescendantsAreLeast DEF GetRedeemers
<1>4. \A p \in {t} \cup GetRedeemers(m, t) : m.chained[p] \subseteq GetRedeemers(m, t)
  BY <1>1, DescendantsAreClosed DEF GetRedeemers
<1>5. QED  BY <1>3, <1>4

\* The orphans that go with some transactions are orphans.
LEMMA OrphanRedeemersAreOrphans ==
    ASSUME NEW m, PoolsInv(m), NEW S \in SUBSET Tx
    PROVE  OrphanRedeemers(m, S) \in SUBSET m.orphans
<1> DEFINE children == [t \in Tx |-> OrphanChildren(m, t)]
<1>1. m.orphans \in SUBSET Tx
  BY DEF PoolsInv, Pools
<1>2. ASSUME NEW u \in S \cup m.orphans
      PROVE  children[u] \subseteq m.orphans
  <2>1. u \in Tx /\ children[u] = OrphanChildren(m, u)
    BY <1>1
  <2>2. OrphanChildren(m, u) \subseteq m.orphans
    BY <2>1, Outpoints, IndexNames DEF OrphanChildren, PoolsInv
  <2>3. QED  BY <2>1, <2>2
<1> HIDE DEF children
<1>3. Descendants(children, S) \subseteq m.orphans
  BY <1>1, <1>2, DescendantsAreLeast
<1>4. QED  BY <1>3 DEF OrphanRedeemers, children

\* The orphan pool is back within its limit once it has been cut.
LEMMA OrphanLimit ==
    ASSUME NEW m \in Pools, NEW E \in OrphanEvictions(m), NEW n, OrphansRemoved(m, n, E)
    PROVE  E \in SUBSET m.orphans /\ OrphansWithinLimit(n)
<1> DEFINE evictable == {t \in m.orphans : ~IsProtectedOrphan(m, t)}
           excess == Cardinality(m.orphans) - MaximumOrphanTransactionCount
<1>1. /\ E \in SUBSET evictable
      /\ Cardinality(E) = IF excess <= 0 THEN 0
                          ELSE IF excess < Cardinality(evictable) THEN excess
                          ELSE Cardinality(evictable)
  BY DEF OrphanEvictions
<1>2. m.orphans \in SUBSET Tx /\ MaximumOrphanTransactionCount \in Nat /\ IsFiniteSet(Tx)
  BY MempoolAssumption DEF Pools
<1>3. IsFiniteSet(m.orphans) /\ IsFiniteSet(evictable) /\ IsFiniteSet(E)
  BY <1>1, <1>2, FS_Subset
<1>4. Cardinality(m.orphans) \in Nat /\ Cardinality(evictable) \in Nat
  BY <1>3, FS_CardinalityType
<1>5. Cardinality(m.orphans \ E) = Cardinality(m.orphans) - Cardinality(E)
  <2>1. m.orphans \cap E = E
    BY <1>1
  <2>2. QED  BY <1>3, <2>1, FS_Difference
<1>6. n.orphans = m.orphans \ E
  BY DEF OrphansRemoved
<1>7. CASE excess <= 0 \/ excess < Cardinality(evictable)
  <2>1. Cardinality(n.orphans) <= MaximumOrphanTransactionCount
    BY <1>1, <1>2, <1>4, <1>5, <1>6, <1>7
  <2>2. QED  BY <1>1, <2>1 DEF OrphansWithinLimit
<1>8. CASE ~(excess <= 0) /\ ~(excess < Cardinality(evictable))
  <2>1. Cardinality(E) = Cardinality(evictable)
    BY <1>1, <1>8
  <2>2. E = evictable
    BY <1>1, <1>3, <2>1, FS_Subset
  <2>3. n.orphans \subseteq n.orphanHigh \cap n.orphanLocal
    BY <2>2 DEF OrphansRemoved, IsProtectedOrphan
  <2>4. QED  BY <1>1, <2>3 DEF OrphansWithinLimit
<1>9. QED  BY <1>7, <1>8

\* Holding a transaction as an orphan, and cutting the orphan pool for it.
LEMMA MaybeAddOrphanStep ==
    ASSUME PoolsInv(mp), NEW t \in Tx, NEW high \in BOOLEAN, NEW local \in BOOLEAN,
           MaybeAddOrphan(t, high, local)
    PROVE  PoolsInv(mp)' /\ SamePool(mp, mp')
<1> DEFINE m == AddOrphan(mp, t, high, local)
<1>1. PICK E \in OrphanEvictions(m) : mp' = RemoveOrphans(m, E)
  BY DEF MaybeAddOrphan
<1>2. mp \in Pools /\ mp.orphans \in SUBSET Tx
  BY DEF PoolsInv, Pools
<1>3. OrphanAdded(mp, m, t, high, local)
  BY <1>2, AddOrphanEffect
<1> HIDE DEF m
<1>4. m \in Pools /\ m.orphans \in SUBSET Tx
  BY <1>3 DEF OrphanAdded, Pools
<1>5. E \in SUBSET m.orphans
  BY <1>1 DEF OrphanEvictions
<1>6. OrphansRemoved(m, mp', E)
  BY <1>1, <1>4, <1>5, RemoveOrphansEffect
<1>7. SamePool(mp, mp')
  BY <1>3, <1>6 DEF OrphanAdded, OrphansRemoved, SamePool
<1>8. mp' \in Pools
  BY <1>6 DEF OrphansRemoved
<1>9. Linked(mp)'
  BY <1>7 DEF PoolsInv, Linked, SamePool
<1>10. IsIndexOf(m.orphanBy, m.orphans)
  BY <1>2, <1>3, IndexAfterAddition DEF PoolsInv, OrphanAdded, MaybeAddOrphan
<1>11. IsIndexOf(mp.orphanBy, mp.orphans)'
  BY <1>4, <1>5, <1>6, <1>10, IndexAfterRemoval DEF OrphansRemoved
<1>12. Prioritised(mp)'
  BY <1>3, <1>6, <1>7 DEF PoolsInv, Prioritised, OrphanAdded, OrphansRemoved, SamePool
<1>13. OrphansWithinLimit(mp)'
  BY <1>1, <1>4, <1>6, OrphanLimit, Zenon
<1>14. QED  BY <1>7, <1>8, <1>9, <1>11, <1>12, <1>13 DEF PoolsInv

\* What a removal does to the pool and its index of outputs.
Removal(t, removeRedeemers) ==
    /\ \/ mp'.pool = mp.pool
       \/ t \in mp.pool /\ mp'.pool = mp.pool \ ({t} \cup IF removeRedeemers
                                                         THEN GetRedeemers(mp, t) ELSE {})
    /\ t \notin mp.orphans => t \notin mp'.pool
    /\ mp'.high = mp.high \cap mp'.pool
    /\ \A o \in Outpoint : mp'.spender[o] \in {mp.spender[o], NoTx}

\* removeTransaction keeps the pools consistent, whichever pool holds t and
\* whether or not its redeemers go with it.
LEMMA RemoveTransactionStep ==
    ASSUME PoolsInv(mp), NEW t, NEW removeRedeemers \in BOOLEAN,
           RemoveTransaction(t, removeRedeemers)
    PROVE  /\ PoolsInv(mp)'
           /\ IsIndexOf(mp.spender, mp.pool) => IsIndexOf(mp.spender, mp.pool)'
           /\ Removal(t, removeRedeemers)
<1>1. /\ mp \in Pools /\ mp.pool \in SUBSET Tx /\ mp.orphans \in SUBSET Tx
      /\ mp.high \subseteq mp.pool
  BY Zenon DEF PoolsInv, Pools, Prioritised
<1>2. CASE t \notin mp.orphans \cup mp.pool /\ UNCHANGED mp
  BY <1>1, <1>2 DEF Removal
<1>3. ASSUME t \in mp.orphans,
             \E S \in {IF removeRedeemers THEN OrphanRedeemers(mp, {t}) ELSE {}} :
                 mp' = RemoveOrphans(mp, {t} \cup S)
      PROVE  PoolsInv(mp)' /\ SamePool(mp, mp')
  <2>1. PICK S : /\ S = IF removeRedeemers THEN OrphanRedeemers(mp, {t}) ELSE {}
                 /\ mp' = RemoveOrphans(mp, {t} \cup S)
    BY <1>3, Zenon
  <2>2. {t} \in SUBSET Tx
    BY <1>1, <1>3
  <2>3. OrphanRedeemers(mp, {t}) \in SUBSET mp.orphans
    BY <2>2, OrphanRedeemersAreOrphans
  <2>4. {t} \cup S \in SUBSET mp.orphans /\ {t} \cup S \in SUBSET Tx
    BY <1>1, <1>3, <2>1, <2>3, Zenon
  <2>5. OrphansRemoved(mp, mp', {t} \cup S)
    BY <1>1, <2>1, <2>4, RemoveOrphansEffect
  <2>6. PoolsInv(mp)'
    BY <2>4, <2>5, RemoveOrphansKeepsInv
  <2>7. QED  BY <2>5, <2>6 DEF OrphansRemoved
<1>4. ASSUME t \in mp.pool \ mp.orphans, removeRedeemers,
             NEW redeemers, redeemers = GetRedeemers(mp, t),
             NEW S, S = OrphanRedeemers(mp, {t} \cup redeemers),
             NEW m, m = RemoveTransactionsFromPool(mp, {t} \cup redeemers),
             mp' = RemoveOrphans(m, S)
      PROVE  /\ PoolsInv(mp)'
             /\ IsIndexOf(mp.spender, mp.pool) => IsIndexOf(mp.spender, mp.pool)'
             /\ Removal(t, removeRedeemers)
  <2> DEFINE R == {t} \cup redeemers
  <2>1. R \in SUBSET mp.pool /\ \A p \in R : mp.chained[p] \subseteq R
    BY <1>4, Redeemers
  <2>2. R \in SUBSET Tx
    BY <1>1, <2>1
  <2>3. RemovedFromPool(mp, m, R)
    BY <1>1, <1>4, <2>2, RemoveFromPoolEffect
  <2>4. S \in SUBSET mp.orphans
    BY <1>4, <2>2, OrphanRedeemersAreOrphans
  <2> HIDE DEF R
  <2>5. PoolsInv(m) /\ (IsIndexOf(mp.spender, mp.pool) => IsIndexOf(m.spender, m.pool))
    BY <2>1, <2>3, RemoveFromPoolKeepsInv
  <2>6. m \in Pools /\ S \in SUBSET m.orphans /\ S \in SUBSET Tx
    BY <1>1, <2>3, <2>4 DEF RemovedFromPool, SameOrphans
  <2>7. OrphansRemoved(m, mp', S)
    BY <1>4, <2>6, RemoveOrphansEffect, Zenon
  <2>8. PoolsInv(mp)'
    BY <2>5, <2>6, <2>7, RemoveOrphansKeepsInv, Zenon
  <2>9. /\ mp'.pool = mp.pool \ R /\ mp'.high = mp.high \ R
        /\ Without(mp.spender, R, mp'.spender) /\ mp'.spender = m.spender /\ mp'.pool = m.pool
    BY <2>3, <2>7 DEF RemovedFromPool, OrphansRemoved, SamePool
  <2>10. t \in R /\ R = {t} \cup GetRedeemers(mp, t)
    BY <1>4 DEF R
  <2>11. Removal(t, removeRedeemers)
    <3>1. \A o \in Outpoint : mp'.spender[o] \in {mp.spender[o], NoTx}
      BY <2>9 DEF Without
    <3>2. mp'.high = mp.high \cap mp'.pool
      BY <1>1, <2>9
    <3>3. QED  BY <1>4, <2>9, <2>10, <3>1, <3>2, Zenon DEF Removal
  <2>12. QED  BY <2>5, <2>8, <2>9, <2>11
<1>5. ASSUME t \in mp.pool \ mp.orphans, ~removeRedeemers,
             NEW redeemers, redeemers = GetRedeemers(mp, t),
             NEW m, m = Detach(mp, t, redeemers),
             mp' = RemoveTransactionsFromPool(m, {t})
      PROVE  /\ PoolsInv(mp)'
             /\ IsIndexOf(mp.spender, mp.pool) => IsIndexOf(mp.spender, mp.pool)'
             /\ Removal(t, removeRedeemers)
  <2>1. mp.chained[t] \subseteq redeemers
    BY <1>5, Redeemers
  <2>2. t \in Tx /\ t \in mp.pool
    BY <1>1, <1>5
  <2>3. Detached(mp, m, t, redeemers)
    BY <1>1, <1>5, <2>2, DetachEffect
  <2>4. m \in Pools /\ {t} \in SUBSET Tx
    BY <2>2, <2>3 DEF Detached
  <2>5. RemovedFromPool(m, mp', {t})
    BY <1>5, <2>4, RemoveFromPoolEffect
  <2>6. PoolsInv(mp)' /\ (IsIndexOf(mp.spender, mp.pool) => IsIndexOf(mp.spender, mp.pool)')
    BY <2>1, <2>2, <2>3, <2>5, DetachKeepsInv
  <2>7. /\ mp'.pool = mp.pool \ {t} /\ mp'.high = mp.high \ {t}
        /\ Without(mp.spender, {t}, mp'.spender)
    BY <2>3, <2>5 DEF Detached, RemovedFromPool
  <2>8. Removal(t, removeRedeemers)
    <3>1. \A o \in Outpoint : mp'.spender[o] \in {mp.spender[o], NoTx}
      BY <2>7 DEF Without
    <3>2. mp'.high = mp.high \cap mp'.pool
      BY <1>1, <2>7
    <3>3. QED  BY <1>5, <2>7, <3>1, <3>2, Zenon DEF Removal
  <2>9. QED  BY <2>6, <2>8
<1>6. CASE /\ t \in mp.orphans
           /\ \E S \in {IF removeRedeemers THEN OrphanRedeemers(mp, {t}) ELSE {}} :
                  mp' = RemoveOrphans(mp, {t} \cup S)
  <2>1. PoolsInv(mp)' /\ SamePool(mp, mp')
    BY <1>3, <1>6
  <2>2. QED  BY <1>1, <1>6, <2>1 DEF SamePool, Removal
<1>7. QED  BY <1>2, <1>4, <1>5, <1>6 DEF RemoveTransaction

-----------------------------------------------------------------------------
(* The fee-rate order                                                      *)

\* Comparing fee rates by cross multiplication is transitive.
LEMMA Products ==
    ASSUME NEW a \in Nat \ {0}, NEW b \in Nat \ {0}, NEW c \in Nat \ {0},
           NEW d \in Nat \ {0}, NEW e \in Nat \ {0}, NEW f \in Nat \ {0},
           a * d <= c * b, c * f <= e * d
    PROVE  /\ a * f <= e * b
           /\ a * d < c * b \/ c * f < e * d => a * f < e * b
<1>1. /\ a * d \in Nat /\ c * b \in Nat /\ c * f \in Nat
      /\ e * d \in Nat /\ a * f \in Nat /\ e * b \in Nat
  OBVIOUS
<1>2. (a * f) * d = (a * d) * f /\ (c * b) * f = (c * f) * b /\ (e * d) * b = (e * b) * d
  OBVIOUS
<1>3. \A x, y \in Nat, z \in Nat \ {0} : (x <= y <=> x * z <= y * z) /\ (x < y <=> x * z < y * z)
  OBVIOUS
<1>4. (a * d) * f <= (c * b) * f /\ (a * d < c * b => (a * d) * f < (c * b) * f)
  BY <1>1, <1>3
<1>5. (c * f) * b <= (e * d) * b /\ (c * f < e * d => (c * f) * b < (e * d) * b)
  BY <1>1, <1>3
<1>6. /\ (a * d) * f \in Nat /\ (c * b) * f \in Nat /\ (c * f) * b \in Nat /\ (e * d) * b \in Nat
      /\ (a * f) * d \in Nat /\ (e * b) * d \in Nat
  BY <1>1
<1>7. /\ (a * f) * d <= (e * b) * d
      /\ a * d < c * b \/ c * f < e * d => (a * f) * d < (e * b) * d
  BY <1>2, <1>4, <1>5, <1>6
<1>8. QED  BY <1>1, <1>3, <1>7

\* The order is total,
LEMMA OrderIsTotal ==
    ASSUME NEW t \in Tx, NEW u \in Tx, ~LowerFeeRate(u, t), u # t
    PROVE  LowerFeeRate(t, u)
<1>1. /\ Fee[t] \in Nat /\ Mass[t] \in Nat /\ Fee[u] \in Nat /\ Mass[u] \in Nat
      /\ t \in Nat /\ u \in Nat
  BY MempoolAssumption
<1>2. Fee[t] * Mass[u] \in Nat /\ Fee[u] * Mass[t] \in Nat
  BY <1>1
<1>3. QED  BY <1>1, <1>2 DEF LowerFeeRate

\* and transitive.
LEMMA OrderIsTransitive ==
    ASSUME NEW v \in Tx, NEW t \in Tx, NEW u \in Tx, LowerFeeRate(v, t), LowerFeeRate(t, u)
    PROVE  LowerFeeRate(v, u)
<1>1. /\ Fee[v] \in Nat \ {0} /\ Mass[v] \in Nat \ {0} /\ Fee[t] \in Nat \ {0}
      /\ Mass[t] \in Nat \ {0} /\ Fee[u] \in Nat \ {0} /\ Mass[u] \in Nat \ {0}
      /\ v \in Nat /\ t \in Nat /\ u \in Nat
  BY MempoolAssumption
<1>2. /\ Fee[v] * Mass[t] \in Nat /\ Fee[t] * Mass[v] \in Nat /\ Fee[t] * Mass[u] \in Nat
      /\ Fee[u] * Mass[t] \in Nat /\ Fee[v] * Mass[u] \in Nat /\ Fee[u] * Mass[v] \in Nat
  BY <1>1
<1>3. Fee[v] * Mass[t] <= Fee[t] * Mass[v] /\ Fee[t] * Mass[u] <= Fee[u] * Mass[t]
  BY <1>2 DEF LowerFeeRate
<1>4. /\ Fee[v] * Mass[u] <= Fee[u] * Mass[v]
      /\ Fee[v] * Mass[t] < Fee[t] * Mass[v] \/ Fee[t] * Mass[u] < Fee[u] * Mass[t]
            => Fee[v] * Mass[u] < Fee[u] * Mass[v]
  BY <1>1, <1>3, Products, Zenon
<1>5. CASE Fee[v] * Mass[u] < Fee[u] * Mass[v]
  BY <1>5 DEF LowerFeeRate
<1>6. CASE ~(Fee[v] * Mass[u] < Fee[u] * Mass[v])
  <2>1. Fee[v] * Mass[u] = Fee[u] * Mass[v]
    BY <1>2, <1>4, <1>6
  <2>2. v < t /\ t < u
    BY <1>4, <1>6 DEF LowerFeeRate
  <2>3. QED  BY <1>1, <2>1, <2>2 DEF LowerFeeRate
<1>7. QED  BY <1>5, <1>6

\* A place in the fee-rate list is a place of one of the transactions.
LEMMA FeeRateIndexType ==
    ASSUME NEW m, m.pool \in SUBSET Tx, NEW t
    PROVE  FeeRateIndex(m, t) \in 0..Cardinality(Tx)
<1> DEFINE L == {u \in m.pool : LowerFeeRate(u, t)}
<1>1. L \in SUBSET Tx /\ IsFiniteSet(Tx)
  BY MempoolAssumption
<1> HIDE DEF L
<1>2. IsFiniteSet(L) /\ Cardinality(L) <= Cardinality(Tx)
  BY <1>1, FS_Subset
<1>3. Cardinality(L) \in Nat /\ Cardinality(Tx) \in Nat
  BY <1>1, <1>2, FS_CardinalityType
<1>4. QED  BY <1>2, <1>3 DEF FeeRateIndex, L

\* An eviction that takes nothing below the index with it leaves only
\* transactions at the index and above.
LEMMA IndexAfterEviction ==
    ASSUME mp.pool \in SUBSET Tx, mp'.pool \subseteq mp.pool, mp'.high = mp.high \cap mp'.pool,
           NEW t \in mp.pool, \A u \in Evictable : ~LowerFeeRate(u, t),
           \A u \in mp.pool \ mp.high : FeeRateIndex(mp, u) >= op.index,
           ~ShiftsList(t)
    PROVE  \A u \in mp'.pool \ mp'.high : FeeRateIndex(mp', u) >= FeeRateIndex(mp, t)
<1> SUFFICES ASSUME NEW u \in mp'.pool \ mp'.high
             PROVE  FeeRateIndex(mp', u) >= FeeRateIndex(mp, t)
  OBVIOUS
<1> DEFINE before == {v \in mp.pool : LowerFeeRate(v, t)}
           after == {v \in mp'.pool : LowerFeeRate(v, u)}
<1>1. u \in Tx /\ t \in Tx /\ u \in mp.pool \ mp.high
  OBVIOUS
<1>2. ~LowerFeeRate(u, t)
  BY <1>1 DEF Evictable
<1>3. u = t \/ LowerFeeRate(t, u)
  BY <1>1, <1>2, OrderIsTotal
<1>4. before \subseteq after
  <2> SUFFICES ASSUME NEW v \in before
               PROVE  v \in after
    OBVIOUS
  <2>1. v \in mp'.pool /\ v \in Tx /\ LowerFeeRate(v, t)
    BY DEF ShiftsList
  <2>2. QED  BY <1>1, <1>3, <2>1, OrderIsTransitive
<1>5. after \in SUBSET Tx /\ IsFiniteSet(Tx)
  BY MempoolAssumption
<1> HIDE DEF before, after
<1>6. IsFiniteSet(after)
  BY <1>5, FS_Subset
<1>7. IsFiniteSet(before) /\ Cardinality(before) <= Cardinality(after)
  BY <1>4, <1>6, FS_Subset
<1>8. Cardinality(before) \in Nat /\ Cardinality(after) \in Nat
  BY <1>6, <1>7, FS_CardinalityType, Zenon
<1>9. QED  BY <1>7, <1>8 DEF FeeRateIndex, before, after

-----------------------------------------------------------------------------
(* Every step keeps the invariant                                          *)

\* The operation between two operations.
LEMMA NoOperationFields ==
    /\ NoOperation \in Operation
    /\ NoOperation.kind = "none" /\ NoOperation.tx = NoTx /\ NoOperation.conflicts = {}
    /\ NoOperation.spent = <<>> /\ NoOperation.work = <<>> /\ NoOperation.rest = <<>>
    /\ NoOperation.index = 0 /\ NoOperation.shifted = FALSE /\ NoOperation.doomed = {}
<1>1. Cardinality(Tx) \in Nat
  BY MempoolAssumption, FS_CardinalityType
<1>2. 0 \in 0..Cardinality(Tx)
  BY <1>1
<1>3. QED  BY <1>2 DEF NoOperation, Operation

\* An index that has not moved has passed nothing.
LEMMA NothingIsPassed ==
    ASSUME PoolsInv(mp)', op'.index = 0
    PROVE  LimitInv'
<1>1. mp'.pool \in SUBSET Tx
  BY DEF PoolsInv, Pools
<1>2. Cardinality(Tx) \in Nat
  BY MempoolAssumption, FS_CardinalityType
<1>3. \A t : FeeRateIndex(mp', t) \in 0..Cardinality(Tx)
  BY <1>1, FeeRateIndexType
<1>4. \A t : FeeRateIndex(mp', t) >= op'.index
  BY <1>2, <1>3
<1>5. QED  BY <1>4 DEF LimitInv

\* The invariant after an operation has ended, or has begun or gone on with
\* nothing evicted.
LEMMA OperationInv ==
    ASSUME PoolsInv(mp)', op' \in Operation, op'.index = 0,
           op'.kind \notin {"insert", "block"} => op'.work = <<>>,
           op'.kind = "expire" => op'.doomed \cap mp'.high = {},
           op'.kind # "replace"
    PROVE  OpInv'
<1>1. LimitInv'
  BY NothingIsPassed
<1>2. ReplaceInv'
  BY DEF ReplaceInv
<1>3. QED  BY <1>1, <1>2 DEF OpInv

\* The mempool starts empty.
LEMMA InitInv == Init => IInv
<1> SUFFICES ASSUME Init
             PROVE  IInv
  OBVIOUS
<1>1. PoolsInv(mp)
  <2>1. mp \in Pools
    BY DEF Init, EmptyPools, Pools
  <2>2. Linked(mp)
    BY DEF Init, EmptyPools, Linked
  <2>3. IsIndexOf(mp.orphanBy, mp.orphans)
    BY DEF Init, EmptyPools, IsIndexOf
  <2>4. Prioritised(mp)
    BY DEF Init, EmptyPools, Prioritised
  <2>5. OrphansWithinLimit(mp)
    BY DEF Init, EmptyPools, OrphansWithinLimit
  <2>6. QED  BY <2>1, <2>2, <2>3, <2>4, <2>5, Zenon DEF PoolsInv
<1>2. IsIndexOf(mp.spender, mp.pool)
  BY DEF Init, EmptyPools, IsIndexOf
<1>3. op = NoOperation
  BY DEF Init
<1>4. OpInv
  BY <1>3, NoOperationFields DEF OpInv, ReplaceInv, LimitInv
<1>5. accepted \in Acceptable /\ leftover \in BOOLEAN
  BY Zenon DEF Init, Acceptable
<1>6. QED  BY <1>1, <1>2, <1>4, <1>5 DEF IInv

\* A submitted transaction enters the pool or the orphan pool.
LEMMA SubmitStep ==
    ASSUME IInv, NEW t \in Tx, NEW high \in BOOLEAN, NEW allowOrphan, NEW local \in BOOLEAN,
           ValidateAndInsertTransaction(t, high, allowOrphan, local)
    PROVE  IInv'
<1> DEFINE raised == RaisePriorityIfCompound(t, high)
<1>1. raised \in BOOLEAN
  BY DEF RaisePriorityIfCompound
<1> HIDE DEF raised
<1>2. PoolsInv(mp) /\ mp \in Pools
  BY DEF IInv, PoolsInv
<1>3. UNCHANGED <<accepted, leftover>> /\ CheckDoubleSpends(mp, t) /\ op = NoOperation
  BY DEF ValidateAndInsertTransaction, MutexIsFree
<1>4. CASE /\ mp' = AddMempoolTransaction(mp, t, raised)
           /\ op' = [NoOperation EXCEPT !.kind = "insert", !.work = Outputs[t]]
  <2>1. Added(mp, mp', t, raised)
    BY <1>1, <1>2, <1>4, AddEffect
  <2>2. PoolsInv(mp)' /\ (~leftover' => IsIndexOf(mp.spender, mp.pool)')
    BY <1>2, <1>3, <2>1, AddKeepsInv DEF IInv
  <2>3. /\ op' \in Operation /\ op'.index = 0 /\ op'.kind = "insert"
    BY <1>4, NoOperationFields, MempoolAssumption, Zenon DEF Operation
  <2>4. OpInv'
    BY <2>2, <2>3, OperationInv
  <2>5. QED  BY <1>3, <2>2, <2>4 DEF IInv
<1>5. CASE MaybeAddOrphan(t, raised, local) /\ UNCHANGED op
  <2>1. PoolsInv(mp)' /\ SamePool(mp, mp')
    BY <1>1, <1>2, <1>5, MaybeAddOrphanStep
  <2>2. ~leftover' => IsIndexOf(mp.spender, mp.pool)'
    BY <1>3, <2>1 DEF IInv, SamePool
  <2>3. op' = NoOperation
    BY <1>3, <1>5, Zenon
  <2>4. OpInv'
    BY <2>1, <2>3, OperationInv, NoOperationFields
  <2>5. QED  BY <1>3, <2>1, <2>2, <2>4 DEF IInv
<1>6. QED  BY <1>4, <1>5 DEF ValidateAndInsertTransaction, raised

\* A replacement knows all it has to evict when it starts.
LEMMA ReplacementStep ==
    ASSUME IInv, NEW t \in Tx, NEW high \in BOOLEAN,
           ValidateAndInsertTransactionReplacement(t, high)
    PROVE  IInv'
<1> DEFINE raised == RaisePriorityIfCompound(t, high)
<1>1. raised \in BOOLEAN
  BY DEF RaisePriorityIfCompound
<1>2. MempoolConflicts(mp, t) \in SUBSET Tx
  BY Outpoints DEF MempoolConflicts, IInv, PoolsInv, Pools
<1>3. /\ op' = [NoOperation EXCEPT !.kind = "replace", !.tx = t, !.high = raised,
                                   !.conflicts = MempoolConflicts(mp, t)]
      /\ UNCHANGED <<mp, accepted, leftover>>
  BY DEF ValidateAndInsertTransactionReplacement
<1> HIDE DEF raised
<1>4. op' \in Operation
  BY <1>1, <1>2, <1>3, NoOperationFields, Zenon DEF Operation
<1>5. /\ op'.kind = "replace" /\ op'.tx = t /\ op'.conflicts = MempoolConflicts(mp, t)
      /\ op'.work = <<>>
  BY <1>3, NoOperationFields DEF Operation
<1>6. ReplaceInv'
  BY <1>3, <1>5 DEF ReplaceInv, MempoolConflicts
<1>7. LimitInv'
  BY <1>5 DEF LimitInv
<1>8. OpInv'
  BY <1>4, <1>5, <1>6, <1>7 DEF OpInv
<1>9. QED  BY <1>3, <1>8 DEF IInv

\* Evicting a conflict leaves no spender of the replacement's inputs but the
\* conflicts still to evict.
LEMMA EvictConflictStep ==
    ASSUME IInv, EvictConflict
    PROVE  IInv'
<1>1. PICK t \in op.conflicts :
         /\ RemoveTransaction(t, TRUE)
         /\ op' = [op EXCEPT !.conflicts = @ \ {t}]
         /\ leftover' = (leftover \/ t \in mp.orphans)
  BY Zenon DEF EvictConflict
<1>2. /\ PoolsInv(mp)' /\ (IsIndexOf(mp.spender, mp.pool) => IsIndexOf(mp.spender, mp.pool)')
      /\ Removal(t, TRUE)
  BY <1>1, RemoveTransactionStep, Zenon DEF IInv
<1>3. op.kind = "replace" /\ op \in Operation /\ accepted' = accepted
  BY DEF EvictConflict, IInv, OpInv
<1>4. leftover' \in BOOLEAN
  BY <1>1
<1>5. ~leftover' => ~leftover /\ t \notin mp.orphans
  BY <1>1, Zenon
<1>6. ~leftover' => IsIndexOf(mp.spender, mp.pool)'
  BY <1>2, <1>5 DEF IInv
<1>7. /\ op' \in Operation /\ op'.kind = "replace" /\ op'.tx = op.tx /\ op'.work = op.work
      /\ op'.conflicts = op.conflicts \ {t}
  BY <1>1, <1>3 DEF Operation
<1>8. op.tx \in Tx
  BY <1>3 DEF IInv, OpInv, ReplaceInv
<1>9. ASSUME ~leftover', NEW o \in Ins(op.tx)
      PROVE  mp'.spender[o] \in (op.conflicts \ {t}) \cup {NoTx}
  <2>1. o \in Outpoint
    BY <1>8, Outpoints
  <2>2. mp.spender[o] \in op.conflicts \cup {NoTx}
    BY <1>3, <1>5, <1>9 DEF IInv, OpInv, ReplaceInv
  <2>3. mp'.spender[o] \in {mp.spender[o], NoTx} /\ t \notin mp'.pool
    BY <1>2, <1>5, <1>9, <2>1 DEF Removal
  <2>4. mp'.spender[o] = NoTx \/ mp'.spender[o] \in mp'.pool
    BY <1>6, <1>9, <2>1, IndexNames
  <2>5. QED  BY <2>2, <2>3, <2>4
<1>10. ReplaceInv'
  BY <1>7, <1>8, <1>9 DEF ReplaceInv
<1>11. LimitInv'
  BY <1>7 DEF LimitInv
<1>12. op'.work = <<>>
  BY <1>3, <1>7 DEF IInv, OpInv
<1>13. OpInv'
  BY <1>7, <1>10, <1>11, <1>12 DEF OpInv
<1>14. QED  BY <1>2, <1>3, <1>4, <1>6, <1>13 DEF IInv

\* A replacement enters when nothing spends its inputs any more.
LEMMA AddReplacementStep ==
    ASSUME IInv, AddReplacement
    PROVE  IInv'
<1>1. /\ op.kind = "replace" /\ op.conflicts = {} /\ UNCHANGED <<accepted, leftover>>
      /\ mp' = AddMempoolTransaction(mp, op.tx, op.high)
      /\ op' = [NoOperation EXCEPT !.kind = "insert", !.work = Outputs[op.tx]]
  BY DEF AddReplacement
<1>2. op.tx \in Tx /\ op.high \in BOOLEAN
  BY <1>1 DEF IInv, OpInv, ReplaceInv, Operation
<1>3. PoolsInv(mp) /\ mp \in Pools
  BY DEF IInv, PoolsInv
<1>4. Added(mp, mp', op.tx, op.high)
  BY <1>1, <1>2, <1>3, AddEffect
<1>5. ~leftover => CheckDoubleSpends(mp, op.tx)
  BY <1>1 DEF IInv, OpInv, ReplaceInv, CheckDoubleSpends
<1>6. PoolsInv(mp)' /\ (~leftover' => IsIndexOf(mp.spender, mp.pool)')
  BY <1>1, <1>2, <1>3, <1>4, <1>5, AddKeepsInv DEF IInv
<1>7. Outputs[op.tx] \in Seq(Outpoint)
  BY <1>2, MempoolAssumption
<1>8. op' \in Operation /\ op'.index = 0 /\ op'.kind = "insert"
  BY <1>1, <1>7, NoOperationFields, Zenon DEF Operation
<1>9. OpInv'
  BY <1>6, <1>8, OperationInv
<1>10. QED  BY <1>1, <1>6, <1>9 DEF IInv

\* A promotion step's operation: the queue goes on, and the index has not moved.
LEMMA PromotionOperation ==
    ASSUME IInv, PoolsInv(mp)', op.work # <<>>,
           NEW more \in Seq(Outpoint), op' = [op EXCEPT !.work = Tail(@) \o more]
    PROVE  OpInv'
<1>1. op \in Operation /\ op.work \in Seq(Outpoint)
  BY DEF IInv, OpInv, Operation
<1>2. op.kind \in {"insert", "block"}
  BY DEF IInv, OpInv
<1>3. Tail(op.work) \o more \in Seq(Outpoint)
  BY <1>1
<1>4. /\ op' \in Operation /\ op'.kind = op.kind /\ op'.index = op.index
      /\ op'.shifted = op.shifted
  BY <1>1, <1>3, Zenon DEF Operation
<1>5. ReplaceInv'
  BY <1>2, <1>4 DEF ReplaceInv
<1>6. LimitInv'
  <2>1. CASE op.kind = "insert"
    <3>1. op'.index = 0
      BY <1>4, <2>1 DEF IInv, OpInv, LimitInv
    <3>2. QED  BY <3>1, NothingIsPassed
  <2>2. CASE op.kind # "insert"
    BY <1>4, <2>2, Zenon DEF LimitInv
  <2>3. QED  BY <2>1, <2>2
<1>7. QED  BY <1>2, <1>4, <1>5, <1>6 DEF OpInv

\* The queue's next output and the orphan spending it.
LEMMA NextOrphan ==
    ASSUME IInv, op.work # <<>>, mp.orphanBy[Head(op.work)] # NoTx
    PROVE  mp.orphanBy[Head(op.work)] \in mp.orphans /\ mp.orphanBy[Head(op.work)] \in Tx
<1>1. op.work \in Seq(Outpoint)
  BY DEF IInv, OpInv, Operation
<1>2. Head(op.work) \in Outpoint
  BY <1>1
<1>3. QED  BY <1>2, IndexNames, Zenon DEF IInv, PoolsInv, Pools

\* What a kept orphan learns of its inputs is in no index.
LEMMA FilledKeepsInv ==
    ASSUME PoolsInv(mp), NEW t \in Tx, NEW F \in SUBSET Outpoint,
           mp' = [mp EXCEPT !.filled[t] = F]
    PROVE  PoolsInv(mp)' /\ SamePool(mp, mp')
<1>1. mp \in Pools
  BY DEF PoolsInv
<1>2. mp' \in Pools
  BY <1>1, Zenon DEF Pools
<1>3. SamePool(mp, mp') /\ SameOrphans(mp, mp')
  BY <1>1 DEF Pools, SamePool, SameOrphans
<1>4. Linked(mp)'
  BY <1>3 DEF PoolsInv, Linked, SamePool
<1>5. IsIndexOf(mp.orphanBy, mp.orphans)' /\ OrphansWithinLimit(mp)' /\ Prioritised(mp)'
  BY <1>3 DEF PoolsInv, OrphansWithinLimit, Prioritised, SamePool, SameOrphans
<1>6. QED  BY <1>2, <1>3, <1>4, <1>5 DEF PoolsInv

\* A promotion moves an orphan from one index to the other, or loses it.
LEMMA PromotionStep ==
    ASSUME IInv, ProcessOrphansAfterAcceptedTransaction
    PROVE  IInv'
<1>1. op.work # <<>> /\ UNCHANGED <<accepted, leftover>>
  BY Zenon DEF ProcessOrphansAfterAcceptedTransaction, NothingToPromote, KeepOrphan, LoseOrphan,
         UnorphanTransaction
<1>2. PoolsInv(mp) /\ mp \in Pools /\ op.work \in Seq(Outpoint)
  BY DEF IInv, PoolsInv, OpInv, Operation
<1>3. Tail(op.work) = Tail(op.work) \o <<>> /\ <<>> \in Seq(Outpoint)
  BY <1>1, <1>2
<1>4. ASSUME PoolsInv(mp)', SamePool(mp, mp'), op' = [op EXCEPT !.work = Tail(@)]
      PROVE  IInv'
  <2>1. OpInv'
    BY <1>1, <1>3, <1>4, PromotionOperation, Zenon
  <2>2. ~leftover' => IsIndexOf(mp.spender, mp.pool)'
    BY <1>1, <1>4 DEF IInv, SamePool
  <2>3. QED  BY <1>1, <1>4, <2>1, <2>2 DEF IInv
<1>5. CASE NothingToPromote
  <2>1. mp' = mp /\ op' = [op EXCEPT !.work = Tail(@)]
    BY <1>5 DEF NothingToPromote
  <2>2. PoolsInv(mp)' /\ SamePool(mp, mp')
    BY <1>2, <2>1 DEF SamePool
  <2>3. QED  BY <1>4, <2>1, <2>2
<1>6. CASE KeepOrphan
  <2> DEFINE t == mp.orphanBy[Head(op.work)]
  <2>1. t \in Tx
    BY <1>1, <1>6, NextOrphan DEF KeepOrphan
  <2>2. mp' = [mp EXCEPT !.filled[t] = FillInputs(t)] /\ op' = [op EXCEPT !.work = Tail(@)]
    BY <1>6 DEF KeepOrphan
  <2> HIDE DEF t
  <2>3. FillInputs(t) \in SUBSET Outpoint
    BY <1>2, <2>1, Outpoints DEF FillInputs, Pools
  <2>4. PoolsInv(mp)' /\ SamePool(mp, mp')
    BY <1>2, <2>1, <2>2, <2>3, FilledKeepsInv, Zenon
  <2>5. QED  BY <1>4, <2>2, <2>4
<1>7. CASE LoseOrphan
  <2> DEFINE t == mp.orphanBy[Head(op.work)]
  <2>1. t \in Tx /\ t \in mp.orphans
    BY <1>1, <1>7, NextOrphan DEF LoseOrphan
  <2>2. mp' = RemoveOrphans(mp, {t}) /\ op' = [op EXCEPT !.work = Tail(@)]
    BY <1>7 DEF LoseOrphan
  <2> HIDE DEF t
  <2>3. OrphansRemoved(mp, mp', {t})
    BY <1>2, <2>1, <2>2, RemoveOrphansEffect
  <2>4. PoolsInv(mp)' /\ SamePool(mp, mp')
    BY <1>2, <2>1, <2>3, RemoveOrphansKeepsInv, Zenon DEF OrphansRemoved
  <2>5. QED  BY <1>4, <2>2, <2>4
<1>8. CASE UnorphanTransaction
  <2> DEFINE t == mp.orphanBy[Head(op.work)]
             high == t \in mp.orphanHigh
  <2>1. t \in Tx /\ t \in mp.orphans
    BY <1>1, <1>8, NextOrphan, Zenon DEF UnorphanTransaction
  <2>2. /\ mp' = AddMempoolTransaction(RemoveOrphans(mp, {t}), t, high)
        /\ op' = [op EXCEPT !.work = Tail(@) \o Outputs[t]]
        /\ CheckDoubleSpends(mp, t)
    BY <1>8, Zenon DEF UnorphanTransaction
  <2>3. high \in BOOLEAN
    OBVIOUS
  <2> HIDE DEF t, high
  <2>4. PICK m : m = RemoveOrphans(mp, {t})
    OBVIOUS
  <2>5. OrphansRemoved(mp, m, {t})
    BY <1>2, <2>1, <2>4, RemoveOrphansEffect
  <2>6. PoolsInv(m) /\ m \in Pools /\ SamePool(mp, m)
    BY <1>2, <2>1, <2>5, RemoveOrphansKeepsInv, Zenon DEF OrphansRemoved
  <2>7. Added(m, mp', t, high)
    BY <2>1, <2>2, <2>3, <2>4, <2>6, AddEffect
  <2>8. CheckDoubleSpends(m, t)
    BY <2>2, <2>6, Zenon DEF CheckDoubleSpends, SamePool
  <2>9. PoolsInv(mp)' /\ (IsIndexOf(m.spender, m.pool) => IsIndexOf(mp.spender, mp.pool)')
    BY <2>1, <2>6, <2>7, <2>8, AddKeepsInv
  <2>10. ~leftover' => IsIndexOf(mp.spender, mp.pool)'
    BY <1>1, <2>6, <2>9 DEF IInv, SamePool
  <2>11. Outputs[t] \in Seq(Outpoint)
    BY <2>1, MempoolAssumption
  <2>12. OpInv'
    BY <1>1, <2>2, <2>9, <2>11, PromotionOperation, Zenon
  <2>13. QED  BY <1>1, <2>9, <2>10, <2>12 DEF IInv
<1>9. QED  BY <1>5, <1>6, <1>7, <1>8 DEF ProcessOrphansAfterAcceptedTransaction

\* An eviction leaves nothing evictable below the index, unless the list has
\* moved.
LEMMA EvictTransactionStep ==
    ASSUME IInv, EvictTransaction
    PROVE  IInv'
<1>1. PICK t \in Evictable :
         /\ \A u \in Evictable : ~LowerFeeRate(u, t)
         /\ RemoveTransaction(t, TRUE)
         /\ op' = [op EXCEPT !.index = FeeRateIndex(mp, t), !.shifted = @ \/ ShiftsList(t)]
  BY Zenon DEF EvictTransaction
<1>2. /\ op.kind = "insert" /\ op.work = <<>> /\ UNCHANGED <<accepted, leftover>>
      /\ op \in Operation
  BY DEF EvictTransaction, IInv, OpInv
<1>3. /\ PoolsInv(mp)' /\ (IsIndexOf(mp.spender, mp.pool) => IsIndexOf(mp.spender, mp.pool)')
      /\ Removal(t, TRUE)
  BY <1>1, RemoveTransactionStep, Zenon DEF IInv
<1>4. t \in mp.pool /\ mp.pool \in SUBSET Tx
  BY <1>1 DEF Evictable, IInv, PoolsInv, Pools
<1>5. FeeRateIndex(mp, t) \in 0..Cardinality(Tx)
  BY <1>4, FeeRateIndexType
<1>6. PICK s \in BOOLEAN : s = (op.shifted \/ ShiftsList(t))
  BY Zenon
<1>7. op' = [op EXCEPT !.index = FeeRateIndex(mp, t), !.shifted = s]
  BY <1>1, <1>6
<1>8. /\ op' \in Operation /\ op'.kind = "insert" /\ op'.work = <<>>
      /\ op'.index = FeeRateIndex(mp, t) /\ op'.shifted = s
  BY <1>2, <1>5, <1>7, Zenon DEF Operation
<1>9. LimitInv'
  <2> SUFFICES ASSUME ~s
               PROVE  \A u \in mp'.pool \ mp'.high : FeeRateIndex(mp', u) >= FeeRateIndex(mp, t)
    BY <1>8 DEF LimitInv
  <2>1. ~op.shifted /\ ~ShiftsList(t)
    BY <1>6, Zenon
  <2>2. \A u \in mp.pool \ mp.high : FeeRateIndex(mp, u) >= op.index
    BY <1>2, <2>1 DEF IInv, OpInv, LimitInv
  <2>3. mp'.pool \subseteq mp.pool /\ mp'.high = mp.high \cap mp'.pool
    BY <1>3 DEF Removal
  <2>4. QED  BY <1>1, <1>4, <2>1, <2>2, <2>3, IndexAfterEviction
<1>10. ReplaceInv'
  BY <1>8 DEF ReplaceInv
<1>11. OpInv'
  BY <1>8, <1>9, <1>10 DEF OpInv
<1>12. QED  BY <1>2, <1>3, <1>11 DEF IInv

\* The end of an insertion.
LEMMA EndInsertionStep ==
    ASSUME IInv, EndInsertion
    PROVE  IInv'
<1>1. op' = NoOperation /\ UNCHANGED <<mp, accepted, leftover>>
  BY DEF EndInsertion
<1>2. PoolsInv(mp)'
  BY <1>1 DEF IInv
<1>3. OpInv'
  BY <1>1, <1>2, OperationInv, NoOperationFields
<1>4. QED  BY <1>1, <1>2, <1>3 DEF IInv

\* A block operation goes on with some of its queues.
LEMMA BlockOperation ==
    ASSUME PoolsInv(mp)', op' \in Operation, op'.kind = "block"
    PROVE  OpInv'
  BY DEF OpInv, ReplaceInv, LimitInv

\* A block's transactions, what they double spend and their orphans leave.
LEMMA BlockStep ==
    ASSUME IInv, HandleBlockTransaction \/ RemoveDoubleSpends \/ RemoveMinedOrphan
    PROVE  IInv'
<1>1. PoolsInv(mp) /\ mp \in Pools /\ op \in Operation
  BY DEF IInv, PoolsInv, OpInv
<1>2. op.kind = "block" /\ UNCHANGED <<accepted, leftover>>
  BY Zenon DEF HandleBlockTransaction, RemoveDoubleSpends, RemoveMinedOrphan
<1>3. ASSUME NEW t, NEW r \in BOOLEAN, RemoveTransaction(t, r)
      PROVE  PoolsInv(mp)' /\ (~leftover' => IsIndexOf(mp.spender, mp.pool)')
  BY <1>1, <1>2, <1>3, RemoveTransactionStep DEF IInv
<1>4. CASE HandleBlockTransaction
  <2>1. PoolsInv(mp)' /\ (~leftover' => IsIndexOf(mp.spender, mp.pool)')
    BY <1>3, <1>4, Zenon DEF HandleBlockTransaction
  <2>2. op.rest \in Seq(Tx) /\ op.rest # <<>>
    BY <1>1, <1>4 DEF Operation, HandleBlockTransaction
  <2>3. Head(op.rest) \in Tx /\ Tail(op.rest) \in Seq(Tx)
    BY <2>2
  <2>4. Inputs[Head(op.rest)] \in Seq(Outpoint)
    BY <2>3, MempoolAssumption, Zenon
  <2>5. op' = [op EXCEPT !.tx = Head(op.rest), !.spent = Inputs[Head(op.rest)], !.rest = Tail(@)]
    BY <1>4 DEF HandleBlockTransaction
  <2>6. op' \in Operation /\ op'.kind = "block"
    BY <1>1, <1>2, <2>3, <2>4, <2>5, Zenon DEF Operation
  <2>7. OpInv'
    BY <2>1, <2>6, BlockOperation
  <2>8. QED  BY <1>2, <2>1, <2>7 DEF IInv
<1>5. CASE RemoveDoubleSpends
  <2>1. PoolsInv(mp)' /\ (~leftover' => IsIndexOf(mp.spender, mp.pool)')
    BY <1>3, <1>5, Zenon DEF RemoveDoubleSpends
  <2>2. op' = [op EXCEPT !.spent = Tail(@)] /\ op.spent \in Seq(Outpoint) /\ op.spent # <<>>
    BY <1>1, <1>5 DEF Operation, RemoveDoubleSpends
  <2>3. Tail(op.spent) \in Seq(Outpoint)
    BY <2>2
  <2>4. op' \in Operation /\ op'.kind = "block"
    BY <1>1, <1>2, <2>2, <2>3, Zenon DEF Operation
  <2>5. OpInv'
    BY <2>1, <2>4, BlockOperation
  <2>6. QED  BY <1>2, <2>1, <2>5 DEF IInv
<1>6. CASE RemoveMinedOrphan
  <2>1. /\ op.tx # NoTx /\ op' = [op EXCEPT !.tx = NoTx, !.work = Outputs[op.tx]]
        /\ mp' = IF op.tx \in mp.orphans THEN RemoveOrphans(mp, {op.tx}) ELSE mp
    BY <1>6 DEF RemoveMinedOrphan
  <2>2. op.tx \in Tx
    BY <1>1, <2>1 DEF Operation
  <2>3. Outputs[op.tx] \in Seq(Outpoint)
    BY <2>2, MempoolAssumption, Zenon
  <2>4. op' \in Operation /\ op'.kind = "block"
    BY <1>1, <1>2, <2>1, <2>3, Zenon DEF Operation
  <2>5. PoolsInv(mp)' /\ SamePool(mp, mp')
    <3>1. CASE op.tx \in mp.orphans
      <4>1. OrphansRemoved(mp, mp', {op.tx})
        BY <1>1, <2>1, <2>2, <3>1, RemoveOrphansEffect
      <4>2. QED  BY <1>1, <3>1, <4>1, RemoveOrphansKeepsInv, Zenon DEF OrphansRemoved
    <3>2. CASE op.tx \notin mp.orphans
      BY <1>1, <2>1, <3>2 DEF SamePool
    <3>3. QED  BY <3>1, <3>2
  <2>6. OpInv'
    BY <2>4, <2>5, BlockOperation
  <2>7. ~leftover' => IsIndexOf(mp.spender, mp.pool)'
    BY <1>2, <2>5 DEF IInv, SamePool
  <2>8. QED  BY <1>2, <2>5, <2>6, <2>7 DEF IInv
<1>7. QED  BY <1>4, <1>5, <1>6

\* Expiry visits nothing of high priority.
LEMMA ExpiryStep ==
    ASSUME IInv, ExpireTransactions \/ ExpireOldTransaction
    PROVE  IInv'
<1>1. PoolsInv(mp) /\ mp \in Pools /\ op \in Operation /\ UNCHANGED <<accepted, leftover>>
  BY Zenon DEF IInv, PoolsInv, OpInv, ExpireTransactions, ExpireOldTransaction
<1>2. CASE ExpireTransactions
  <2>1. PICK O \in SUBSET {t \in mp.orphans : ~IsProtectedOrphan(mp, t)} :
           mp' = RemoveOrphans(mp, O)
    BY <1>2, Zenon DEF ExpireTransactions
  <2>2. PICK E \in SUBSET (mp.pool \ mp.high) :
           op' = IF E = {} THEN NoOperation
                 ELSE [NoOperation EXCEPT !.kind = "expire", !.doomed = E]
    BY <1>2, Zenon DEF ExpireTransactions
  <2>3. O \in SUBSET mp.orphans /\ O \in SUBSET Tx /\ E \in SUBSET Tx
    BY <1>1, <2>1 DEF Pools
  <2>4. OrphansRemoved(mp, mp', O)
    BY <1>1, <2>1, <2>3, RemoveOrphansEffect
  <2>5. PoolsInv(mp)' /\ SamePool(mp, mp')
    BY <1>1, <2>3, <2>4, RemoveOrphansKeepsInv, Zenon DEF OrphansRemoved
  <2>6. /\ op' \in Operation /\ op'.index = 0 /\ op'.work = <<>> /\ op'.kind \in {"none", "expire"}
        /\ op'.doomed \subseteq E
    BY <2>2, <2>3, NoOperationFields, Zenon DEF Operation
  <2>7. op'.doomed \cap mp'.high = {}
    BY <2>5, <2>6 DEF SamePool
  <2>8. OpInv'
    BY <2>5, <2>6, <2>7, OperationInv
  <2>9. ~leftover' => IsIndexOf(mp.spender, mp.pool)'
    BY <1>1, <2>5 DEF IInv, SamePool
  <2>10. QED  BY <1>1, <2>5, <2>8, <2>9 DEF IInv
<1>3. CASE ExpireOldTransaction
  <2>1. PICK t \in op.doomed :
           /\ RemoveTransaction(t, TRUE)
           /\ LET left == (op.doomed \ {t}) \cap mp'.pool
              IN  op' = IF left = {} THEN NoOperation ELSE [op EXCEPT !.doomed = left]
    BY <1>3, Zenon DEF ExpireOldTransaction
  <2>2. op.kind = "expire" /\ op.doomed \cap mp.high = {}
    BY <1>3 DEF ExpireOldTransaction, IInv, OpInv
  <2>3. /\ PoolsInv(mp)' /\ (IsIndexOf(mp.spender, mp.pool) => IsIndexOf(mp.spender, mp.pool)')
        /\ Removal(t, TRUE)
    BY <1>1, <2>1, RemoveTransactionStep, Zenon
  <2>4. mp'.high \subseteq mp.high
    BY <2>3 DEF Removal
  <2>5. op'.kind \in {"none", "expire"} /\ op' \in Operation
    BY <1>1, <2>1, <2>2, NoOperationFields, Zenon DEF Operation
  <2>6. op'.kind = "expire" => op'.doomed \subseteq op.doomed /\ op'.work = op.work
    BY <1>1, <2>1, NoOperationFields DEF Operation
  <2>7. op'.work = <<>>
    BY <1>1, <2>1, <2>2, NoOperationFields DEF Operation, IInv, OpInv
  <2>8. ReplaceInv' /\ LimitInv'
    BY <2>5 DEF ReplaceInv, LimitInv
  <2>9. OpInv'
    BY <2>2, <2>4, <2>5, <2>6, <2>7, <2>8 DEF OpInv
  <2>10. QED  BY <1>1, <2>3, <2>9 DEF IInv
<1>4. QED  BY <1>2, <1>3

\* A revalidation takes out what virtual no longer funds.
LEMMA RevalidateStep ==
    ASSUME IInv, RevalidateTransaction
    PROVE  IInv'
<1>1. PoolsInv(mp) /\ mp \in Pools /\ op \in Operation /\ UNCHANGED <<accepted, leftover>>
  BY DEF IInv, PoolsInv, OpInv, RevalidateTransaction
<1>2. PICK t \in op.doomed :
         /\ IF Ins(t) \subseteq utxo THEN UNCHANGED mp ELSE RemoveTransaction(t, FALSE)
         /\ op' = IF op.doomed = {t} THEN NoOperation ELSE [op EXCEPT !.doomed = @ \ {t}]
  BY Zenon DEF RevalidateTransaction
<1>3. PoolsInv(mp)' /\ (IsIndexOf(mp.spender, mp.pool) => IsIndexOf(mp.spender, mp.pool)')
  <2>1. CASE UNCHANGED mp
    BY <1>1, <2>1
  <2>2. CASE RemoveTransaction(t, FALSE)
    BY <1>1, <2>2, RemoveTransactionStep, Zenon
  <2>3. QED  BY <1>2, <2>1, <2>2, Zenon
<1>4. op.kind = "revalidate" /\ op.work = <<>>
  BY DEF RevalidateTransaction, IInv, OpInv
<1>5. op' \in Operation /\ op'.kind \in {"none", "revalidate"} /\ op'.work = <<>>
  <2>1. CASE op' = NoOperation
    BY <2>1, NoOperationFields, Zenon
  <2>2. CASE op' = [op EXCEPT !.doomed = @ \ {t}]
    BY <1>1, <1>4, <2>2 DEF Operation
  <2>3. QED  BY <1>2, <2>1, <2>2, Zenon
<1>6. OpInv'
  BY <1>5 DEF OpInv, ReplaceInv, LimitInv
<1>7. QED  BY <1>1, <1>3, <1>6 DEF IInv

\* The operations that the flows begin, and the removal a template asks for.
LEMMA FlowsStep ==
    ASSUME IInv, FlowsCall
    PROVE  IInv'
<1>1. /\ PoolsInv(mp) /\ mp.high \in SUBSET Tx /\ op = NoOperation
      /\ UNCHANGED <<accepted, leftover>>
  BY Zenon DEF IInv, PoolsInv, Pools, FlowsCall, HandleNewBlockTransactions, MutexIsFree,
         RevalidateHighPriorityTransactions, RemoveInvalidTransaction
<1>2. CASE \E ts \in BlockTransactions : HandleNewBlockTransactions(ts)
  <2>1. PICK ts \in Seq(Tx) : op' = [NoOperation EXCEPT !.kind = "block", !.rest = ts]
    BY <1>2, MempoolAssumption, Zenon DEF HandleNewBlockTransactions
  <2>2. op' \in Operation /\ op'.kind = "block"
    BY <2>1, NoOperationFields, Zenon DEF Operation
  <2>3. mp' = mp
    BY <1>2 DEF HandleNewBlockTransactions
  <2>4. PoolsInv(mp)'
    BY <1>1, <2>3
  <2>5. OpInv'
    BY <2>2, <2>4, BlockOperation
  <2>6. QED  BY <1>1, <2>3, <2>4, <2>5 DEF IInv
<1>3. CASE RevalidateHighPriorityTransactions
  <2>1. /\ mp' = mp
        /\ op' = IF mp.high = {} THEN NoOperation
                 ELSE [NoOperation EXCEPT !.kind = "revalidate", !.doomed = mp.high]
    BY <1>3 DEF RevalidateHighPriorityTransactions
  <2>2. op' \in Operation /\ op'.kind \in {"none", "revalidate"} /\ op'.work = <<>> /\ op'.index = 0
    BY <1>1, <2>1, NoOperationFields, Zenon DEF Operation
  <2>3. PoolsInv(mp)'
    BY <1>1, <2>1
  <2>4. OpInv'
    BY <2>2, <2>3, OperationInv
  <2>5. QED  BY <1>1, <2>1, <2>3, <2>4 DEF IInv
<1>4. CASE \E t \in mp.pool : RemoveInvalidTransaction(t)
  <2>1. PICK t \in mp.pool, removeRedeemers \in BOOLEAN :
            RemoveTransaction(t, removeRedeemers) /\ op' = op
    BY <1>4, Zenon DEF RemoveInvalidTransaction
  <2>2. PoolsInv(mp)' /\ (IsIndexOf(mp.spender, mp.pool) => IsIndexOf(mp.spender, mp.pool)')
    BY <1>1, <2>1, RemoveTransactionStep, Zenon
  <2>3. OpInv'
    BY <1>1, <2>1, <2>2, OperationInv, NoOperationFields
  <2>4. QED  BY <1>1, <2>2, <2>3 DEF IInv
<1>5. QED  BY <1>2, <1>3, <1>4 DEF FlowsCall

\* Virtual moves without the mempool's mutex, and no index depends on it.
LEMMA VirtualMovesStep ==
    ASSUME IInv, VirtualMoves
    PROVE  IInv'
<1>1. UNCHANGED <<mp, op, leftover>> /\ accepted' \in Acceptable
  BY Zenon DEF VirtualMoves
<1>2. OpInv'
  BY <1>1 DEF IInv, OpInv, ReplaceInv, LimitInv, FeeRateIndex
<1>3. PoolsInv(mp)' /\ (~leftover' => IsIndexOf(mp.spender, mp.pool)')
  BY <1>1 DEF IInv
<1>4. QED  BY <1>1, <1>2, <1>3 DEF IInv, Acceptable

-----------------------------------------------------------------------------
(* The theorems                                                            *)

\* The invariant holds in every reachable state.
THEOREM Invariance == Spec => []IInv
<1>1. Init => IInv
  BY InitInv
<1>2. IInv /\ [Next]_vars => IInv'
  <2> SUFFICES ASSUME IInv, [Next]_vars
               PROVE  IInv'
    OBVIOUS
  <2>1. CASE SubmitTransaction
    BY <2>1, SubmitStep, Zenon DEF SubmitTransaction
  <2>2. CASE SubmitTransactionReplacement
    BY <2>2, ReplacementStep DEF SubmitTransactionReplacement
  <2>3. CASE OperationStep
    BY <2>3, EvictConflictStep, AddReplacementStep, PromotionStep, EvictTransactionStep,
       EndInsertionStep, BlockStep, ExpiryStep, RevalidateStep DEF OperationStep
  <2>4. CASE FlowsCall
    BY <2>4, FlowsStep
  <2>5. CASE VirtualMoves
    BY <2>5, VirtualMovesStep, Zenon
  <2>6. CASE UNCHANGED vars
    BY <2>6, Zenon DEF vars, IInv, OpInv, ReplaceInv, LimitInv, FeeRateIndex, Acceptable
  <2>7. QED  BY <2>1, <2>2, <2>3, <2>4, <2>5, <2>6, Zenon DEF Next
<1>3. QED  BY <1>1, <1>2, PTL DEF Spec

\* The pool is typed: transactions only, the priorities only of what each pool
\* holds, and an index that stays inside the fee-rate list.
THEOREM TypeCorrect == Spec => []TypeOK
<1>1. IInv => TypeOK
  BY DEF IInv, PoolsInv, Pools, Prioritised, OpInv, Operation, TypeOK
<1>2. QED  BY <1>1, Invariance, PTL

\* The index of spent outputs names the one spender in the pool, and the
\* orphans' index the one orphan, through every insertion, replacement,
\* promotion, block, eviction, expiry and revalidation.
THEOREM OneSpender == Spec => []OneSpenderPerOutpoint
<1>1. IInv => OneSpenderPerOutpoint
  BY Zenon DEF IInv, PoolsInv, IsIndexOf, OneSpenderPerOutpoint
<1>2. QED  BY <1>1, Invariance, PTL

\* A transaction waits for a parent exactly as long as the parent is in the
\* pool and lists it among its redeemers.
THEOREM MutualLinks == Spec => []LinksAreMutual
<1>1. IInv => LinksAreMutual
  BY Zenon DEF IInv, PoolsInv, Linked, LinksAreMutual
<1>2. QED  BY <1>1, Invariance, PTL

\* Making room and expiry take a high-priority transaction only together with
\* a low-priority transaction it descends from: what they visit is not of high
\* priority, and all else they take is a redeemer of it.
THEOREM PriorityProtects == Spec => HighPriorityStays
<1>1. ASSUME IInv, NEW p, p \notin mp.high, RemoveTransaction(p, TRUE)
      PROVE  \A t \in mp.high \ mp'.pool :
                 \E q \in mp.pool \ (mp'.pool \cup mp.high) : t \in GetRedeemers(mp, q)
  <2> SUFFICES ASSUME NEW t \in mp.high \ mp'.pool
               PROVE  \E q \in mp.pool \ (mp'.pool \cup mp.high) : t \in GetRedeemers(mp, q)
    OBVIOUS
  <2>1. Removal(p, TRUE)
    BY <1>1, RemoveTransactionStep, Zenon DEF IInv
  <2>2. t \in mp.pool
    BY <1>1 DEF IInv, PoolsInv, Prioritised
  <2>3. p \in mp.pool /\ mp'.pool = mp.pool \ ({p} \cup GetRedeemers(mp, p))
    BY <2>1, <2>2 DEF Removal
  <2>4. QED  BY <1>1, <2>2, <2>3
<1>2. ASSUME IInv, [Next]_vars, op.kind \in {"insert", "expire"}, op.work = <<>>,
             NEW t \in mp.high \ mp'.pool
      PROVE  \E p \in mp.pool \ (mp'.pool \cup mp.high) : t \in GetRedeemers(mp, p)
  <2>1. t \in mp.pool /\ op # NoOperation
    <3>1. t \in mp.pool
      BY <1>2 DEF IInv, PoolsInv, Prioritised
    <3>2. QED  BY <1>2, <3>1, NoOperationFields
  <2>2. mp' # mp
    BY <1>2, <2>1
  <2>3. EvictTransaction \/ ExpireOldTransaction
    BY <1>2, <2>1, <2>2, Zenon
      DEF Next, vars, SubmitTransaction, ValidateAndInsertTransaction, MutexIsFree,
           SubmitTransactionReplacement, ValidateAndInsertTransactionReplacement,
           OperationStep, EvictConflict, AddReplacement, ProcessOrphansAfterAcceptedTransaction,
           NothingToPromote, KeepOrphan, LoseOrphan, UnorphanTransaction, EndInsertion,
           HandleBlockTransaction, RemoveDoubleSpends, RemoveMinedOrphan, ExpireTransactions,
           RevalidateTransaction, FlowsCall, HandleNewBlockTransactions,
           RevalidateHighPriorityTransactions, RemoveInvalidTransaction, VirtualMoves
  <2>4. CASE EvictTransaction
    BY <1>1, <1>2, <2>4, Zenon DEF EvictTransaction, Evictable
  <2>5. CASE ExpireOldTransaction
    BY <1>1, <1>2, <2>5, Zenon DEF ExpireOldTransaction, IInv, OpInv
  <2>6. QED  BY <2>3, <2>4, <2>5
<1>3. IInv /\ [Next]_vars =>
          [op.kind \in {"insert", "expire"} /\ op.work = <<>> =>
              \A t \in mp.high \ mp'.pool :
                  \E p \in mp.pool \ (mp'.pool \cup mp.high) : t \in GetRedeemers(mp, p)]_vars
  BY <1>2
<1>4. QED  BY <1>3, Invariance, PTL DEF Spec, HighPriorityStays

\* An insertion ends with both pools within their limits, the one case in
\* op.shifted apart: what the index has passed is of high priority.
THEOREM LimitsKept == Spec => InsertionEndsWithinLimit
<1>1. ASSUME IInv, [Next]_vars, op.kind = "insert", op' = NoOperation
      PROVE  /\ ~PoolIsFull \/ mp.pool \subseteq mp.high \/ op.shifted
             /\ \/ Cardinality(mp'.orphans) <= MaximumOrphanTransactionCount
                \/ mp'.orphans \subseteq mp'.orphanHigh \cap mp'.orphanLocal
  <2>1. op' # op /\ op \in Operation /\ op'.kind = "none"
    BY <1>1, NoOperationFields DEF IInv, OpInv
  <2>2. EndInsertion
    <3>1. ~(SubmitTransaction \/ SubmitTransactionReplacement \/ FlowsCall \/ VirtualMoves)
      BY <1>1, <2>1, NoOperationFields, Zenon
        DEF SubmitTransaction, ValidateAndInsertTransaction, MutexIsFree,
             SubmitTransactionReplacement, ValidateAndInsertTransactionReplacement,
             FlowsCall, HandleNewBlockTransactions, RevalidateHighPriorityTransactions,
             RemoveInvalidTransaction, VirtualMoves
    <3>2. ~ProcessOrphansAfterAcceptedTransaction
      <4> SUFFICES ASSUME ProcessOrphansAfterAcceptedTransaction
                   PROVE  op'.kind = "insert"
        BY <2>1
      <4>1. \E w : op' = [op EXCEPT !.work = w]
        BY Zenon DEF ProcessOrphansAfterAcceptedTransaction, NothingToPromote, KeepOrphan, LoseOrphan,
               UnorphanTransaction
      <4>2. QED  BY <1>1, <2>1, <4>1 DEF Operation
    <3>3. ~EvictTransaction
      <4> SUFFICES ASSUME EvictTransaction
                   PROVE  op'.kind = "insert"
        BY <2>1
      <4>1. \E i, s : op' = [op EXCEPT !.index = i, !.shifted = s]
        BY Zenon DEF EvictTransaction
      <4>2. QED  BY <1>1, <2>1, <4>1 DEF Operation
    <3>4. QED
      BY <1>1, <2>1, <3>1, <3>2, <3>3
         DEF Next, vars, OperationStep, EvictConflict, AddReplacement, HandleBlockTransaction,
             RemoveDoubleSpends, RemoveMinedOrphan, ExpireTransactions, ExpireOldTransaction,
             RevalidateTransaction
  <2>3. ~PoolIsFull \/ mp.pool \subseteq mp.high \/ op.shifted
    <3> SUFFICES ASSUME Evictable = {}, ~op.shifted
                 PROVE  mp.pool \subseteq mp.high
      BY <2>2, Zenon DEF EndInsertion
    <3>1. \A t \in mp.pool \ mp.high : FeeRateIndex(mp, t) >= op.index
      BY <1>1 DEF IInv, OpInv, LimitInv
    <3>2. QED  BY <3>1 DEF Evictable
  <2>4. OrphansWithinLimit(mp)
    BY <1>1 DEF IInv, PoolsInv
  <2>5. mp' = mp
    BY <2>2 DEF EndInsertion
  <2>6. QED  BY <2>3, <2>4, <2>5 DEF OrphansWithinLimit
<1>2. IInv /\ [Next]_vars =>
          [op.kind = "insert" /\ op' = NoOperation =>
              /\ ~PoolIsFull \/ mp.pool \subseteq mp.high \/ op.shifted
              /\ \/ Cardinality(mp'.orphans) <= MaximumOrphanTransactionCount
                 \/ mp'.orphans \subseteq mp'.orphanHigh \cap mp'.orphanLocal]_vars
  BY <1>1
<1>3. QED  BY <1>2, Invariance, PTL DEF Spec, InsertionEndsWithinLimit
=============================================================================
