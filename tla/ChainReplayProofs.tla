------------------------- MODULE ChainReplayProofs -------------------------
(***************************************************************************)
(* Without duplicate coinbases the three records of a past UTXO set - the  *)
(* diff from virtual, the multiset, and the diff staged to the selected    *)
(* parent - are exact, for every set of transactions, every chain and      *)
(* every position of virtual.                                              *)
(*                                                                         *)
(* The argument.  A chain accepts a transaction at most once: a coinbase   *)
(* by assumption, any other because its inputs left the set and their      *)
(* creators, accepted already, cannot bring them back.  So every output    *)
(* lands where neither the set being built nor the selected parent's past  *)
(* holds an entry, and there addEntry, removeEntry and the multiset's      *)
(* duplicate handling all do what acceptance asks for.                     *)
(***************************************************************************)
EXTENDS ChainReplay, UTXODiffProofs

\* Every output the chain has created
Created(accepted) == InitialCoins \cup UNION {tx.outputs : tx \in accepted}

\* Entries carry what their outpoint fixes
ViewOK(v) ==
    /\ v \in Collection
    /\ \A o \in Outpoint : v[o] # None =>
          /\ v[o].value = ValueOf[o]
          /\ v[o].isCoinbase = (o \in CoinbaseOutputs)

\* The set holds only what the chain created, and nothing it spent
History(v, accepted) ==
    /\ accepted \subseteq Tx
    /\ \A o \in Outpoint : v[o] # None => o \in Created(accepted)
    /\ \A tx \in accepted : \A o \in tx.inputs : v[o] = None /\ o \in Created(accepted)

BlockInv(b) ==
    /\ ViewOK(b.past)
    /\ History(b.past, b.accepted)
    /\ b.ms = MultisetOf(b.past)

PassInv(p) ==
    /\ p \in Pass
    /\ ViewOK(p.past) /\ ViewOK(p.spPast)
    /\ History(p.past, p.accepted)
    /\ \A o \in Outpoint : p.spPast[o] # None => o \in Created(p.accepted)
    /\ p.addedHere \subseteq Created(p.accepted)
    /\ p.spDiff = DiffOf(table, p.spPast)
    /\ p.diff = DiffOf(table, p.past)
    /\ p.ms = MultisetOf(p.past)
    /\ \A o \in Outpoint \ p.changed : p.past[o] = p.spPast[o]

\* The inductive invariant
IInv ==
    /\ TypeOK
    /\ ~failed
    /\ ViewOK(table)
    /\ \A b \in resolved : BlockInv(b)
    /\ pass.active => PassInv(pass)
    /\ previous.known => /\ BlockInv(previous.block)
                         /\ previous.diff = DiffOf(table, previous.block.past)
    /\ ViewOK(staged.from) /\ ViewOK(staged.to)
    /\ staged.diff = DiffOf(staged.from, staged.to)

-----------------------------------------------------------------------------
LEMMA ViewsAgree ==
    ASSUME NEW v, NEW w, ViewOK(v), ViewOK(w)
    PROVE  Agree(v, w)
  BY DEF ViewOK, Agree, SameCoin

LEMMA NewEntryType ==
    ASSUME NEW o \in Outpoint, NEW score \in DAAScore
    PROVE  /\ NewUTXOEntry(o, score) \in Entry
           /\ NewUTXOEntry(o, score) # None
           /\ NewUTXOEntry(o, score).value = ValueOf[o]
           /\ NewUTXOEntry(o, score).isCoinbase = (o \in CoinbaseOutputs)
           /\ NewUTXOEntry(o, score).daaScore = score
<1>1. NewUTXOEntry(o, score) \in Entry
  BY ValueAssumption DEF NewUTXOEntry, Entry
<1> QED
  BY <1>1, NoneIsNoEntry DEF NewUTXOEntry

\* Looking an outpoint up through the exact diff reads the view.
LEMMA LookupExact ==
    ASSUME NEW v \in Collection, NEW w \in Collection, NEW o \in Outpoint
    PROVE  Lookup(v, DiffOf(v, w), o) = w[o]
  BY DEF Lookup, DiffOf

LEMMA InitialViewOK == ViewOK(InitialView)
<1>1. 0 \in DAAScore
  BY ScoreAssumption
<1> QED
  BY <1>1, NewEntryType, ValueAssumption DEF ViewOK, InitialView, Collection

\* Acceptance keeps views well formed.
LEMMA AfterTransactionOK ==
    ASSUME NEW v, ViewOK(v), NEW tx \in Tx, NEW score \in DAAScore
    PROVE  ViewOK(AfterTransaction(v, tx, score))
  BY NewEntryType DEF ViewOK, AfterTransaction, Collection

\* A transaction the chain has not accepted creates only new outpoints.
LEMMA OutputsAreFresh ==
    ASSUME NEW accepted \in SUBSET Tx, NEW tx \in Tx, tx \notin accepted,
           NEW o \in tx.outputs
    PROVE  o \notin Created(accepted)
  BY TxAssumption DEF Created

\* A transaction whose inputs the set holds has not been accepted, unless it
\* is a coinbase.
LEMMA PresentInputsNotAccepted ==
    ASSUME NEW v, NEW accepted, History(v, accepted), NEW tx \in Tx, ~tx.isCoinbase,
           \A o \in tx.inputs : v[o] # None
    PROVE  tx \notin accepted
<1>1. PICK o \in tx.inputs : TRUE
  BY TxAssumption
<1> QED
  BY <1>1 DEF History

\* The diff pass: adding a transaction to the exact diff raises no error and
\* gives the exact diff.
LEMMA AddTransactionExact ==
    ASSUME ViewOK(table), NEW v, ViewOK(v), NEW tx \in Tx, NEW score \in DAAScore,
           \A o \in tx.inputs : v[o] # None,
           \A o \in tx.outputs : v[o] = None
    PROVE  /\ ~AddTransactionFails(DiffOf(table, v), tx, score)
           /\ AddTransaction(DiffOf(table, v), tx, score)
                = DiffOf(table, AfterTransaction(v, tx, score))
<1> DEFINE d == DiffOf(table, v)
           w == AfterTransaction(v, tx, score)
           n == AddTransaction(d, tx, score)
<1>0. /\ table \in Collection /\ v \in Collection
      /\ tx.inputs \subseteq Outpoint /\ tx.outputs \subseteq Outpoint
      /\ tx.inputs \cap tx.outputs = {}
  BY TxAssumption DEF ViewOK
<1>1. ASSUME NEW o \in Outpoint
      PROVE  /\ d.toAdd[o] = (IF table[o] # v[o] THEN v[o] ELSE None)
             /\ d.toRemove[o] = (IF table[o] # v[o] THEN table[o] ELSE None)
             /\ Lookup(table, d, o) = v[o]
  BY <1>0, LookupExact, Zenon DEF DiffOf
<1>2. d.toAdd \in Collection /\ d.toRemove \in Collection
  BY <1>0, DiffOfType DEF Diff
<1>3. Agree(table, v)
  BY ViewsAgree
<1>4. ASSUME NEW o \in Outpoint, table[o] # None, v[o] # None
      PROVE  /\ SameCoin(table[o], v[o])
             /\ (table[o].daaScore = v[o].daaScore => table[o] = v[o])
  BY <1>0, <1>3, <1>4, SameStampSameEntry DEF Agree
<1>5. ASSUME NEW o \in Outpoint, table[o] # None
      PROVE  /\ SameCoin(table[o], NewUTXOEntry(o, score))
             /\ (table[o].daaScore = score => table[o] = NewUTXOEntry(o, score))
  <2>1. table[o] \in Entry
    BY <1>0, <1>5 DEF Collection
  <2>2. SameCoin(table[o], NewUTXOEntry(o, score))
    BY <1>5, NewEntryType DEF ViewOK, SameCoin
  <2> QED
    BY <2>1, <2>2, NewEntryType DEF Entry, SameCoin
<1> HIDE DEF d
<1>6. ASSUME NEW o \in tx.inputs
      PROVE  /\ ~RemoveEntryFails(d, o, v[o])
             /\ RemoveEntry(d, o, v[o]).toAdd[o] = None
             /\ RemoveEntry(d, o, v[o]).toRemove[o] = table[o]
  <2>1. o \in Outpoint /\ v[o] # None
    BY <1>0
  <2> QED
    BY <2>1, <1>1, <1>2, <1>4 DEF RemoveEntryFails, RemoveEntry, ContainsWithDAAScore,
       SetEntries, SameCoin, Collection
<1>7. ASSUME NEW o \in tx.outputs
      PROVE  LET e == NewUTXOEntry(o, score)
             IN  /\ ~AddEntryFails(d, o, e)
                 /\ AddEntry(d, o, e).toAdd[o] = (IF table[o] # e THEN e ELSE None)
                 /\ AddEntry(d, o, e).toRemove[o] = (IF table[o] # e THEN table[o] ELSE None)
  <2>1. o \in Outpoint /\ v[o] = None
    BY <1>0
  <2> DEFINE e == NewUTXOEntry(o, score)
  <2>2. e # None /\ e.daaScore = score
    BY <2>1, NewEntryType
  <2>3. (table[o] # None) => /\ SameCoin(table[o], e)
                             /\ (table[o].daaScore = score => table[o] = e)
    BY <2>1, <1>5
  <2>4. d.toAdd[o] = None /\ d.toRemove[o] = table[o]
    BY <2>1, <1>1
  <2> HIDE DEF e
  <2>5. ~AddEntryFails(d, o, e)
    BY <2>4 DEF AddEntryFails
  <2>6. /\ AddEntry(d, o, e).toAdd[o] = (IF table[o] # e THEN e ELSE None)
        /\ AddEntry(d, o, e).toRemove[o] = (IF table[o] # e THEN table[o] ELSE None)
    BY <2>1, <2>2, <2>3, <2>4, <1>2 DEF AddEntry, ContainsWithDAAScore, SetEntries, Collection
  <2> QED
    BY <2>5, <2>6 DEF e
<1>8. ~AddTransactionFails(d, tx, score)
  BY <1>0, <1>1, <1>6, <1>7 DEF AddTransactionFails
<1>9. ASSUME NEW o \in Outpoint
      PROVE  /\ n.toAdd[o] = (IF table[o] # w[o] THEN w[o] ELSE None)
             /\ n.toRemove[o] = (IF table[o] # w[o] THEN table[o] ELSE None)
  <2>1. CASE o \in tx.inputs
    BY <2>1, <1>0, <1>1, <1>6 DEF AddTransaction, TouchedDiff, AfterTransaction
  <2>2. CASE o \in tx.outputs
    BY <2>2, <1>0, <1>7 DEF AddTransaction, TouchedDiff, AfterTransaction
  <2>3. CASE o \notin tx.inputs /\ o \notin tx.outputs
    BY <2>3, <1>1 DEF AddTransaction, TouchedDiff, AfterTransaction
  <2> QED
    BY <2>1, <2>2, <2>3
<1>10. n.toAdd = DiffOf(table, w).toAdd
  BY <1>9 DEF AddTransaction, DiffOf
<1>11. n.toRemove = DiffOf(table, w).toRemove
  BY <1>9 DEF AddTransaction, DiffOf
<1>12. n = DiffOf(table, w)
  BY <1>10, <1>11 DEF AddTransaction, DiffOf
<1> QED
  BY <1>8, <1>12 DEF d

\* The multiset pass: replaying the transaction on the multiset of the view
\* gives the multiset of the new view.
LEMMA MultisetExact ==
    ASSUME ViewOK(table), NEW v, ViewOK(v), NEW sp, ViewOK(sp),
           NEW tx \in Tx, NEW score \in DAAScore, NEW addedHere,
           \A o \in tx.inputs : v[o] # None,
           \A o \in tx.outputs : v[o] = None /\ sp[o] = None /\ o \notin addedHere
    PROVE  ApplyTransactionToMultiset(MultisetOf(v), DiffOf(table, v), DiffOf(table, sp),
                                      addedHere, tx, score)
             = MultisetOf(AfterTransaction(v, tx, score))
<1> DEFINE w == AfterTransaction(v, tx, score)
           d == DiffOf(table, v)
           sd == DiffOf(table, sp)
           m == ApplyTransactionToMultiset(MultisetOf(v), d, sd, addedHere, tx, score)
<1>0. /\ table \in Collection /\ v \in Collection /\ sp \in Collection
      /\ tx.inputs \subseteq Outpoint /\ tx.outputs \subseteq Outpoint
      /\ tx.inputs \cap tx.outputs = {}
  BY TxAssumption DEF ViewOK
<1>1. ASSUME NEW o \in Outpoint
      PROVE  MultisetOf(v)[o] = [e \in Entry |-> IF v[o] = e THEN 1 ELSE 0]
  BY DEF MultisetOf
<1>2. ASSUME NEW o \in tx.inputs
      PROVE  m[o] = [e \in Entry |-> IF None = e THEN 1 ELSE 0]
  <2>1. o \in Outpoint /\ v[o] \in Entry
    BY <1>0 DEF Collection
  <2>2. m[o] = Plus(MultisetOf(v)[o], v[o], -1)
    BY <2>1, <1>0, LookupExact DEF ApplyTransactionToMultiset
  <2>3. Plus([e \in Entry |-> IF v[o] = e THEN 1 ELSE 0], v[o], -1)
          = [e \in Entry |-> IF None = e THEN 1 ELSE 0]
    BY <2>1, NoneIsNoEntry DEF Plus
  <2> QED
    BY <2>1, <2>2, <2>3, <1>1
<1>3. ASSUME NEW o \in tx.outputs
      PROVE  m[o] = [e \in Entry |-> IF NewUTXOEntry(o, score) = e THEN 1 ELSE 0]
  <2> DEFINE e0 == NewUTXOEntry(o, score)
  <2>1. o \in Outpoint /\ v[o] = None /\ o \notin tx.inputs /\ e0 \in Entry
    BY <1>0, NewEntryType
  <2>2. ResolveExisting(sd, o) = None
    BY <2>1, <1>0 DEF ResolveExisting, DiffOf
  <2>3. m[o] = Plus(MultisetOf(v)[o], e0, 1)
    BY <2>1, <2>2 DEF ApplyTransactionToMultiset, AddOutputToMultiset
  <2>4. MultisetOf(v)[o] = [e \in Entry |-> 0]
    BY <2>1, <1>1, NoneIsNoEntry
  <2>5. Plus([e \in Entry |-> 0], e0, 1) = [e \in Entry |-> IF e0 = e THEN 1 ELSE 0]
    <3> HIDE DEF e0
    <3> QED BY <2>1 DEF Plus
  <2> QED
    BY <2>3, <2>4, <2>5
<1>4. ASSUME NEW o \in Outpoint
      PROVE  m[o] = MultisetOf(w)[o]
  <2>1. CASE o \in tx.inputs
    BY <2>1, <1>2, Zenon DEF MultisetOf, AfterTransaction
  <2>2. CASE o \in tx.outputs
    BY <2>2, <1>0, <1>3, Zenon DEF MultisetOf, AfterTransaction
  <2>3. CASE o \notin tx.inputs /\ o \notin tx.outputs
    BY <2>3, <1>1 DEF MultisetOf, AfterTransaction, ApplyTransactionToMultiset
  <2> QED
    BY <2>1, <2>2, <2>3
<1> QED
  BY <1>4 DEF MultisetOf, ApplyTransactionToMultiset

LEMMA MultisetOfType ==
    ASSUME NEW v
    PROVE  MultisetOf(v) \in Multiset
  BY DEF MultisetOf, Multiset

\* Acceptance extends the history of a view.
LEMMA HistoryStep ==
    ASSUME NEW v, NEW accepted, History(v, accepted), NEW tx \in Tx,
           tx \notin accepted, \A o \in tx.inputs : v[o] # None, NEW score
    PROVE  History(AfterTransaction(v, tx, score), accepted \cup {tx})
<1> DEFINE w == AfterTransaction(v, tx, score)
           acc == accepted \cup {tx}
<1>1. accepted \subseteq Tx /\ acc \subseteq Tx
  BY DEF History
<1>2. \A o \in Created(accepted) \cup tx.outputs : o \in Created(acc)
  BY DEF Created
<1>3. /\ tx.inputs \subseteq Outpoint
      /\ \A t \in accepted : t.inputs \subseteq Outpoint
  BY <1>1, TxAssumption
<1>4. ASSUME NEW o \in Outpoint, w[o] # None
      PROVE  o \in Created(acc)
  BY <1>2, <1>4, Zenon DEF AfterTransaction, History
<1>5. ASSUME NEW t \in acc, NEW o \in t.inputs
      PROVE  w[o] = None /\ o \in Created(acc)
  <2>1. CASE t = tx
    BY <2>1, <1>2, <1>3, Zenon DEF AfterTransaction, History
  <2>2. CASE t \in accepted
    <3>1. v[o] = None /\ o \in Created(accepted) /\ o \in Outpoint
      BY <2>2, <1>3 DEF History
    <3>2. o \notin tx.outputs
      BY <3>1, <1>1, OutputsAreFresh
    <3> QED
      BY <3>1, <3>2, <1>2 DEF AfterTransaction
  <2> QED
    BY <2>1, <2>2
<1> QED
  BY <1>1, <1>4, <1>5 DEF History

\* One accepted transaction keeps the invariant of the pass.
LEMMA AcceptingStep ==
    ASSUME ViewOK(table), NEW p, PassInv(p), NEW tx \in Tx,
           tx \notin p.accepted,
           \A o \in tx.inputs : p.past[o] # None
    PROVE  /\ ~AddTransactionFails(p.diff, tx, p.score)
           /\ PassInv(Accepting(p, tx))
<1> DEFINE q == Accepting(p, tx)
           w == AfterTransaction(p.past, tx, p.score)
<1>0. /\ p \in Pass /\ ViewOK(p.past) /\ ViewOK(p.spPast)
      /\ History(p.past, p.accepted)
      /\ p.addedHere \subseteq Created(p.accepted)
      /\ p.spDiff = DiffOf(table, p.spPast)
      /\ p.diff = DiffOf(table, p.past)
      /\ p.ms = MultisetOf(p.past)
  BY DEF PassInv
<1>1. /\ p.score \in DAAScore /\ p.accepted \in SUBSET Tx
      /\ tx.inputs \subseteq Outpoint /\ tx.outputs \subseteq Outpoint
  BY <1>0, TxAssumption DEF Pass
<1>2. ASSUME NEW o \in tx.outputs
      PROVE  p.past[o] = None /\ p.spPast[o] = None /\ o \notin p.addedHere
  <2>1. o \notin Created(p.accepted) /\ o \in Outpoint
    BY <1>1, OutputsAreFresh
  <2> QED
    BY <2>1, <1>0 DEF PassInv, History
<1>3. /\ ~AddTransactionFails(p.diff, tx, p.score)
      /\ AddTransaction(p.diff, tx, p.score) = DiffOf(table, w)
  BY <1>0, <1>1, <1>2, AddTransactionExact
<1>4. ApplyTransactionToMultiset(p.ms, p.diff, p.spDiff, p.addedHere, tx, p.score)
        = MultisetOf(w)
  BY <1>0, <1>1, <1>2, MultisetExact
<1>5. ViewOK(w)
  BY <1>0, <1>1, AfterTransactionOK
<1>6. History(w, p.accepted \cup {tx})
  BY <1>0, HistoryStep
<1>7. /\ q.active = TRUE /\ q.spPast = p.spPast /\ q.past = w
      /\ q.spDiff = p.spDiff /\ q.diff = DiffOf(table, w)
      /\ q.ms = MultisetOf(w) /\ q.score = p.score
      /\ q.spentInPass = p.spentInPass \cup tx.inputs
      /\ q.addedHere = p.addedHere \cup tx.outputs
      /\ q.changed = p.changed \cup tx.inputs \cup tx.outputs
      /\ q.accepted = p.accepted \cup {tx}
  BY <1>0, <1>3, <1>4, Zenon DEF Accepting, Pass
<1>8. q \in Pass
  <2>1. w \in Collection /\ DiffOf(table, w) \in Diff /\ MultisetOf(w) \in Multiset
    BY <1>5, DiffOfType, MultisetOfType DEF ViewOK
  <2> QED
    BY <2>1, <1>0, <1>1, <1>3, <1>4, Zenon DEF Accepting, Pass
<1>9. Created(p.accepted) \cup tx.outputs \subseteq Created(q.accepted)
  BY <1>7 DEF Created
<1>10. \A o \in Outpoint : q.spPast[o] # None => o \in Created(q.accepted)
  BY <1>7, <1>9 DEF PassInv
<1>11. \A o \in Outpoint \ q.changed : q.past[o] = q.spPast[o]
  <2>1. \A o \in Outpoint \ p.changed : p.past[o] = p.spPast[o]
    BY Zenon DEF PassInv
  <2>2. ASSUME NEW o \in Outpoint, o \notin q.changed
        PROVE  q.past[o] = q.spPast[o]
    <3>1. o \notin tx.inputs /\ o \notin tx.outputs /\ o \notin p.changed
      BY <2>2, <1>7
    <3>2. w[o] = p.past[o]
      BY <3>1 DEF AfterTransaction
    <3>3. q.past = w /\ q.spPast = p.spPast
      BY <1>7
    <3> QED
      BY <2>1, <3>1, <3>2, <3>3
  <2> QED
    BY <2>2, Zenon
<1>12. q.addedHere \subseteq Created(q.accepted)
  BY <1>0, <1>7, <1>9, Zenon
<1> QED
  BY <1>0, <1>3, <1>5, <1>6, <1>7, <1>8, <1>10, <1>11, <1>12 DEF PassInv

\* A fresh pass satisfies the invariant of the pass.
LEMMA StartPassOK ==
    ASSUME ViewOK(table), NEW b \in ResolvedBlock, BlockInv(b), b.score < MaxScore
    PROVE  PassInv(StartPass(b, DiffOf(table, b.past)))
<1>1. b.score + 1 \in DAAScore
  BY ScoreAssumption DEF ResolvedBlock
<1>2. DiffOf(table, b.past) \in Diff
  BY DiffOfType DEF ViewOK, BlockInv
<1>3. StartPass(b, DiffOf(table, b.past)) \in Pass
  BY <1>1, <1>2 DEF StartPass, Pass, ResolvedBlock
<1> QED
  BY <1>3, Zenon DEF StartPass, PassInv, BlockInv, History

\* The diff staged at the end of a pass, computed from the recorded changes
\* alone, is the diff between the two pasts, and computing it raises no error.
LEMMA StagedExact ==
    ASSUME ViewOK(table), NEW p, PassInv(p)
    PROVE  /\ ~DiffFromChangedFails(p.spDiff, p.diff, p.changed)
           /\ DiffFromChanged(p.spDiff, p.diff, p.changed) = DiffOf(p.spPast, p.past)
<1> DEFINE Only(v) == [o \in Outpoint |-> IF o \in p.changed THEN v[o] ELSE None]
           x == Only(table)
           a == Only(p.spPast)
           b == Only(p.past)
<1>0. /\ ViewOK(p.past) /\ ViewOK(p.spPast)
      /\ p.spDiff = DiffOf(table, p.spPast)
      /\ p.diff = DiffOf(table, p.past)
      /\ \A o \in Outpoint \ p.changed : p.past[o] = p.spPast[o]
  BY DEF PassInv
<1>1. ViewOK(x) /\ ViewOK(a) /\ ViewOK(b)
  BY <1>0, Zenon DEF ViewOK, Collection
<1>2. RestrictToOutpoints(p.spDiff, p.changed) = DiffOf(x, a)
  <2>1. ASSUME NEW o \in Outpoint
        PROVE  /\ RestrictToOutpoints(p.spDiff, p.changed).toAdd[o] = DiffOf(x, a).toAdd[o]
               /\ RestrictToOutpoints(p.spDiff, p.changed).toRemove[o] = DiffOf(x, a).toRemove[o]
    <3>1. /\ p.spDiff.toAdd[o] = (IF table[o] # p.spPast[o] THEN p.spPast[o] ELSE None)
          /\ p.spDiff.toRemove[o] = (IF table[o] # p.spPast[o] THEN table[o] ELSE None)
      <4>1. p.spDiff = DiffOf(table, p.spPast)
        BY <1>0, Zenon
      <4> QED
        BY <4>1, DiffOfAt
    <3> QED
      BY <3>1 DEF RestrictToOutpoints, DiffOf
  <2> QED
    BY <2>1 DEF RestrictToOutpoints, DiffOf
<1>3. RestrictToOutpoints(p.diff, p.changed) = DiffOf(x, b)
  <2>1. ASSUME NEW o \in Outpoint
        PROVE  /\ RestrictToOutpoints(p.diff, p.changed).toAdd[o] = DiffOf(x, b).toAdd[o]
               /\ RestrictToOutpoints(p.diff, p.changed).toRemove[o] = DiffOf(x, b).toRemove[o]
    <3>1. /\ p.diff.toAdd[o] = (IF table[o] # p.past[o] THEN p.past[o] ELSE None)
          /\ p.diff.toRemove[o] = (IF table[o] # p.past[o] THEN table[o] ELSE None)
      <4>1. p.diff = DiffOf(table, p.past)
        BY <1>0, Zenon
      <4> QED
        BY <4>1, DiffOfAt
    <3> QED
      BY <3>1 DEF RestrictToOutpoints, DiffOf
  <2> QED
    BY <2>1 DEF RestrictToOutpoints, DiffOf
<1>4. DiffOf(a, b) = DiffOf(p.spPast, p.past)
  <2>1. \A o \in Outpoint :
          /\ DiffOf(a, b).toAdd[o] = DiffOf(p.spPast, p.past).toAdd[o]
          /\ DiffOf(a, b).toRemove[o] = DiffOf(p.spPast, p.past).toRemove[o]
    BY <1>0, Zenon DEF DiffOf
  <2> QED
    BY <2>1 DEF DiffOf
<1>5. x \in Collection /\ a \in Collection /\ b \in Collection
  BY <1>1 DEF ViewOK
<1>6. Agree(x, a) /\ Agree(x, b) /\ Agree(a, b)
  BY <1>1, ViewsAgree
<1>7. /\ ~DiffFromFails(DiffOf(x, a), DiffOf(x, b))
      /\ DiffFrom(DiffOf(x, a), DiffOf(x, b)) = DiffOf(a, b)
  <2> HIDE DEF x, a, b
  <2> QED
    BY <1>5, <1>6, DiffFromCorrect
<1> QED
  BY <1>2, <1>3, <1>4, <1>7 DEF DiffFromChanged, DiffFromChangedFails

-----------------------------------------------------------------------------
LEMMA InitInvariant == Init => IInv
<1> SUFFICES ASSUME Init PROVE IInv
  OBVIOUS
<1>1. ViewOK(InitialView) /\ InitialView \in Collection
  BY InitialViewOK DEF ViewOK
<1>2. MultisetOf(InitialView) \in Multiset
  BY MultisetOfType
<1>3. NewUTXODiff = DiffOf(InitialView, InitialView)
  BY DEF NewUTXODiff, DiffOf, EmptyCollection
<1>4. NewUTXODiff \in Diff
  BY <1>1, <1>3, DiffOfType
<1>5. History(InitialView, {})
  BY DEF History, InitialView, Created
<1>6. 0 \in DAAScore
  BY ScoreAssumption
<1>7. TypeOK
  <2>1. [past |-> InitialView, ms |-> MultisetOf(InitialView), score |-> 0,
         accepted |-> {}] \in ResolvedBlock
    BY <1>1, <1>2, <1>6 DEF ResolvedBlock
  <2>2. [from |-> InitialView, to |-> InitialView, diff |-> NewUTXODiff]
           \in [from : Collection, to : Collection, diff : Diff]
    BY <1>1, <1>4
  <2> QED
    BY <1>1, <2>1, <2>2, Zenon DEF Init, TypeOK
<1>8. \A b \in resolved : BlockInv(b)
  <2> SUFFICES ASSUME NEW b \in resolved PROVE BlockInv(b)
    OBVIOUS
  <2>1. b.past = InitialView /\ b.ms = MultisetOf(InitialView) /\ b.accepted = {}
    BY DEF Init
  <2> QED
    BY <1>1, <1>5, <2>1 DEF BlockInv
<1> QED
  BY <1>1, <1>3, <1>7, <1>8 DEF Init, IInv, Idle, NoPrevious

\* Beginning a pass from a block whose past is known exactly.
LEMMA BeginPassInvariant ==
    ASSUME IInv, ~DuplicateCoinbases, NEW b \in ResolvedBlock, BlockInv(b),
           NEW coinbase \in Coinbases, BeginPass(b, DiffOf(table, b.past), coinbase)
    PROVE  IInv'
<1> DEFINE p == StartPass(b, DiffOf(table, b.past))
<1>1. ViewOK(table) /\ coinbase \in Tx /\ coinbase.inputs = {} /\ coinbase \notin b.accepted
  BY TxAssumption, Zenon DEF IInv, Coinbases, BeginPass
<1>2. PassInv(p)
  BY <1>1, StartPassOK DEF BeginPass
<1>3. coinbase \notin p.accepted
  BY <1>1, Zenon DEF StartPass
<1> HIDE DEF p
<1>4. ~AddTransactionFails(p.diff, coinbase, p.score) /\ PassInv(Accepting(p, coinbase))
  BY <1>1, <1>2, <1>3, AcceptingStep, Zenon
<1>5. /\ pass' = Accepting(p, coinbase) /\ previous' = NoPrevious
      /\ UNCHANGED <<table, resolved, staged, failed>>
  BY <1>4, Zenon DEF BeginPass, p
<1>6. PassInv(pass)'
  BY <1>4, <1>5, Zenon DEF PassInv
<1>7. TypeOK'
  BY <1>5, <1>6 DEF IInv, TypeOK, PassInv
<1> QED
  BY <1>5, <1>6, <1>7, Zenon DEF IInv, NoPrevious, BlockInv, ViewOK

LEMMA NextInvariant ==
    ASSUME ~DuplicateCoinbases
    PROVE  IInv /\ [Next]_vars => IInv'
<1> SUFFICES ASSUME IInv, [Next]_vars PROVE IInv'
  OBVIOUS
<1>1. ASSUME NEW b \in resolved, NEW coinbase \in Coinbases, BeginChain(b, coinbase)
      PROVE  IInv'
  BY <1>1, BeginPassInvariant, Zenon DEF BeginChain, IInv, TypeOK
<1>2. ASSUME NEW coinbase \in Coinbases, ContinueChain(coinbase)
      PROVE  IInv'
  <2>1. /\ previous.known /\ previous.block \in ResolvedBlock /\ BlockInv(previous.block)
        /\ previous.diff = DiffOf(table, previous.block.past)
    <3>1. previous.known
      BY <1>2 DEF ContinueChain
    <3>2. previous # NoPrevious
      BY <3>1 DEF NoPrevious
    <3> QED
      BY <3>1, <3>2, Zenon DEF IInv, TypeOK
  <2> QED
    BY <1>2, <2>1, BeginPassInvariant DEF ContinueChain
<1>3. ASSUME NEW tx \in Tx \ Coinbases, AcceptTransaction(tx)
      PROVE  IInv'
  <2>1. /\ pass.active /\ PassInv(pass) /\ ViewOK(table) /\ ~tx.isCoinbase
    BY <1>3 DEF AcceptTransaction, IInv, Coinbases
  <2>2. \A o \in tx.inputs : pass.past[o] # None
    <3>1. tx.inputs \subseteq Outpoint /\ pass.past \in Collection /\ table \in Collection
      BY <2>1, TxAssumption DEF PassInv, ViewOK
    <3>2. pass.diff = DiffOf(table, pass.past)
      BY <2>1 DEF PassInv
    <3>3. \A o \in tx.inputs : Lookup(table, pass.diff, o) # None
      BY <1>3 DEF AcceptTransaction
    <3> QED
      BY <3>1, <3>2, <3>3, LookupExact
  <2>3. tx \notin pass.accepted
    BY <2>1, <2>2, PresentInputsNotAccepted DEF PassInv
  <2>4. ~AddTransactionFails(pass.diff, tx, pass.score) /\ PassInv(Accepting(pass, tx))
    BY <2>1, <2>2, <2>3, AcceptingStep
  <2>5. /\ pass' = Accepting(pass, tx)
        /\ UNCHANGED <<table, resolved, previous, staged, failed>>
    BY <1>3, <2>4, Zenon DEF AcceptTransaction
  <2>6. PassInv(pass)'
    BY <2>4, <2>5 DEF PassInv
  <2>7. TypeOK'
    BY <2>5, <2>6, Zenon DEF IInv, TypeOK, PassInv
  <2> QED
    BY <2>5, <2>6, <2>7, Zenon DEF IInv, BlockInv, ViewOK
<1>4. ASSUME FinishBlock
      PROVE  IInv'
  <2> DEFINE b == [past |-> pass.past, ms |-> pass.ms, score |-> pass.score,
                   accepted |-> pass.accepted]
  <2>1. pass.active /\ PassInv(pass) /\ ViewOK(table)
    BY <1>4, Zenon DEF FinishBlock, IInv
  <2>2. /\ ~DiffFromChangedFails(pass.spDiff, pass.diff, pass.changed)
        /\ DiffFromChanged(pass.spDiff, pass.diff, pass.changed) = DiffOf(pass.spPast, pass.past)
    BY <2>1, StagedExact
  <2>3. /\ resolved' = resolved \cup {b}
        /\ previous' = [known |-> TRUE, block |-> b, diff |-> pass.diff]
        /\ staged' = [from |-> pass.spPast, to |-> pass.past,
                      diff |-> DiffOf(pass.spPast, pass.past)]
        /\ pass' = Idle
        /\ UNCHANGED <<table, failed>>
    BY <1>4, <2>2 DEF FinishBlock
  <2>4. b \in ResolvedBlock /\ BlockInv(b)
    BY <2>1, Zenon DEF PassInv, Pass, ResolvedBlock, BlockInv
  <2>5. ViewOK(pass.spPast) /\ ViewOK(pass.past)
    BY <2>1 DEF PassInv
  <2>6. DiffOf(pass.spPast, pass.past) \in Diff
    BY <2>5, DiffOfType DEF ViewOK
  <2>7. b.past = pass.past /\ pass.diff = DiffOf(table, pass.past) /\ pass.diff \in Diff
    BY <2>1, Zenon DEF PassInv, Pass
  <2> HIDE DEF b
  <2>8. TypeOK'
    BY <2>3, <2>4, <2>5, <2>6, <2>7 DEF TypeOK, IInv, ViewOK
  <2>9. (\A c \in resolved : BlockInv(c))'
    BY <2>3, <2>4, Zenon DEF IInv, BlockInv
  <2>10. (previous.known => /\ BlockInv(previous.block)
                            /\ previous.diff = DiffOf(table, previous.block.past))'
    BY <2>3, <2>4, <2>7, Zenon
  <2>11. (ViewOK(staged.from) /\ ViewOK(staged.to) /\ staged.diff = DiffOf(staged.from, staged.to))'
    BY <2>3, <2>5, Zenon
  <2>12. ViewOK(table)' /\ ~failed'
    BY <2>3 DEF IInv, ViewOK
  <2>13. ~pass.active'
    BY <2>3, Zenon DEF Idle
  <2> QED
    BY <2>8, <2>9, <2>10, <2>11, <2>12, <2>13 DEF IInv
<1>5. ASSUME NEW b \in resolved, MoveVirtual(b)
      PROVE  IInv'
  <2>1. BlockInv(b) /\ ViewOK(b.past) /\ ViewOK(table)
    BY DEF IInv, BlockInv
  <2>2. table' = b.past
    BY <1>5, <2>1, ApplyDiffOf DEF MoveVirtual, ViewOK
  <2>3. /\ previous' = NoPrevious /\ ~pass.active
        /\ UNCHANGED <<resolved, pass, staged, failed>>
    BY <1>5 DEF MoveVirtual
  <2>4. ViewOK(table)'
    BY <2>1, <2>2, Zenon
  <2>5. TypeOK'
    BY <2>3, <2>4 DEF TypeOK, IInv, ViewOK
  <2> QED
    BY <2>3, <2>4, <2>5 DEF IInv, NoPrevious, BlockInv
<1>6. CASE UNCHANGED vars
  BY <1>6, Zenon DEF vars, IInv, TypeOK, PassInv, BlockInv, ViewOK
<1> QED
  BY <1>1, <1>2, <1>3, <1>4, <1>5, <1>6 DEF Next

LEMMA InvariantImplies ==
    ASSUME IInv
    PROVE  TypeOK /\ DiffIsExact /\ MultisetMatchesDiff /\ StagedDiffIsExact
           /\ NoCollision /\ SpentStaysSpent
<1>1. TypeOK /\ NoCollision
  BY Zenon DEF IInv, NoCollision
<1>2. DiffIsExact
  BY DEF IInv, PassInv, DiffIsExact
<1>3. MultisetMatchesDiff
  <2> SUFFICES ASSUME pass.active PROVE pass.ms = MultisetOf(Apply(table, pass.diff))
    BY DEF MultisetMatchesDiff
  <2>1. PassInv(pass) /\ ViewOK(table)
    BY DEF IInv
  <2>2. /\ table \in Collection /\ pass.past \in Collection
        /\ pass.diff = DiffOf(table, pass.past)
    BY <2>1 DEF PassInv, ViewOK
  <2>3. Apply(table, pass.diff) = pass.past
    BY <2>2, ApplyDiffOf
  <2> QED
    BY <2>1, <2>3 DEF PassInv
<1>4. StagedDiffIsExact
  <2>1. staged.from \in Collection /\ staged.to \in Collection
    BY DEF IInv, ViewOK
  <2>2. staged.diff = DiffOf(staged.from, staged.to)
    BY DEF IInv
  <2> QED
    BY <2>1, <2>2, ReversedDiffOf, ApplyDiffOf DEF StagedDiffIsExact
<1>5. SpentStaysSpent
  BY Zenon DEF IInv, BlockInv, History, SpentStaysSpent
<1> QED
  BY <1>1, <1>2, <1>3, <1>4, <1>5

\* The inductive invariant holds of every behaviour in which no two coinbases
\* of a chain coincide.
THEOREM Invariance ==
    ASSUME ~DuplicateCoinbases
    PROVE  Spec => []IInv
<1>1. Init => IInv
  BY InitInvariant
<1>2. IInv /\ [Next]_vars => IInv'
  BY NextInvariant
<1> QED
  BY <1>1, <1>2, PTL DEF Spec

\* Type correctness of the replay of merge sets (applyMergeSetBlocks).
THEOREM TypeCorrect ==
    ASSUME ~DuplicateCoinbases
    PROVE  Spec => []TypeOK
<1>1. IInv => TypeOK
  BY InvariantImplies
<1> QED
  BY <1>1, Invariance, PTL

\* However virtual moves and whatever chain is replayed, the diff that
\* AddTransaction accumulates is the exact difference between virtual's table
\* and the set acceptance defines.
THEOREM DiffExact ==
    ASSUME ~DuplicateCoinbases
    PROVE  Spec => []DiffIsExact
<1>1. IInv => DiffIsExact
  BY InvariantImplies
<1> QED
  BY <1>1, Invariance, PTL

\* The multiset that calculateMultiset commits to is the multiset of the set
\* the diff describes.
THEOREM MultisetAgrees ==
    ASSUME ~DuplicateCoinbases
    PROVE  Spec => []MultisetMatchesDiff
<1>1. IInv => MultisetMatchesDiff
  BY InvariantImplies
<1> QED
  BY <1>1, Invariance, PTL

\* The diff diffFromSelectedParentPast stages, from recorded changes only, is
\* the diff between the two pasts.
THEOREM StagedDiffExact ==
    ASSUME ~DuplicateCoinbases
    PROVE  Spec => []StagedDiffIsExact
<1>1. IInv => StagedDiffIsExact
  BY InvariantImplies
<1> QED
  BY <1>1, Invariance, PTL

\* No accepted transaction and no staged diff raises a collision error.
THEOREM NeverCollides ==
    ASSUME ~DuplicateCoinbases
    PROVE  Spec => []NoCollision
<1>1. IInv => NoCollision
  BY InvariantImplies
<1> QED
  BY <1>1, Invariance, PTL

\* No coin that a chain spent is in the past of a later block of the chain.
THEOREM NoResurrection ==
    ASSUME ~DuplicateCoinbases
    PROVE  Spec => []SpentStaysSpent
<1>1. IInv => SpentStaysSpent
  BY InvariantImplies
<1> QED
  BY <1>1, Invariance, PTL
=============================================================================
