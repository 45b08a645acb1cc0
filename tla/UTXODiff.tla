------------------------------ MODULE UTXODiff ------------------------------
(***************************************************************************)
(* The algebra of UTXO diffs (domain/consensus/utils/utxo).                *)
(*                                                                         *)
(* A collection maps an outpoint to an entry; here it is a total function  *)
(* with None where the Go map has no key.  A diff is a pair of             *)
(* collections.  Every operation below decides an outpoint from the        *)
(* entries at that outpoint alone, as the Go code does, except for the     *)
(* errors, which one offending outpoint raises for the whole operation.    *)
(*                                                                         *)
(* An entry keeps what the algebra tells apart: the spendable value        *)
(* (amount and script together), the coinbase flag, and the DAA score of   *)
(* the block that merged the coin, its "stamp".                            *)
(***************************************************************************)
CONSTANTS Outpoint,    \* outpoints
          Value,       \* amount and script of an output
          DAAScore,    \* stamps
          None         \* the absence of an entry

Entry == [value : Value, isCoinbase : BOOLEAN, daaScore : DAAScore]

ASSUME NoneIsNoEntry == None \notin Entry

Collection == [Outpoint -> Entry \cup {None}]

Diff == [toAdd : Collection, toRemove : Collection]

EmptyCollection == [o \in Outpoint |-> None]

NewUTXODiff == [toAdd |-> EmptyCollection, toRemove |-> EmptyCollection]

-----------------------------------------------------------------------------
(* Comparisons of entries and membership *)

\* utxoCollection.containsWithDAAScore: a key match is not enough, the stamp
\* has to match too.
ContainsWithDAAScore(c, o, score) == c[o] # None /\ c[o].daaScore = score

SameCoin(a, b) == a.value = b.value /\ a.isCoinbase = b.isCoinbase

IsTolerableConflict(a, b) == (a.isCoinbase /\ b.isCoinbase) \/ a.value = b.value

-----------------------------------------------------------------------------
(* diffFrom: the diff that takes the view of "this" to the view of "other", *)
(* both being diffs from one base                                          *)

\* this.toRemove against other.toAdd
ConflictRemoveAdd(this, other, o) ==
    LET a == this.toRemove[o]
        b == other.toAdd[o]
    IN  /\ a # None /\ b # None
        /\ ~ /\ b.daaScore # a.daaScore
             /\ \/ ContainsWithDAAScore(this.toAdd, o, b.daaScore)
                \/ ContainsWithDAAScore(other.toRemove, o, a.daaScore)
        /\ ~IsTolerableConflict(a, b)

\* this.toAdd against other.toRemove
ConflictAddRemove(this, other, o) ==
    LET a == this.toAdd[o]
        b == other.toRemove[o]
    IN  /\ a # None /\ b # None
        /\ ~ /\ b.daaScore # a.daaScore
             /\ \/ ContainsWithDAAScore(this.toRemove, o, b.daaScore)
                \/ ContainsWithDAAScore(other.toAdd, o, a.daaScore)
        /\ ~IsTolerableConflict(a, b)

\* this.toRemove against other.toRemove, with different stamps
ConflictRemoveRemove(this, other, o) ==
    LET a == this.toRemove[o]
        b == other.toRemove[o]
    IN  /\ a # None /\ b # None
        /\ a.daaScore # b.daaScore
        /\ ~IsTolerableConflict(a, b)

\* in both toAdd, but only one of the two also removes an entry there
ConflictInBothToAdd(this, other, o) ==
    LET a == this.toAdd[o]
        r == IF this.toRemove[o] # None THEN this.toRemove[o] ELSE other.toRemove[o]
    IN  /\ a # None
        /\ ContainsWithDAAScore(other.toAdd, o, a.daaScore)
        /\ (this.toRemove[o] # None) # (other.toRemove[o] # None)
        /\ ~IsTolerableConflict(a, r)

DiffFromFails(this, other) ==
    \E o \in Outpoint : \/ ConflictRemoveAdd(this, other, o)
                        \/ ConflictAddRemove(this, other, o)
                        \/ ConflictRemoveRemove(this, other, o)
                        \/ ConflictInBothToAdd(this, other, o)

\* subtractionHavingDAAScoreInPlace at one outpoint: does the entry of c
\* survive the subtraction of d?
Survives(c, d, o) == c[o] # None /\ ~ContainsWithDAAScore(d, o, c[o].daaScore)

\* The subtractions run in this order, a later one overwriting an earlier.
DiffFrom(this, other) ==
    [toAdd |-> [o \in Outpoint |->
        IF Survives(other.toAdd, this.toAdd, o) THEN other.toAdd[o]
        ELSE IF Survives(this.toRemove, other.toRemove, o) THEN this.toRemove[o]
        ELSE None],
     toRemove |-> [o \in Outpoint |->
        IF Survives(other.toRemove, this.toRemove, o) THEN other.toRemove[o]
        ELSE IF Survives(this.toAdd, other.toAdd, o) THEN this.toAdd[o]
        ELSE None]]

-----------------------------------------------------------------------------
(* withDiff: first "this", then "other"                                    *)

ConflictBothRemove(this, other, o) ==
    /\ other.toRemove[o] # None /\ this.toRemove[o] # None
    /\ ~ContainsWithDAAScore(this.toAdd, o, other.toRemove[o].daaScore)
    /\ ~IsTolerableConflict(other.toRemove[o], this.toRemove[o])

ConflictBothAdd(this, other, o) ==
    /\ other.toAdd[o] # None /\ this.toAdd[o] # None
    /\ ~ContainsWithDAAScore(other.toRemove, o, this.toAdd[o].daaScore)
    /\ ~IsTolerableConflict(other.toAdd[o], this.toAdd[o])

WithDiffFails(this, other) ==
    \E o \in Outpoint : ConflictBothRemove(this, other, o) \/ ConflictBothAdd(this, other, o)

\* The first pass: a removal cancels an addition with the same stamp, and is
\* recorded as a removal otherwise.
WithRemovals(this, other) ==
    [toAdd |-> [o \in Outpoint |->
        IF /\ other.toRemove[o] # None
           /\ ContainsWithDAAScore(this.toAdd, o, other.toRemove[o].daaScore)
        THEN None ELSE this.toAdd[o]],
     toRemove |-> [o \in Outpoint |->
        IF Survives(other.toRemove, this.toAdd, o)
        THEN other.toRemove[o] ELSE this.toRemove[o]]]

\* The second pass, on the result of the first: an addition cancels a removal
\* with the same stamp, and is recorded as an addition otherwise.
WithAdditions(this, other) ==
    [toAdd |-> [o \in Outpoint |->
        IF Survives(other.toAdd, this.toRemove, o)
        THEN other.toAdd[o] ELSE this.toAdd[o]],
     toRemove |-> [o \in Outpoint |->
        IF /\ other.toAdd[o] # None
           /\ ContainsWithDAAScore(this.toRemove, o, other.toAdd[o].daaScore)
        THEN None ELSE this.toRemove[o]]]

WithDiff(this, other) == WithAdditions(WithRemovals(this, other), other)

Reversed(d) == [toAdd |-> d.toRemove, toRemove |-> d.toAdd]

-----------------------------------------------------------------------------
(* The mutable diff: one entry at a time                                   *)

\* Replaces the two entries of one outpoint.
SetEntries(d, o, add, remove) ==
    [toAdd    |-> [d.toAdd EXCEPT ![o] = add],
     toRemove |-> [d.toRemove EXCEPT ![o] = remove]]

AddEntryFails(d, o, e) ==
    /\ ~ContainsWithDAAScore(d.toRemove, o, e.daaScore)
    /\ d.toAdd[o] # None
    /\ ~SameCoin(d.toAdd[o], e)

\* Mutation: an addition never cancels a pending removal.
AddEntry_NeverCancels(d, o, e) == SetEntries(d, o, e, d.toRemove[o])

\* addEntry.  A pending removal with the same stamp is cancelled (or
\* replaced, if it is a different coin); a pending addition of the same coin
\* takes the incoming stamp; otherwise the entry is added.
AddEntry(d, o, e) ==
    IF ContainsWithDAAScore(d.toRemove, o, e.daaScore)
    THEN SetEntries(d, o, IF SameCoin(d.toRemove[o], e) THEN d.toAdd[o] ELSE e, None)
    ELSE SetEntries(d, o, e, d.toRemove[o])

RemoveEntryFails(d, o, e) ==
    /\ ~ContainsWithDAAScore(d.toAdd, o, e.daaScore)
    /\ d.toRemove[o] # None

RemoveEntry(d, o, e) ==
    IF ContainsWithDAAScore(d.toAdd, o, e.daaScore)
    THEN SetEntries(d, o, None, IF SameCoin(d.toAdd[o], e) THEN d.toRemove[o] ELSE e)
    ELSE SetEntries(d, o, d.toAdd[o], e)

-----------------------------------------------------------------------------
(* What a diff means                                                       *)

\* commitVirtualUTXODiff: delete every toRemove, then put every toAdd.
Apply(base, d) ==
    [o \in Outpoint |-> IF d.toAdd[o] # None THEN d.toAdd[o]
                        ELSE IF d.toRemove[o] # None THEN None
                        ELSE base[o]]

\* populateTransactionWithUTXOEntriesFromVirtualOrDiff at one outpoint: the
\* pending addition, else nothing if there is a pending removal, else what
\* the virtual UTXO table holds.
Lookup(base, d, o) ==
    IF d.toAdd[o] # None THEN d.toAdd[o]
    ELSE IF d.toRemove[o] # None THEN None
    ELSE base[o]

\* The reference: the only diff between two views in which every removal
\* names the entry that is there, and every addition goes where none is.
DiffOf(x, y) ==
    [toAdd    |-> [o \in Outpoint |-> IF x[o] # y[o] THEN y[o] ELSE None],
     toRemove |-> [o \in Outpoint |-> IF x[o] # y[o] THEN x[o] ELSE None]]

\* A transaction ID is derived from content, so two views that both hold an
\* outpoint hold the same coin there; only the stamp may differ.
Agree(x, y) ==
    \A o \in Outpoint : (x[o] # None /\ y[o] # None) => SameCoin(x[o], y[o])
=============================================================================
