--------------------------- MODULE UTXODiffProofs ---------------------------
(***************************************************************************)
(* The diff algebra is correct on the diffs a node stores: on diffs of the *)
(* form DiffOf(x, y) between views that agree on their coins, DiffFrom,    *)
(* WithDiff and Reversed return exactly the diff the view semantics asks   *)
(* for, raise no error, and applying the result gives the view.            *)
(*                                                                         *)
(* Everything is decided outpoint by outpoint, so each theorem fixes one   *)
(* outpoint, establishes the entries there, and lifts the result by        *)
(* extensionality of functions.                                            *)
(***************************************************************************)
EXTENDS UTXODiff, TLAPS

\* Two entries of agreeing views that carry the same stamp are one entry:
\* the reason containsWithDAAScore is enough to compare entries.
LEMMA SameStampSameEntry ==
    ASSUME NEW x \in Collection, NEW y \in Collection, Agree(x, y),
           NEW o \in Outpoint, x[o] # None, y[o] # None,
           x[o].daaScore = y[o].daaScore
    PROVE  x[o] = y[o]
<1>1. x[o] \in Entry /\ y[o] \in Entry
  BY DEF Collection
<1>2. x[o].value = y[o].value /\ x[o].isCoinbase = y[o].isCoinbase
  BY DEF Agree, SameCoin
<1> QED
  BY <1>1, <1>2 DEF Entry

\* What the diff between two views holds at an outpoint.
LEMMA DiffOfAt ==
    ASSUME NEW x, NEW y, NEW o \in Outpoint
    PROVE  /\ DiffOf(x, y).toAdd[o] = (IF x[o] # y[o] THEN y[o] ELSE None)
           /\ DiffOf(x, y).toRemove[o] = (IF x[o] # y[o] THEN x[o] ELSE None)
  BY DEF DiffOf

\* The diff between two views is a diff.
LEMMA DiffOfType ==
    ASSUME NEW x \in Collection, NEW y \in Collection
    PROVE  DiffOf(x, y) \in Diff
  BY DEF DiffOf, Diff, Collection

\* Committing the diff between two views to the first gives the second
\* (commitVirtualUTXODiff: deletions first, then insertions).
THEOREM ApplyDiffOf ==
    ASSUME NEW x \in Collection, NEW y \in Collection
    PROVE  Apply(x, DiffOf(x, y)) = y
<1>1. ASSUME NEW o \in Outpoint
      PROVE  Apply(x, DiffOf(x, y))[o] = y[o]
  BY DEF Apply, DiffOf
<1> QED
  BY <1>1 DEF Apply, Collection

\* Reversed swaps the direction of a diff.
THEOREM ReversedDiffOf ==
    ASSUME NEW x \in Collection, NEW y \in Collection
    PROVE  Reversed(DiffOf(x, y)) = DiffOf(y, x)
<1>1. \A o \in Outpoint : (x[o] # y[o]) <=> (y[o] # x[o])
  OBVIOUS
<1>2. [o \in Outpoint |-> IF x[o] # y[o] THEN y[o] ELSE None]
        = [o \in Outpoint |-> IF y[o] # x[o] THEN y[o] ELSE None]
  BY <1>1
<1>3. [o \in Outpoint |-> IF x[o] # y[o] THEN x[o] ELSE None]
        = [o \in Outpoint |-> IF y[o] # x[o] THEN x[o] ELSE None]
  BY <1>1
<1> QED
  BY <1>2, <1>3 DEF Reversed, DiffOf

\* diffFrom of two diffs from one base never raises the errors it guards
\* against, and is the diff between the two views.
THEOREM DiffFromCorrect ==
    ASSUME NEW x \in Collection, NEW a \in Collection, NEW b \in Collection,
           Agree(x, a), Agree(x, b), Agree(a, b)
    PROVE  /\ ~DiffFromFails(DiffOf(x, a), DiffOf(x, b))
           /\ DiffFrom(DiffOf(x, a), DiffOf(x, b)) = DiffOf(a, b)
<1> DEFINE this  == DiffOf(x, a)
           other == DiffOf(x, b)
<1>1. ASSUME NEW o \in Outpoint
      PROVE  /\ this.toAdd[o]     = (IF x[o] # a[o] THEN a[o] ELSE None)
             /\ this.toRemove[o]  = (IF x[o] # a[o] THEN x[o] ELSE None)
             /\ other.toAdd[o]    = (IF x[o] # b[o] THEN b[o] ELSE None)
             /\ other.toRemove[o] = (IF x[o] # b[o] THEN x[o] ELSE None)
  BY DEF DiffOf
<1>2. ASSUME NEW o \in Outpoint
      PROVE  /\ (x[o] # None /\ a[o] # None) =>
                   /\ SameCoin(x[o], a[o])
                   /\ (x[o].daaScore = a[o].daaScore => x[o] = a[o])
             /\ (x[o] # None /\ b[o] # None) =>
                   /\ SameCoin(x[o], b[o])
                   /\ (x[o].daaScore = b[o].daaScore => x[o] = b[o])
             /\ (a[o] # None /\ b[o] # None) =>
                   /\ SameCoin(a[o], b[o])
                   /\ (a[o].daaScore = b[o].daaScore => a[o] = b[o])
  BY SameStampSameEntry DEF Agree
<1> HIDE DEF this, other
<1>3. ASSUME NEW o \in Outpoint
      PROVE  /\ ~ConflictRemoveAdd(this, other, o)
             /\ ~ConflictAddRemove(this, other, o)
             /\ ~ConflictRemoveRemove(this, other, o)
             /\ ~ConflictInBothToAdd(this, other, o)
  BY <1>1, <1>2 DEF ConflictRemoveAdd, ConflictAddRemove, ConflictRemoveRemove,
     ConflictInBothToAdd, IsTolerableConflict, SameCoin, ContainsWithDAAScore
<1>4. ASSUME NEW o \in Outpoint
      PROVE  /\ DiffFrom(this, other).toAdd[o] = (IF a[o] # b[o] THEN b[o] ELSE None)
             /\ DiffFrom(this, other).toRemove[o] = (IF a[o] # b[o] THEN a[o] ELSE None)
  BY <1>1, <1>2 DEF DiffFrom, Survives, ContainsWithDAAScore
<1>5. DiffFrom(this, other).toAdd = DiffOf(a, b).toAdd
  BY <1>4 DEF DiffFrom, DiffOf
<1>6. DiffFrom(this, other).toRemove = DiffOf(a, b).toRemove
  BY <1>4 DEF DiffFrom, DiffOf
<1>7. DiffFrom(this, other) = DiffOf(a, b)
  BY <1>5, <1>6 DEF DiffFrom, DiffOf
<1>8. ~DiffFromFails(this, other)
  BY <1>3 DEF DiffFromFails
<1> QED
  BY <1>7, <1>8 DEF this, other

\* Composing the diff x -> a with the diff a -> b never raises an error and is
\* the diff x -> b: one step of the walk restorePastUTXO makes.
THEOREM WithDiffCorrect ==
    ASSUME NEW x \in Collection, NEW a \in Collection, NEW b \in Collection,
           Agree(x, a), Agree(x, b), Agree(a, b)
    PROVE  /\ ~WithDiffFails(DiffOf(x, a), DiffOf(a, b))
           /\ WithDiff(DiffOf(x, a), DiffOf(a, b)) = DiffOf(x, b)
<1> DEFINE this  == DiffOf(x, a)
           other == DiffOf(a, b)
           mid   == WithRemovals(this, other)
<1>1. ASSUME NEW o \in Outpoint
      PROVE  /\ this.toAdd[o]     = (IF x[o] # a[o] THEN a[o] ELSE None)
             /\ this.toRemove[o]  = (IF x[o] # a[o] THEN x[o] ELSE None)
             /\ other.toAdd[o]    = (IF a[o] # b[o] THEN b[o] ELSE None)
             /\ other.toRemove[o] = (IF a[o] # b[o] THEN a[o] ELSE None)
  BY DEF DiffOf
<1>2. ASSUME NEW o \in Outpoint
      PROVE  /\ (x[o] # None /\ a[o] # None) =>
                   /\ SameCoin(x[o], a[o])
                   /\ (x[o].daaScore = a[o].daaScore => x[o] = a[o])
             /\ (x[o] # None /\ b[o] # None) =>
                   /\ SameCoin(x[o], b[o])
                   /\ (x[o].daaScore = b[o].daaScore => x[o] = b[o])
             /\ (a[o] # None /\ b[o] # None) =>
                   /\ SameCoin(a[o], b[o])
                   /\ (a[o].daaScore = b[o].daaScore => a[o] = b[o])
  BY SameStampSameEntry DEF Agree
<1>3. ASSUME NEW o \in Outpoint
      PROVE  /\ mid.toAdd[o] = (IF a[o] # b[o] THEN None
                                ELSE IF x[o] # a[o] THEN a[o] ELSE None)
             /\ mid.toRemove[o] = (IF a[o] # b[o] /\ x[o] = a[o] THEN a[o]
                                   ELSE IF x[o] # a[o] THEN x[o] ELSE None)
  <2> HIDE DEF this, other
  <2> QED
    BY <1>1, <1>2 DEF WithRemovals, Survives, ContainsWithDAAScore
<1> HIDE DEF this, other, mid
<1>4. ASSUME NEW o \in Outpoint
      PROVE  ~ConflictBothRemove(this, other, o) /\ ~ConflictBothAdd(this, other, o)
  BY <1>1, <1>2 DEF ConflictBothRemove, ConflictBothAdd, ContainsWithDAAScore,
     IsTolerableConflict, SameCoin
<1>5. ASSUME NEW o \in Outpoint
      PROVE  /\ WithAdditions(mid, other).toAdd[o] = (IF x[o] # b[o] THEN b[o] ELSE None)
             /\ WithAdditions(mid, other).toRemove[o] = (IF x[o] # b[o] THEN x[o] ELSE None)
  BY <1>1, <1>2, <1>3 DEF WithAdditions, Survives, ContainsWithDAAScore
<1>6. WithAdditions(mid, other).toAdd = DiffOf(x, b).toAdd
  BY <1>5 DEF WithAdditions, DiffOf
<1>7. WithAdditions(mid, other).toRemove = DiffOf(x, b).toRemove
  BY <1>5 DEF WithAdditions, DiffOf
<1>8. WithAdditions(mid, other) = DiffOf(x, b)
  BY <1>6, <1>7 DEF WithAdditions, DiffOf
<1>9. ~WithDiffFails(this, other)
  BY <1>4 DEF WithDiffFails
<1> QED
  BY <1>8, <1>9 DEF this, other, mid, WithDiff
=============================================================================
