---------------------------- MODULE Reachability ----------------------------
(***************************************************************************)
(* The reachability index (domain/consensus/processes/reachabilitymanager):  *)
(* a tree of selected parents in which every node owns an interval of        *)
(* unsigned integers that strictly contains those of its children, and for   *)
(* every block a future covering set, the roots of the subtrees that hold    *)
(* the part of its future outside its own subtree.  A block is an ancestor   *)
(* of another one if its interval, or that of a member of its future         *)
(* covering set, contains the other's.                                       *)
(*                                                                          *)
(* An index is a record: the data of every node, the reindex root, and       *)
(* whether an operation on it returned an error, which makes the insertion   *)
(* of the block fail.  The operators return the index that the code stages.  *)
(***************************************************************************)
EXTENDS Integers, Sequences, SequencesExt, FiniteSetsExt

CONSTANTS
    Width,         \* the width of the unsigned integers, 64 in the code
    ReindexSlack,  \* room left on each side of a chain block below the reindex root
    ReindexWindow  \* how far the reindex root stays behind the selected tip, in blue score

ASSUME IndexBounds == Width \in Nat /\ ReindexSlack \in Nat /\ ReindexWindow \in Nat \ {0}

NoNode == -1
VirtualGenesis == 0

Wrap(n) == n % 2^Width

-----------------------------------------------------------------------------
(* Intervals. *)

Interval(start, end) == [start |-> Wrap(start), end |-> Wrap(end)]

IntervalSize(i) == Wrap(i.end - i.start + 1)

IntervalContains(i, other) == i.start <= other.start /\ other.end <= i.end

Total(sizes) == FoldLeft(LAMBDA sum, size : sum + size, 0, sizes)

\* The left part of a split in half, rounded up.
IntervalLeftHalf(i) == Interval(i.start, i.start + (IntervalSize(i) + 1) \div 2 - 1)

IntervalSplitExact(i, sizes) ==
    [k \in 1..Len(sizes) |->
        LET start == i.start + Total(SubSeq(sizes, 1, k - 1))
        IN  Interval(start, start + sizes[k] - 1)]

\* The shares of all parts but the last in totalBias, in proportion to
\* 2^size and rounded to the nearest, as long as something remains.
ExponentialBiases(totalBias, sizes, weights) ==
    LET Share(size) == (2 * totalBias * 2^size + weights) \div (2 * weights)
        AddBias(biases, size) == Append(biases, Min({Share(size), totalBias - Total(biases)}))
    IN  FoldLeft(AddBias, <<>>, Front(sizes))

\* Every part gets its size and its share of what is left over; the last part
\* takes what remains of that.
IntervalSplitWithExponentialBias(i, sizes) ==
    LET totalBias == IntervalSize(i) - Total(sizes)
        biases == ExponentialBiases(totalBias, sizes, Total([k \in 1..Len(sizes) |-> 2^sizes[k]]))
    IN  IntervalSplitExact(i, [k \in 1..Len(sizes) |->
            sizes[k] + IF k = Len(sizes) THEN totalBias - Total(biases) ELSE biases[k]])

-----------------------------------------------------------------------------
(* Nodes. *)

NewNode(interval) == [interval |-> interval, parent |-> NoNode, children |-> <<>>, future |-> <<>>]

EmptyIndex ==
    [nodes |-> (VirtualGenesis :> NewNode(Interval(1, 2^Width - 2))),
     root |-> VirtualGenesis, failed |-> FALSE]

Fail(ix) == [ix EXCEPT !.failed = TRUE]
IntervalOf(ix, n) == ix.nodes[n].interval
StageInterval(ix, n, i) == [ix EXCEPT !.nodes[n].interval = i]

\* A node keeps the last number of its interval for itself.
IntervalRangeForChildAllocation(ix, n) == Interval(IntervalOf(ix, n).start, IntervalOf(ix, n).end - 1)

RemainingIntervalBefore(ix, n) ==
    LET range == IntervalRangeForChildAllocation(ix, n)
        children == ix.nodes[n].children
    IN  IF children = <<>> THEN range
        ELSE Interval(range.start, IntervalOf(ix, Head(children)).start - 1)

RemainingIntervalAfter(ix, n) ==
    LET range == IntervalRangeForChildAllocation(ix, n)
        children == ix.nodes[n].children
    IN  IF children = <<>> THEN range
        ELSE Interval(IntervalOf(ix, Last(children)).end + 1, range.end)

IsReachabilityTreeAncestorOf(ix, a, b) == IntervalContains(IntervalOf(ix, a), IntervalOf(ix, b))

\* Binary search in a set that is kept ordered by interval: the last member
\* whose interval does not start after `end', 0 when there is none.
FindAncestorIndex(ix, set, end) ==
    LET RECURSIVE Search(_, _)
        Search(low, high) ==
            IF low >= high THEN low
            ELSE LET middle == (low + high) \div 2
                 IN  IF end < IntervalOf(ix, set[middle + 1]).start
                     THEN Search(low, middle)
                     ELSE Search(middle + 1, high)
    IN  Search(0, Len(set))

\* The tree child of `ancestor' towards `descendant'.
FindNextAncestor(ix, descendant, ancestor) ==
    LET sorted == SortSeq(ix.nodes[ancestor].children,
                          LAMBDA a, b : IntervalOf(ix, a).start < IntervalOf(ix, b).start)
        k == FindAncestorIndex(ix, sorted, IntervalOf(ix, descendant).end)
    IN  IF ancestor = descendant \/ k = 0 THEN NoNode ELSE sorted[k]

RECURSIVE FindCommonAncestor(_, _, _)
FindCommonAncestor(ix, n, root) ==
    IF IsReachabilityTreeAncestorOf(ix, n, root) THEN n
    ELSE FindCommonAncestor(ix, ix.nodes[n].parent, root)

\* The children of n before and after `pivot'.
SplitChildren(ix, n, pivot) ==
    LET children == ix.nodes[n].children
        k == CHOOSE k \in 1..Len(children) : children[k] = pivot
    IN  [before |-> SubSeq(children, 1, k - 1), after |-> SubSeq(children, k + 1, Len(children))]

-----------------------------------------------------------------------------
(* Ancestry in the DAG. *)

FutureCoveringSetHasAncestorOf(ix, this, other) ==
    LET set == ix.nodes[this].future
        k == FindAncestorIndex(ix, set, IntervalOf(ix, other).end)
    IN  k # 0 /\ IsReachabilityTreeAncestorOf(ix, set[k], other)

IsDAGAncestorOf(ix, a, b) ==
    IsReachabilityTreeAncestorOf(ix, a, b) \/ FutureCoveringSetHasAncestorOf(ix, a, b)

InsertToFutureCoveringSet(ix, n, futureNode) ==
    LET set == ix.nodes[n].future
        interval == IntervalOf(ix, futureNode)
        k == FindAncestorIndex(ix, set, interval.end)
        candidate == IntervalOf(ix, set[k])
    IN  IF k = 0 THEN [ix EXCEPT !.nodes[n].future = <<futureNode>> \o set]
        ELSE IF IntervalContains(candidate, interval) THEN ix
        ELSE IF IntervalContains(interval, candidate) THEN [ix EXCEPT !.nodes[n].future[k] = futureNode]
        ELSE [ix EXCEPT !.nodes[n].future = InsertAt(set, k + 1, futureNode)]

-----------------------------------------------------------------------------
(* Reindexing. *)

RECURSIVE SubtreeSize(_, _)
SubtreeSize(ix, n) ==
    1 + FoldLeft(LAMBDA sum, child : sum + SubtreeSize(ix, child), 0, ix.nodes[n].children)

SubtreeSizes(ix, children) == [k \in 1..Len(children) |-> SubtreeSize(ix, children[k])]

\* Reallocates the intervals of the whole subtree of n.
RECURSIVE PropagateInterval(_, _)
PropagateInterval(ix, n) ==
    LET children == ix.nodes[n].children
        sizes == SubtreeSizes(ix, children)
        range == IntervalRangeForChildAllocation(ix, n)
        parts == IntervalSplitWithExponentialBias(range, sizes)
        Place(acc, k) == PropagateInterval(StageInterval(acc, children[k], parts[k]), children[k])
    IN  IF ix.failed \/ children = <<>> THEN ix
        ELSE IF Total(sizes) > IntervalSize(range) THEN Fail(ix)
        ELSE FoldLeft(Place, ix, [k \in 1..Len(children) |-> k])

\* The two directions in which room is reclaimed from the chain that leads
\* to the reindex root: for a node before that chain, or after it.
Before == "before"
After == "after"

RemainingSlack(ix, n, side) ==
    IntervalSize(IF side = Before THEN RemainingIntervalBefore(ix, n) ELSE RemainingIntervalAfter(ix, n))

\* Takes `offset' numbers from n on that side.
ShrinkInterval(ix, n, side, offset) ==
    LET i == IntervalOf(ix, n)
    IN  StageInterval(ix, n, IF side = Before THEN Interval(i.start + offset, i.end)
                                              ELSE Interval(i.start, i.end - offset))

\* Mutant: the siblings move, their subtrees stay.
OffsetSiblings_ShallowMove(ix, allocationNode, n, side, offset) ==
    LET split == SplitChildren(ix, ix.nodes[n].parent, n)
        siblings == IF side = Before THEN Reverse(split.before) ELSE split.after
        reached == SelectInSeq(siblings, LAMBDA s : s = allocationNode)
        moved == IF reached = 0 THEN siblings ELSE SubSeq(siblings, 1, reached)
        Moved(i, isLast) ==
            IF side = Before THEN Interval(IF isLast THEN i.start ELSE i.start + offset, i.end + offset)
            ELSE Interval(i.start - offset, IF isLast THEN i.end ELSE i.end - offset)
    IN  FoldLeft(LAMBDA acc, s : StageInterval(acc, s, Moved(IntervalOf(acc, s), s = allocationNode)),
                 ix, moved)

\* Moves the siblings on that side by `offset' towards n, up to the node the
\* room is for, which gets it.
OffsetSiblings(ix, allocationNode, n, side, offset) ==
    LET split == SplitChildren(ix, ix.nodes[n].parent, n)
        siblings == IF side = Before THEN Reverse(split.before) ELSE split.after
        reached == SelectInSeq(siblings, LAMBDA s : s = allocationNode)
        moved == IF reached = 0 THEN siblings ELSE SubSeq(siblings, 1, reached)
        Moved(i, isLast) ==
            IF side = Before THEN Interval(IF isLast THEN i.start ELSE i.start + offset, i.end + offset)
            ELSE Interval(i.start - offset, IF isLast THEN i.end ELSE i.end - offset)
        Move(acc, s) == PropagateInterval(
                            StageInterval(acc, s, Moved(IntervalOf(acc, s), s = allocationNode)), s)
    IN  FoldLeft(Move, ix, moved)

\* Back from n down to the common ancestor, each chain block passes on its
\* slack but what it has to reserve.
RECURSIVE ReclaimDown(_, _, _, _, _, _)
ReclaimDown(ix, allocationNode, commonAncestor, n, side, pathSlack) ==
    LET current == ix.nodes[n].parent
        offset == Wrap(RemainingSlack(ix, current, side) - pathSlack)
    IN  IF ix.failed \/ current = commonAncestor THEN ix
        ELSE ReclaimDown(OffsetSiblings(ShrinkInterval(ix, current, side, offset),
                                        allocationNode, current, side, offset),
                         allocationNode, commonAncestor, current, side, pathSlack)

\* Shrinks the chain block `current', and the chain blocks below it.
Reclaim(ix, allocationNode, commonAncestor, current, side, offset, pathSlack) ==
    LET shrunk == ShrinkInterval(ix, current, side, offset)
        settled == IF current = ix.root THEN PropagateInterval(shrunk, current) ELSE shrunk
    IN  ReclaimDown(OffsetSiblings(settled, allocationNode, current, side, offset),
                    allocationNode, commonAncestor, current, side, pathSlack)

\* Up the chain from the child of the common ancestor until there is enough
\* slack, or the reindex root is reached, which is taken to have room: where
\* that is, how much to take there, and what the blocks below have to keep.
RECURSIVE FindSlack(_, _, _, _, _, _)
FindSlack(ix, current, side, required, slackSum, pathLen) ==
    LET slack == RemainingSlack(ix, current, side)
        sum == Wrap(slackSum + slack)
        next == FindNextAncestor(ix, ix.root, current)
    IN  IF current = ix.root
        THEN [at |-> current, pathSlack |-> ReindexSlack,
              offset |-> Wrap(required + ReindexSlack * pathLen - slackSum)]
        ELSE IF sum >= required
        THEN [at |-> current, pathSlack |-> 0, offset |-> Wrap(slack - (sum - required))]
        ELSE IF next = NoNode THEN [at |-> NoNode, pathSlack |-> 0, offset |-> 0]
        ELSE FindSlack(ix, next, side, required, sum, pathLen + 1)

ReclaimInterval(ix, allocationNode, commonAncestor, side, slack) ==
    IF slack.at = NoNode THEN Fail(ix)
    ELSE Reclaim(ix, allocationNode, commonAncestor, slack.at, side, slack.offset, slack.pathSlack)

ReindexIntervalsEarlierThanRoot(ix, allocationNode, commonAncestor, required) ==
    LET chosenChild == FindNextAncestor(ix, ix.root, commonAncestor)
        side == IF IntervalOf(ix, allocationNode).start < IntervalOf(ix, chosenChild).start
                THEN Before ELSE After
    IN  IF chosenChild = NoNode THEN Fail(ix)
        ELSE ReclaimInterval(ix, allocationNode, commonAncestor, side,
                             FindSlack(ix, chosenChild, side, required, 0, 0))

\* Climbs from the new child to the first ancestor with room for its subtree.
RECURSIVE ReindexIntervals(_, _)
ReindexIntervals(ix, current) ==
    LET size == SubtreeSize(ix, current)
        parent == ix.nodes[current].parent
    IN  IF IntervalSize(IntervalOf(ix, current)) >= size THEN PropagateInterval(ix, current)
        ELSE IF parent = NoNode \/ current = ix.root THEN Fail(ix)
        ELSE IF parent # ix.root /\ IsReachabilityTreeAncestorOf(ix, parent, ix.root)
        THEN ReindexIntervalsEarlierThanRoot(ix, current, parent, size)
        ELSE ReindexIntervals(ix, parent)

AddChild(ix, n, child) ==
    LET remaining == RemainingIntervalAfter(ix, n)
        full == IntervalSize(remaining) = 0
        newChild == [NewNode(IF full THEN remaining ELSE IntervalLeftHalf(remaining)) EXCEPT !.parent = n]
        linked == [ix EXCEPT !.nodes = (child :> newChild) @@ [@ EXCEPT ![n].children = Append(@, child)]]
    IN  IF full THEN ReindexIntervals(linked, child) ELSE linked

\* AddBlock of the reachability manager: a child of its selected parent, in
\* the future covering set of everything it merges.
AddToIndex(ix, block, selectedParent, mergeSetBlues, mergeSetReds) ==
    FoldLeft(LAMBDA acc, n : InsertToFutureCoveringSet(acc, n, block),
             AddChild(ix, selectedParent, block), mergeSetBlues \o mergeSetReds)

-----------------------------------------------------------------------------
(* Moving the reindex root. *)

\* The children get intervals of exactly the size of their subtrees.
PropagateChildrenIntervals(ix, start, children) ==
    LET sizes == SubtreeSizes(ix, children)
        parts == IntervalSplitExact(Interval(start, start + Total(sizes) - 1), sizes)
        Place(acc, k) == PropagateInterval(StageInterval(acc, children[k], parts[k]), children[k])
    IN  FoldLeft(Place, ix, [k \in 1..Len(children) |-> k])

ExpandIntervalToChosen(ix, n, chosenChild, sizeBefore, sizeAfter, isFinal) ==
    LET range == IntervalOf(ix, n)
        interval == Interval(range.start + sizeBefore + ReindexSlack,
                             range.end - sizeAfter - ReindexSlack - 1)
        inner == Interval(interval.start + ReindexSlack, interval.end - ReindexSlack)
        fits == IntervalContains(interval, IntervalOf(ix, chosenChild))
        settled == IF isFinal /\ ~fits THEN PropagateInterval(StageInterval(ix, chosenChild, inner), chosenChild)
                   ELSE ix
    IN  StageInterval(settled, chosenChild, interval)

\* Gives the chosen child all the room of n but what its siblings need.
ConcentrateInterval(ix, n, chosenChild, isFinal) ==
    LET split == SplitChildren(ix, n, chosenChild)
        sizeBefore == Total(SubtreeSizes(ix, split.before))
        sizeAfter == Total(SubtreeSizes(ix, split.after))
        range == IntervalOf(ix, n)
        tightBefore == PropagateChildrenIntervals(ix, range.start + ReindexSlack, split.before)
        tightAfter == PropagateChildrenIntervals(tightBefore, range.end - ReindexSlack - sizeAfter, split.after)
    IN  ExpandIntervalToChosen(tightAfter, n, chosenChild, sizeBefore, sizeAfter, isFinal)

\* The highest block of the tip's chain, from n on, outside the window;
\* score gives the blue scores.
RECURSIVE DescendToWindow(_, _, _, _)
DescendToWindow(ix, n, tip, score) ==
    LET chosenChild == FindNextAncestor(ix, tip, n)
    IN  IF chosenChild = NoNode \/ score[tip] < score[chosenChild] THEN NoNode
        ELSE IF score[tip] - score[chosenChild] < ReindexWindow THEN n
        ELSE DescendToWindow(ix, chosenChild, tip, score)

\* Where to start concentrating and the new root: a root that left the tip's
\* chain changes chains only when the tip is far enough ahead.
FindNextReindexRoot(ix, tip, score) ==
    LET from == IF IsReachabilityTreeAncestorOf(ix, ix.root, tip) THEN ix.root
                ELSE FindCommonAncestor(ix, tip, ix.root)
    IN  IF /\ ~IsReachabilityTreeAncestorOf(ix, ix.root, tip)
           /\ score[tip] < score[ix.root] \/ score[tip] - score[ix.root] < ReindexSlack
        THEN [ancestor |-> ix.root, root |-> ix.root]
        ELSE [ancestor |-> from, root |-> DescendToWindow(ix, from, tip, score)]

RECURSIVE ConcentrateTowards(_, _, _, _)
ConcentrateTowards(ix, n, root, tip) ==
    LET chosenChild == FindNextAncestor(ix, tip, n)
    IN  IF ix.failed \/ n = root THEN ix
        ELSE IF chosenChild = NoNode THEN Fail(ix)
        ELSE ConcentrateTowards(ConcentrateInterval(ix, n, chosenChild, chosenChild = root),
                                chosenChild, root, tip)

MoveReindexRoot(ix, next, tip) ==
    IF next.root = NoNode THEN Fail(ix)
    ELSE IF next.root = ix.root THEN ix
    ELSE [ConcentrateTowards(ix, next.ancestor, next.root, tip) EXCEPT !.root = next.root]

UpdateReindexRoot(ix, tip, score) ==
    IF ix.failed \/ ix.root = tip THEN ix
    ELSE MoveReindexRoot(ix, FindNextReindexRoot(ix, tip, score), tip)
=============================================================================
