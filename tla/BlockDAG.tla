------------------------------ MODULE BlockDAG ------------------------------
(***************************************************************************)
(* What a header changes when it enters the DAG: its GHOSTDAG colouring      *)
(* (processes/ghostdagmanager), the reachability index that every ancestry   *)
(* question of consensus is answered from (module Reachability), the headers *)
(* selected tip with the index of its chain (processes/                      *)
(* headersselectedtipmanager, datastructures/headersselectedchainstore) and  *)
(* the reindex root (processes/blockprocessor/validate_and_insert_block.go). *)
(* The colouring asks the index about the blocks it colours, and the index   *)
(* is built from the colouring, so an error in one corrupts both.            *)
(*                                                                          *)
(* Blocks are numbered in the order they arrive, and genesis stays the       *)
(* pruning point.  The rules are those from block version 10 on: K is        *)
(* computed from the parents, the anticone may have K + 1 blocks, and no     *)
(* parent is an ancestor of another.                                         *)
(***************************************************************************)
EXTENDS Reachability, FiniteSets, FiniteSetsExt, TLC

CONSTANTS
    Work(_),          \* the work a header claims
    Hash(_),          \* the order of the block hashes
    MaxBlockParents,  \* the most parents of a block
    MaxLinks          \* bound: parent links in the DAG

ASSUME DAGBounds == MaxBlockParents \in Nat \ {0} /\ MaxLinks \in Nat

VARIABLES
    parents,   \* the parents of every block
    ghostdag,  \* the GHOSTDAG data of every block
    index,     \* the reachability index
    tip,       \* the headers selected tip
    chain      \* the headers selected chain store

vars == <<parents, ghostdag, index, tip, chain>>

Genesis == 1
Blocks == DOMAIN parents \ {VirtualGenesis}

-----------------------------------------------------------------------------
(* GHOSTDAG.  gd is the GHOSTDAG data store. *)

NewData(score, work, selectedParent) ==
    [blueScore |-> score, blueWork |-> work, selectedParent |-> selectedParent,
     blues |-> <<>>, reds |-> <<>>, anticoneSizes |-> <<>>]

Less(gd, a, b) ==
    \/ gd[a].blueWork < gd[b].blueWork
    \/ gd[a].blueWork = gd[b].blueWork /\ Hash(a) < Hash(b)

ChooseSelectedParent(gd, blocks) == CHOOSE b \in blocks : \A a \in blocks \ {b} : Less(gd, a, b)

\* The parents are unrelated to each other, so their past among themselves
\* is empty, every colouring of it too, and the vote of a block passes as
\* soon as the deficit k reaches the number of parents.
UMCVoting(G, k) == k >= Cardinality(G)

\* K is tried as 0, 1, 2, 4, 6, ... and taken back by one when that passes.
CalculateRank(G) ==
    LET RECURSIVE Try(_)
        Try(k) == IF UMCVoting(G, k) THEN k ELSE Try(IF k < 2 THEN k + 1 ELSE k + 2)
        rank == Try(0)
    IN  IF rank >= 4 /\ UMCVoting(G, rank - 1) THEN rank - 1 ELSE rank

\* The past of the parents that is not in the past of the selected parent.
RECURSIVE MergeSet(_, _, _)
MergeSet(queue, selectedParent, mergeSet) ==
    LET found == {p \in UNION {parents[b] : b \in queue} \ mergeSet :
                     ~IsDAGAncestorOf(index, p, selectedParent)}
    IN  IF queue = {} THEN mergeSet ELSE MergeSet(found, selectedParent, mergeSet \cup found)

\* Mutant: sorted by hash alone.
MergeSetWithoutSelectedParent_ByHash(gd, blockParents, selectedParent) ==
    LET others == blockParents \ {selectedParent}
    IN  SetToSortSeq(MergeSet(others, selectedParent, others), LAMBDA a, b : Hash(a) < Hash(b))

MergeSetWithoutSelectedParent(gd, blockParents, selectedParent) ==
    LET others == blockParents \ {selectedParent}
    IN  SetToSortSeq(MergeSet(others, selectedParent, others), LAMBDA a, b : Less(gd, a, b))

\* The blue anticone size of b as seen from the chain block `context', found
\* in the data of the first block of the chain that has an entry for it.
BlueAnticoneSize(gd, b, context, k) ==
    LET maxWalk == (4 * k) % 256
        RECURSIVE Walk(_, _)
        Walk(current, steps) ==
            IF b \in DOMAIN gd[current].anticoneSizes THEN gd[current].anticoneSizes[b]
            ELSE IF steps > maxWalk \/ gd[current].selectedParent \in {NoNode, Genesis, VirtualGenesis} THEN 0
            ELSE Walk(gd[current].selectedParent, steps + 1)
    IN  Walk(context, 0)

\* The blues of one chain block that are not in the candidate's past enter
\* its anticone, unless that makes one of the two anticones too large.
CheckBlueCandidateWithChainBlock(gd, chainBlock, candidate, k, check) ==
    LET Enter(c, blue) ==
            LET size == BlueAnticoneSize(gd, blue, chainBlock, k)
            IN  IF c.red \/ IsDAGAncestorOf(index, blue, candidate) THEN c
                ELSE [sizes |-> (blue :> size) @@ c.sizes, anticone |-> c.anticone + 1,
                      red |-> c.anticone + 1 > k + 1 \/ size >= k + 1]
    IN  FoldLeft(Enter, check, gd[chainBlock].blues)

\* Down the selected chain until all the blues left are in the candidate's past.
CheckBlueCandidate(gd, data, candidate, k) ==
    LET RECURSIVE Walk(_, _)
        Walk(chainBlock, check) ==
            IF check.red \/ IsDAGAncestorOf(index, chainBlock, candidate) THEN check
            ELSE Walk(gd[chainBlock].selectedParent,
                      CheckBlueCandidateWithChainBlock(gd, chainBlock, candidate, k, check))
        unchecked == [sizes |-> <<>>, anticone |-> 0, red |-> Len(data.blues) = k + 1]
    IN  Walk(data.selectedParent, unchecked)

Colour(gd, data, candidate, k) ==
    LET check == CheckBlueCandidate(gd, data, candidate, k)
        grown == [b \in DOMAIN check.sizes |-> check.sizes[b] + 1]
    IN  IF check.red THEN [data EXCEPT !.reds = Append(@, candidate)]
        ELSE [data EXCEPT !.blues = Append(@, candidate),
                          !.anticoneSizes = grown @@ (candidate :> check.anticone) @@ @]

GHOSTDAG(gd, blockParents) ==
    LET selectedParent == ChooseSelectedParent(gd, blockParents)
        k == CalculateRank(blockParents)
        start == [NewData(0, 0, selectedParent) EXCEPT
                     !.blues = <<selectedParent>>, !.anticoneSizes = (selectedParent :> 0)]
        coloured == FoldLeft(LAMBDA data, b : Colour(gd, data, b, k), start,
                             MergeSetWithoutSelectedParent(gd, blockParents, selectedParent))
    IN  [coloured EXCEPT
            !.blueScore = gd[selectedParent].blueScore + Len(coloured.blues),
            !.blueWork = FoldLeft(LAMBDA sum, b : sum + Work(b), gd[selectedParent].blueWork, coloured.blues)]

\* The merge set of b in the order in which its transactions are applied:
\* the selected parent, then blues and reds merged by blue work.
GetSortedMergeSet(gd, b) ==
    LET blues == SelectSeq(gd[b].blues, LAMBDA x : x # gd[b].selectedParent)
        RECURSIVE Merge(_, _)
        Merge(bs, rs) ==
            IF bs = <<>> \/ rs = <<>> THEN bs \o rs
            ELSE IF Less(gd, Head(bs), Head(rs)) THEN <<Head(bs)>> \o Merge(Tail(bs), rs)
            ELSE <<Head(rs)>> \o Merge(bs, Tail(rs))
    IN  IF gd[b].blues = <<>> THEN <<>> ELSE <<gd[b].selectedParent>> \o Merge(blues, gd[b].reds)

-----------------------------------------------------------------------------
(* The headers selected chain. *)

\* The chain blocks to leave and to add on the way from one block to another.
CalculateChainPath(ix, gd, from, to) ==
    LET RECURSIVE Leave(_), Join(_, _)
        Leave(b) == IF IsReachabilityTreeAncestorOf(ix, b, to) THEN <<b>>
                    ELSE <<b>> \o Leave(gd[b].selectedParent)
        Join(b, common) == IF b = common THEN <<>> ELSE Append(Join(gd[b].selectedParent, common), b)
        left == Leave(from)
    IN  [removed |-> Front(left), added |-> Join(to, Last(left))]

\* The blocks that are added get the indexes from `first' on.
Changes(store, path, first) ==
    LET added == 1..Len(path.added)
    IN  [removedByHash |-> ToSet(path.removed),
         removedByIndex |-> {store.byHash[b] : b \in ToSet(path.removed)},
         addedByHash |-> [b \in ToSet(path.added) |-> first + (CHOOSE k \in added : path.added[k] = b) - 1],
         addedByIndex |-> [i \in {first + k - 1 : k \in added} |-> path.added[i - first + 1]]]

\* Mutant: the added blocks follow the old tip.
StageChain_FromHighest(store, path) == Changes(store, path, store.highest + 1)

StageChain(store, path) == Changes(store, path, store.highest - Len(path.removed) + 1)

\* The chain is kept by hash and by index.
CommitChain(store, staged) ==
    [byHash |-> staged.addedByHash @@
                [b \in DOMAIN store.byHash \ staged.removedByHash |-> store.byHash[b]],
     byIndex |-> staged.addedByIndex @@
                 [i \in DOMAIN store.byIndex \ staged.removedByIndex |-> store.byIndex[i]],
     highest |-> store.highest - Cardinality(staged.removedByIndex) + Cardinality(DOMAIN staged.addedByIndex)]

\* A header becomes the selected tip if it is heavier than the tip, and the
\* reindex root follows the tip in any case.  (When the index failed, the
\* insertion ends there, and so does the behaviour.)
AddHeaderTip(ix, gd, block) ==
    LET newTip == IF ix.failed THEN tip ELSE ChooseSelectedParent(gd, {tip, block})
        score == [b \in DOMAIN gd |-> gd[b].blueScore]
    IN  /\ tip' = newTip
        /\ chain' = IF newTip = tip THEN chain
                    ELSE CommitChain(chain, StageChain(chain, CalculateChainPath(ix, gd, tip, newTip)))
        /\ index' = UpdateReindexRoot(ix, newTip, score)

-----------------------------------------------------------------------------
(* The specification. *)

\* The virtual genesis and genesis.
Init ==
    /\ parents = (VirtualGenesis :> {}) @@ (Genesis :> {VirtualGenesis})
    /\ ghostdag = (VirtualGenesis :> NewData(0, 0, NoNode)) @@ (Genesis :> NewData(0, 0, VirtualGenesis))
    /\ index = AddToIndex(EmptyIndex, Genesis, VirtualGenesis, <<>>, <<>>)
    /\ tip = Genesis
    /\ chain = [byHash |-> (Genesis :> 0), byIndex |-> (0 :> Genesis), highest |-> 0]

Links == MapThenSumSet(LAMBDA b : Cardinality(parents[b]), Blocks) - 1

\* No parent may be an ancestor of another one.
CheckParentsIncest(blockParents) ==
    \A a, b \in blockParents : a # b => ~IsDAGAncestorOf(index, a, b)

\* A new header: colouring, index, selected tip, reindex root.
InsertHeader(blockParents) ==
    /\ Links + Cardinality(blockParents) <= MaxLinks
    /\ CheckParentsIncest(blockParents)
    /\ \E block \in {Cardinality(Blocks) + 1}, data \in {GHOSTDAG(ghostdag, blockParents)} :
          \E gd \in {(block :> data) @@ ghostdag},
             ix \in {AddToIndex(index, block, data.selectedParent, data.blues, data.reds)} :
             /\ parents' = (block :> blockParents) @@ parents
             /\ ghostdag' = gd
             /\ AddHeaderTip(ix, gd, block)

\* The body of a block whose header is there: the header is not validated
\* again, but the tip and the reindex root are looked at once more.
InsertBody(block) ==
    /\ AddHeaderTip(index, ghostdag, block)
    /\ UNCHANGED <<parents, ghostdag>>

Next ==
    /\ ~index.failed
    /\ \/ /\ Links < MaxLinks
          /\ \E n \in 1..MaxBlockParents : \E blockParents \in kSubset(n, Blocks) : InsertHeader(blockParents)
       \/ \E block \in Blocks : InsertBody(block)

Spec == Init /\ [][Next]_vars

-----------------------------------------------------------------------------
(* Properties. *)

\* The blocks on the way from b down to the virtual genesis.
RECURSIVE SelectedChain(_)
SelectedChain(b) == IF b = VirtualGenesis THEN {b} ELSE {b} \cup SelectedChain(ghostdag[b].selectedParent)

RECURSIVE Past(_)
Past(b) == parents[b] \cup UNION {Past(p) : p \in parents[b]}

\* After any sequence of insertions, reindexings and moves of the reindex
\* root, the index answers every question of ancestry in the DAG and in the
\* selected-parent tree as the DAG itself does, and no insertion runs out of
\* interval space or loses its way in the tree.
IndexIsAncestry ==
    /\ ~index.failed
    /\ \A b \in DOMAIN parents :
          LET past == Past(b)
              ownChain == SelectedChain(b)
          IN  \A a \in DOMAIN parents :
                 /\ IsDAGAncestorOf(index, a, b) <=> a \in past \cup {b}
                 /\ IsReachabilityTreeAncestorOf(index, a, b) <=> a \in ownChain

\* A block merges what its past adds to the past of its selected parent, each
\* block once, in an order in which no block comes before its own past; its
\* blue score is the number of blues on its selected chain, none counted twice.
MergeSetsArePasts ==
    \A b \in Blocks \ {Genesis} :
        LET order == GetSortedMergeSet(ghostdag, b)
            sp == ghostdag[b].selectedParent
        IN  /\ ToSet(order) = (Past(b) \ Past(sp)) /\ Cardinality(ToSet(order)) = Len(order)
            /\ \A i \in 1..Len(order) : Past(order[i]) \cap ToSet(SubSeq(order, i + 1, Len(order))) = {}
            /\ ghostdag[b].blueScore =
                  Cardinality(UNION {ToSet(ghostdag[c].blues) : c \in SelectedChain(b)})

\* The headers selected tip is the heaviest header, and the chain store holds
\* exactly its selected chain, in both directions, also when a reorganisation
\* made the chain shorter.
ChainIsTipsChain ==
    LET blocks == SelectedChain(tip) \ {VirtualGenesis}
    IN  /\ \A b \in Blocks \ {tip} : Less(ghostdag, b, tip)
        /\ DOMAIN chain.byHash = blocks /\ DOMAIN chain.byIndex = 0..chain.highest
        /\ \A b \in blocks : /\ chain.byHash[b] = Cardinality(SelectedChain(b)) - 2
                             /\ chain.byIndex[chain.byHash[b]] = b
=============================================================================
