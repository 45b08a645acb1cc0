---------------------------- MODULE VirtualState ----------------------------
(***************************************************************************)
(* The consensus state manager: how blocks arriving in any order become    *)
(* UTXO-valid or disqualified, how the virtual block and the UTXO table    *)
(* follow them, and how every resolved block keeps a chain of UTXO diffs   *)
(* from which its past UTXO can be restored                                *)
(* (domain/consensus/processes/consensusstatemanager, and the entry points *)
(* of domain/consensus/consensus.go that drive it).                        *)
(*                                                                         *)
(* Blocks are numbered in selection order: ChooseSelectedParent of two     *)
(* blocks is the larger number.  The DAG is fixed in the initial state and *)
(* its blocks arrive in every order the header and body rules allow.  db   *)
(* is what the database holds; an action that commits a staging area       *)
(* replaces db in one step, so that the steps between two commits of one   *)
(* operation are separate actions, and a crash may come between them.      *)
(***************************************************************************)
EXTENDS UTXODiff, Integers, Sequences, FiniteSetsExt, Functions

CONSTANTS
    MaxBlock,           \* blocks are 0..MaxBlock, 0 is genesis
    DAGs,               \* the block DAGs considered
    MaxBlockParents,    \* maxBlockParents
    MergeSetSizeLimit,  \* mergeSetSizeLimit
    FinalityDepth,      \* finalityDepth
    MergeDepth,         \* mergeDepth
    MaxBlocksToResolve, \* chunk size of ResolveVirtual; 0 for no limit
    Coin,               \* an outpoint that is unspent at genesis
    Carries,            \* Carries[b]: the outpoint made by b's spend of Coin, or None
    MaxBad,             \* how many blocks may fail verifyUTXO on their own account
    MaxCrashes, MaxRepairs, \* bounds on crashes and on repairs
    SplitRelay          \* whether bodies may arrive with updateVirtual = FALSE

Block   == 0..MaxBlock
Genesis == 0

VARIABLES
    dag,            \* [parents, past, chain, view]: fixed after Init
    bad,            \* blocks that fail verifyUTXO on their own account
    db,             \* the committed database
    lastValidBlock, \* csm.lastValidBlock, or None
    violating,      \* csm.knownFinalityViolatingTips
    notUpdated,     \* consensus.virtualNotUpdated
    op,             \* the operation holding the consensus lock, between commits
    fault,          \* an operation returned an error that is not a rule error
    crashes, repairs,
    damaged         \* history: blocks were resolved off the root (ResolvesOffRoot)

memory == <<lastValidBlock, violating, notUpdated>>
vars == <<dag, bad, db, memory, op, fault, crashes, repairs, damaged>>

Unknown      == "Unknown"
HeaderOnly   == "HeaderOnly"
Pending      == "UTXOPendingVerification"
Valid        == "UTXOValid"
Disqualified == "DisqualifiedFromChain"
BlockStatus  == {Unknown, HeaderOnly, Pending, Valid, Disqualified}

Idle == [kind |-> "idle"]
Down == [kind |-> "down"]

-----------------------------------------------------------------------------
(* The DAG                                                                 *)

PastOf(d, ps) == ps \cup UNION {d.past[p] : p \in ps}

SelectedParent(b) == Max(dag.parents[b])

\* The selected parent chain of b, b included.
Chain(b) == dag.chain[b]

IsAncestorOf(a, b) == a = b \/ a \in dag.past[b]

\* The merge set of a block (or of virtual) with parents ps, without the
\* selected parent.
MergeSetIn(d, ps) == PastOf(d, ps) \ ({Max(ps)} \cup d.past[Max(ps)])

\* Blue score and DAA score of a block with parents ps: every merged block is
\* counted, the colouring being abstracted.
ScoreIn(d, ps) == Cardinality(PastOf(d, ps))

Score(b) == ScoreIn(dag, dag.parents[b])

\* The highest block of the selected chain at least depth below a block with
\* parents ps (calculateFinalityPoint, calculateMergeDepthRoot).
BlockAtDepth(d, ps, depth) ==
    Max({Genesis} \cup {c \in d.chain[Max(ps)] :
            ScoreIn(d, d.parents[c]) < ScoreIn(d, ps) - depth})

\* The merged blocks that lie outside the bounded merge: they lack the merge
\* depth root in their past and no merged block with the root on its chain
\* covers them.
BadRedsIn(d, ps) ==
    LET root == BlockAtDepth(d, ps, MergeDepth)
        ms   == MergeSetIn(d, ps)
    IN  {m \in ms : /\ root # m /\ root \notin d.past[m]
                    /\ \A k \in ms : root \in d.chain[k] => m \notin d.past[k]}

\* The header rules a block's parents obey: no parent in the past of another,
\* the parent limit, the merge set limit and the bounded merge rule.
LegalParents(d, ps) ==
    /\ ps # {} /\ Cardinality(ps) <= MaxBlockParents
    /\ \A p \in ps : ps \cap d.past[p] = {}
    /\ Cardinality(MergeSetIn(d, ps)) < MergeSetSizeLimit
    /\ BadRedsIn(d, ps) = {}

NewUTXOEntry(o, score) ==
    [value |-> CHOOSE v \in Value : TRUE, isCoinbase |-> o \in Block, daaScore |-> score]

\* applyMergeSetBlocks: the selected parent's coinbase is accepted, and so is
\* the spend of Coin of the first block in the merge order (selected parent
\* first, then ascending) that carries one, if Coin is still unspent.
AfterMerging(d, view, ps) ==
    LET sp       == Max(ps)
        score    == ScoreIn(d, ps)
        carriers == {m \in {sp} \cup MergeSetIn(d, ps) : Carries[m] # None}
        first    == IF sp \in carriers THEN sp ELSE Min(carriers)
        accepted == {sp} \cup IF carriers # {} /\ view[Coin] # None THEN {Carries[first]} ELSE {}
    IN  [o \in Outpoint |->
            IF o \in accepted THEN NewUTXOEntry(o, score)
            ELSE IF o = Coin /\ accepted # {sp} THEN None
            ELSE view[o]]

GenesisView == [o \in Outpoint |-> IF o = Coin THEN NewUTXOEntry(o, 0) ELSE None]

\* A DAG on the blocks that obeys the header rules, and whose selection order
\* respects the scores.  past[b] is the past of b, chain[b] its selected parent
\* chain with b itself, view[b] its past UTXO.
IsDAG(d) ==
    /\ d.parents \in [Block -> SUBSET Block]
    /\ d.past = [b \in Block |-> PastOf(d, d.parents[b])]
    /\ d.chain = [b \in Block |->
            IF b = Genesis THEN {b} ELSE {b} \cup d.chain[Max(d.parents[b])]]
    /\ d.view = [b \in Block |->
            IF b = Genesis THEN GenesisView
            ELSE AfterMerging(d, d.view[Max(d.parents[b])], d.parents[b])]
    /\ d.parents[Genesis] = {}
    /\ \A b \in Block \ {Genesis} :
          /\ d.parents[b] \subseteq 0..(b - 1)
          /\ LegalParents(d, d.parents[b])
          /\ ScoreIn(d, d.parents[b]) >= ScoreIn(d, d.parents[b - 1])

ASSUME VirtualAssumption ==
    /\ MaxBlock \in Nat /\ MaxBlockParents \in Nat \ {0, 1}
    /\ MergeSetSizeLimit \in Nat \ {0} /\ MaxBlocksToResolve \in Nat
    /\ FinalityDepth \in Nat \ {0} /\ MergeDepth \in Nat \ {0}
    /\ Outpoint = Block \cup {Coin} \cup ({Carries[b] : b \in Block} \ {None})
    /\ Value # {} /\ 0..(MaxBlock + 1) \subseteq DAAScore
    /\ None \notin Block /\ None \notin Diff
    /\ \A d \in DAGs : IsDAG(d)

-----------------------------------------------------------------------------
(* The UTXO diff store                                                     *)

VirtualSelectedParent(s) == Max(s.virtualParents)

Known(s) == {b \in Block : s.status[b] # Unknown}

Children(s, b) == {c \in Known(s) : b \in dag.parents[c]}

StageDiff(s, b, d, c) == [s EXCEPT !.diff[b] = d, !.child[b] = c]

Failed(s) == [s EXCEPT !.failed = TRUE]

\* The block without a diff child that the diff children lead to from each
\* block in at most n steps, or None.
DiffRoots(s) ==
    LET root[n \in Nat] ==
            [b \in Block |-> IF s.child[b] = None THEN b
                             ELSE IF n = 0 THEN None ELSE root[n - 1][s.child[b]]]
    IN  root

\* More steps than there are blocks would have run into a loop.
DiffRoot(s, b) == DiffRoots(s)[MaxBlock][b]

\* One composition of restorePastUTXO, with what may go wrong.
Compose(past, d) ==
    IF past = None \/ d = None THEN None
    ELSE IF WithDiffFails(past, d) THEN None
    ELSE WithDiff(past, d)

\* The diffs from each block along its diff children, composed from the far
\* end, when that is at most n steps away.
RestoredPasts(s) ==
    LET past[n \in Nat] ==
            [b \in Block |->
                Compose(IF s.child[b] = None THEN NewUTXODiff
                        ELSE IF n = 0 THEN None ELSE past[n - 1][s.child[b]], s.diff[b])]
    IN  past

\* restorePastUTXO.  None if the diff children run in a loop, a diff is
\* missing, or two diffs do not compose.
RestorePastUTXO(s, b) ==
    IF s.diff[b] = None THEN NewUTXODiff ELSE RestoredPasts(s)[MaxBlock][b]

\* CalculatePastUTXOAndAcceptanceData of a block with parents ps, from the
\* restored past of its selected parent.
PastUTXOOver(s, spPast, ps) ==
    DiffOf(s.table, AfterMerging(dag, Apply(s.table, spPast), ps))

Reroot(s, tip, root, tipPast, rootPast) ==
    IF tipPast = None \/ rootPast = None THEN Failed(s)
    ELSE IF DiffFromFails(tipPast, rootPast) THEN Failed(s)
    ELSE StageDiff(StageDiff(s, root, DiffFrom(tipPast, rootPast), tip), tip, tipPast, None)

RerootFrom(s, tip, root) ==
    Reroot(s, tip, root, RestorePastUTXO(s, tip), RestorePastUTXO(s, root))

\* stageSelectedTipDiffRelativeToVirtual: re-roots the diff chain at tip.
StageSelectedTipDiffRelativeToVirtual(s, tip) ==
    IF s.child[tip] = None THEN s
    ELSE IF DiffRoot(s, tip) = None THEN Failed(s)
    ELSE RerootFrom(s, tip, DiffRoot(s, tip))

\* Mutation: virtual's diff is not committed to the table.
UpdateVirtualWithParents_TableKept(s, ps) ==
    StageSelectedTipDiffRelativeToVirtual([s EXCEPT !.virtualParents = ps], Max(ps))

\* updateSelectedTipUTXODiff: virtual's own diff moves the table, and the
\* selected tip's diff is made relative to it.
UpdateSelectedTipUTXODiff(s, tip, virtualDiff) ==
    IF s.child[tip] # None \/ s.diff[tip] = None THEN Failed(s)
    ELSE IF DiffFromFails(virtualDiff, s.diff[tip]) THEN Failed(s)
    ELSE [StageDiff(s, tip, DiffFrom(virtualDiff, s.diff[tip]), None)
            EXCEPT !.table = Apply(s.table, virtualDiff)]

CommitVirtualDiff(s, tipPast, ps) ==
    IF s.failed \/ tipPast = None THEN Failed(s)
    ELSE UpdateSelectedTipUTXODiff(s, Max(ps), PastUTXOOver(s, tipPast, ps))

OverSelectedTip(s, ps) == CommitVirtualDiff(s, RestorePastUTXO(s, Max(ps)), ps)

\* updateVirtualWithParents
UpdateVirtualWithParents(s, ps) ==
    OverSelectedTip(
        StageSelectedTipDiffRelativeToVirtual([s EXCEPT !.virtualParents = ps], Max(ps)), ps)

-----------------------------------------------------------------------------
(* Resolving the status of a block                                         *)

\* getUnverifiedChainBlocks: the pending blocks of b's chain above the first
\* block whose status is settled.
UnverifiedChainBlocks(s, b) ==
    {c \in Chain(b) : /\ s.status[c] = Pending
                      /\ \A d \in Chain(b) : d > c => s.status[d] \in {Pending, HeaderOnly}}

VerifyUTXO(b, view) == b \notin bad /\ (Carries[b] # None => view[Coin] # None)

IsNewSelectedTip(b, oldSelectedTip) == b >= oldSelectedTip

\* Mutation: a block on a disqualified chain is judged by itself.
IsDisqualified_NotInherited(spStatus, b, view) == ~VerifyUTXO(b, view)

IsDisqualified(spStatus, b, view) == spStatus = Disqualified \/ ~VerifyUTXO(b, view)

\* Mutation: the old tip is not led through the new one.
StageNewSelectedTip_OldKept(s, b, past, old, oldPast) == StageDiff(s, b, past, None)

\* The resolved tip overcomes the selected tip: it takes the root, and the old
\* tip is led through it.
StageNewSelectedTip(s, b, past, old, oldPast) ==
    StageDiff(StageDiff(s, old, DiffFrom(past, oldPast), b), b, past, None)

\* In ResolveBlockStatus r carries the staging area, the previous block of the
\* chain (the selected parent) with its past and status, and the block before
\* that for the reversal.
Settle(r, b, past, s, status, fails) ==
    [s |-> [s EXCEPT !.status[b] = status, !.failed = s.failed \/ fails],
     block |-> b, past |-> past, status |-> status,
     before |-> [block |-> r.block, past |-> r.past]]

\* The block is staged on its selected parent.
SettleOnSelectedParent(r, b, past, status) ==
    Settle(r, b, past, StageDiff(r.s, b, DiffFrom(r.past, past), r.block), status,
           DiffFromFails(r.past, past))

\* The resolved tip becomes the root, or is staged on the selected tip.
SettleResolveTip(r, b, past, old, oldPast) ==
    IF oldPast = None THEN Settle(r, b, past, r.s, Valid, TRUE)
    ELSE IF IsNewSelectedTip(b, old)
    THEN Settle(r, b, past, StageNewSelectedTip(r.s, b, past, old, oldPast), Valid,
                DiffFromFails(past, oldPast))
    ELSE Settle(r, b, past, StageDiff(r.s, b, DiffFrom(oldPast, past), old), Valid,
                DiffFromFails(oldPast, past))

SettleWithPast(r, b, past, isResolveTip) ==
    IF IsDisqualified(r.status, b, Apply(r.s.table, past))
    THEN SettleOnSelectedParent(r, b, past, Disqualified)
    ELSE IF ~isResolveTip THEN SettleOnSelectedParent(r, b, past, Valid)
    ELSE SettleResolveTip(r, b, past, VirtualSelectedParent(r.s),
                          RestorePastUTXO(r.s, VirtualSelectedParent(r.s)))

\* resolveSingleBlockStatus
ResolveSingleBlockStatus(r, b, isResolveTip) ==
    IF r.s.failed THEN r
    ELSE SettleWithPast(r, b, PastUTXOOver(r.s, r.past, dag.parents[b]), isResolveTip)

\* The end of ResolveBlockStatus: after a chain of several blocks, what
\* ReverseUTXODiffs needs.
WithReversal(r) ==
    [s        |-> [r.s EXCEPT !.failed = DiffFromFails(r.past, r.before.past)],
     status   |-> r.status,
     reversal |-> [block |-> r.before.block, diff |-> DiffFrom(r.past, r.before.past)]]

Resolved(r, length) ==
    IF ~r.s.failed /\ r.status = Valid /\ length > 1 THEN WithReversal(r)
    ELSE [s |-> r.s, status |-> r.status, reversal |-> None]

\* The state of ResolveBlockStatus at the selected parent of the first block.
AtSelectedParent(s, sp, past) ==
    [s |-> [s EXCEPT !.failed = past = None \/ s.status[sp] \notin {Valid, Disqualified}],
     block |-> sp, past |-> past, status |-> s.status[sp], before |-> None]

ResolveIfUnverified(r, c, todo, b) ==
    IF c \in todo THEN ResolveSingleBlockStatus(r, c, c = b) ELSE r

\* The unverified blocks are resolved from past to present.
ResolveRun(start, todo, b) ==
    LET run[n \in Nat] ==
            IF n = 0 THEN start ELSE ResolveIfUnverified(run[n - 1], n, todo, b)
    IN  run

ResolveChain(s, b, todo, sp) ==
    Resolved(ResolveRun(AtSelectedParent(s, sp, RestorePastUTXO(s, sp)), todo, b)[MaxBlock],
             Cardinality(todo))

ResolveBlocks(s, b, todo) ==
    IF todo = {} THEN [s |-> s, status |-> s.status[b], reversal |-> None]
    ELSE ResolveChain(s, b, todo, SelectedParent(Min(todo)))

\* ResolveBlockStatus: resolves the unverified chain of b from past to present.
ResolveBlockStatus(s, b) == ResolveBlocks(s, b, UnverifiedChainBlocks(s, b))

\* Blocks are resolved while virtual's selected parent, which the code takes for
\* the root of the diff children and leads through the resolved tip, is not the
\* root: the real root stays one.
ResolvesOffRoot(s, b) ==
    UnverifiedChainBlocks(s, b) # {} /\ s.child[VirtualSelectedParent(s)] # None

-----------------------------------------------------------------------------
(* Tips                                                                    *)

HasValidOrPendingChild(s, b) == \E c \in Children(s, b) : s.status[c] \in {Valid, Pending}

\* appendAncestorsCoveredOnlyByDisqualified: from the disqualified tips down
\* through disqualified blocks, the valid or pending blocks that no valid or
\* pending child covers.
AncestorsCoveredOnlyByDisqualified(s, kept, disqualifiedTips) ==
    LET Uncovered(S) == {p \in UNION {dag.parents[b] : b \in S} \ (kept \cup disqualifiedTips) :
                            ~HasValidOrPendingChild(s, p)}
        walk[n \in Nat] ==
            IF n = 0 THEN disqualifiedTips
            ELSE walk[n - 1] \cup {p \in Uncovered(walk[n - 1]) : s.status[p] = Disqualified}
    IN  {p \in Block : p \in Uncovered(walk[MaxBlock]) /\ s.status[p] \in {Valid, Pending}}

DropTipsInPastOfOtherTips(T) == {t \in T : \A u \in T : t \notin dag.past[u]}

\* resolveCandidateTips, and the tail of calculateNewTips.
UsableTips(s, T) ==
    LET disqualified == {t \in T : s.status[t] = Disqualified}
        kept         == T \ disqualified
    IN  DropTipsInPastOfOtherTips(
            kept \cup AncestorsCoveredOnlyByDisqualified(s, kept, disqualified))

ResolveCandidateTips(s) == UsableTips(s, s.tips)

CalculateNewTips(s, b) == UsableTips(s, {b} \cup (s.tips \ dag.parents[b]))

-----------------------------------------------------------------------------
(* Finality and virtual's parents                                          *)

VirtualFinalityPoint(s) == BlockAtDepth(dag, s.virtualParents, FinalityDepth)

\* Mutation: finality is not enforced.
IsViolatingFinality_Never(s, b) == FALSE

IsViolatingFinality(s, b) == b # Genesis /\ VirtualFinalityPoint(s) \notin Chain(b)

\* The children of p that count in selectVirtualSelectedParent.
RelevantChildren(s, p) == {k \in Children(s, p) : s.status[k] \notin {HeaderOnly, Pending}}

\* What a popped candidate c is replaced by: a pending block by its parents, a
\* disqualified one by the parents whose settled children were all disqualified
\* here.
PushedFor(s, c, disqualified) ==
    IF s.status[c] # Disqualified THEN dag.parents[c]
    ELSE {p \in dag.parents[c] :
            Cardinality({k \in disqualified \cup {c} : p \in dag.parents[k]})
                >= Cardinality(RelevantChildren(s, p))}

\* The heap is popped from the heaviest block down: c is the next block, and is
\* popped if it is a candidate.
PopCandidate(s, select, c) ==
    IF select.sp # None \/ c \notin select.heap THEN select
    ELSE IF s.status[c] = Valid THEN [select EXCEPT !.sp = c, !.heap = @ \ {c}]
    ELSE [sp           |-> None,
          heap         |-> (select.heap \ {c}) \cup PushedFor(s, c, select.disqualified),
          disqualified |-> IF s.status[c] = Disqualified THEN select.disqualified \cup {c}
                           ELSE select.disqualified]

\* selectVirtualSelectedParent: takes the heaviest candidate until it is
\* UTXO-valid; heap is what is left.
SelectRun(s, T) ==
    LET select[n \in Nat] ==
            IF n = 0 THEN [sp |-> None, heap |-> T, disqualified |-> {}]
            ELSE PopCandidate(s, select[n - 1], MaxBlock - (n - 1))
    IN  select

SelectVirtualSelectedParent(s, T) == SelectRun(s, T)[MaxBlock + 1]

\* A set of blocks as a sequence, heaviest first.
Descending(S) ==
    LET seq[n \in Nat] ==
            IF n = 0 THEN <<>>
            ELSE IF n - 1 \in S THEN <<n - 1>> \o seq[n - 1] ELSE seq[n - 1]
    IN  seq

HeaviestFirst(S) == Descending(S)[MaxBlock + 1]

Swapped(seq, i, j) == [seq EXCEPT ![i] = seq[j], ![j] = seq[i]]

\* Half of the candidates with most work and half with least.
Interleaving(candidates, half) ==
    LET swapped[n \in 0..(MaxBlockParents - 1 - half)] ==
            IF n = 0 THEN candidates
            ELSE Swapped(swapped[n - 1], half + n, Len(candidates) - (n - 1))
    IN  swapped

Interleaved(candidates) ==
    LET half == (MaxBlockParents - 1) \div 2
    IN  IF Len(candidates) < MaxBlockParents THEN candidates
        ELSE Interleaving(candidates, half)[MaxBlockParents - 1 - half]

\* One block of mergeSetIncrease's queue: skipped in the past of the selected
\* parents, else counted, and the search ends with it if that is over the limit.
VisitQueue(w, past, size) ==
    IF w.queue = <<>> \/ w.over # None THEN w
    ELSE IF Head(w.queue) \in past THEN [w EXCEPT !.queue = Tail(@)]
    ELSE IF size + w.increase + 1 > MergeSetSizeLimit THEN [w EXCEPT !.over = Head(w.queue)]
    ELSE [queue    |-> Tail(w.queue) \o HeaviestFirst(dag.parents[Head(w.queue)] \ w.visited),
          visited  |-> w.visited \cup dag.parents[Head(w.queue)],
          increase |-> w.increase + 1,
          over     |-> None]

MergeSetRun(c, past, size) ==
    LET walk[n \in Nat] ==
            IF n = 0 THEN [queue    |-> HeaviestFirst(dag.parents[c]),
                           visited  |-> dag.parents[c],
                           increase |-> 1,
                           over     |-> None]
            ELSE VisitQueue(walk[n - 1], past, size)
    IN  walk

\* Mutation: the merge set limit is not enforced on a candidate.
MergeSetIncrease_NoLimit(c, past, size) == [increase |-> 0, over |-> None]

\* mergeSetIncrease: how much c adds to the merge set, or over, the block of its
\* past with which that passes the limit.  Every block is queued at most once.
MergeSetIncrease(c, past, size) == MergeSetRun(c, past, size)[MaxBlock + 1]

\* removeHashesInFutureOf, for the first n of the candidates.
NotInFutureOf(candidates, ancestor) ==
    LET kept[n \in 0..Len(candidates)] ==
            IF n = 0 THEN <<>>
            ELSE IF IsAncestorOf(ancestor, candidates[n]) THEN kept[n - 1]
            ELSE Append(kept[n - 1], candidates[n])
    IN  kept

\* A candidate that adds too much is replaced by the block in its past, unless
\* that one has a candidate in its own past; candidates in its future go.
ReplaceCandidate(e, rest, ancestor) ==
    IF \E r \in Range(rest) : IsAncestorOf(r, ancestor) THEN [e EXCEPT !.candidates = rest]
    ELSE [e EXCEPT !.candidates = Append(NotInFutureOf(rest, ancestor)[Len(rest)], ancestor)]

ConsiderIncrease(e, c, rest, m) ==
    IF m.over = None
    THEN [candidates |-> rest, selected |-> e.selected \cup {c}, size |-> e.size + m.increase]
    ELSE ReplaceCandidate(e, rest, m.over)

ConsiderCandidate(e, c, rest, past) ==
    IF c \in past THEN [e EXCEPT !.candidates = rest]
    ELSE ConsiderIncrease(e, c, rest, MergeSetIncrease(c, past, e.size))

\* One turn of the candidate loop of pickVirtualParents.
ExtendOnce(e) ==
    IF e.size >= MergeSetSizeLimit \/ e.candidates = <<>>
        \/ Cardinality(e.selected) >= MaxBlockParents
    THEN e
    ELSE ConsiderCandidate(e, Head(e.candidates), Tail(e.candidates), PastOf(dag, e.selected))

ExtendRun(candidates, sp) ==
    LET extend[n \in Nat] ==
            IF n = 0 THEN [candidates |-> candidates, selected |-> {sp}, size |-> 1]
            ELSE ExtendOnce(extend[n - 1])
    IN  extend

\* A candidate is replaced by ever lighter blocks, so that this many turns
\* exhaust them.
ExtendVirtualParents(candidates, sp) ==
    ExtendRun(candidates, sp)[(MaxBlock + 1) * (MaxBlock + 1)].selected

CandidateParents(heap) ==
    LET ordered == HeaviestFirst(heap)
    IN  Interleaved(IF Len(ordered) <= 3 * MaxBlockParents THEN ordered
                    ELSE SubSeq(ordered, 1, 3 * MaxBlockParents))

\* boundedMergeBreakingParents, which leaves the parents it was given staged
\* as virtual's.
WithoutBreakingParents(s, selected, badReds) ==
    IF selected = s.virtualParents THEN [parents |-> selected, written |-> selected]
    ELSE [parents |-> {p \in selected : \A m \in badReds : ~IsAncestorOf(m, p)},
          written |-> selected]

ParentsFrom(select) ==
    IF select.sp = None THEN {}
    ELSE ExtendVirtualParents(CandidateParents(select.heap), select.sp)

BoundedParents(s, selected) ==
    IF selected = {} THEN [parents |-> {}, written |-> s.virtualParents]
    ELSE WithoutBreakingParents(s, selected, BadRedsIn(dag, selected))

\* pickVirtualParents.  parents is the result, written what is left staged.
PickVirtualParents(s, T) ==
    BoundedParents(s, ParentsFrom(SelectVirtualSelectedParent(s, T)))

\* virtual has no valid parent candidates, or moves to the parents.
MoveVirtualTo(s, ps) == IF ps = {} THEN Failed(s) ELSE UpdateVirtualWithParents(s, ps)

UpdateVirtualTo(s, pick) ==
    IF pick.parents = s.virtualParents THEN [s EXCEPT !.virtualParents = pick.written]
    ELSE MoveVirtualTo(s, pick.parents)

\* updateVirtual of AddBlock: nothing is rebuilt when the parent set is the
\* previous one, but what the bounded merge check staged is committed.
UpdateVirtual(s, T) == UpdateVirtualTo(s, PickVirtualParents(s, T))

-----------------------------------------------------------------------------
(* Initial state: genesis is inserted and resolved, virtual merges it       *)

InitialDB ==
    LET table == AfterMerging(dag, GenesisView, {Genesis})
    IN  [status         |-> [b \in Block |-> IF b = Genesis THEN Valid ELSE Unknown],
         headersTip     |-> Genesis,
         tips           |-> {Genesis},
         virtualParents |-> {Genesis},
         table          |-> table,
         diff           |-> [b \in Block |-> IF b = Genesis THEN DiffOf(table, GenesisView) ELSE None],
         child          |-> [b \in Block |-> None],
         failed         |-> FALSE]

Init ==
    /\ dag \in DAGs
    /\ bad \in {S \in SUBSET (Block \ {Genesis}) : Cardinality(S) <= MaxBad}
    /\ db = InitialDB
    /\ lastValidBlock = None
    /\ violating = {}
    /\ notUpdated = FALSE
    /\ op = Idle
    /\ fault = FALSE
    /\ crashes = 0
    /\ repairs = 0
    /\ damaged = FALSE

\* Commits the staging area s and goes on with next, or gives up with an error.
Commit(s, next) ==
    IF s.failed
    THEN fault' = TRUE /\ op' = Idle /\ UNCHANGED db
    ELSE db' = s /\ op' = next /\ UNCHANGED fault

\* The first step of ReverseUTXODiffs below tip, if there is anything to
\* reverse; then is what the operation does afterwards.
Reversal(tip, reversal, then) ==
    IF reversal = None THEN then
    ELSE [kind |-> "reverse", block |-> reversal.block, diff |-> reversal.diff,
          child |-> tip, first |-> TRUE, then |-> then]

-----------------------------------------------------------------------------
(* Blocks arrive                                                           *)

WithBlock(b, status) ==
    [db EXCEPT !.status[b] = status, !.headersTip = Max({@, b})]

\* A header whose parents are known, ahead of its body.
InsertHeader(b) ==
    /\ op = Idle /\ ~fault /\ SplitRelay
    /\ db.status[b] = Unknown
    /\ \A p \in dag.parents[b] : db.status[p] # Unknown
    /\ Commit(WithBlock(b, HeaderOnly), Idle)
    /\ UNCHANGED <<dag, bad, memory, crashes, repairs, damaged>>

\* calculateNewTips, with what it falls back to when no tip is left.
NewTips(s, b, lastValid) ==
    LET tips == CalculateNewTips(s, b)
        valid == {v \in Block : s.status[v] = Valid /\ Score(v) > 0}
    IN  IF tips # {} THEN tips
        ELSE IF lastValid # None THEN {lastValid}
        ELSE IF valid = {} THEN {}
        ELSE {CHOOSE v \in valid : \A w \in valid : Score(v) >= Score(w)}

WithTips(s, newTips) == [s EXCEPT !.tips = newTips, !.failed = @ \/ newTips = {}]

FollowTips(s, updateVirtual) ==
    IF updateVirtual /\ ~s.failed THEN UpdateVirtual(s, s.tips) ELSE s

\* AddBlock, up to the commit, from the resolved status of the block.
AddResolvedBlock(b, updateVirtual, resolved, lastValid) ==
    /\ Commit(FollowTips(WithTips(resolved.s, NewTips(resolved.s, b, lastValid)), updateVirtual),
              Reversal(b, resolved.reversal, Idle))
    /\ lastValidBlock' = lastValid

\* AddBlock.  Only a block that can win virtual's selected parent, without
\* violating finality, is resolved.
AddBlock(b, updateVirtual, arrived) ==
    LET candidate == /\ updateVirtual
                     /\ b >= VirtualSelectedParent(arrived)
                     /\ ~IsViolatingFinality(arrived, b)
        Add(resolved) ==
            AddResolvedBlock(b, updateVirtual, resolved,
                             IF resolved.status = Valid THEN b ELSE lastValidBlock)
    IN  /\ Add(IF candidate THEN ResolveBlockStatus(arrived, b)
               ELSE [s |-> arrived, status |-> Pending, reversal |-> None])
        /\ damaged' = (damaged \/ (candidate /\ ResolvesOffRoot(arrived, b)))

\* ValidateAndInsertBlock of a block with its body.  With updateVirtual the
\* virtual has been drained first (virtualNotUpdated is false); without it the
\* block only joins the tips.
InsertBlock(b, updateVirtual) ==
    /\ op = Idle /\ ~fault
    /\ db.status[b] \in {Unknown, HeaderOnly}
    /\ \A p \in dag.parents[b] : db.status[p] \notin {Unknown, HeaderOnly}
    /\ IF updateVirtual THEN ~notUpdated ELSE SplitRelay
    /\ AddBlock(b, updateVirtual, WithBlock(b, Pending))
    /\ notUpdated' = (notUpdated \/ ~updateVirtual)
    /\ UNCHANGED <<dag, bad, violating, crashes, repairs>>

-----------------------------------------------------------------------------
(* ResolveVirtual, one chunk at a time                                     *)

\* The tips findNextPendingTip may return, heaviest first.
ResolvableTips ==
    {t \in ResolveCandidateTips(db) \ violating :
        ~IsViolatingFinality(db, t) /\ db.status[t] \in {Valid, Pending}}

\* The headers selected chain, when no tip will do.
HeadersChainTip ==
    Max({Genesis} \cup {c \in Chain(db.headersTip) : db.status[c] \in {Valid, Pending}})

\* Mutation: the lightest tip first.
NextPendingTip_Lightest(usable) == IF usable # {} THEN Min(usable) ELSE HeadersChainTip

\* findNextPendingTip, from the tips it may return.
NextPendingTip(usable) == IF usable # {} THEN Max(usable) ELSE HeadersChainTip

\* The tips findNextPendingTip meets on its way and caches as violating finality.
NewlyViolating(usable) ==
    {t \in ResolveCandidateTips(db) \ violating :
        IsViolatingFinality(db, t) /\ \A u \in usable : t > u}

\* The block up to which one chunk resolves the pending chain: the chunk'th
\* unverified block, or the first above it that wins the selected parent.
ProcessingPoint(tip) ==
    LET todo    == UnverifiedChainBlocks(db, tip)
        Rank(b) == Cardinality({c \in todo : c <= b})
        usable  == {b \in todo : /\ Rank(b) >= MaxBlocksToResolve
                                 /\ IsNewSelectedTip(b, VirtualSelectedParent(db))}
    IN  IF MaxBlocksToResolve = 0 \/ Cardinality(todo) <= MaxBlocksToResolve \/ usable = {}
        THEN tip
        ELSE Min(usable)

\* A chunk is done at once when virtual already stands on the pending tip, or
\* on a valid block the pending tip does not overcome.
IsDone(tip, old) ==
    \/ tip = old /\ db.status[tip] = Valid /\ db.headersTip = tip
    \/ ~IsNewSelectedTip(tip, old) /\ db.status[old] = Valid

CommitResolved(tip, point, resolved) ==
    Commit(resolved.s, Reversal(point, resolved.reversal,
                                [kind |-> "update", tip |-> tip, point |-> point]))

ResolveUpTo(tip, point) ==
    /\ CommitResolved(tip, point, ResolveBlockStatus(db, point))
    /\ damaged' = (damaged \/ ResolvesOffRoot(db, point))

ResolveTip(tip) ==
    \/ /\ IsDone(tip, VirtualSelectedParent(db))
       /\ notUpdated' = FALSE /\ UNCHANGED <<db, op, fault, damaged>>
    \/ /\ ~IsDone(tip, VirtualSelectedParent(db))
       /\ ResolveUpTo(tip, ProcessingPoint(tip)) /\ UNCHANGED notUpdated

ResolveNext(usable) ==
    /\ violating' = violating \cup NewlyViolating(usable)
    /\ ResolveTip(NextPendingTip(usable))

\* One chunk of ResolveVirtual, up to the commit of the resolved statuses.
ResolveVirtualChunk ==
    /\ op = Idle /\ ~fault
    /\ ResolveNext(ResolvableTips)
    /\ UNCHANGED <<dag, bad, lastValidBlock, crashes, repairs>>

\* Mutation: the diff kept for the next block is not reversed.
ReverseUTXODiff_NotReversed ==
    /\ op.kind = "reverse" /\ ~fault
    /\ Commit(StageDiff(db, op.block, op.diff, op.child),
              IF ~op.first THEN op.then
              ELSE [op EXCEPT !.block = SelectedParent(op.block), !.diff = db.diff[op.block],
                              !.child = op.block, !.first = FALSE])
    /\ UNCHANGED <<dag, bad, memory, crashes, repairs, damaged>>

\* One commit of ReverseUTXODiffs: the diff of op.block is replaced by the one
\* through op.child, and the diff it had serves, reversed, for the block's
\* selected parent, until a block is reached whose diff child is another.
ReverseUTXODiff ==
    LET b    == op.block
        stop == ~op.first /\ (db.child[b] = None \/ b = Genesis \/ db.child[b] # SelectedParent(b))
    IN  /\ op.kind = "reverse" /\ ~fault
        /\ IF db.diff[b] = None
           THEN Commit([db EXCEPT !.failed = TRUE], Idle)
           ELSE Commit(StageDiff(db, b, op.diff, op.child),
                       IF stop THEN op.then
                       ELSE [op EXCEPT !.block = SelectedParent(b), !.diff = Reversed(db.diff[b]),
                                       !.child = b, !.first = FALSE])
        /\ UNCHANGED <<dag, bad, memory, crashes, repairs, damaged>>

\* Mutation: virtual is up to date only at the headers selected tip.
IsCompletelyResolved_AtHeadersTip ==
    op.point = op.tip /\ db.status[op.point] = Valid /\ op.tip = db.headersTip

\* The pending tip is resolved and valid.
IsCompletelyResolved == op.point = op.tip /\ db.status[op.point] = Valid

MoveToPicked(s) ==
    MoveVirtualTo(s,
        PickVirtualParents(s, {op.tip} \cup {t \in s.tips : t < op.tip}).parents)

CommitMove(staged, complete) ==
    /\ Commit(staged, Idle)
    /\ notUpdated' = IF staged.failed THEN notUpdated ELSE ~complete

\* The second half of a ResolveVirtual chunk: virtual moves to the processing
\* point, or, when the pending tip is resolved and valid, to parents picked
\* from it and the lighter tips.
UpdateVirtualAfterResolve ==
    /\ op.kind = "update" /\ ~fault
    /\ CommitMove(IF IsCompletelyResolved
                  THEN MoveToPicked([db EXCEPT !.tips = ResolveCandidateTips(db)])
                  ELSE UpdateVirtualWithParents(db, {op.point}),
                  IsCompletelyResolved)
    /\ UNCHANGED <<dag, bad, lastValidBlock, violating, crashes, repairs, damaged>>

-----------------------------------------------------------------------------
(* Crashes, restarts and repairs                                           *)

\* The process stops between two commits; what was in memory is lost.
Crash ==
    /\ crashes < MaxCrashes /\ op # Down /\ ~fault
    /\ op' = Down /\ crashes' = crashes + 1
    /\ lastValidBlock' = None /\ violating' = {} /\ notUpdated' = TRUE
    /\ UNCHANGED <<dag, bad, db, fault, repairs, damaged>>

\* consensus.Init.  A virtual of two or more parents that an older version
\* coloured with K = 0 is recomputed.
Restart ==
    /\ op = Down
    /\ \/ Commit(db, Idle)
       \/ /\ Cardinality(db.virtualParents) >= 2
          /\ Commit(MoveVirtualTo(db,
                        PickVirtualParents(db, ResolveCandidateTips(db)).parents), Idle)
    /\ UNCHANGED <<dag, bad, memory, crashes, repairs, damaged>>

\* Mutation: the reset blocks become valid at once.
RepairDisqualifiedTipChains_ToValid ==
    LET reset == {b \in db.tips : db.status[b] = Disqualified}
    IN  /\ op = Idle /\ ~fault /\ repairs < MaxRepairs /\ reset # {}
        /\ Commit([db EXCEPT !.status = [b \in Block |-> IF b \in reset THEN Valid ELSE @[b]]], Idle)
        /\ repairs' = repairs + 1
        /\ UNCHANGED <<dag, bad, memory, crashes, damaged>>

\* RepairDisqualifiedTipChains: from every disqualified tip down its selected
\* chain, disqualified blocks become pending again.
RepairDisqualifiedTipChains ==
    LET reset == {b \in Block : \E t \in db.tips : b \in Chain(t)
                    /\ \A c \in Chain(t) : c >= b => db.status[c] = Disqualified}
    IN  /\ op = Idle /\ ~fault /\ repairs < MaxRepairs /\ reset # {}
        /\ Commit([db EXCEPT !.status = [b \in Block |-> IF b \in reset THEN Pending ELSE @[b]]], Idle)
        /\ repairs' = repairs + 1
        /\ UNCHANGED <<dag, bad, memory, crashes, damaged>>

Resolve == ResolveVirtualChunk \/ ReverseUTXODiff \/ UpdateVirtualAfterResolve

Next ==
    \/ \E b \in Block : InsertHeader(b)
    \/ \E b \in Block, updateVirtual \in BOOLEAN : InsertBlock(b, updateVirtual)
    \/ ResolveVirtualChunk \/ ReverseUTXODiff \/ UpdateVirtualAfterResolve
    \/ Crash \/ Restart \/ RepairDisqualifiedTipChains

Spec == Init /\ [][Next]_vars

\* When a step of Resolve or Restart is possible that changes something.
CanResolve == ~fault /\ (op.kind \in {"reverse", "update"} \/ (op = Idle /\ notUpdated))

\* A running node keeps resolving: ResolveVirtual loops until it is done, and
\* so do the two places that drain virtual; a stopped node is started again.
\* This is weak fairness with the enabling condition written out.
FairSpec ==
    /\ Spec
    /\ <>[]CanResolve => []<><<Resolve>>_vars
    /\ <>[](op = Down) => []<><<Restart>>_vars

-----------------------------------------------------------------------------
(* Properties                                                              *)

TypeOK ==
    /\ db.status \in [Block -> BlockStatus]
    /\ db.headersTip \in Block
    /\ db.tips \in (SUBSET Block) \ {{}}
    /\ db.virtualParents \in (SUBSET Block) \ {{}}
    /\ db.table \in [Outpoint -> Entry \cup {None}]
    /\ \A b \in Block : db.diff[b] # None => DOMAIN db.diff[b] = {"toAdd", "toRemove"}
    /\ db.child \in [Block -> Block \cup {None}]
    /\ lastValidBlock \in Block \cup {None}
    /\ violating \subseteq Block
    /\ notUpdated \in BOOLEAN /\ fault \in BOOLEAN

\* Whether b is valid, whatever the order the node learned of it: no block on
\* its selected chain fails verification against its true past.
TrulyValid(b) ==
    \A c \in Chain(b) : VerifyUTXO(c, dag.view[c])

\* "there's a restore path to all blocks at all times": after every commit,
\* also in the middle of an operation, every resolved block has a diff, and
\* restoring its past gives the UTXO set of its past.
PastIsRestorable ==
    \A b \in Block :
        /\ db.status[b] \in {Valid, Disqualified} => db.diff[b] # None
        /\ db.diff[b] # None =>
              LET past == RestorePastUTXO(db, b)
              IN  past # None /\ Apply(db.table, past) = dag.view[b]

\* Nothing was resolved off the root, and no disqualified chain was reset.  A
\* crash alone does not end this; resolving after a crash inside a chunk may.
Whole == ~damaged /\ repairs = 0

\* Every past stays restorable through crashes at any commit, up to the first
\* block that is resolved off the root.
RestorableWhileWhole == Whole => PastIsRestorable

\* "exactly one block, virtual's selected parent, has a UTXO diff with no diff
\* child": when an operation is over, as long as the node has not crashed and no
\* disqualified chain was reset.
SelectedParentIsOnlyRoot ==
    crashes = 0 /\ repairs = 0 /\ ~fault /\ op = Idle =>
        \A b \in Block : db.diff[b] # None /\ db.child[b] = None <=> b = VirtualSelectedParent(db)

\* The UTXO table is the past of virtual, for the parents virtual is stored with.
TableIsVirtualPast ==
    db.table = AfterMerging(dag, dag.view[VirtualSelectedParent(db)], db.virtualParents)

\* A block is UTXO-valid or disqualified exactly as its chain deserves,
\* whatever the order of arrival, of resolving and of reorganisations.
VerdictsAreRight ==
    \A b \in Block : /\ db.status[b] = Valid => TrulyValid(b)
                     /\ db.status[b] = Disqualified => ~TrulyValid(b)

\* A block mined on virtual passes the header rules once virtual is resolved.
VirtualIsMineable ==
    op = Idle /\ ~notUpdated => LegalParents(dag, db.virtualParents)

\* A resolved virtual stands on the heaviest valid chain: a heavier block with
\* a body has an invalid chain or violates finality.
VirtualIsHeaviest ==
    op = Idle /\ ~notUpdated =>
        /\ db.status[VirtualSelectedParent(db)] = Valid
        /\ \A b \in Block : db.status[b] \in {Pending, Valid} /\ b > VirtualSelectedParent(db) =>
              ~TrulyValid(b) \/ IsViolatingFinality(db, b)

\* Finality: once virtual stands on a valid block, it never moves to a chain
\* that does not go through the finality point it had.
NoReorgPastFinality ==
    [][db.status[VirtualSelectedParent(db)] = Valid =>
          VirtualFinalityPoint(db) \in Chain(VirtualSelectedParent(db)')]_vars

\* The refinement mapping to the abstract specification.
VirtualPast(d, ps) == AfterMerging(d, d.view[Max(ps)], ps)

Verdict(status) ==
    IF status = Valid THEN "valid" ELSE IF status = Disqualified THEN "invalid" ELSE "open"

Abstract ==
    INSTANCE ConsensusState
        WITH PastUTXO  <- VirtualPast,
             deserving <- {b \in Block : TrulyValid(b)},
             verdict   <- [b \in Block |-> Verdict(db.status[b])],
             parents   <- db.virtualParents,
             utxo      <- db.table

\* Readers of virtual see the abstract consensus state: right and final
\* verdicts, and a UTXO set that moves in one step with virtual's parents,
\* through every commit, reorganisation, crash and restart.
ImplementsConsensusState == Abstract!Spec

\* No merge of virtual is too deep, so that no parents are picked and dropped.
MergesShallow == BadRedsIn(dag, db.virtualParents) = {}

\* Readers of virtual see the abstract consensus state as long as nothing was
\* resolved off the root and no disqualified chain was reset.
ImplementsWhileWhole ==
    Abstract!Init /\ [][Whole' /\ MergesShallow' => Abstract!Next]_(Abstract!vars)

\* Virtual is eventually brought up to date, also when the node stopped inside a
\* chunk of a backlog.
VirtualIsDrained == notUpdated ~> ~notUpdated
=============================================================================
