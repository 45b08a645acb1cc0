----------------------------- MODULE BlockFlows -----------------------------
(***************************************************************************)
(* The flows that add blocks (app/protocol: handleRelayInvsFlow of every   *)
(* peer, and FlowContext.AddBlock for blocks submitted over RPC) and what  *)
(* they share: the set of requested blocks, the orphan blocks, the cached  *)
(* block template and the queue of disqualified blocks of the mining       *)
(* manager.                                                                *)
(*                                                                         *)
(* Consensus is what the flows see of it: the status of each block, and    *)
(* virtual's parents.  An insertion holds the consensus lock from its      *)
(* first step to its commit, and reports every block it disqualifies in    *)
(* between; statuses are read without that lock.                           *)
(*                                                                         *)
(* The mempool is the set taken of blocks whose transactions it gave up,   *)
(* kept for the blocks whose transactions may have to come back.           *)
(***************************************************************************)
EXTENDS Integers, FiniteSets, Sequences, Functions

CONSTANTS
    Block, NoBlock,
    Parents,                      \* [Block -> SUBSET Block], without genesis
    Invalid,                      \* blocks that validation may find to break a rule
    Unmergeable,                  \* blocks that verification disqualifies
    Peer, RPC,                    \* the peers' flows, and those of RPC calls; one
                                  \* in both sets is now this, now that
    NoFlow, NoTemplate,
    MaxOrphans,
    MaxQueuedDisqualifiedBlocks,
    MaxInvs                       \* bound: the invs a peer has under way

Flow == Peer \cup RPC

ASSUME BlockFlowsAssumption ==
    /\ IsFiniteSet(Block) /\ NoBlock \notin Block /\ NoFlow \notin Flow
    /\ \A b \in Block : Parents[b] \subseteq Block \ {b}
    /\ Invalid \subseteq Block /\ Unmergeable \subseteq Block
    /\ MaxOrphans \in Nat /\ MaxQueuedDisqualifiedBlocks \in Nat /\ MaxInvs \in Nat

VARIABLES
    status,          \* "missing", "accepted", "disqualified" or "invalid"
    virtualParents,
    insertion,       \* the block insertion that holds the consensus lock
    requested,       \* sharedRequestedBlocks
    orphans,
    orphansMutex,    \* the flow in UnorphanBlocks
    queue,           \* disqualifiedBlocks of the mining manager
    taken,           \* unmergeable blocks whose transactions the mempool gave up
    builder,         \* the GetBlockTemplate call that holds cacheLock
    cached,          \* cachedBlockTemplate, named by the parents it builds on
    flow,            \* the state of each flow
    quiet            \* history: virtual's last move calls for no new template

consensusVars == <<status, virtualParents, insertion>>
managerVars == <<queue, taken, builder, cached, quiet>>
vars == <<consensusVars, requested, orphans, orphansMutex, managerVars, flow>>

Waiting ==
    [pc |-> "idle",
     invs |-> <<>>,               \* invsQueue and invChan
     block |-> NoBlock,           \* the block being fetched, added or handled
     old |-> {},                  \* oldVirtualInfo
     children |-> {},             \* processQueue of UnorphanBlocks
     new |-> {},                  \* newBlocks of OnNewBlock still to handle
     restore |-> {}]              \* disqualified blocks still to restore

NoInsertion == [by |-> NoFlow, block |-> NoBlock, disqualified |-> {}]

Nobody == [pc |-> "none", parents |-> {}]

Init ==
    /\ status = [b \in Block |-> "missing"]
    /\ virtualParents = {}
    /\ insertion = NoInsertion
    /\ requested = {}
    /\ orphans = {}
    /\ orphansMutex = NoFlow
    /\ queue = {} /\ taken = {}
    /\ builder = Nobody /\ cached = NoTemplate
    /\ flow = [f \in Flow |-> Waiting]
    /\ quiet = FALSE

-----------------------------------------------------------------------------
(* Consensus                                                               *)

\* GetBlockInfo finds the block; an invalid one leaves its status, nothing else.
Exists(b) == status[b] # "missing"

\* GetBlock finds the block.
Holds(b) == status[b] \in {"accepted", "disqualified"}

\* What the orphan set asks of a block: an invalid parent is not a missing one.
MissesParents(b) == \E p \in Parents[b] : ~Exists(p)

\* What validation asks of a block, ErrInvalidAncestorBlock first.
HasInvalidParent(b) == \E p \in Parents[b] : status[p] = "invalid"
HoldsParents(b) == \A p \in Parents[b] : Holds(p)

ConsensusLockIsFree == insertion = NoInsertion

\* The blocks no other block is built on, of those virtual may merge.
Tips(st) ==
    {b \in Block :
        /\ st[b] = "accepted"
        /\ \A c \in Block : st[c] = "accepted" => b \notin Parents[c]}

\* What add leaves in the queue: nothing twice, nothing past the limit.
NoteDisqualifiedBlocks(D) ==
    LET room == MaxQueuedDisqualifiedBlocks - Cardinality(queue)
    IN  {queue \cup S : S \in {T \in SUBSET (D \ queue) :
            Cardinality(T) = IF Cardinality(D \ queue) < room
                             THEN Cardinality(D \ queue) ELSE room}}

\* Verification disqualifies blocks of the chain it resolves, the new one or
\* earlier ones that were pending; each is noted before the commit.
BeginInsertion(f, b) ==
    /\ ConsensusLockIsFree
    /\ ~Exists(b) /\ HoldsParents(b)
    /\ \E D \in SUBSET {c \in Unmergeable : c = b \/ status[c] = "accepted"} :
        /\ queue' \in NoteDisqualifiedBlocks(D)
        /\ insertion' = [by |-> f, block |-> b, disqualified |-> D]
    /\ UNCHANGED <<status, virtualParents>>

\* The insertion fails: the block is known, or built on an invalid block, and
\* nothing is written, or it breaks a rule, and its status is.
FailInsertion(b) ==
    /\ ConsensusLockIsFree
    /\ \/ /\ Exists(b) \/ HasInvalidParent(b)
          /\ UNCHANGED status
       \/ /\ ~Exists(b) /\ HoldsParents(b) /\ b \in Invalid
          /\ status' = [status EXCEPT ![b] = "invalid"]
    /\ UNCHANGED <<virtualParents, insertion, queue>>

\* The flow whose insertion of b succeeded goes on: UnorphanBlocks with the
\* orphans on top of b, the others with what there is to announce.
AfterInsertion(f, b) ==
    IF flow[f].pc = "unorphan"
    THEN [flow[f] EXCEPT !.new = @ \cup {b},
                         !.children = @ \cup {o \in orphans : b \in Parents[o]}]
    ELSE [flow[f] EXCEPT !.pc = IF @ = "submit" THEN "clear" ELSE "relay"]

\* Virtual moves with the commit, which wakes the flow that inserted.
CommitInsertion ==
    /\ ~ConsensusLockIsFree
    /\ status' = [c \in Block |->
           IF c \in insertion.disqualified THEN "disqualified"
           ELSE IF c = insertion.block THEN "accepted" ELSE status[c]]
    /\ virtualParents' = Tips(status')
    /\ insertion' = NoInsertion
    /\ LET f == insertion.by
       IN  /\ flow' = [flow EXCEPT ![f] = AfterInsertion(f, insertion.block)]
           /\ quiet' = IF virtualParents' = virtualParents THEN quiet
                       ELSE \/ flow[f].pc = "unorphan"
                            \/ flow[f].pc # "submit" /\ virtualParents' \subseteq flow[f].old
    /\ UNCHANGED <<requested, orphans, orphansMutex, queue, taken, builder, cached>>

\* The flow waits for its insertion to commit.
Inserting(f) == insertion.by = f

-----------------------------------------------------------------------------
(* A peer's relay flow: from an inv to a block                             *)

Goto(f, pc) == flow' = [flow EXCEPT ![f].pc = pc]

\* The flow turns to its next inv.
NextInv(f, invs) == flow' = [flow EXCEPT ![f] = [Waiting EXCEPT !.invs = invs]]

\* invChan drops what does not fit.
ReceiveInv(p) ==
    /\ Len(flow[p].invs) < MaxInvs
    /\ \E b \in Block : flow' = [flow EXCEPT ![p].invs = Append(@, b)]
    /\ UNCHANGED <<consensusVars, requested, orphans, orphansMutex, managerVars>>

\* A block that exists is not asked for, nor one that another flow asked for;
\* for an orphan its missing ancestors are.
ReadInv(p) ==
    /\ flow[p].pc = "idle" /\ flow[p].invs # <<>>
    /\ orphansMutex = NoFlow
    /\ LET b == Head(flow[p].invs)
           rest == Tail(flow[p].invs)
       IN  \/ /\ Exists(b) \/ (b \notin orphans /\ b \in requested)
              /\ NextInv(p, rest)
              /\ UNCHANGED requested
           \/ /\ ~Exists(b) /\ b \in orphans
              /\ flow' = [flow EXCEPT ![p].pc = "roots", ![p].block = b, ![p].invs = rest]
              /\ UNCHANGED requested
           \/ /\ ~Exists(b) /\ b \notin orphans \cup requested
              /\ requested' = requested \cup {b}
              /\ flow' = [flow EXCEPT ![p].pc = "request", ![p].block = b, ![p].invs = rest]
    /\ UNCHANGED <<consensusVars, orphans, orphansMutex, managerVars>>

\* The invs that are skipped: during an IBD far from synced, and on a node
\* that has only genesis.
SkipInv(p) ==
    /\ flow[p].pc = "idle" /\ flow[p].invs # <<>>
    /\ NextInv(p, Tail(flow[p].invs))
    /\ UNCHANGED <<consensusVars, requested, orphans, orphansMutex, managerVars>>

\* Unless it is skipped for its version or its place below virtual's merge
\* depth root, the block is processed, with virtual's parents read before.
ReceiveBlock(p) ==
    /\ flow[p].pc = "request"
    /\ requested' = requested \ {flow[p].block}
    /\ \/ flow' = [flow EXCEPT ![p].pc = "insert", ![p].old = virtualParents]
       \/ NextInv(p, flow[p].invs)
    /\ UNCHANGED <<consensusVars, orphans, orphansMutex, managerVars>>

\* Mutation: only an answer takes the block off the requested blocks.
RequestFails_StillRequested(p) ==
    /\ flow[p].pc = "request"
    /\ NextInv(p, <<>>)
    /\ UNCHANGED <<consensusVars, requested, orphans, orphansMutex, managerVars>>

\* The wait for the block ends in an error, a timeout or a closed route, and
\* the flow with it; the peer's next connection starts one afresh.
RequestFails(p) ==
    /\ flow[p].pc = "request"
    /\ requested' = requested \ {flow[p].block}
    /\ NextInv(p, <<>>)
    /\ UNCHANGED <<consensusVars, orphans, orphansMutex, managerVars>>

\* The insertion finds the block without its parents; that the parents
\* arrived meanwhile is only found out once.
ProcessBlock(p) ==
    /\ flow[p].pc \in {"insert", "retry"} /\ ~Inserting(p)
    /\ LET b == flow[p].block
       IN  \/ BeginInsertion(p, b) /\ UNCHANGED <<flow, requested>>
           \/ /\ FailInsertion(b)
              /\ NextInv(p, flow[p].invs)
              /\ UNCHANGED requested
           \/ /\ ConsensusLockIsFree /\ ~Exists(b) /\ MissesParents(b) /\ ~HasInvalidParent(b)
              /\ IF flow[p].pc = "insert" THEN Goto(p, "orphan") ELSE NextInv(p, flow[p].invs)
              /\ UNCHANGED <<consensusVars, requested, queue>>
    /\ UNCHANGED <<orphans, orphansMutex, taken, builder, cached, quiet>>

\* addToRelayInv, when consensus does not find data it needs: the inv is put
\* back, and the block taken off the requested blocks once more.
AddToRelayInv(p) ==
    /\ flow[p].pc = "insert" /\ ConsensusLockIsFree
    /\ Len(flow[p].invs) < MaxInvs
    /\ requested' = requested \ {flow[p].block}
    /\ NextInv(p, <<flow[p].block>> \o flow[p].invs)
    /\ UNCHANGED <<consensusVars, orphans, orphansMutex, managerVars>>

-----------------------------------------------------------------------------
(* Orphans                                                                 *)

\* processOrphan, up to the question for the peer's block locator.
ProcessOrphan(p) ==
    /\ flow[p].pc = "orphan" /\ orphansMutex = NoFlow
    /\ IF flow[p].block \in orphans THEN NextInv(p, flow[p].invs) ELSE Goto(p, "locator")
    /\ UNCHANGED <<consensusVars, requested, orphans, orphansMutex, managerVars>>

\* The locator tells whether the block is within reach of the orphan
\* mechanism; otherwise it is left to IBD.  A timeout leaves the block, too.
ReceiveBlockLocator(p) ==
    /\ flow[p].pc = "locator"
    /\ Goto(p, "addOrphan") \/ NextInv(p, flow[p].invs)
    /\ UNCHANGED <<consensusVars, requested, orphans, orphansMutex, managerVars>>

\* Mutation: the parents are not looked up again.
AddOrphan_Unchecked(p) ==
    /\ flow[p].pc = "addOrphan" /\ orphansMutex = NoFlow
    /\ Goto(p, "roots")
    /\ LET all == orphans \cup {flow[p].block}
       IN  orphans' \in IF Cardinality(all) > MaxOrphans THEN {all \ {o} : o \in all} ELSE {all}
    /\ UNCHANGED <<consensusVars, requested, orphansMutex, managerVars>>

\* One orphan too many evicts any.
AddOrphan(p) ==
    /\ flow[p].pc = "addOrphan" /\ orphansMutex = NoFlow
    /\ LET b == flow[p].block
       IN  IF MissesParents(b)
           THEN /\ Goto(p, "roots")
                /\ orphans' \in IF Cardinality(orphans \cup {b}) > MaxOrphans
                                THEN {(orphans \cup {b}) \ {o} : o \in orphans \cup {b}}
                                ELSE {orphans \cup {b}}
           ELSE Goto(p, "retry") /\ UNCHANGED orphans
    /\ UNCHANGED <<consensusVars, requested, orphansMutex, managerVars>>

\* The missing ancestors of an orphan that are not orphans themselves.
Ancestors(b) ==
    LET up[n \in 0..Cardinality(Block)] ==
            IF n = 0 THEN Parents[b]
            ELSE UNION {{c} \cup (IF c \in orphans THEN Parents[c] ELSE {}) : c \in up[n - 1]}
    IN  up[Cardinality(Block)]

GetOrphanRoots(b) ==
    {r \in Block \ orphans : b \in orphans /\ r \in Ancestors(b) /\ ~Holds(r)}

AddOrphanRootsToQueue(p) ==
    /\ flow[p].pc = "roots" /\ orphansMutex = NoFlow
    /\ LET roots == GetOrphanRoots(flow[p].block) \ Range(flow[p].invs)
       IN  \E s \in Injection(1..Cardinality(roots), roots) : NextInv(p, s \o flow[p].invs)
    /\ UNCHANGED <<consensusVars, requested, orphans, orphansMutex, managerVars>>

-----------------------------------------------------------------------------
(* A block submitted over RPC                                              *)

\* The call ends with an error if the insertion fails.
AddBlock(f) ==
    /\ flow[f].pc = "idle"
    /\ \E b \in Block :
        \/ /\ BeginInsertion(f, b)
           /\ flow' = [flow EXCEPT ![f].block = b, ![f].pc = "submit"]
        \/ FailInsertion(b) /\ UNCHANGED flow
    /\ UNCHANGED <<requested, orphans, orphansMutex, taken, builder, cached, quiet>>

-----------------------------------------------------------------------------
(* After the insertion                                                     *)

\* The block is announced, and a new template when virtual got new parents.
RelayBlock(p) ==
    /\ flow[p].pc = "relay"
    /\ Goto(p, IF virtualParents \subseteq flow[p].old THEN "children" ELSE "clear")
    /\ UNCHANGED <<consensusVars, requested, orphans, orphansMutex, managerVars>>

\* Mutation: the template is cleared without cacheLock.
ClearBlockTemplate_Unlocked(f) ==
    /\ flow[f].pc = "clear"
    /\ cached' = NoTemplate
    /\ Goto(f, "children")
    /\ UNCHANGED <<consensusVars, requested, orphans, orphansMutex, queue, taken, builder, quiet>>

\* OnNewBlockTemplate.
ClearBlockTemplate(f) ==
    /\ flow[f].pc = "clear"
    /\ builder = Nobody
    /\ cached' = NoTemplate
    /\ Goto(f, "children")
    /\ UNCHANGED <<consensusVars, requested, orphans, orphansMutex, queue, taken, builder, quiet>>

\* UnorphanBlocks holds orphansMutex to its end.
UnorphanBlocks(f) ==
    /\ flow[f].pc = "children" /\ orphansMutex = NoFlow
    /\ orphansMutex' = f
    /\ flow' = [flow EXCEPT
                  ![f].pc = "unorphan", ![f].new = {flow[f].block},
                  ![f].children = {o \in orphans : flow[f].block \in Parents[o]}]
    /\ UNCHANGED <<consensusVars, requested, orphans, managerVars>>

UnorphanBlock(f) ==
    /\ flow[f].pc = "unorphan" /\ ~Inserting(f)
    /\ \E o \in flow[f].children :
        /\ flow' = [flow EXCEPT ![f].children = @ \ {o}]
        /\ \/ /\ MissesParents(o)
              /\ UNCHANGED <<consensusVars, orphans, queue>>
           \/ /\ ~MissesParents(o)
              /\ orphans' = orphans \ {o}
              /\ BeginInsertion(f, o) \/ FailInsertion(o)
    /\ UNCHANGED <<requested, orphansMutex, taken, builder, cached, quiet>>

\* Mutation: orphansMutex is not released.
EndUnorphanBlocks_StillLocked(f) ==
    /\ flow[f].pc = "unorphan" /\ ~Inserting(f) /\ flow[f].children = {}
    /\ Goto(f, "check")
    /\ UNCHANGED <<consensusVars, requested, orphans, orphansMutex, managerVars>>

EndUnorphanBlocks(f) ==
    /\ flow[f].pc = "unorphan" /\ ~Inserting(f) /\ flow[f].children = {}
    /\ orphansMutex' = NoFlow
    /\ Goto(f, "check")
    /\ UNCHANGED <<consensusVars, requested, orphans, managerVars>>

IsDisqualifiedFromChain(f) ==
    /\ flow[f].pc = "check"
    /\ \E b \in flow[f].new :
        flow' = IF status[b] = "disqualified"
                THEN [flow EXCEPT ![f].new = @ \ {b}]
                ELSE [flow EXCEPT ![f].new = @ \ {b}, ![f].pc = "handle", ![f].block = b]
    /\ UNCHANGED <<consensusVars, requested, orphans, orphansMutex, managerVars>>

HandleNewBlockTransactions(f) ==
    /\ flow[f].pc = "handle"
    /\ taken' = taken \cup ({flow[f].block} \cap Unmergeable)
    /\ Goto(f, "check")
    /\ UNCHANGED <<consensusVars, requested, orphans, orphansMutex, queue, builder, cached, quiet>>

TakeDisqualifiedBlocks(f) ==
    /\ flow[f].pc = "check" /\ flow[f].new = {}
    /\ flow' = [flow EXCEPT ![f].pc = "restore", ![f].restore = queue]
    /\ queue' = {}
    /\ UNCHANGED <<consensusVars, requested, orphans, orphansMutex, taken, builder, cached, quiet>>

\* RestoreTransactionsOfDisqualifiedBlocks: a block that is not disqualified
\* in what is committed is passed over.
RestoreTransactions(f) ==
    /\ flow[f].pc = "restore"
    /\ \E b \in flow[f].restore :
        /\ taken' = IF status[b] = "disqualified" THEN taken \ {b} ELSE taken
        /\ flow' = [flow EXCEPT ![f].restore = @ \ {b}]
    /\ UNCHANGED <<consensusVars, requested, orphans, orphansMutex, queue, builder, cached, quiet>>

EndFlow(f) ==
    /\ flow[f].pc = "restore" /\ flow[f].restore = {}
    /\ NextInv(f, flow[f].invs)
    /\ UNCHANGED <<consensusVars, requested, orphans, orphansMutex, managerVars>>

-----------------------------------------------------------------------------
(* GetBlockTemplate                                                        *)

\* With no template in the cache, or one past its age.
GetBlockTemplate ==
    /\ builder = Nobody
    /\ builder' = [Nobody EXCEPT !.pc = "build"]
    /\ UNCHANGED <<consensusVars, requested, orphans, orphansMutex, queue, taken, cached, flow, quiet>>

BuildBlockTemplate ==
    /\ builder.pc = "build" /\ ConsensusLockIsFree
    /\ builder' = [pc |-> "cache", parents |-> virtualParents]
    /\ UNCHANGED <<consensusVars, requested, orphans, orphansMutex, queue, taken, cached, flow, quiet>>

SetImmutableCachedTemplate ==
    /\ builder.pc = "cache"
    /\ cached' = builder.parents
    /\ builder' = Nobody
    /\ UNCHANGED <<consensusVars, requested, orphans, orphansMutex, queue, taken, flow, quiet>>

-----------------------------------------------------------------------------
(* The specification                                                       *)

\* The flow's wait for the peer, which a timer or the closed route ends.
EndWait(p) == ReceiveBlock(p) \/ RequestFails(p) \/ ReceiveBlockLocator(p)

HandleInv(p) ==
    \/ ProcessBlock(p)
    \/ AddToRelayInv(p)
    \/ ProcessOrphan(p)
    \/ AddOrphan(p)
    \/ AddOrphanRootsToQueue(p)
    \/ RelayBlock(p)

OnNewBlockStep(f) ==
    \/ ClearBlockTemplate(f)
    \/ UnorphanBlocks(f)
    \/ UnorphanBlock(f)
    \/ EndUnorphanBlocks(f)
    \/ IsDisqualifiedFromChain(f)
    \/ HandleNewBlockTransactions(f)
    \/ TakeDisqualifiedBlocks(f)
    \/ RestoreTransactions(f)
    \/ EndFlow(f)

BuildStep == BuildBlockTemplate \/ SetImmutableCachedTemplate

Next ==
    \/ \E p \in Peer : ReceiveInv(p) \/ ReadInv(p) \/ SkipInv(p) \/ EndWait(p) \/ HandleInv(p)
    \/ \E f \in RPC : AddBlock(f)
    \/ \E f \in Flow : OnNewBlockStep(f)
    \/ CommitInsertion
    \/ GetBlockTemplate
    \/ BuildStep

Spec == Init /\ [][Next]_vars

\* Nothing but the locks holds a flow up, and the one lock that others may
\* take for ever, cacheLock, passes to whoever has waited for long, as Go's
\* mutexes do.
FairSpec ==
    /\ Spec
    /\ WF_vars(CommitInsertion) /\ WF_vars(BuildStep)
    /\ \A p \in Peer : WF_vars(EndWait(p)) /\ WF_vars(HandleInv(p))
    /\ \A f \in Flow : WF_vars(OnNewBlockStep(f)) /\ SF_vars(ClearBlockTemplate(f))

-----------------------------------------------------------------------------
(* Properties                                                              *)

TypeOK ==
    /\ status \in [Block -> {"missing", "accepted", "disqualified", "invalid"}]
    /\ virtualParents \subseteq Block /\ requested \subseteq Block
    /\ orphansMutex \in Flow \cup {NoFlow}
    /\ Cardinality(queue) <= MaxQueuedDisqualifiedBlocks
    /\ Cardinality(orphans) <= MaxOrphans
    /\ \A f \in Flow : flow[f].children \subseteq orphans

\* The blocks f added and has yet to look for orphan children of.
YetToUnorphan(f) ==
    IF flow[f].pc \in {"relay", "clear", "children"} THEN {flow[f].block} ELSE {}

\* No orphan is forgotten: when all its parents are stored, a flow that added
\* one of them has still to come to it.  (UnorphanBlocks runs only when a block
\* is added, so nothing else would take the orphan in.)
NoOrphanIsForgotten ==
    \A o \in orphans : HoldsParents(o) =>
        \E f \in Flow : o \in flow[f].children \/ Parents[o] \cap YetToUnorphan(f) # {}

\* A block stays marked as requested only while a flow waits for it; a mark
\* left behind would keep every peer from fetching the block.
NoRequestIsForgotten ==
    requested \subseteq {flow[p].block : p \in {q \in Peer : flow[q].pc = "request"}}

\* A template for an old virtual stays in the cache only until the flow that
\* moved virtual clears it, in the two cases in which none does apart.
TemplateIsCurrent ==
    cached \in {NoTemplate, virtualParents}
    \/ quiet
    \/ \E f \in Flow : flow[f].pc \in {"relay", "clear"}

\* Every flow gets back to its next inv or its next call: no wait for a lock
\* or for a peer is for ever.
FlowsComeBack == \A f \in Flow : []<>(flow[f].pc = "idle")
=============================================================================
