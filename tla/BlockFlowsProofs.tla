-------------------------- MODULE BlockFlowsProofs --------------------------
(***************************************************************************)
(* No orphan and no request is forgotten and no stale template is kept,    *)
(* for every DAG of blocks, every number of peers and RPC calls, and every *)
(* interleaving of their flows.                                            *)
(*                                                                         *)
(* What makes the properties inductive: an insertion belongs to a flow     *)
(* that waits for it and adds one block only, UnorphanBlocks is left with  *)
(* an empty processQueue, and a template on its way to the cache counts    *)
(* as if it were there.                                                    *)
(***************************************************************************)
EXTENDS BlockFlows, FiniteSetTheorems, TLAPS

\* The fields of a flow, and what the variables are functions of.
Fields == {"pc", "invs", "block", "old", "children", "new", "restore"}

Shape ==
    /\ status \in [Block -> {"missing", "accepted", "disqualified", "invalid"}]
    /\ DOMAIN flow = Flow
    /\ \A f \in Flow : DOMAIN flow[f] = Fields

\* A flow past its wait for an inv has a block.
BlocksInv ==
    /\ orphans \subseteq Block
    /\ \A f \in Flow :
          /\ flow[f].invs \in Seq(Block)
          /\ flow[f].pc # "idle" => flow[f].block \in Block

\* The insertion that holds the consensus lock is that of a flow that waits
\* for it, and disqualifies only its block and blocks that count already.
InsertionInv ==
    insertion # NoInsertion =>
        /\ insertion.by \in Flow
        /\ flow[insertion.by].pc \in {"insert", "retry", "submit", "unorphan"}
        /\ flow[insertion.by].pc # "unorphan" => insertion.block = flow[insertion.by].block
        /\ \A c \in insertion.disqualified : c = insertion.block \/ status[c] = "accepted"

\* Only the flow that holds orphansMutex is in UnorphanBlocks, and what is in
\* its processQueue is in the orphans.
ChildrenInv ==
    \A f \in Flow :
        /\ flow[f].pc = "unorphan" <=> orphansMutex = f
        /\ flow[f].pc # "unorphan" => flow[f].children = {}
        /\ flow[f].children \subseteq orphans

\* A template that is not for virtual, and a flow that will clear it.
Stale(parents) == parents \notin {NoTemplate, virtualParents}
WillClear(f) ==
    \/ flow[f].pc = "clear"
    \/ flow[f].pc = "relay" /\ ~(virtualParents \subseteq flow[f].old)

TemplateInv ==
    Stale(cached) \/ (builder.pc = "cache" /\ builder.parents # virtualParents)
    => quiet \/ \E f \in Flow : WillClear(f)

IInv ==
    /\ Shape /\ BlocksInv /\ InsertionInv /\ ChildrenInv
    /\ NoOrphanIsForgotten /\ NoRequestIsForgotten /\ TemplateInv

-----------------------------------------------------------------------------
(* The helpers                                                             *)

\* The peers and the RPC calls are flows.
LEMMA Flows == Peer \subseteq Flow /\ RPC \subseteq Flow /\ NoFlow \notin Flow
  BY BlockFlowsAssumption DEF Flow

\* The orphan roots are queued in some order, as a sequence of blocks.
LEMMA RootsAreInvs ==
    ASSUME NEW S \in SUBSET Block, NEW s \in Injection(1..Cardinality(S), S)
    PROVE  s \in Seq(Block)
<1>1. Cardinality(S) \in Nat
  BY BlockFlowsAssumption, FS_Subset, FS_CardinalityType
<1>2. s \in [1..Cardinality(S) -> S]
  BY DEF Injection
<1>3. QED  BY <1>1, <1>2

\* What NextInv and Goto do to the flows.
LEMMA NextInvEffect ==
    ASSUME Shape, NEW f \in Flow, NEW invs, NextInv(f, invs)
    PROVE  /\ DOMAIN flow' = Flow /\ \A g \in Flow : DOMAIN flow'[g] = Fields
           /\ \A g \in Flow \ {f} : flow'[g] = flow[g]
           /\ flow'[f] = [Waiting EXCEPT !.invs = invs]
           /\ flow'[f].pc = "idle" /\ flow'[f].invs = invs /\ flow'[f].children = {}
  BY DEF Shape, Fields, NextInv, Waiting

\* Goto moves one flow and nothing of what it holds.
LEMMA GotoEffect ==
    ASSUME Shape, NEW f \in Flow, NEW pc, Goto(f, pc)
    PROVE  /\ DOMAIN flow' = Flow /\ \A g \in Flow : DOMAIN flow'[g] = Fields
           /\ \A g \in Flow \ {f} : flow'[g] = flow[g]
           /\ flow'[f].pc = pc
           /\ \A x \in Fields \ {"pc"} : flow'[f][x] = flow[f][x]
           /\ flow'[f].invs = flow[f].invs /\ flow'[f].block = flow[f].block
           /\ flow'[f].children = flow[f].children /\ flow'[f].old = flow[f].old
  BY DEF Shape, Fields, Goto

\* A block with a missing parent has one that is not held.
LEMMA MissingIsNotHeld ==
    ASSUME NEW b, MissesParents(b)
    PROVE  ~HoldsParents(b)
  BY Zenon DEF MissesParents, HoldsParents, Holds, Exists

\* A failed insertion adds no block.
LEMMA FailureAdds ==
    ASSUME Shape, NEW b, FailInsertion(b)
    PROVE  /\ status' \in [Block -> {"missing", "accepted", "disqualified", "invalid"}]
           /\ \A c \in Block : Holds(c)' <=> Holds(c)
  BY Zenon DEF Shape, FailInsertion, Holds, Exists

\* A commit adds the block inserted and no other, and loses none.
LEMMA CommitAdds ==
    ASSUME Shape, InsertionInv, CommitInsertion
    PROVE  /\ status' \in [Block -> {"missing", "accepted", "disqualified", "invalid"}]
           /\ \A c \in Block : Holds(c)' <=> Holds(c) \/ c = insertion.block
  BY DEF Shape, InsertionInv, CommitInsertion, ConsensusLockIsFree, NoInsertion, Holds

\* As long as no block is added, the orphans keep waiting.
LEMMA StillWaiting ==
    ASSUME IInv, orphans' \subseteq orphans,
           \A c \in Block : Holds(c)' <=> Holds(c),
           \A o \in orphans' : ~HoldsParents(o)
              \/ \A g \in Flow : /\ o \in flow[g].children => o \in flow'[g].children
                                 /\ YetToUnorphan(g) \subseteq YetToUnorphan(g)'
    PROVE  NoOrphanIsForgotten'
<1>1. \A o \in orphans' : HoldsParents(o)' <=> HoldsParents(o)
  BY BlockFlowsAssumption DEF IInv, BlocksInv, HoldsParents
<1>2. QED  BY <1>1 DEF IInv, NoOrphanIsForgotten

-----------------------------------------------------------------------------
(* Each step preserves the invariant.                                      *)

\* The steps of a flow between the waits, which no other flow depends on.
Private == {"idle", "request", "insert", "retry", "orphan", "locator", "addOrphan", "roots",
            "check", "handle", "restore"}

AskedFor(f) == IF flow[f].pc = "request" THEN {flow[f].block} ELSE {}

PrivateStep(f) ==
    /\ UNCHANGED <<status, virtualParents, insertion, orphans, orphansMutex, builder, cached, quiet>>
    /\ flow[f].pc \in Private /\ flow'[f].pc \in Private
    /\ flow[f].pc \in {"insert", "retry"} => ~Inserting(f)
    /\ flow'[f].children = {}
    /\ flow'[f].pc = "request" => f \in Peer
    /\ requested' \subseteq (requested \ AskedFor(f)) \cup AskedFor(f)'
    /\ \A g \in Flow \ {f} : flow'[g] = flow[g]
    /\ DOMAIN flow' = Flow /\ DOMAIN flow'[f] = Fields
    /\ flow'[f].invs \in Seq(Block)
    /\ flow'[f].pc # "idle" => flow'[f].block \in Block

\* Such a step preserves the invariant.
LEMMA PrivateStepInv ==
    ASSUME IInv, NEW f \in Flow, PrivateStep(f)
    PROVE  IInv'
<1>1. Shape' /\ BlocksInv'
  BY DEF IInv, Shape, BlocksInv, PrivateStep
<1>2. InsertionInv'
  BY Flows DEF IInv, InsertionInv, PrivateStep, Private, Inserting
<1>3. ChildrenInv'
  BY Flows DEF IInv, ChildrenInv, PrivateStep, Private
<1>4. NoOrphanIsForgotten'
  <2>1. \A g \in Flow : flow[g].children \subseteq flow'[g].children /\ YetToUnorphan(g) \subseteq YetToUnorphan(g)'
    BY DEF IInv, ChildrenInv, PrivateStep, Private, YetToUnorphan
  <2>2. QED  BY <2>1, StillWaiting DEF PrivateStep, Holds
<1>5. NoRequestIsForgotten'
  BY Flows DEF IInv, NoRequestIsForgotten, PrivateStep, AskedFor
<1>6. TemplateInv'
  BY Zenon DEF IInv, TemplateInv, Stale, WillClear, PrivateStep, Private
<1>7. QED  BY <1>1, <1>2, <1>3, <1>4, <1>5, <1>6 DEF IInv

\* An inv that is read is dropped, or becomes the block the flow asks for.
LEMMA ReadInvStep ==
    ASSUME IInv, NEW p \in Peer, ReadInv(p)
    PROVE  IInv'
<1> DEFINE b == Head(flow[p].invs)
           rest == Tail(flow[p].invs)
<1>1. p \in Flow /\ flow[p].pc = "idle" /\ flow[p].children = {}
  BY Flows, Zenon DEF IInv, ChildrenInv, ReadInv
<1>2. b \in Block /\ rest \in Seq(Block)
  BY <1>1 DEF IInv, BlocksInv, ReadInv
<1>3. CASE NextInv(p, rest) /\ UNCHANGED requested
  <2>1. PrivateStep(p)
    BY <1>1, <1>2, <1>3, NextInvEffect, Zenon
       DEF IInv, ReadInv, PrivateStep, Private, AskedFor, consensusVars, managerVars, Fields
  <2>2. QED  BY <1>1, <2>1, PrivateStepInv
<1>4. CASE /\ flow' = [flow EXCEPT ![p].pc = "roots", ![p].block = b, ![p].invs = rest]
           /\ UNCHANGED requested
  <2>1. PrivateStep(p)
    BY <1>1, <1>2, <1>4, Zenon
       DEF IInv, Shape, Fields, ReadInv, PrivateStep, Private, AskedFor, consensusVars, managerVars
  <2>2. QED  BY <1>1, <2>1, PrivateStepInv
<1>5. CASE /\ requested' = requested \cup {b}
           /\ flow' = [flow EXCEPT ![p].pc = "request", ![p].block = b, ![p].invs = rest]
  <2>1. PrivateStep(p)
    BY <1>1, <1>2, <1>5
       DEF IInv, Shape, Fields, ReadInv, PrivateStep, Private, AskedFor, consensusVars, managerVars
  <2>2. QED  BY <1>1, <2>1, PrivateStepInv
<1>6. QED  BY <1>3, <1>4, <1>5, Zenon DEF ReadInv

\* A flow that turns to its next inv has nothing left to do for the last.
LEMMA NextInvStep ==
    ASSUME IInv, NEW f \in Flow, NEW invs \in Seq(Block), NextInv(f, invs),
           UNCHANGED <<status, virtualParents, insertion, orphans, orphansMutex, builder,
                       cached, quiet>>,
           flow[f].pc \in Private, flow[f].pc \in {"insert", "retry"} => ~Inserting(f),
           requested' \subseteq requested \ AskedFor(f)
    PROVE  IInv'
<1>1. PrivateStep(f)
  BY NextInvEffect, Zenon DEF IInv, PrivateStep, Private
<1>2. QED  BY <1>1, PrivateStepInv

\* A skipped inv leaves nothing behind.
LEMMA SkipInvStep ==
    ASSUME IInv, NEW p \in Peer, SkipInv(p)
    PROVE  IInv'
<1>1. Tail(flow[p].invs) \in Seq(Block)
  BY Flows DEF IInv, BlocksInv, SkipInv
<1>2. QED
  BY <1>1, Flows, NextInvStep, Zenon DEF SkipInv, Private, AskedFor, consensusVars, managerVars

\* The answer takes the mark off with the request.
LEMMA ReceiveBlockStep ==
    ASSUME IInv, NEW p \in Peer, ReceiveBlock(p)
    PROVE  IInv'
<1>1. CASE NextInv(p, flow[p].invs)
  BY <1>1, Flows, NextInvStep
     DEF IInv, BlocksInv, ReceiveBlock, Private, AskedFor, consensusVars, managerVars
<1>2. CASE flow' = [flow EXCEPT ![p].pc = "insert", ![p].old = virtualParents]
  <2>1. PrivateStep(p)
    BY <1>2, Flows
       DEF IInv, Shape, Fields, BlocksInv, ChildrenInv, ReceiveBlock, PrivateStep, Private, AskedFor,
           consensusVars, managerVars
  <2>2. QED  BY <2>1, Flows, PrivateStepInv
<1>3. QED  BY <1>1, <1>2 DEF ReceiveBlock

\* So does a request that fails.
LEMMA RequestFailsStep ==
    ASSUME IInv, NEW p \in Peer, RequestFails(p)
    PROVE  IInv'
<1>1. <<>> \in Seq(Block)
  BY Flows DEF IInv, BlocksInv, RequestFails
<1>2. QED
  BY <1>1, Flows, NextInvStep, Zenon DEF RequestFails, Private, AskedFor, consensusVars, managerVars

\* A locator decides where the orphan goes.
LEMMA ReceiveBlockLocatorStep ==
    ASSUME IInv, NEW p \in Peer, ReceiveBlockLocator(p)
    PROVE  IInv'
<1>1. CASE NextInv(p, flow[p].invs)
  BY <1>1, Flows, NextInvStep
     DEF IInv, BlocksInv, ReceiveBlockLocator, Private, AskedFor, consensusVars, managerVars
<1>2. CASE Goto(p, "addOrphan")
  <2>1. PrivateStep(p)
    BY <1>2, Flows
       DEF IInv, Shape, Fields, BlocksInv, ChildrenInv, ReceiveBlockLocator, PrivateStep, Private, AskedFor,
           Goto, consensusVars, managerVars
  <2>2. QED  BY <2>1, Flows, PrivateStepInv
<1>3. QED  BY <1>1, <1>2 DEF ReceiveBlockLocator

\* The inv of a block that is put back is one of the flow's own.
LEMMA AddToRelayInvStep ==
    ASSUME IInv, NEW p \in Peer, AddToRelayInv(p)
    PROVE  IInv'
<1>1. <<flow[p].block>> \o flow[p].invs \in Seq(Block)
  BY Flows DEF IInv, BlocksInv, AddToRelayInv
<1>2. QED
  BY <1>1, Flows, NextInvStep, Zenon
    DEF AddToRelayInv, Private, AskedFor, consensusVars, managerVars, Inserting,
         ConsensusLockIsFree, NoInsertion

\* A block that is an orphan already is left to the flow that brought it.
LEMMA ProcessOrphanStep ==
    ASSUME IInv, NEW p \in Peer, ProcessOrphan(p)
    PROVE  IInv'
<1>1. CASE NextInv(p, flow[p].invs)
  BY <1>1, Flows, NextInvStep
     DEF IInv, BlocksInv, ProcessOrphan, Private, AskedFor, consensusVars, managerVars
<1>2. CASE Goto(p, "locator")
  <2>1. PrivateStep(p)
    BY <1>2, Flows
       DEF IInv, Shape, Fields, BlocksInv, ChildrenInv, ProcessOrphan, PrivateStep, Private, AskedFor,
           Goto, consensusVars, managerVars
  <2>2. QED  BY <2>1, Flows, PrivateStepInv
<1>3. QED  BY <1>1, <1>2 DEF ProcessOrphan

\* The roots are blocks, so the flow's invs are.
LEMMA AddOrphanRootsToQueueStep ==
    ASSUME IInv, NEW p \in Peer, AddOrphanRootsToQueue(p)
    PROVE  IInv'
<1> DEFINE roots == GetOrphanRoots(flow[p].block) \ Range(flow[p].invs)
<1>1. PICK s \in Injection(1..Cardinality(roots), roots) : NextInv(p, s \o flow[p].invs)
  BY DEF AddOrphanRootsToQueue
<1>2. roots \in SUBSET Block
  BY DEF GetOrphanRoots
<1>3. s \in Seq(Block) /\ flow[p].invs \in Seq(Block)
  BY <1>1, <1>2, Flows, RootsAreInvs DEF IInv, BlocksInv
<1>4. s \o flow[p].invs \in Seq(Block)
  BY <1>3
<1>5. QED
  BY <1>1, <1>4, Flows, NextInvStep, Zenon
    DEF AddOrphanRootsToQueue, Private, AskedFor, consensusVars, managerVars

\* The steps of OnNewBlock after UnorphanBlocks touch nothing of the others.
LEMMA IsDisqualifiedFromChainStep ==
    ASSUME IInv, NEW f \in Flow, IsDisqualifiedFromChain(f)
    PROVE  IInv'
<1>1. PrivateStep(f)
  BY Flows
     DEF IInv, Shape, Fields, BlocksInv, ChildrenInv, IsDisqualifiedFromChain, PrivateStep, Private, AskedFor,
         consensusVars, managerVars
<1>2. QED  BY <1>1, Flows, PrivateStepInv

LEMMA HandleNewBlockTransactionsStep ==
    ASSUME IInv, NEW f \in Flow, HandleNewBlockTransactions(f)
    PROVE  IInv'
<1>1. PrivateStep(f)
  BY Flows
     DEF IInv, Shape, Fields, BlocksInv, ChildrenInv, HandleNewBlockTransactions, PrivateStep, Private, AskedFor,
         Goto, consensusVars, managerVars
<1>2. QED  BY <1>1, Flows, PrivateStepInv

LEMMA TakeDisqualifiedBlocksStep ==
    ASSUME IInv, NEW f \in Flow, TakeDisqualifiedBlocks(f)
    PROVE  IInv'
<1>1. PrivateStep(f)
  BY Flows
     DEF IInv, Shape, Fields, BlocksInv, ChildrenInv, TakeDisqualifiedBlocks, PrivateStep, Private, AskedFor,
         consensusVars, managerVars
<1>2. QED  BY <1>1, Flows, PrivateStepInv

LEMMA RestoreTransactionsStep ==
    ASSUME IInv, NEW f \in Flow, RestoreTransactions(f)
    PROVE  IInv'
<1>1. PrivateStep(f)
  BY Flows
     DEF IInv, Shape, Fields, BlocksInv, ChildrenInv, RestoreTransactions, PrivateStep, Private, AskedFor,
         consensusVars, managerVars
<1>2. QED  BY <1>1, Flows, PrivateStepInv

LEMMA EndFlowStep ==
    ASSUME IInv, NEW f \in Flow, EndFlow(f)
    PROVE  IInv'
  BY Flows, NextInvStep
     DEF IInv, BlocksInv, EndFlow, Private, AskedFor, consensusVars, managerVars

\* A flow takes the consensus lock for a block it waits for: the insertion is
\* as InsertionInv says.
LEMMA BeginInsertionEffect ==
    ASSUME IInv, NEW f \in Flow, NEW b, BeginInsertion(f, b)
    PROVE  /\ insertion'.by = f /\ insertion'.block = b
           /\ \A c \in insertion'.disqualified : c = b \/ status'[c] = "accepted"
           /\ UNCHANGED <<status, virtualParents>>
  BY DEF BeginInsertion

\* The template cache is not the flows' concern.
LEMMA FlowsUnchanged ==
    ASSUME IInv, UNCHANGED <<status, insertion, requested, orphans, orphansMutex, flow>>
    PROVE  /\ Shape' /\ BlocksInv' /\ InsertionInv' /\ ChildrenInv'
           /\ NoOrphanIsForgotten' /\ NoRequestIsForgotten'
<1>1. Shape' /\ BlocksInv' /\ InsertionInv'
  BY DEF IInv, Shape, BlocksInv, InsertionInv
<1>2. ChildrenInv' /\ NoOrphanIsForgotten' /\ NoRequestIsForgotten'
  BY DEF IInv, ChildrenInv, NoOrphanIsForgotten, HoldsParents, Holds, YetToUnorphan,
         NoRequestIsForgotten
<1>3. QED  BY <1>1, <1>2

\* The receiver only queues the inv.
LEMMA ReceiveInvStep ==
    ASSUME IInv, NEW p \in Peer, ReceiveInv(p)
    PROVE  IInv'
<1>1. /\ UNCHANGED <<status, virtualParents, insertion, requested, orphans, orphansMutex, builder, cached, quiet>>
  BY DEF ReceiveInv, consensusVars, managerVars
<1>2. /\ DOMAIN flow' = Flow /\ \A g \in Flow : DOMAIN flow'[g] = Fields
      /\ \A g \in Flow \ {p} : flow'[g] = flow[g]
      /\ flow'[p].pc = flow[p].pc /\ flow'[p].block = flow[p].block
      /\ flow'[p].children = flow[p].children /\ flow'[p].old = flow[p].old
      /\ flow'[p].invs \in Seq(Block)
  BY Flows DEF IInv, Shape, Fields, BlocksInv, ReceiveInv
<1>3. Shape'
  BY <1>1, <1>2 DEF IInv, Shape
<1>4. BlocksInv'
  BY <1>1, <1>2 DEF IInv, BlocksInv
<1>5. InsertionInv'
  BY <1>1, <1>2, Flows DEF IInv, InsertionInv
<1>6. ChildrenInv'
  BY <1>1, <1>2, Flows DEF IInv, ChildrenInv
<1>7. NoOrphanIsForgotten'
  BY <1>1, <1>2 DEF IInv, NoOrphanIsForgotten, HoldsParents, Holds, YetToUnorphan
<1>8. NoRequestIsForgotten'
  BY <1>1, <1>2, Flows DEF IInv, NoRequestIsForgotten
<1>9. TemplateInv'
  BY <1>1, <1>2 DEF IInv, TemplateInv, Stale, WillClear
<1>10. QED  BY <1>3, <1>4, <1>5, <1>6, <1>7, <1>8, <1>9 DEF IInv

\* A block becomes an orphan only while it misses a parent; what is evicted is
\* in no processQueue, for no flow is in UnorphanBlocks.
LEMMA AddOrphanStep ==
    ASSUME IInv, NEW p \in Peer, AddOrphan(p)
    PROVE  IInv'
<1>1. /\ UNCHANGED <<status, virtualParents, insertion, requested, orphansMutex, builder, cached, quiet>>
  BY DEF AddOrphan, consensusVars, managerVars
<1>2. flow[p].pc = "addOrphan" /\ flow[p].block \in Block /\ orphansMutex = NoFlow
  BY Flows DEF IInv, BlocksInv, AddOrphan
<1>3. /\ DOMAIN flow' = Flow /\ \A g \in Flow : DOMAIN flow'[g] = Fields
      /\ \A g \in Flow \ {p} : flow'[g] = flow[g]
      /\ flow'[p].pc \in {"roots", "retry"}
      /\ flow'[p].block = flow[p].block /\ flow'[p].invs = flow[p].invs
      /\ flow'[p].children = flow[p].children /\ flow'[p].old = flow[p].old
  BY Flows DEF IInv, Shape, Fields, AddOrphan, Goto
<1>4. \/ UNCHANGED orphans
      \/ ~HoldsParents(flow[p].block) /\ orphans' \subseteq orphans \cup {flow[p].block}
  BY MissingIsNotHeld DEF AddOrphan
<1>5. Shape'
  BY <1>1, <1>2, <1>3, <1>4 DEF IInv, Shape
<1>6. BlocksInv'
  BY <1>1, <1>2, <1>3, <1>4, Zenon DEF IInv, BlocksInv
<1>7. InsertionInv'
  BY <1>1, <1>2, <1>3, <1>4, Flows DEF IInv, InsertionInv
<1>8. ChildrenInv'
  BY <1>1, <1>2, <1>3, <1>4, Flows, Zenon DEF IInv, ChildrenInv
<1>9. NoOrphanIsForgotten'
  BY <1>1, <1>2, <1>3, <1>4 DEF IInv, NoOrphanIsForgotten, HoldsParents, Holds, YetToUnorphan
<1>10. NoRequestIsForgotten'
  BY <1>1, <1>2, <1>3, <1>4, Flows DEF IInv, NoRequestIsForgotten
<1>11. TemplateInv'
  BY <1>1, <1>2, <1>3, <1>4 DEF IInv, TemplateInv, Stale, WillClear
<1>12. QED  BY <1>5, <1>6, <1>7, <1>8, <1>9, <1>10, <1>11 DEF IInv

\* What called for a new template still does.
LEMMA RelayBlockStep ==
    ASSUME IInv, NEW p \in Peer, RelayBlock(p)
    PROVE  IInv'
<1>1. /\ UNCHANGED <<status, virtualParents, insertion, requested, orphans, orphansMutex, builder, cached, quiet>>
  BY DEF RelayBlock, consensusVars, managerVars
<1>2. flow[p].pc = "relay"
  BY DEF RelayBlock
<1>3. /\ DOMAIN flow' = Flow /\ \A g \in Flow : DOMAIN flow'[g] = Fields
      /\ \A g \in Flow \ {p} : flow'[g] = flow[g]
      /\ flow'[p].pc = IF virtualParents \subseteq flow[p].old THEN "children" ELSE "clear"
      /\ flow'[p].block = flow[p].block /\ flow'[p].invs = flow[p].invs
      /\ flow'[p].children = flow[p].children /\ flow'[p].old = flow[p].old
  BY Flows, GotoEffect DEF IInv, RelayBlock
<1>4. Shape'
  BY <1>1, <1>2, <1>3 DEF IInv, Shape
<1>5. BlocksInv'
  BY <1>1, <1>2, <1>3 DEF IInv, BlocksInv
<1>6. InsertionInv'
  BY <1>1, <1>2, <1>3, Flows DEF IInv, InsertionInv
<1>7. ChildrenInv'
  BY <1>1, <1>2, <1>3, Flows DEF IInv, ChildrenInv
<1>8. NoOrphanIsForgotten'
  BY <1>1, <1>2, <1>3 DEF IInv, NoOrphanIsForgotten, HoldsParents, Holds, YetToUnorphan
<1>9. NoRequestIsForgotten'
  BY <1>1, <1>2, <1>3, Flows DEF IInv, NoRequestIsForgotten
<1>10. TemplateInv'
  BY <1>1, <1>2, <1>3 DEF IInv, TemplateInv, Stale, WillClear
<1>11. QED  BY <1>4, <1>5, <1>6, <1>7, <1>8, <1>9, <1>10 DEF IInv

\* With no template in the cache and none under way, none is stale.
LEMMA ClearBlockTemplateStep ==
    ASSUME IInv, NEW f \in Flow, ClearBlockTemplate(f)
    PROVE  IInv'
<1>1. /\ UNCHANGED <<status, virtualParents, insertion, requested, orphans, orphansMutex, builder, quiet>>
      /\ cached' = NoTemplate /\ builder.pc = "none" /\ flow[f].pc = "clear"
  BY DEF ClearBlockTemplate, consensusVars, managerVars, Nobody
<1>2. /\ DOMAIN flow' = Flow /\ \A g \in Flow : DOMAIN flow'[g] = Fields
      /\ \A g \in Flow \ {f} : flow'[g] = flow[g]
      /\ flow'[f].pc = "children"
      /\ flow'[f].block = flow[f].block /\ flow'[f].invs = flow[f].invs
      /\ flow'[f].children = flow[f].children /\ flow'[f].old = flow[f].old
  BY GotoEffect DEF IInv, ClearBlockTemplate
<1>3. Shape'
  BY <1>1, <1>2 DEF IInv, Shape
<1>4. BlocksInv'
  BY <1>1, <1>2, Zenon DEF IInv, BlocksInv
<1>5. InsertionInv'
  BY <1>1, <1>2, Flows DEF IInv, InsertionInv
<1>6. ChildrenInv'
  BY <1>1, <1>2, Flows DEF IInv, ChildrenInv
<1>7. NoOrphanIsForgotten'
  BY <1>1, <1>2 DEF IInv, NoOrphanIsForgotten, HoldsParents, Holds, YetToUnorphan
<1>8. NoRequestIsForgotten'
  BY <1>1, <1>2, Flows DEF IInv, NoRequestIsForgotten
<1>9. TemplateInv'
  BY <1>1, <1>2 DEF IInv, TemplateInv, Stale, WillClear
<1>10. QED  BY <1>3, <1>4, <1>5, <1>6, <1>7, <1>8, <1>9 DEF IInv

\* The flow takes all the orphans on top of its block.
LEMMA UnorphanBlocksStep ==
    ASSUME IInv, NEW f \in Flow, UnorphanBlocks(f)
    PROVE  IInv'
<1>1. /\ UNCHANGED <<status, virtualParents, insertion, requested, orphans, builder, cached, quiet>>
      /\ orphansMutex = NoFlow /\ orphansMutex' = f /\ flow[f].pc = "children"
  BY DEF UnorphanBlocks, consensusVars, managerVars
<1>2. /\ DOMAIN flow' = Flow /\ \A g \in Flow : DOMAIN flow'[g] = Fields
      /\ \A g \in Flow \ {f} : flow'[g] = flow[g]
      /\ flow'[f].pc = "unorphan"
      /\ flow'[f].block = flow[f].block /\ flow'[f].invs = flow[f].invs
      /\ flow'[f].children = {o \in orphans : flow[f].block \in Parents[o]}
  BY DEF IInv, Shape, Fields, UnorphanBlocks
<1>3. Shape'
  BY <1>1, <1>2 DEF IInv, Shape
<1>4. BlocksInv'
  BY <1>1, <1>2, Zenon DEF IInv, BlocksInv
<1>5. InsertionInv'
  BY <1>1, <1>2, Flows DEF IInv, InsertionInv
<1>6. ChildrenInv'
  BY <1>1, <1>2, Flows DEF IInv, ChildrenInv
<1>7. NoOrphanIsForgotten'
  <2>1. \A o \in orphans' : HoldsParents(o)' <=> HoldsParents(o)
    BY <1>1 DEF HoldsParents, Holds
  <2>2. \A o \in orphans' : o \in flow[f].children \/ Parents[o] \cap YetToUnorphan(f) # {}
                            => o \in flow'[f].children
    BY <1>1, <1>2 DEF IInv, ChildrenInv, YetToUnorphan
  <2>3. \A g \in Flow \ {f} : YetToUnorphan(g)' = YetToUnorphan(g)
    BY <1>2 DEF YetToUnorphan
  <2>4. QED  BY <1>1, <1>2, <2>1, <2>2, <2>3 DEF IInv, NoOrphanIsForgotten
<1>8. NoRequestIsForgotten'
  BY <1>1, <1>2, Flows DEF IInv, NoRequestIsForgotten
<1>9. TemplateInv'
  BY <1>1, <1>2 DEF IInv, TemplateInv, Stale, WillClear
<1>10. QED  BY <1>3, <1>4, <1>5, <1>6, <1>7, <1>8, <1>9 DEF IInv

\* The processQueue is empty when orphansMutex is released.
LEMMA EndUnorphanBlocksStep ==
    ASSUME IInv, NEW f \in Flow, EndUnorphanBlocks(f)
    PROVE  IInv'
<1>1. /\ UNCHANGED <<status, virtualParents, insertion, requested, orphans, builder, cached, quiet>>
      /\ orphansMutex' = NoFlow /\ flow[f].pc = "unorphan" /\ flow[f].children = {} /\ ~Inserting(f)
  BY DEF EndUnorphanBlocks, consensusVars, managerVars
<1>2. /\ DOMAIN flow' = Flow /\ \A g \in Flow : DOMAIN flow'[g] = Fields
      /\ \A g \in Flow \ {f} : flow'[g] = flow[g]
      /\ flow'[f].pc = "check"
      /\ flow'[f].block = flow[f].block /\ flow'[f].invs = flow[f].invs
      /\ flow'[f].children = flow[f].children
  BY GotoEffect DEF IInv, EndUnorphanBlocks
<1>3. Shape'
  BY <1>1, <1>2 DEF IInv, Shape
<1>4. BlocksInv'
  BY <1>1, <1>2 DEF IInv, BlocksInv
<1>5. InsertionInv'
  BY <1>1, <1>2, Flows DEF IInv, InsertionInv, Inserting
<1>6. ChildrenInv'
  BY <1>1, <1>2, Flows DEF IInv, ChildrenInv
<1>7. NoOrphanIsForgotten'
  BY <1>1, <1>2 DEF IInv, NoOrphanIsForgotten, HoldsParents, Holds, YetToUnorphan
<1>8. NoRequestIsForgotten'
  BY <1>1, <1>2, Flows DEF IInv, NoRequestIsForgotten
<1>9. TemplateInv'
  BY <1>1, <1>2 DEF IInv, TemplateInv, Stale, WillClear
<1>10. QED  BY <1>3, <1>4, <1>5, <1>6, <1>7, <1>8, <1>9 DEF IInv

\* A submitted block goes straight to its insertion.
LEMMA SubmitStep ==
    ASSUME IInv, NEW f \in RPC, AddBlock(f), NEW b \in Block,
           BeginInsertion(f, b), flow' = [flow EXCEPT ![f].block = b, ![f].pc = "submit"]
    PROVE  IInv'
<1>1. f \in Flow /\ flow[f].pc = "idle" /\ UNCHANGED <<status, virtualParents, requested, orphans, orphansMutex, builder, cached, quiet>>
  BY Flows DEF AddBlock, BeginInsertion
<1>2. /\ DOMAIN flow' = Flow /\ \A g \in Flow : DOMAIN flow'[g] = Fields
      /\ \A g \in Flow \ {f} : flow'[g] = flow[g]
      /\ flow'[f].pc = "submit" /\ flow'[f].block = b /\ flow'[f].invs = flow[f].invs /\ flow'[f].children = flow[f].children
  BY <1>1 DEF IInv, Shape, Fields
<1>3. Shape'
  BY <1>1, <1>2 DEF IInv, Shape
<1>4. BlocksInv'
  BY <1>1, <1>2 DEF IInv, BlocksInv
<1>5. InsertionInv'
  BY <1>1, <1>2, BeginInsertionEffect DEF InsertionInv
<1>6. ChildrenInv'
  BY <1>1, <1>2, Flows DEF IInv, ChildrenInv
<1>7. NoOrphanIsForgotten'
  BY <1>1, <1>2 DEF IInv, NoOrphanIsForgotten, HoldsParents, Holds, YetToUnorphan
<1>8. NoRequestIsForgotten'
  BY <1>1, <1>2, Flows DEF IInv, NoRequestIsForgotten
<1>9. TemplateInv'
  BY <1>1, <1>2 DEF IInv, TemplateInv, Stale, WillClear
<1>10. QED  BY <1>3, <1>4, <1>5, <1>6, <1>7, <1>8, <1>9 DEF IInv

\* A submitted block is inserted, or fails and changes no block that an orphan
\* could wait for.
LEMMA AddBlockStep ==
    ASSUME IInv, NEW f \in RPC, AddBlock(f)
    PROVE  IInv'
<1>1. PICK b \in Block :
         \/ BeginInsertion(f, b) /\ flow' = [flow EXCEPT ![f].block = b, ![f].pc = "submit"]
         \/ FailInsertion(b) /\ UNCHANGED flow
  BY Zenon DEF AddBlock
<1>2. CASE BeginInsertion(f, b) /\ flow' = [flow EXCEPT ![f].block = b, ![f].pc = "submit"]
  BY <1>2, SubmitStep, Zenon
<1>3. CASE FailInsertion(b) /\ UNCHANGED flow
  <2>1. UNCHANGED <<requested, orphans, orphansMutex, builder, cached, quiet, flow>>
    BY <1>3, Zenon DEF AddBlock
  <2>2. UNCHANGED <<virtualParents, insertion>> /\ insertion = NoInsertion
    BY <1>3, Zenon DEF FailInsertion, ConsensusLockIsFree
  <2>3. Shape' /\ BlocksInv' /\ ChildrenInv' /\ NoRequestIsForgotten'
    <3>1. Shape'
      BY <1>3, <2>1, FailureAdds, Zenon DEF IInv, Shape
    <3>2. BlocksInv' /\ ChildrenInv' /\ NoRequestIsForgotten'
      BY <2>1 DEF IInv, BlocksInv, ChildrenInv, NoRequestIsForgotten
    <3>3. QED  BY <3>1, <3>2
  <2>4. InsertionInv'
    BY <2>2, Zenon DEF InsertionInv
  <2>5. NoOrphanIsForgotten'
    BY <1>3, <2>1, FailureAdds, StillWaiting, Zenon DEF IInv, YetToUnorphan
  <2>6. TemplateInv'
    BY <2>1, <2>2, Zenon DEF IInv, TemplateInv, Stale, WillClear
  <2>7. QED  BY <2>3, <2>4, <2>5, <2>6, Zenon DEF IInv
<1>4. QED  BY <1>1, <1>2, <1>3, Zenon

\* A template under way is built on virtual as it is then.
LEMMA GetBlockTemplateStep ==
    ASSUME IInv, GetBlockTemplate
    PROVE  IInv'
<1>1. TemplateInv'
  BY DEF IInv, GetBlockTemplate, TemplateInv, Stale, WillClear, Nobody, consensusVars
<1>2. QED  BY <1>1, FlowsUnchanged DEF IInv, GetBlockTemplate, consensusVars

LEMMA BuildBlockTemplateStep ==
    ASSUME IInv, BuildBlockTemplate
    PROVE  IInv'
<1>1. TemplateInv'
  BY DEF IInv, BuildBlockTemplate, TemplateInv, Stale, WillClear, consensusVars
<1>2. QED  BY <1>1, FlowsUnchanged DEF IInv, BuildBlockTemplate, consensusVars

\* What was stale on its way to the cache is stale in it.
LEMMA SetImmutableCachedTemplateStep ==
    ASSUME IInv, SetImmutableCachedTemplate
    PROVE  IInv'
<1>1. TemplateInv'
  BY Zenon DEF IInv, SetImmutableCachedTemplate, TemplateInv, Stale, WillClear, Nobody, consensusVars
<1>2. QED  BY <1>1, FlowsUnchanged DEF IInv, SetImmutableCachedTemplate, consensusVars

\* An insertion begins for the block the flow waits for, or fails and changes no
\* block that an orphan could wait for.
LEMMA ProcessBlockStep ==
    ASSUME IInv, NEW p \in Peer, ProcessBlock(p)
    PROVE  IInv'
<1> DEFINE b == flow[p].block
<1>1. p \in Flow /\ flow[p].pc \in {"insert", "retry"} /\ ~Inserting(p) /\ flow[p].children = {}
      /\ flow[p].invs \in Seq(Block) /\ b \in Block
  BY Flows, Zenon DEF IInv, BlocksInv, ChildrenInv, ProcessBlock
<1>2. UNCHANGED <<orphans, orphansMutex, builder, cached, quiet>>
  BY DEF ProcessBlock
<1>3. CASE BeginInsertion(p, b) /\ UNCHANGED <<flow, requested>>
  <2>1. UNCHANGED <<status, virtualParents>>
    BY <1>3, Zenon DEF BeginInsertion
  <2>2. Shape' /\ BlocksInv' /\ ChildrenInv' /\ NoRequestIsForgotten'
    BY <1>2, <1>3, <2>1, Zenon DEF IInv, Shape, BlocksInv, ChildrenInv, NoRequestIsForgotten
  <2>3. InsertionInv'
    BY <1>1, <1>3, BeginInsertionEffect, Zenon DEF InsertionInv
  <2>4. NoOrphanIsForgotten' /\ TemplateInv'
    BY <1>2, <1>3, <2>1 DEF IInv, NoOrphanIsForgotten, HoldsParents, Holds, YetToUnorphan,
                            TemplateInv, Stale, WillClear
  <2>5. QED  BY <2>2, <2>3, <2>4 DEF IInv
<1>4. CASE FailInsertion(b) /\ NextInv(p, flow[p].invs) /\ UNCHANGED requested
  <2>1. UNCHANGED <<virtualParents, insertion>> /\ insertion = NoInsertion
    BY <1>4 DEF FailInsertion, ConsensusLockIsFree
  <2> DEFINE invs == flow[p].invs
  <2>2. /\ DOMAIN flow' = Flow /\ \A g \in Flow : DOMAIN flow'[g] = Fields
        /\ \A g \in Flow \ {p} : flow'[g] = flow[g]
        /\ flow'[p].pc = "idle" /\ flow'[p].invs = invs /\ flow'[p].children = {}
    BY <1>1, <1>4, NextInvEffect, Zenon DEF IInv
  <2>3. Shape' /\ BlocksInv'
    BY <1>1, <1>2, <1>4, <2>2, FailureAdds, Zenon DEF IInv, Shape, BlocksInv
  <2>4. InsertionInv'
    BY <2>1 DEF InsertionInv, NoInsertion
  <2>5. ChildrenInv'
    BY <1>1, <1>2, <2>2, Zenon DEF IInv, ChildrenInv
  <2>6. NoOrphanIsForgotten'
    <3>1. \A g \in Flow : flow[g].children \subseteq flow'[g].children
                          /\ YetToUnorphan(g) \subseteq YetToUnorphan(g)'
      BY <1>1, <2>2 DEF YetToUnorphan
    <3>2. QED  BY <1>2, <1>4, <3>1, FailureAdds, StillWaiting DEF IInv
  <2>7. NoRequestIsForgotten'
    BY <1>1, <1>4, <2>2, Flows DEF IInv, NoRequestIsForgotten
  <2>8. TemplateInv'
    BY <1>1, <1>2, <2>1, <2>2, Zenon DEF IInv, TemplateInv, Stale, WillClear
  <2>9. QED  BY <2>3, <2>4, <2>5, <2>6, <2>7, <2>8 DEF IInv
<1>5. CASE NextInv(p, flow[p].invs) /\ UNCHANGED <<consensusVars, requested>>
  BY <1>1, <1>2, <1>5, NextInvStep, Zenon DEF Private, AskedFor, consensusVars
<1>6. CASE Goto(p, "orphan") /\ UNCHANGED <<consensusVars, requested>>
  <2>1. PrivateStep(p)
    BY <1>1, <1>2, <1>6 DEF IInv, Shape, Fields, PrivateStep, Private, AskedFor, Goto, consensusVars
  <2>2. QED  BY <1>1, <2>1, PrivateStepInv
<1>7. QED  BY <1>3, <1>4, <1>5, <1>6, Zenon DEF ProcessBlock

\* An orphan leaves the processQueue when it misses a parent or is one no longer.
LEMMA UnorphanBlockStep ==
    ASSUME IInv, NEW f \in Flow, UnorphanBlock(f)
    PROVE  IInv'
<1>1. flow[f].pc = "unorphan" /\ ~Inserting(f) /\ orphansMutex = f
  BY DEF IInv, ChildrenInv, UnorphanBlock
<1>2. PICK c \in flow[f].children :
        /\ flow' = [flow EXCEPT ![f].children = @ \ {c}]
        /\ \/ MissesParents(c) /\ UNCHANGED <<consensusVars, orphans, queue>>
           \/ ~MissesParents(c) /\ orphans' = orphans \ {c} /\ (BeginInsertion(f, c) \/ FailInsertion(c))
  BY Zenon DEF UnorphanBlock
<1>3. /\ DOMAIN flow' = Flow /\ \A g \in Flow : DOMAIN flow'[g] = Fields
      /\ \A g \in Flow \ {f} : flow'[g] = flow[g]
      /\ flow'[f].children = flow[f].children \ {c}
      /\ flow'[f].pc = "unorphan" /\ flow'[f].invs = flow[f].invs /\ flow'[f].block = flow[f].block
  BY <1>1, <1>2 DEF IInv, Shape, Fields
<1>4. UNCHANGED <<requested, orphansMutex, builder, cached, quiet, virtualParents>>
  BY <1>2 DEF UnorphanBlock, BeginInsertion, FailInsertion, consensusVars
<1>5. /\ status' \in [Block -> {"missing", "accepted", "disqualified", "invalid"}]
      /\ \A d \in Block : Holds(d)' <=> Holds(d)
  BY <1>2, FailureAdds DEF IInv, Shape, BeginInsertion, consensusVars, Holds
<1>6. Shape' /\ BlocksInv'
  BY <1>2, <1>3, <1>5 DEF IInv, Shape, BlocksInv
<1>7. InsertionInv'
  <2>1. CASE BeginInsertion(f, c)
    BY <1>3, <2>1, BeginInsertionEffect DEF InsertionInv
  <2>2. CASE FailInsertion(c)
    BY <2>2, Zenon DEF FailInsertion, ConsensusLockIsFree, InsertionInv
  <2>3. CASE UNCHANGED consensusVars
    BY <1>1, <1>3, <2>3 DEF IInv, InsertionInv, Inserting, consensusVars
  <2>4. QED  BY <1>2, <2>1, <2>2, <2>3
<1>8. ChildrenInv'
  BY <1>1, <1>2, <1>3, <1>4 DEF IInv, ChildrenInv
<1>9. NoOrphanIsForgotten'
  <2>1. \A o \in orphans' : ~HoldsParents(o) \/ o # c
    BY <1>2, MissingIsNotHeld
  <2>2. \A g \in Flow : YetToUnorphan(g)' = YetToUnorphan(g)
    BY <1>1, <1>3, Zenon DEF YetToUnorphan
  <2>3. QED  BY <1>2, <1>3, <1>5, <2>1, <2>2, StillWaiting
<1>10. NoRequestIsForgotten'
  BY <1>1, <1>3, <1>4, Flows DEF IInv, NoRequestIsForgotten
<1>11. TemplateInv'
  BY <1>1, <1>3, <1>4 DEF IInv, TemplateInv, Stale, WillClear
<1>12. QED  BY <1>6, <1>7, <1>8, <1>9, <1>10, <1>11 DEF IInv

\* The commit wakes the flow that inserted.  An orphan that missed the block
\* alone is among the children it takes, or will be; a template for the old
\* virtual is one it will clear, but for the moves that are quiet.
LEMMA CommitInsertionStep ==
    ASSUME IInv, CommitInsertion
    PROVE  IInv'
<1>1. insertion.by \in Flow
  BY DEF IInv, InsertionInv, CommitInsertion, ConsensusLockIsFree
<1> PICK f \in Flow : f = insertion.by
  BY <1>1
<1> PICK b : b = insertion.block
  BY Zenon
<1>2. /\ insertion # NoInsertion
      /\ flow[f].pc \in {"insert", "retry", "submit", "unorphan"}
      /\ flow[f].pc # "unorphan" => b = flow[f].block
  BY Zenon DEF IInv, InsertionInv, CommitInsertion, ConsensusLockIsFree
<1>3. /\ flow' = [flow EXCEPT ![f] = AfterInsertion(f, b)]
      /\ UNCHANGED <<requested, orphans, orphansMutex, builder, cached>>
      /\ insertion' = NoInsertion
  BY DEF CommitInsertion
<1>4. DOMAIN flow' = Flow /\ flow'[f] = AfterInsertion(f, b) /\ \A g \in Flow \ {f} : flow'[g] = flow[g]
  BY <1>3 DEF IInv, Shape
<1>5. /\ DOMAIN flow'[f] = Fields
      /\ flow'[f].invs = flow[f].invs /\ flow'[f].block = flow[f].block
      /\ flow'[f].old = flow[f].old
  BY <1>4 DEF IInv, Shape, Fields, AfterInsertion
<1>6. flow[f].pc # "unorphan" =>
        /\ flow'[f].pc = IF flow[f].pc = "submit" THEN "clear" ELSE "relay"
        /\ flow'[f].children = flow[f].children
  BY <1>4 DEF IInv, Shape, Fields, AfterInsertion
<1>7. flow[f].pc = "unorphan" =>
        /\ flow'[f].pc = "unorphan"
        /\ flow'[f].children = flow[f].children \cup {o \in orphans : b \in Parents[o]}
  BY <1>4, Zenon DEF IInv, Shape, Fields, AfterInsertion
<1>8. Shape' /\ BlocksInv'
  BY <1>2, <1>3, <1>4, <1>5, CommitAdds DEF IInv, Shape, BlocksInv
<1>9. InsertionInv'
  BY <1>3, Zenon DEF InsertionInv
<1>10. ChildrenInv'
  <2>1. \A g \in Flow \ {f} : (flow'[g].pc = "unorphan" <=> orphansMutex' = g)
          /\ (flow'[g].pc # "unorphan" => flow'[g].children = {})
          /\ flow'[g].children \subseteq orphans'
    BY <1>3, <1>4, Zenon DEF IInv, ChildrenInv
  <2>2. /\ flow'[f].pc = "unorphan" <=> orphansMutex' = f
        /\ flow'[f].pc # "unorphan" => flow'[f].children = {}
        /\ flow'[f].children \subseteq orphans'
    BY <1>2, <1>3, <1>6, <1>7 DEF IInv, ChildrenInv
  <2>3. QED  BY <2>1, <2>2 DEF ChildrenInv
<1>11. NoOrphanIsForgotten'
  <2> SUFFICES ASSUME NEW o \in orphans, HoldsParents(o)'
               PROVE  \E g \in Flow : \/ o \in flow'[g].children
                                      \/ Parents[o] \cap YetToUnorphan(g)' # {}
    BY <1>3, Zenon DEF NoOrphanIsForgotten
  <2>1. CASE b \in Parents[o]
    BY <1>2, <1>4, <1>5, <1>6, <1>7, <2>1, Zenon DEF YetToUnorphan
  <2>2. CASE b \notin Parents[o]
    <3>1. HoldsParents(o)
      BY <2>2, CommitAdds, BlockFlowsAssumption, Zenon DEF IInv, BlocksInv, HoldsParents
    <3>2. \A g \in Flow : flow[g].children \subseteq flow'[g].children
                          /\ YetToUnorphan(g) \subseteq YetToUnorphan(g)'
      BY <1>2, <1>4, <1>5, <1>6, <1>7, Zenon DEF YetToUnorphan
    <3>3. QED  BY <3>1, <3>2 DEF IInv, NoOrphanIsForgotten
  <2>3. QED  BY <2>1, <2>2, Zenon
<1>12. NoRequestIsForgotten'
  <2>1. \A q \in Peer : flow[q].pc = "request" => flow'[q] = flow[q]
    BY <1>2, <1>4, Flows
  <2>2. QED  BY <1>3, <2>1 DEF IInv, NoRequestIsForgotten
<1>13. TemplateInv'
  <2>1. CASE virtualParents' = virtualParents
    <3>1. quiet' = quiet
      BY <2>1, Zenon DEF CommitInsertion
    <3>2. \A g \in Flow : WillClear(g) => WillClear(g)'
      BY <1>2, <1>4, <1>5, <2>1 DEF WillClear
    <3>3. QED  BY <1>3, <2>1, <3>1, <3>2 DEF IInv, TemplateInv, Stale
  <2>2. CASE virtualParents' # virtualParents
    <3>1. quiet' \/ (flow[f].pc # "unorphan"
                     /\ (flow[f].pc = "submit" \/ ~(virtualParents' \subseteq flow[f].old)))
      BY <2>2, Zenon DEF CommitInsertion
    <3>2. quiet' \/ WillClear(f)'
      BY <1>2, <1>4, <1>5, <1>6, <3>1 DEF WillClear
    <3>3. QED  BY <1>2, <3>2, Zenon DEF TemplateInv
  <2>3. QED  BY <2>1, <2>2, Zenon
<1>14. QED  BY <1>8, <1>9, <1>10, <1>11, <1>12, <1>13, Zenon DEF IInv

-----------------------------------------------------------------------------
(* The invariant                                                           *)

\* The node starts with no block and no flow under way.
LEMMA InitInv == Init => IInv
<1> SUFFICES ASSUME Init PROVE IInv
  BY Zenon
<1>1. Shape
  BY DEF Init, Shape, Fields, Waiting
<1>2. BlocksInv
  <2>1. \A f \in Flow : flow[f].pc = "idle" /\ flow[f].invs = <<>>
    BY DEF Init, Waiting
  <2>2. <<>> \in Seq(Block)
    OBVIOUS
  <2>3. QED  BY <2>1, <2>2, Zenon DEF Init, BlocksInv
<1>3. InsertionInv /\ ChildrenInv
  BY Flows DEF Init, Waiting, InsertionInv, ChildrenInv
<1>4. NoOrphanIsForgotten /\ NoRequestIsForgotten
  BY DEF Init, NoOrphanIsForgotten, NoRequestIsForgotten
<1>5. TemplateInv
  BY DEF Init, TemplateInv, Stale, Nobody
<1>6. QED  BY <1>1, <1>2, <1>3, <1>4, <1>5 DEF IInv

\* Every step preserves the invariant.
LEMMA NextInvariant == IInv /\ [Next]_vars => IInv'
<1> SUFFICES ASSUME IInv, [Next]_vars PROVE IInv'
  OBVIOUS
<1>1. ASSUME NEW p \in Peer,
             ReceiveInv(p) \/ ReadInv(p) \/ SkipInv(p) \/ EndWait(p) \/ HandleInv(p)
      PROVE  IInv'
  BY <1>1, ReceiveInvStep, ReadInvStep, SkipInvStep, ReceiveBlockStep, RequestFailsStep,
     ReceiveBlockLocatorStep, ProcessBlockStep, AddToRelayInvStep, ProcessOrphanStep,
     AddOrphanStep, AddOrphanRootsToQueueStep, RelayBlockStep DEF EndWait, HandleInv
<1>2. ASSUME NEW f \in RPC, AddBlock(f) PROVE IInv'
  BY <1>2, AddBlockStep
<1>3. ASSUME NEW f \in Flow, OnNewBlockStep(f) PROVE IInv'
  BY <1>3, ClearBlockTemplateStep, UnorphanBlocksStep, UnorphanBlockStep, EndUnorphanBlocksStep,
     IsDisqualifiedFromChainStep, HandleNewBlockTransactionsStep, TakeDisqualifiedBlocksStep,
     RestoreTransactionsStep, EndFlowStep DEF OnNewBlockStep
<1>4. CASE CommitInsertion \/ GetBlockTemplate \/ BuildStep
  BY <1>4, CommitInsertionStep, GetBlockTemplateStep, BuildBlockTemplateStep,
     SetImmutableCachedTemplateStep DEF BuildStep
<1>5. CASE UNCHANGED vars
  <2>1. Shape' /\ BlocksInv' /\ InsertionInv'
    BY <1>5, Zenon DEF vars, consensusVars, managerVars, IInv, Shape, BlocksInv, InsertionInv
  <2>2. ChildrenInv' /\ NoOrphanIsForgotten'
    BY <1>5, Zenon DEF vars, consensusVars, managerVars, IInv, ChildrenInv, NoOrphanIsForgotten,
       HoldsParents, Holds, YetToUnorphan
  <2>3. NoRequestIsForgotten' /\ TemplateInv'
    BY <1>5, Zenon DEF vars, consensusVars, managerVars, IInv, NoRequestIsForgotten, TemplateInv,
       Stale, WillClear
  <2>4. QED  BY <2>1, <2>2, <2>3 DEF IInv
<1>6. QED  BY <1>1, <1>2, <1>3, <1>4, <1>5 DEF Next

\* The invariant holds at every step of the flows.
THEOREM Invariance == Spec => []IInv
<1>1. QED  BY InitInv, NextInvariant, PTL DEF Spec

\* No interleaving of the flows forgets an orphan: one that misses no parent is
\* in the processQueue of a flow, or a flow that added a parent will look.
THEOREM NoOrphanForgotten == Spec => []NoOrphanIsForgotten
<1>1. IInv => NoOrphanIsForgotten
  BY DEF IInv
<1>2. QED  BY <1>1, Invariance, PTL

\* However requests end, a block stays marked only while a flow waits for it.
THEOREM NoMarkLeftBehind == Spec => []NoRequestIsForgotten
<1>1. IInv => NoRequestIsForgotten
  BY DEF IInv
<1>2. QED  BY <1>1, Invariance, PTL

\* A template stored while virtual moves is cleared by the flow that moved it,
\* unless that move is one of those that clear no template.
THEOREM NoStaleTemplate == Spec => []TemplateIsCurrent
<1>1. IInv => TemplateIsCurrent
  BY DEF IInv, TemplateInv, Stale, WillClear, TemplateIsCurrent
<1>2. QED  BY <1>1, Invariance, PTL

-----------------------------------------------------------------------------
(* The limits                                                              *)

LimitsInv ==
    /\ virtualParents \subseteq Block
    /\ orphansMutex \in Flow \cup {NoFlow}
    /\ queue \subseteq Unmergeable
    /\ Cardinality(queue) <= MaxQueuedDisqualifiedBlocks
    /\ Cardinality(orphans) <= MaxOrphans

\* add leaves no more in the queue than it may hold.
LEMMA NoteWithinLimit ==
    ASSUME LimitsInv, NEW D \in SUBSET Unmergeable, NEW q \in NoteDisqualifiedBlocks(D)
    PROVE  q \subseteq Unmergeable /\ Cardinality(q) <= MaxQueuedDisqualifiedBlocks
<1> DEFINE room == MaxQueuedDisqualifiedBlocks - Cardinality(queue)
<1>1. PICK T \in SUBSET (D \ queue) :
        /\ q = queue \cup T
        /\ Cardinality(T) = IF Cardinality(D \ queue) < room THEN Cardinality(D \ queue) ELSE room
  BY DEF NoteDisqualifiedBlocks
<1>2. /\ IsFiniteSet(queue) /\ IsFiniteSet(T) /\ IsFiniteSet(D \ queue)
      /\ Cardinality(queue) \in Nat /\ Cardinality(T) \in Nat /\ Cardinality(D \ queue) \in Nat
  BY BlockFlowsAssumption, FS_Subset, FS_CardinalityType DEF LimitsInv
<1>3. Cardinality(T) <= room
  BY <1>1, <1>2, BlockFlowsAssumption
<1>4. Cardinality(q) = Cardinality(queue) + Cardinality(T)
  <2>1. queue \cap T = {}
    OBVIOUS
  <2>2. QED  BY <1>1, <1>2, <2>1, FS_Union, FS_EmptySet
<1>5. QED  BY <1>1, <1>2, <1>3, <1>4, BlockFlowsAssumption DEF LimitsInv

\* So does the insertion that notes its disqualified blocks.
LEMMA BeginInsertionWithinLimit ==
    ASSUME LimitsInv, NEW f, NEW b \in Block, BeginInsertion(f, b)
    PROVE  queue' \subseteq Unmergeable /\ Cardinality(queue') <= MaxQueuedDisqualifiedBlocks
<1>1. PICK D \in SUBSET Unmergeable : queue' \in NoteDisqualifiedBlocks(D)
  BY DEF BeginInsertion
<1>2. QED  BY <1>1, NoteWithinLimit

\* An orphan that evicts another leaves the pool as full as it was.
LEMMA AddOrphanWithinLimit ==
    ASSUME IInv, LimitsInv, NEW p \in Peer, AddOrphan(p)
    PROVE  Cardinality(orphans') <= MaxOrphans
<1> DEFINE all == orphans \cup {flow[p].block}
<1>1. IsFiniteSet(orphans) /\ Cardinality(orphans) \in Nat
  BY BlockFlowsAssumption, FS_Subset, FS_CardinalityType DEF IInv, BlocksInv
<1>2. /\ IsFiniteSet(all) /\ Cardinality(all) \in Nat
      /\ Cardinality(all) <= Cardinality(orphans) + 1
  <2>1. IsFiniteSet(all) /\ Cardinality(all) \in Nat
    BY <1>1, FS_AddElement, FS_CardinalityType, Zenon
  <2>2. Cardinality(all) = IF flow[p].block \in orphans THEN Cardinality(orphans)
                           ELSE Cardinality(orphans) + 1
    BY <1>1, FS_AddElement, Zenon
  <2>3. QED  BY <1>1, <2>1, <2>2
<1>3. \A o \in all : Cardinality(all \ {o}) = Cardinality(all) - 1
  BY <1>2, FS_RemoveElement
<1>4. CASE UNCHANGED orphans
  BY <1>4 DEF LimitsInv
<1>5. CASE ~(Cardinality(all) > MaxOrphans) /\ orphans' = all
  BY <1>2, <1>5, BlockFlowsAssumption
<1>6. ASSUME NEW o \in all, orphans' = all \ {o} PROVE Cardinality(orphans') <= MaxOrphans
  <2>1. Cardinality(orphans') = Cardinality(all) - 1
    BY <1>3, <1>6, Zenon
  <2>2. QED  BY <1>1, <1>2, <2>1, BlockFlowsAssumption DEF LimitsInv
<1>7. QED  BY <1>4, <1>5, <1>6, Zenon DEF AddOrphan

\* No step exceeds a limit.
LEMMA NextWithinLimits == IInv /\ LimitsInv /\ [Next]_vars => LimitsInv'
<1> SUFFICES ASSUME IInv, LimitsInv, [Next]_vars PROVE LimitsInv'
  BY Zenon
<1> USE Flows
<1>1. ASSUME NEW p \in Peer,
             ReceiveInv(p) \/ ReadInv(p) \/ SkipInv(p) \/ EndWait(p)
      PROVE  LimitsInv'
  BY <1>1, Zenon DEF LimitsInv, ReceiveInv, ReadInv, SkipInv, EndWait, ReceiveBlock, RequestFails,
     ReceiveBlockLocator, consensusVars, managerVars
<1>2. ASSUME NEW p \in Peer, ProcessBlock(p) PROVE LimitsInv'
  <2>1. flow[p].block \in Block
    BY <1>2, Zenon DEF IInv, BlocksInv, ProcessBlock
  <2>2. UNCHANGED <<virtualParents, orphans, orphansMutex>>
    BY <1>2, Zenon DEF ProcessBlock, BeginInsertion, FailInsertion, consensusVars
  <2>3. UNCHANGED queue \/ BeginInsertion(p, flow[p].block)
    BY <1>2, Zenon DEF ProcessBlock, FailInsertion
  <2>4. QED  BY <2>1, <2>2, <2>3, BeginInsertionWithinLimit, Zenon DEF LimitsInv
<1>3. ASSUME NEW p \in Peer, AddOrphan(p) PROVE LimitsInv'
  BY <1>3, AddOrphanWithinLimit, Zenon DEF LimitsInv, AddOrphan, consensusVars, managerVars
<1>4. ASSUME NEW p \in Peer,
             AddToRelayInv(p) \/ ProcessOrphan(p) \/ AddOrphanRootsToQueue(p) \/ RelayBlock(p)
      PROVE  LimitsInv'
  BY <1>4 DEF LimitsInv, AddToRelayInv, ProcessOrphan, AddOrphanRootsToQueue, RelayBlock,
     consensusVars, managerVars
<1>5. ASSUME NEW f \in RPC, AddBlock(f) PROVE LimitsInv'
  BY <1>5, BeginInsertionWithinLimit, Zenon DEF LimitsInv, AddBlock, BeginInsertion, FailInsertion
<1>6. ASSUME NEW f \in Flow, UnorphanBlock(f) PROVE LimitsInv'
  <2>1. PICK o \in flow[f].children :
          \/ UNCHANGED <<virtualParents, orphans, queue>>
          \/ orphans' = orphans \ {o} /\ (BeginInsertion(f, o) \/ FailInsertion(o))
    BY <1>6 DEF UnorphanBlock, consensusVars
  <2>2. o \in Block /\ o \in orphans
    BY DEF IInv, ChildrenInv, BlocksInv
  <2>3. UNCHANGED <<virtualParents, orphansMutex>>
    BY <1>6, <2>1 DEF UnorphanBlock, BeginInsertion, FailInsertion
  <2>4. queue' \subseteq Unmergeable /\ Cardinality(queue') <= MaxQueuedDisqualifiedBlocks
    BY <2>1, <2>2, BeginInsertionWithinLimit, Zenon DEF LimitsInv, FailInsertion
  <2>5. Cardinality(orphans') <= MaxOrphans
    <3>1. IsFiniteSet(orphans) /\ Cardinality(orphans) \in Nat
      BY BlockFlowsAssumption, FS_Subset, FS_CardinalityType DEF IInv, BlocksInv
    <3>2. Cardinality(orphans \ {o}) = Cardinality(orphans) - 1
      BY <2>2, <3>1, FS_RemoveElement, Zenon
    <3>3. CASE orphans' = orphans \ {o}
      BY <3>1, <3>2, <3>3, BlockFlowsAssumption DEF LimitsInv
    <3>4. QED  BY <2>1, <3>3, Zenon DEF LimitsInv
  <2>6. QED  BY <2>3, <2>4, <2>5 DEF LimitsInv
<1>7. ASSUME NEW f \in Flow, TakeDisqualifiedBlocks(f) PROVE LimitsInv'
  BY <1>7, FS_EmptySet, BlockFlowsAssumption DEF LimitsInv, TakeDisqualifiedBlocks, consensusVars
<1>8. ASSUME NEW f \in Flow,
             \/ ClearBlockTemplate(f) \/ UnorphanBlocks(f) \/ EndUnorphanBlocks(f)
             \/ IsDisqualifiedFromChain(f) \/ HandleNewBlockTransactions(f)
             \/ RestoreTransactions(f) \/ EndFlow(f)
      PROVE  LimitsInv'
  BY <1>8, Zenon DEF LimitsInv, ClearBlockTemplate, UnorphanBlocks, EndUnorphanBlocks,
     IsDisqualifiedFromChain, HandleNewBlockTransactions, RestoreTransactions, EndFlow,
     consensusVars, managerVars
<1>9. CASE CommitInsertion \/ GetBlockTemplate \/ BuildStep \/ UNCHANGED vars
  BY <1>9, Zenon
     DEF LimitsInv, CommitInsertion, Tips, GetBlockTemplate, BuildStep, BuildBlockTemplate,
     SetImmutableCachedTemplate, vars, consensusVars, managerVars
<1>10. QED
  BY <1>1, <1>2, <1>3, <1>4, <1>5, <1>6, <1>7, <1>8, <1>9 DEF Next, HandleInv, OnNewBlockStep

\* The orphans and the queue of disqualified blocks keep to their limits, and
\* UnorphanBlocks never looks up an orphan that is gone.
THEOREM TypeCorrect == Spec => []TypeOK
<1>1. Init => LimitsInv
  BY FS_EmptySet, BlockFlowsAssumption DEF Init, LimitsInv
<1>2. IInv /\ LimitsInv => TypeOK
  <2>1. ASSUME IInv PROVE requested \subseteq Block
    BY <2>1, Flows DEF IInv, NoRequestIsForgotten, BlocksInv
  <2>2. QED  BY <2>1 DEF IInv, Shape, ChildrenInv, LimitsInv, TypeOK
<1>3. QED  BY <1>1, <1>2, NextWithinLimits, Invariance, PTL DEF Spec

=============================================================================
