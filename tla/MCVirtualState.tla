--------------------------- MODULE MCVirtualState ---------------------------
(***************************************************************************)
(* Small instances of VirtualState.  Blocks 0..MaxBlock, one coin that two *)
(* blocks of different branches spend differently.                         *)
(***************************************************************************)
EXTENDS VirtualState, TLC

\* Outpoints are numbers: the coinbase of block b is b.
MCCoin == 0 - 1

\* Blocks 2 and 3 carry conflicting spends of the coin.
MCCarries == [b \in 0..MaxBlock |-> IF b = 2 THEN 0 - 2 ELSE IF b = 3 THEN 0 - 3 ELSE None]

MCOutpoint == (0..MaxBlock) \cup {MCCoin} \cup ({MCCarries[b] : b \in 0..MaxBlock} \ {None})

\* No block carries a spend.
MCNoCarries == [b \in 0..MaxBlock |-> None]

MCNoSpendOutpoint == (0..MaxBlock) \cup {MCCoin}

MCDAAScore == 0..(MaxBlock + 1)

\* All DAGs on 0..n whose blocks obey the header rules and whose selection
\* order respects the scores.
DAGsUpTo[n \in Nat] ==
    IF n = 0
    THEN {[parents |-> 0 :> {}, past |-> 0 :> {}, chain |-> 0 :> {0}, view |-> 0 :> GenesisView]}
    ELSE UNION {{[parents |-> d.parents @@ n :> ps,
                  past    |-> d.past @@ n :> PastOf(d, ps),
                  chain   |-> d.chain @@ n :> ({n} \cup d.chain[Max(ps)]),
                  view    |-> d.view @@ n :> AfterMerging(d, d.view[Max(ps)], ps)]
                 : ps \in {q \in SUBSET (0..(n - 1)) :
                            /\ q # {} /\ ScoreIn(d, q) >= ScoreIn(d, d.parents[n - 1])
                            /\ LegalParents(d, q)}}
                : d \in DAGsUpTo[n - 1]}

MCDAGs == DAGsUpTo[MaxBlock]
=============================================================================
