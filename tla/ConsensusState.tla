--------------------------- MODULE ConsensusState ---------------------------
(***************************************************************************)
(* What the consensus state manager promises to everything that reads the  *)
(* virtual block (miners, the mempool, RPC, the UTXO index): a block gets  *)
(* the verdict it deserves and keeps it, and the UTXO set moves in the     *)
(* same step as virtual's parents, to exactly the UTXO set of their past.  *)
(* Nothing is said of staging, of diffs, of the order blocks are resolved  *)
(* in, or of crashes: a crash is a step that changes nothing here.         *)
(***************************************************************************)
CONSTANTS Block,
          PastUTXO(_, _)  \* the UTXO set of a past, given the DAG and the parents

VARIABLES dag,       \* the block DAG
          deserving, \* the blocks whose selected chain verifies
          verdict,   \* "open", "valid" or "invalid"
          parents,   \* virtual's parents
          utxo       \* the UTXO set served to readers

vars == <<dag, deserving, verdict, parents, utxo>>

Init ==
    /\ \A b \in Block : verdict[b] # "open" => (verdict[b] = "valid" <=> b \in deserving)
    /\ utxo = PastUTXO(dag, parents)

\* Open blocks are settled, by what they deserve and for good.
Settle ==
    \A b \in Block :
        \/ verdict'[b] = verdict[b]
        \/ verdict[b] = "open" /\ verdict'[b] = IF b \in deserving THEN "valid" ELSE "invalid"

\* Virtual moves together with the UTXO set, onto a settled block.
MoveVirtual ==
    /\ parents' # {} /\ \E p \in parents' : verdict'[p] # "open"
    /\ utxo' = PastUTXO(dag, parents')

Next ==
    /\ Settle
    /\ MoveVirtual
    /\ UNCHANGED <<dag, deserving>>

Spec == Init /\ [][Next]_vars
=============================================================================
