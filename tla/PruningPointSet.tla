-------------------------- MODULE PruningPointSet --------------------------
(***************************************************************************)
(* What the update of the pruning point UTXO set promises to a peer that   *)
(* syncs from the pruning point, whatever writes the set and whenever the  *)
(* process stops: the node serves either nothing or the chain's set at the *)
(* selected pruning point, and once the pruning point rests it serves that *)
(* set.                                                                    *)
(***************************************************************************)
EXTENDS Integers

CONSTANT MaxIndex  \* the last pruning point index

VARIABLES
    index, \* the selected pruning point
    served \* the pruning point whose complete set is served, or Nothing

Nothing == -1

Init == index = 0 /\ served = 0

\* A move of the pruning point withdraws the set.
Move ==
    /\ index < MaxIndex
    /\ index' = index + 1
    /\ served' = Nothing

\* The complete set of the selected pruning point is served from now on.
Serve ==
    /\ served = Nothing
    /\ served' = index
    /\ index' = index

Next == Move \/ Serve

\* What is served is never another set.
Safety == Init /\ [][Next]_<<index, served>>

Spec == Safety /\ WF_<<index, served>>(Serve)
=============================================================================
