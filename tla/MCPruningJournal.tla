-------------------------- MODULE MCPruningJournal --------------------------
(***************************************************************************)
(* Two moves of the pruning point.  The first spends outpoint 1, creates 2 *)
(* and restamps 3; the second restamps 2 and spends 3.                     *)
(***************************************************************************)
EXTENDS PruningJournal

MCSetAt ==
    [i \in 0 .. MaxIndex |->
        [o \in Outpoints |->
            CASE i = 0 -> IF o = 1 \/ o = 3 THEN 1 ELSE 0
              [] i = 1 -> IF o = 1 THEN 0 ELSE IF o = 2 THEN 1 ELSE 2
              [] OTHER -> IF o = 2 THEN 2 ELSE 0]]
=============================================================================
