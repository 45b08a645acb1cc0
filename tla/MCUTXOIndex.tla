---------------------------- MODULE MCUTXOIndex ----------------------------
(***************************************************************************)
(* A small instance of UTXOIndex: three sets of parents over three         *)
(* outpoints, between which a coin is spent, another created, and a third  *)
(* restamped.                                                              *)
(***************************************************************************)
EXTENDS UTXOIndex

MCParents == {"p0", "p1", "p2"}

Coin(score) == [value |-> "coin", isCoinbase |-> FALSE, daaScore |-> score]

MCOutpoint == {"x", "y", "z"}

MCScores == {1, 2}

MCUTXOSetOf ==
    [p \in MCParents |->
        CASE p = "p0" -> [o \in MCOutpoint |-> IF o = "y" THEN None ELSE Coin(1)]
          [] p = "p1" -> [o \in MCOutpoint |-> IF o = "z" THEN Coin(2) ELSE Coin(1)]
          [] p = "p2" -> [o \in MCOutpoint |-> IF o = "y" THEN Coin(2) ELSE None]]
=============================================================================
