--------------------------- MODULE MCChainReplay ---------------------------
(***************************************************************************)
(* A small instance of ChainReplay: an initial coin with two competing      *)
(* spenders, two coinbases, and a transaction that spends an output of     *)
(* another transaction together with a coinbase.                           *)
(***************************************************************************)
EXTENDS ChainReplay

MCTx ==
    { [inputs |-> {},           outputs |-> {"c1"}, isCoinbase |-> TRUE],
      [inputs |-> {},           outputs |-> {"c2"}, isCoinbase |-> TRUE],
      [inputs |-> {"g"},        outputs |-> {"t"},  isCoinbase |-> FALSE],
      [inputs |-> {"g"},        outputs |-> {"u"},  isCoinbase |-> FALSE],
      [inputs |-> {"t", "c1"},  outputs |-> {"w"},  isCoinbase |-> FALSE] }

MCOutpoint == {"g", "c1", "c2", "t", "u", "w"}

MCScores == 0 .. MaxScore

MCValueOf == [o \in MCOutpoint |-> "v"]
=============================================================================
