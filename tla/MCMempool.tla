------------------------------ MODULE MCMempool ------------------------------
(***************************************************************************)
(* A small instance of Mempool.  1 and 2 spend the same coin, 3 spends the *)
(* output of 1 and a coin that 4 spends too.                               *)
(***************************************************************************)
EXTENDS Mempool

MCInputs == <<<<"c1">>, <<"c1">>, <<"o1", "c2">>, <<"c2">>>>
MCOutputs == <<<<"o1">>, <<"o2">>, <<"o3">>, <<"o4">>>>
MCFee == <<2, 3, 4, 1>>
MCMass == <<1, 1, 1, 1>>
MCBlockTransactions == {<<1>>, <<2>>, <<3>>, <<1, 4>>}
=============================================================================
