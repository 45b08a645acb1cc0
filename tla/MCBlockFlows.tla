---------------------------- MODULE MCBlockFlows ----------------------------
(***************************************************************************)
(* A small instance of BlockFlows: 1 is built on genesis, 2 on 1 and 3 on  *)
(* 2; 2 may turn out to be invalid.                                        *)
(***************************************************************************)
EXTENDS BlockFlows

MCParents == <<{}, {1}, {2}>>
=============================================================================
