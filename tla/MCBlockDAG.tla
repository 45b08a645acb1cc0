---------------------------- MODULE MCBlockDAG ----------------------------
(***************************************************************************)
(* BlockDAG for TLC: headers of two difficulties, and hashes whose order is  *)
(* not the order of arrival.                                                 *)
(***************************************************************************)
EXTENDS BlockDAG

MCWork(b) == IF b % 3 = 0 THEN 3 ELSE 1
MCHash(b) == (5 * b) % 11
=============================================================================
