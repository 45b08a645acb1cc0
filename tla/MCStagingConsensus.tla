------------------------- MODULE MCStagingConsensus -------------------------
(***************************************************************************)
(* StagingConsensus for TLC.                                               *)
(***************************************************************************)
EXTENDS StagingConsensus

=============================================================================
