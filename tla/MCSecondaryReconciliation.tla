---------------------- MODULE MCSecondaryReconciliation ----------------------
(* A small instance of SecondaryReconciliation for TLC.                     *)
EXTENDS SecondaryReconciliation
=============================================================================
