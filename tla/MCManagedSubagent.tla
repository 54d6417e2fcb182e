------------------------- MODULE MCManagedSubagent -------------------------
(* Small instances of ManagedSubagent for TLC. *)
EXTENDS ManagedSubagent
=============================================================================
