--------------------------- MODULE MCLeaseMachine ---------------------------
(* Small instances of LeaseMachine for TLC. *)
EXTENDS LeaseMachine, TLC

Alike == Permutations(Handlers)
=============================================================================
