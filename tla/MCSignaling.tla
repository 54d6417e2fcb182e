---------------------------- MODULE MCSignaling ----------------------------
(* A small instance of Signaling for TLC; its constants are in the .cfg.    *)
EXTENDS Signaling
=============================================================================
