------------------------------- MODULE MCReview -------------------------------
(* Instances of module Review: two review threads, one or two plans. *)
EXTENDS Review
=============================================================================
