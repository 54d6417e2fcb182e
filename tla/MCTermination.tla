--------------------------- MODULE MCTermination ---------------------------
(* A small instance of Termination for TLC: the root and three descendants, *)
(* one ordinary, one that ignores SIGTERM and one that cannot be killed.    *)
EXTENDS Termination

CONSTANTS ordinary, immune, stuck

ThreeDescendants == {ordinary, immune, stuck}
TwoImmune == {immune, stuck}
OneStuck == {stuck}
=============================================================================
