------------------------- MODULE MCLaunchRegistry -------------------------
(* A small instance of LaunchRegistry for TLC: one launch with an abort     *)
(* signal, one whose child cannot be killed and one with neither.           *)
EXTENDS LaunchRegistry

CONSTANTS c1, c2, c3

ThreeCreates == {c1, c2, c3}
OneSignaled == {c1}
OneUnkillable == {c2}
=============================================================================
