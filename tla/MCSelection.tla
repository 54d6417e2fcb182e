----------------------------- MODULE MCSelection -----------------------------
\* Two models of two providers, two efforts, a route with a fallback to the
\* other provider and one without; events are delivered at once or delayed.
EXTENDS Selection

MCModels == {"m1", "m2"}
MCEfforts == {"low", "high"}
MCDefault == [m1 |-> "low", m2 |-> "high"]
MCProvider == [m1 |-> "p", m2 |-> "q"]
MCRoutes == {<<<<"m2", "low">>, <<"m1", "high">>>>, <<<<"m1", "high">>>>}
MCStarts == {<<"m1", "low">>}
MCDeferral == BOOLEAN
=============================================================================
