------------------------- MODULE SignalingContract -------------------------
(***************************************************************************)
(* What the generic extension signaling promises about each task           *)
(* (extensions/subagents/README.md, "Generic extension signaling"): the    *)
(* outcome of a task is delivered at most once, never while its child may  *)
(* still be alive and never after the session closed; a cancellation       *)
(* accepted before delivery decides it, an abort before a stop.            *)
(***************************************************************************)
CONSTANT Tasks

Cancellations == {"none", "stop", "abort"}
Statuses == {"completed", "stopped", "aborted", "error"}

VARIABLES
    began,      \* tasks whose child process was created
    alive,      \* tasks whose process tree may be alive
    cancelled,  \* task -> the strongest cancellation accepted so far
    delivered,  \* task -> the delivered status, or "none"
    open        \* is the session open?

vars == <<began, alive, cancelled, delivered, open>>

Init ==
    /\ began = {} /\ alive = {}
    /\ cancelled = [t \in Tasks |-> "none"]
    /\ delivered = [t \in Tasks |-> "none"]
    /\ open = TRUE

Begin(t) ==
    /\ open /\ t \notin began
    /\ delivered[t] = "none"
    /\ began' = began \cup {t}
    /\ alive' = alive \cup {t}
    /\ UNCHANGED <<cancelled, delivered, open>>

End(t) ==
    /\ t \in alive
    /\ alive' = alive \ {t}
    /\ UNCHANGED <<began, cancelled, delivered, open>>

Cancel(t, how) ==
    /\ delivered[t] = "none"
    /\ how = "stop" => cancelled[t] = "none"
    /\ cancelled' = [cancelled EXCEPT ![t] = how]
    /\ UNCHANGED <<began, alive, delivered, open>>

Agrees(cancellation, status) ==
    CASE cancellation = "abort" -> status = "aborted"
      [] cancellation = "stop"  -> status = "stopped"
      [] OTHER                  -> status \in {"completed", "error"}

Deliver(t, status) ==
    /\ open /\ t \in began \ alive
    /\ delivered[t] = "none"
    /\ Agrees(cancelled[t], status)
    /\ delivered' = [delivered EXCEPT ![t] = status]
    /\ UNCHANGED <<began, alive, cancelled, open>>

\* Closing the session cancels the tasks that were not delivered.
Close ==
    /\ open
    /\ open' = FALSE
    /\ cancelled' \in [Tasks -> Cancellations]
    /\ \A t \in Tasks : delivered[t] # "none" => cancelled'[t] = cancelled[t]
    /\ UNCHANGED <<began, alive, delivered>>

Next ==
    \/ \E t \in Tasks : Begin(t) \/ End(t)
    \/ \E t \in Tasks, how \in {"stop", "abort"} : Cancel(t, how)
    \/ \E t \in Tasks, status \in Statuses : Deliver(t, status)
    \/ Close

Spec == Init /\ [][Next]_vars

-----------------------------------------------------------------------------
TypeOK ==
    /\ began \subseteq Tasks /\ alive \subseteq began
    /\ cancelled \in [Tasks -> Cancellations]
    /\ delivered \in [Tasks -> Statuses \cup {"none"}]
    /\ open \in BOOLEAN

\* "stopped before terminal delivery": a caller that starts a fallback on the
\* terminal event never overlaps the child it replaces.
NoOverlap == \A t \in alive : delivered[t] = "none"

\* "either suppresses the final answer until the terminal event is
\* published", "later aborts cannot change the published result"
CancellationDecides ==
    \A t \in Tasks : delivered[t] # "none" => Agrees(cancelled[t], delivered[t])
=============================================================================
