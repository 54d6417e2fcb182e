----------------------------- MODULE Signaling -----------------------------
(***************************************************************************)
(* Generic extension signaling (extensions/subagents/signaling.ts,         *)
(* registerSignaling): requests on the event bus spawn a one-task child,   *)
(* a watcher per accepted task awaits its outcome, cleans the process tree *)
(* up and publishes one terminal event, while requesters abort, stop or    *)
(* consume it and the session may close.                                   *)
(*                                                                         *)
(* Each action is the code between two awaits.  The child is seen through  *)
(* its handle: a state, and a cleanup that stop() starts and that resolves *)
(* when the tree is down (modules ManagedSubagent and Termination).        *)
(***************************************************************************)
EXTENDS Naturals, FiniteSets

CONSTANTS
    Tasks,       \* the spawn requests ever made
    MaxRecords   \* records.size the manager prunes to

ASSUME TasksAssumption == IsFiniteSet(Tasks) /\ MaxRecords \in Nat

VARIABLES
    spawning,       \* task -> where its spawn request is
    childState,     \* task -> the state its child's handle reports
    cleanup,        \* task -> "none", "pending" or "done": terminationDone
    aborted,        \* task -> has its controller been aborted?
    records,        \* the accepted tasks still on record
    accepted,       \* task -> its place in the order of acceptance, from 1, or 0
    terminal, consumed, stopRequested,   \* fields of a task's record
    watcher,        \* task -> where its watch() is
    pendingOutcome, \* task -> watch()'s local `terminal`
    published,      \* task -> the status of its terminal event, or "none"
    session         \* "open", "closing" (closed = true) or "closed"

registry == <<records, accepted>>
record == <<terminal, consumed, stopRequested>>
vars == <<spawning, childState, cleanup, aborted, registry, record,
          watcher, pendingOutcome, published, session>>

Statuses == {"completed", "stopped", "aborted", "error"}
SpawnStates == {"none", "preparing", "starting", "failing", "accepted", "refused"}
WatchStates == {"none", "waiting", "refreshing", "stopping", "done"}

Init ==
    /\ spawning = [t \in Tasks |-> "none"]
    /\ childState = [t \in Tasks |-> "none"]
    /\ cleanup = [t \in Tasks |-> "none"]
    /\ aborted = [t \in Tasks |-> FALSE]
    /\ records = {}
    /\ accepted = [t \in Tasks |-> 0]
    /\ terminal = [t \in Tasks |-> FALSE]
    /\ consumed = [t \in Tasks |-> FALSE]
    /\ stopRequested = [t \in Tasks |-> FALSE]
    /\ watcher = [t \in Tasks |-> "none"]
    /\ pendingOutcome = [t \in Tasks |-> "none"]
    /\ published = [t \in Tasks |-> "none"]
    /\ session = "open"

closed == session # "open"
Recorded(t) == t \in records

\* mutant: a stop does not end the wait
EndedByItself(t) == childState[t] \in {"idle", "failed"}

Settled(t) == childState[t] \in {"idle", "failed", "stopped"}

\* mutant: stop() returns early for a child that does not run
StopRunning(tasks) ==
    /\ childState' = [t \in Tasks |-> IF t \in tasks THEN "stopped" ELSE childState[t]]
    /\ cleanup' = [t \in Tasks |-> IF t \in tasks /\ childState[t] = "running" THEN "pending"
                                   ELSE cleanup[t]]

\* The tasks whose children child.stop() is called on in one step
StopChildren(tasks) ==
    /\ childState' = [t \in Tasks |-> IF t \in tasks THEN "stopped" ELSE childState[t]]
    /\ cleanup' = [t \in Tasks |-> IF t \in tasks /\ cleanup[t] = "none" THEN "pending"
                                   ELSE cleanup[t]]

-----------------------------------------------------------------------------
(* spawn(), through launch()                                               *)

\* Shape errors and an already aborted signal are refused without a launch.
Spawn(t) ==
    /\ ~closed
    /\ spawning[t] = "none"
    /\ \E outcome \in {"preparing", "refused"} :
          spawning' = [spawning EXCEPT ![t] = outcome]
    /\ UNCHANGED <<childState, cleanup, aborted, registry, record, watcher, pendingOutcome,
                   published, session>>

\* launch() throws before there is a process: cancelled, or no model or room.
LaunchFails(t) ==
    /\ spawning[t] = "preparing"
    /\ spawning' = [spawning EXCEPT ![t] = "refused"]
    /\ UNCHANGED <<childState, cleanup, aborted, registry, record, watcher, pendingOutcome,
                   published, session>>

MayCreate(t) == ~aborted[t]

CreateChild(t) ==
    /\ spawning[t] = "preparing"
    /\ MayCreate(t)
    /\ spawning' = [spawning EXCEPT ![t] = "starting"]
    /\ childState' = [childState EXCEPT ![t] = "running"]
    /\ UNCHANGED <<cleanup, aborted, registry, record, watcher, pendingOutcome, published,
                   session>>

\* start() rejects: launch() stops the child and awaits its cleanup.
StartFails(t) ==
    /\ spawning[t] = "starting"
    /\ spawning' = [spawning EXCEPT ![t] = "failing"]
    /\ StopChildren({t})
    /\ UNCHANGED <<aborted, registry, record, watcher, pendingOutcome, published, session>>

StopAwaited(t) == cleanup[t] = "done"

LaunchFailed(t) ==
    /\ spawning[t] = "failing"
    /\ StopAwaited(t)
    /\ spawning' = [spawning EXCEPT ![t] = "refused"]
    /\ UNCHANGED <<childState, cleanup, aborted, registry, record, watcher, pendingOutcome,
                   published, session>>

\* mutant: prunes the oldest records, terminal or not
PruneAny(rs, order) ==
    {t \in rs : Cardinality({u \in rs : order[u] > order[t]}) < MaxRecords}

\* The oldest terminal records go until at most MaxRecords are left.
Prune(rs, order) ==
    LET older(t) == {u \in rs : terminal[u] /\ order[u] < order[t]}
    IN rs \ {t \in rs : terminal[t] /\ Cardinality(older(t)) + MaxRecords < Cardinality(rs)}

\* launch() resolves: the task is recorded and watched before the reply.
Accept(t) ==
    /\ spawning[t] = "starting"
    /\ spawning' = [spawning EXCEPT ![t] = "accepted"]
    /\ accepted' = [accepted EXCEPT ![t] = 1 + Cardinality({u \in Tasks : accepted[u] > 0})]
    /\ records' = Prune(records \cup {t}, accepted')
    /\ watcher' = [watcher EXCEPT ![t] = "waiting"]
    /\ UNCHANGED <<childState, cleanup, aborted, record, pendingOutcome, published, session>>

-----------------------------------------------------------------------------
(* The requesters and the session.                                         *)

\* The controller lives until the spawn is refused or the watcher is done.
Controlled(t) ==
    \/ spawning[t] \in {"preparing", "starting", "failing"}
    \/ watcher[t] \in {"waiting", "refreshing", "stopping"}

AbortedSpawning(tasks) ==
    [t \in Tasks |-> IF t \in tasks /\ spawning[t] = "starting" THEN "failing" ELSE spawning[t]]

HasChild(t) == spawning[t] \in {"starting", "failing", "accepted"}

\* The requester's signal aborts the controller and stops the child.
Abort(t) ==
    /\ Controlled(t)
    /\ ~aborted[t]
    /\ aborted' = [aborted EXCEPT ![t] = TRUE]
    /\ spawning' = AbortedSpawning({t})
    /\ StopChildren(IF HasChild(t) THEN {t} ELSE {})
    /\ UNCHANGED <<registry, record, watcher, pendingOutcome, published, session>>

Stoppable(t) == Recorded(t) /\ ~terminal[t] /\ ~stopRequested[t]

StopRequest(t) ==
    /\ ~closed
    /\ Stoppable(t)
    /\ stopRequested' = [stopRequested EXCEPT ![t] = TRUE]
    /\ StopChildren({t})
    /\ UNCHANGED <<spawning, aborted, registry, terminal, consumed, watcher, pendingOutcome,
                   published, session>>

Consume(t) ==
    /\ ~closed
    /\ Recorded(t) /\ terminal[t]
    /\ consumed' = [consumed EXCEPT ![t] = TRUE]
    /\ UNCHANGED <<spawning, childState, cleanup, aborted, registry, terminal, stopRequested,
                   watcher, pendingOutcome, published, session>>

\* mutant: close() leaves the requests still launching alone
WatchedTasks == {t \in Tasks : watcher[t] \in {"waiting", "refreshing", "stopping"}}

ControlledTasks == {t \in Tasks : Controlled(t)}

\* close(): aborts every controller and stops every recorded child.
Close ==
    /\ ~closed
    /\ session' = "closing"
    /\ LET tasks == ControlledTasks
       IN /\ aborted' = [t \in Tasks |-> aborted[t] \/ t \in tasks]
          /\ spawning' = AbortedSpawning(tasks)
          /\ StopChildren({t \in Tasks : Recorded(t) \/ (t \in tasks /\ HasChild(t))})
    /\ UNCHANGED <<registry, record, watcher, pendingOutcome, published>>

\* close() resolves once the recorded children and the watchers are done.
CloseResolves ==
    /\ session = "closing"
    /\ \A t \in Tasks : Recorded(t) => cleanup[t] = "done"
    /\ WatchedTasks = {}
    /\ session' = "closed"
    /\ records' = {}
    /\ UNCHANGED <<spawning, childState, cleanup, aborted, accepted, record, watcher, pendingOutcome,
                   published>>

-----------------------------------------------------------------------------
(* watch()                                                                 *)

Cancellation(t) == IF aborted[t] THEN "aborted"
                   ELSE IF stopRequested[t] THEN "stopped" ELSE "none"

Outcome(t) == IF Cancellation(t) # "none" THEN Cancellation(t)
              ELSE IF childState[t] = "idle" THEN "completed" ELSE "error"

WaitSettles(t) ==
    /\ watcher[t] = "waiting"
    /\ ~aborted[t] /\ Settled(t)
    /\ watcher' = [watcher EXCEPT ![t] = "refreshing"]
    /\ UNCHANGED <<spawning, childState, cleanup, aborted, registry, record, pendingOutcome,
                   published, session>>

\* The outcome is retained, then the child is stopped.
Retain(t, outcome) ==
    /\ pendingOutcome' = [pendingOutcome EXCEPT ![t] = IF closed THEN "none" ELSE outcome]
    /\ watcher' = [watcher EXCEPT ![t] = "stopping"]
    /\ StopChildren({t})
    /\ UNCHANGED <<spawning, aborted, registry, record, published, session>>

WaitAborts(t) == watcher[t] = "waiting" /\ aborted[t] /\ Retain(t, "aborted")

\* refresh() never throws: the outcome is read from the handle.
Refreshed(t) == watcher[t] = "refreshing" /\ Retain(t, Outcome(t))

\* A cancellation wins until publication.
FinalStatus(t) == IF Cancellation(t) # "none" THEN Cancellation(t) ELSE pendingOutcome[t]

Publishes(t) == pendingOutcome[t] # "none" /\ ~closed

\* mutant: publishes without awaiting the cleanup
CleanupBegun(t) == cleanup[t] # "none"

CleanedUp(t) == cleanup[t] = "done"

\* After the cleanup: the synchronous commit.  A listener may consume the
\* task before the emit returns.
Finish(t) ==
    /\ watcher[t] = "stopping"
    /\ CleanedUp(t)
    /\ watcher' = [watcher EXCEPT ![t] = "done"]
    /\ IF Publishes(t)
       THEN /\ terminal' = [terminal EXCEPT ![t] = TRUE]
            /\ published' = [published EXCEPT ![t] = FinalStatus(t)]
            /\ \E now \in BOOLEAN :
                  consumed' = [consumed EXCEPT ![t] = now /\ Recorded(t)]
       ELSE UNCHANGED <<terminal, published, consumed>>
    /\ UNCHANGED <<spawning, childState, cleanup, aborted, registry, stopRequested,
                   pendingOutcome, session>>

-----------------------------------------------------------------------------
(* The child, as its handle reports it (external to this module).          *)

ChildFrame == UNCHANGED <<spawning, aborted, registry, record, watcher, pendingOutcome,
                          published, session>>

\* The run ends, or another caller steers the idle child into a new one.
ChildChanges(t) ==
    /\ childState[t] \in {"running", "idle"}
    /\ childState' = [childState EXCEPT ![t] = IF childState[t] = "idle" THEN "running"
                                               ELSE "idle"]
    /\ UNCHANGED cleanup /\ ChildFrame

\* A model error or a crash fails the child and terminates its tree.
ChildFails(t) ==
    /\ childState[t] \in {"running", "idle"}
    /\ childState' = [childState EXCEPT ![t] = "failed"]
    /\ cleanup' = [cleanup EXCEPT ![t] = "pending"]
    /\ ChildFrame

CleanupResolves(t) ==
    /\ cleanup[t] = "pending"
    /\ cleanup' = [cleanup EXCEPT ![t] = "done"]
    /\ UNCHANGED childState /\ ChildFrame

-----------------------------------------------------------------------------
Next ==
    \/ \E t \in Tasks :
          \/ Spawn(t) \/ LaunchFails(t) \/ CreateChild(t) \/ StartFails(t)
          \/ LaunchFailed(t) \/ Accept(t)
          \/ Abort(t) \/ StopRequest(t) \/ Consume(t)
          \/ WaitSettles(t) \/ WaitAborts(t) \/ Refreshed(t) \/ Finish(t)
          \/ ChildChanges(t) \/ ChildFails(t) \/ CleanupResolves(t)
    \/ Close
    \/ CloseResolves

(* The watcher's own steps are taken, refresh() ends (its requests have     *)
(* timers), and a termination resolves (its deadline).  No requester, no    *)
(* launch and no child is assumed to make progress.                         *)
Fairness ==
    /\ \A t \in Tasks :
          /\ WF_vars(WaitSettles(t)) /\ WF_vars(WaitAborts(t))
          /\ WF_vars(Refreshed(t)) /\ WF_vars(Finish(t))
          /\ WF_vars(CleanupResolves(t))
    /\ WF_vars(CloseResolves)

Spec == Init /\ [][Next]_vars /\ Fairness

-----------------------------------------------------------------------------
(* Properties.                                                             *)

\* Type invariant.
TypeOK ==
    /\ spawning \in [Tasks -> SpawnStates]
    /\ childState \in [Tasks -> {"none", "running", "idle", "failed", "stopped"}]
    /\ cleanup \in [Tasks -> {"none", "pending", "done"}]
    /\ aborted \in [Tasks -> BOOLEAN] /\ stopRequested \in [Tasks -> BOOLEAN]
    /\ terminal \in [Tasks -> BOOLEAN] /\ consumed \in [Tasks -> BOOLEAN]
    /\ records \subseteq Tasks
    /\ accepted \in [Tasks -> Nat]
    /\ watcher \in [Tasks -> WatchStates]
    /\ pendingOutcome \in [Tasks -> Statuses \cup {"none"}]
    /\ published \in [Tasks -> Statuses \cup {"none"}]
    /\ session \in {"open", "closing", "closed"}

\* What a requester can tell: see SignalingContract.
Began == {t \in Tasks : childState[t] # "none"}
Alive == {t \in Began : cleanup[t] # "done"}
Cancelled == [t \in Tasks |-> IF aborted[t] THEN "abort"
                              ELSE IF stopRequested[t] THEN "stop" ELSE "none"]

Contract == INSTANCE SignalingContract WITH
    began <- Began, alive <- Alive, cancelled <- Cancelled,
    delivered <- published, open <- ~closed

\* The signaling implements its contract: one delivery per task, after the
\* cleanup, never after the close, decided by the strongest cancellation.
ImplementsContract == Contract!Spec

\* A refused spawn leaves no child behind, so the requester may retry at once.
RefusedLeavesNoChild ==
    \A t \in Tasks : spawning[t] = "refused" => childState[t] = "none" \/ cleanup[t] = "done"

\* A task that still runs stays on record, whatever was pruned: its stop
\* request is always found.
RunningTaskOnRecord == \A t \in WatchedTasks : Recorded(t)

\* "Session shutdown ...": once close() began, every child is going down,
\* those of requests still launching included, and no new one appears.
ClosingStopsEveryChild ==
    closed => \A t \in Tasks : childState[t] # "none" => cleanup[t] # "none"

\* An accepted stop, or an abort, ends in the task's terminal event unless
\* the session closes first.
CancelledTaskReported ==
    \A t \in Tasks : (watcher[t] # "none" /\ Cancellation(t) # "none")
                        ~> (published[t] # "none" \/ closed)

\* Session shutdown never hangs on a task.
ClosingResolves == session = "closing" ~> session = "closed"
=============================================================================
