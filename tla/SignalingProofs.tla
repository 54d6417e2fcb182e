-------------------------- MODULE SignalingProofs --------------------------
(* The safety of Signaling for every set of tasks and every record limit:  *)
(* type correctness, the invariants the runs check and the refinement of   *)
(* SignalingContract, all from the inductive invariant IInv.               *)
EXTENDS Signaling, FiniteSetTheorems, TLAPS

(* How far a task's child and its cleanup are, by the place its request is *)
(* at.                                                                     *)
ChildInv ==
    \A t \in Tasks :
        /\ spawning[t] \in {"none", "preparing"} => childState[t] = "none"
        /\ HasChild(t) => childState[t] # "none"
        /\ childState[t] = "none" => cleanup[t] = "none"
        /\ childState[t] \in {"running", "idle"} => cleanup[t] = "none"
        /\ watcher[t] \in {"stopping", "done"} => cleanup[t] # "none"
        /\ spawning[t] = "starting" => ~aborted[t]

(* The record of an accepted task, its watcher and what was published.     *)
WatchInv ==
    \A t \in Tasks :
        /\ watcher[t] # "none" <=> spawning[t] = "accepted"
        /\ published[t] # "none" => watcher[t] = "done"
        /\ terminal[t] <=> published[t] # "none"
        /\ t \in records => watcher[t] # "none"
        /\ pendingOutcome[t] = "aborted" => aborted[t]
        /\ pendingOutcome[t] = "stopped" => stopRequested[t]

\* A closed session has aborted whatever is still under way.
ClosedInv == closed => \A t \in Tasks : Controlled(t) => aborted[t]

IInv == /\ TypeOK /\ ChildInv /\ WatchInv /\ ClosedInv
        /\ RefusedLeavesNoChild /\ RunningTaskOnRecord /\ ClosingStopsEveryChild

-----------------------------------------------------------------------------
\* The place of a newly accepted task is a number.
LEMMA AcceptedIsNat == ASSUME TypeOK
                       PROVE  Cardinality({u \in Tasks : accepted[u] > 0}) \in Nat
  BY TasksAssumption, FS_Subset, FS_CardinalityType

\* stop() on children that exist neither creates nor forgets one: a cleanup
\* under way or over stays as it is, the others begin.
LEMMA StopChildrenType ==
  ASSUME TypeOK, NEW S \in SUBSET Tasks, StopChildren(S)
  PROVE  /\ childState' \in [Tasks -> {"none", "running", "idle", "failed", "stopped"}]
         /\ cleanup' \in [Tasks -> {"none", "pending", "done"}]
         /\ \A t \in Tasks : /\ t \in S => childState'[t] = "stopped" /\ cleanup'[t] # "none"
                             /\ t \notin S => /\ childState'[t] = childState[t]
                                              /\ cleanup'[t] = cleanup[t]
                             /\ cleanup[t] = "done" <=> cleanup'[t] = "done"
                             /\ cleanup[t] # "none" => cleanup'[t] # "none"
  BY DEF TypeOK, StopChildren

\* Pruning only forgets tasks that were reported.
LEMMA PruneKeepsRunning ==
  ASSUME NEW rs \in SUBSET Tasks, NEW order
  PROVE  Prune(rs, order) \subseteq rs /\ \A t \in rs : ~terminal[t] => t \in Prune(rs, order)
  BY DEF Prune

\* Every step preserves the types.
LEMMA TypeStep == TypeOK /\ [Next]_vars => TypeOK'
<1> SUFFICES ASSUME TypeOK, [Next]_vars PROVE TypeOK'
  OBVIOUS
<1> USE DEF TypeOK, SpawnStates, WatchStates, Statuses, registry, record
<1>1. ASSUME NEW t \in Tasks, Spawn(t) \/ LaunchFails(t) \/ CreateChild(t) \/ LaunchFailed(t)
      PROVE TypeOK'
  BY <1>1 DEF Spawn, LaunchFails, CreateChild, LaunchFailed
<1>2. ASSUME NEW t \in Tasks, StartFails(t) PROVE TypeOK'
  BY <1>2, StopChildrenType DEF StartFails
<1>3. ASSUME NEW t \in Tasks, Accept(t) PROVE TypeOK'
  <2>1. accepted' \in [Tasks -> Nat]
    BY <1>3, AcceptedIsNat DEF Accept
  <2>2. records' \subseteq Tasks
    BY <1>3, PruneKeepsRunning DEF Accept
  <2> QED
    BY <1>3, <2>1, <2>2 DEF Accept
<1>4. ASSUME NEW t \in Tasks, Abort(t) PROVE TypeOK'
  <2>1. StopChildren(IF HasChild(t) THEN {t} ELSE {})
    BY <1>4 DEF Abort
  <2>2. spawning' \in [Tasks -> SpawnStates]
    BY <1>4 DEF Abort, AbortedSpawning
  <2> QED
    BY <1>4, <2>1, <2>2, StopChildrenType DEF Abort
<1>5. ASSUME NEW t \in Tasks, StopRequest(t) PROVE TypeOK'
  BY <1>5, StopChildrenType DEF StopRequest
<1>6. ASSUME NEW t \in Tasks, Consume(t) \/ WaitSettles(t) PROVE TypeOK'
  BY <1>6 DEF Consume, WaitSettles
<1>7. ASSUME NEW t \in Tasks, WaitAborts(t) PROVE TypeOK'
  BY <1>7, StopChildrenType DEF WaitAborts, Retain
<1>8. ASSUME NEW t \in Tasks, Refreshed(t) PROVE TypeOK'
  BY <1>8, StopChildrenType DEF Refreshed, Retain, Outcome, Cancellation
<1>9. ASSUME NEW t \in Tasks, Finish(t) PROVE TypeOK'
  BY <1>9 DEF Finish, FinalStatus, Cancellation
<1>10. ASSUME NEW t \in Tasks, ChildChanges(t) \/ ChildFails(t) \/ CleanupResolves(t)
       PROVE TypeOK'
  BY <1>10 DEF ChildChanges, ChildFails, CleanupResolves, ChildFrame
<1>11. CASE Close
  <2> DEFINE S == {t \in Tasks : Recorded(t) \/ (t \in ControlledTasks /\ HasChild(t))}
  <2>1. StopChildren(S)
    BY <1>11 DEF Close
  <2>2. spawning' \in [Tasks -> SpawnStates]
    BY <1>11 DEF Close, AbortedSpawning
  <2>3. aborted' \in [Tasks -> BOOLEAN]
    BY <1>11 DEF Close
  <2> QED
    BY <1>11, <2>1, <2>2, <2>3, StopChildrenType DEF Close
<1>12. CASE CloseResolves
  BY <1>12 DEF CloseResolves
<1>13. CASE UNCHANGED vars
  BY <1>13 DEF vars
<1> QED
  BY <1>1, <1>2, <1>3, <1>4, <1>5, <1>6, <1>7, <1>8, <1>9, <1>10, <1>11, <1>12, <1>13 DEF Next
\* Every reachable state is well typed.
THEOREM TypeCorrect == Spec => []TypeOK
<1>1. Init => TypeOK
  BY DEF Init, TypeOK, SpawnStates, WatchStates
<1> QED
  BY <1>1, TypeStep, PTL DEF Spec

-----------------------------------------------------------------------------
\* The inductive invariant holds initially ...
LEMMA InvInit == Init => IInv
  BY DEF Init, IInv, TypeOK, SpawnStates, WatchStates, ChildInv, WatchInv, ClosedInv, closed,
         HasChild, RefusedLeavesNoChild, RunningTaskOnRecord, WatchedTasks, ClosingStopsEveryChild

\* ... and is preserved: the parts about one task by what an action does to
\* that task, the parts about the session by what Close does to all of them.
LEMMA InvStep == IInv /\ [Next]_vars => IInv'
<1> SUFFICES ASSUME IInv, [Next]_vars PROVE IInv'
  OBVIOUS
<1>0. TypeOK /\ TypeOK'
  BY TypeStep DEF IInv
<1> DEFINE Rest == /\ ChildInv /\ WatchInv /\ ClosedInv
                   /\ RefusedLeavesNoChild /\ RunningTaskOnRecord /\ ClosingStopsEveryChild
<1> SUFFICES Rest'
  BY <1>0 DEF IInv
<1> USE DEF IInv, ChildInv, WatchInv, ClosedInv, RefusedLeavesNoChild, RunningTaskOnRecord,
            ClosingStopsEveryChild, closed, Controlled, HasChild, WatchedTasks, Recorded,
            registry, record
<1>1. ASSUME NEW t \in Tasks, Spawn(t) PROVE Rest'
  BY <1>0, <1>1 DEF Spawn, TypeOK
<1>2. ASSUME NEW t \in Tasks, LaunchFails(t) PROVE Rest'
  BY <1>0, <1>2 DEF LaunchFails, TypeOK
<1>3. ASSUME NEW t \in Tasks, CreateChild(t) PROVE Rest'
  BY <1>0, <1>3 DEF CreateChild, MayCreate, TypeOK
<1>4. ASSUME NEW t \in Tasks, StartFails(t) PROVE Rest'
  BY <1>0, <1>4, StopChildrenType DEF StartFails, TypeOK
<1>5. ASSUME NEW t \in Tasks, LaunchFailed(t) PROVE Rest'
  BY <1>0, <1>5 DEF LaunchFailed, StopAwaited, TypeOK
<1>6. ASSUME NEW t \in Tasks, Accept(t) PROVE Rest'
  <2>1. /\ records' \subseteq records \cup {t}
        /\ \A u \in records \cup {t} : ~terminal[u] => u \in records'
    BY <1>0, <1>6, PruneKeepsRunning DEF Accept, TypeOK
  <2>2. ChildInv' /\ ClosedInv' /\ RefusedLeavesNoChild' /\ ClosingStopsEveryChild'
    BY <1>0, <1>6 DEF Accept, TypeOK
  <2>a. \A u \in Tasks : /\ spawning'[u] = IF u = t THEN "accepted" ELSE spawning[u]
                         /\ watcher'[u] = IF u = t THEN "waiting" ELSE watcher[u]
    BY <1>6 DEF Accept, TypeOK
  <2>b. /\ terminal' = terminal /\ published' = published /\ aborted' = aborted
        /\ pendingOutcome' = pendingOutcome /\ stopRequested' = stopRequested
    BY <1>6 DEF Accept
  <2>c. watcher[t] = "none" /\ published[t] = "none" /\ ~terminal[t]
    BY <1>6 DEF Accept
  <2>3. WatchInv'
    BY <2>1, <2>a, <2>b, <2>c
  <2>4. RunningTaskOnRecord'
    BY <1>6, <2>1, <2>a DEF Accept
  <2> QED
    BY <2>2, <2>3, <2>4
<1>7. ASSUME NEW t \in Tasks, Abort(t) PROVE Rest'
  <2>1. StopChildren(IF HasChild(t) THEN {t} ELSE {})
    BY <1>7 DEF Abort
  <2>2. \A u \in Tasks : spawning'[u] = IF u = t /\ spawning[u] = "starting" THEN "failing"
                                        ELSE spawning[u]
    BY <1>7 DEF Abort, AbortedSpawning
  <2>3. \A u \in Tasks : /\ childState'[u] = "none" <=> childState[u] = "none"
                         /\ childState'[u] \in {childState[u], "stopped"}
                         /\ cleanup'[u] # "none" => childState'[u] = "stopped" \/ cleanup[u] # "none"
                         /\ childState'[u] # childState[u] => cleanup'[u] # "none"
                         /\ cleanup[u] # "none" => cleanup'[u] # "none"
                         /\ cleanup[u] = "done" => cleanup'[u] = "done"
    BY <1>0, <2>1, StopChildrenType DEF TypeOK, SpawnStates, WatchStates
  <2>a. \A u \in Tasks : aborted'[u] = (aborted[u] \/ u = t)
    BY <1>7 DEF Abort, TypeOK
  <2>4. ChildInv'
    BY <1>7, <2>a, <2>2, <2>3 DEF Abort
  <2>5. ClosedInv' /\ RunningTaskOnRecord' /\ WatchInv'
    BY <1>0, <1>7, <2>2 DEF Abort, TypeOK
  <2>6. RefusedLeavesNoChild' /\ ClosingStopsEveryChild'
    BY <1>7, <2>2, <2>3 DEF Abort
  <2> QED
    BY <2>4, <2>5, <2>6
<1>8. ASSUME NEW t \in Tasks, StopRequest(t) PROVE Rest'
  BY <1>0, <1>8, StopChildrenType DEF StopRequest, Stoppable, TypeOK
<1>9. ASSUME NEW t \in Tasks, Consume(t) PROVE Rest'
  BY <1>0, <1>9 DEF Consume, TypeOK
<1>10. ASSUME NEW t \in Tasks, WaitSettles(t) PROVE Rest'
  BY <1>0, <1>10 DEF WaitSettles, TypeOK
<1>11. ASSUME NEW t \in Tasks, WaitAborts(t) PROVE Rest'
  BY <1>0, <1>11, StopChildrenType DEF WaitAborts, Retain, TypeOK
<1>12. ASSUME NEW t \in Tasks, Refreshed(t) PROVE Rest'
  BY <1>0, <1>12, StopChildrenType DEF Refreshed, Retain, Outcome, Cancellation, TypeOK
<1>13. ASSUME NEW t \in Tasks, Finish(t) PROVE Rest'
  BY <1>0, <1>13 DEF Finish, CleanedUp, Publishes, FinalStatus, Cancellation, TypeOK
<1>14. ASSUME NEW t \in Tasks, ChildChanges(t) \/ ChildFails(t) \/ CleanupResolves(t)
       PROVE Rest'
  BY <1>0, <1>14 DEF ChildChanges, ChildFails, CleanupResolves, ChildFrame, TypeOK
<1>15. CASE Close
  <2> DEFINE S == {t \in Tasks : Recorded(t) \/ (t \in ControlledTasks /\ HasChild(t))}
  <2>1. StopChildren(S)
    BY <1>15 DEF Close
  <2>2. \A t \in Tasks : /\ spawning'[t] = IF Controlled(t) /\ spawning[t] = "starting"
                                           THEN "failing" ELSE spawning[t]
                         /\ aborted'[t] = (aborted[t] \/ Controlled(t))
    BY <1>0, <1>15 DEF Close, AbortedSpawning, ControlledTasks, TypeOK
  <2>3. \A t \in Tasks : childState'[t] # "none" => cleanup'[t] # "none"
    BY <1>0, <2>1, StopChildrenType DEF ControlledTasks, TypeOK, SpawnStates, WatchStates
  <2>4. ChildInv'
    BY <1>0, <1>15, <2>1, <2>2, StopChildrenType DEF Close, ControlledTasks, TypeOK
  <2>5. WatchInv' /\ ClosedInv' /\ RunningTaskOnRecord'
    BY <1>15, <2>2 DEF Close
  <2>6. RefusedLeavesNoChild'
    BY <1>0, <1>15, <2>1, <2>2, StopChildrenType DEF Close, ControlledTasks, TypeOK
  <2> QED
    BY <2>3, <2>4, <2>5, <2>6
<1>16. CASE CloseResolves
  BY <1>0, <1>16 DEF CloseResolves, TypeOK
<1>17. CASE UNCHANGED vars
  BY <1>17 DEF vars
<1> QED
  BY <1>1, <1>2, <1>3, <1>4, <1>5, <1>6, <1>7, <1>8, <1>9, <1>10, <1>11, <1>12, <1>13, <1>14,
     <1>15, <1>16, <1>17 DEF Next

\* A refused spawn leaves no child behind, so its requester may retry at once.
THEOREM RefusalIsClean == Spec => []RefusedLeavesNoChild
<1>1. IInv => RefusedLeavesNoChild
  BY DEF IInv
<1> QED
  BY <1>1, InvInit, InvStep, PTL DEF Spec

\* A task under way is on record whatever was pruned: its stop request is
\* always found.
THEOREM RunningTaskIsFound == Spec => []RunningTaskOnRecord
<1>1. IInv => RunningTaskOnRecord
  BY DEF IInv
<1> QED
  BY <1>1, InvInit, InvStep, PTL DEF Spec

\* A closing session takes down every child, those still launching included.
THEOREM ClosingIsComplete == Spec => []ClosingStopsEveryChild
<1>1. IInv => ClosingStopsEveryChild
  BY DEF IInv
<1> QED
  BY <1>1, InvInit, InvStep, PTL DEF Spec

-----------------------------------------------------------------------------
\* Stopping children that exist changes nothing the contract sees.
LEMMA StoppingIsInvisible ==
  ASSUME IInv, NEW S \in SUBSET Tasks, StopChildren(S),
         \A t \in S : childState[t] # "none"
  PROVE  Began' = Began /\ Alive' = Alive
<1>1. \A t \in Tasks : /\ childState'[t] = "none" <=> childState[t] = "none"
                       /\ cleanup'[t] = "done" <=> cleanup[t] = "done"
  BY StopChildrenType DEF IInv
<1> QED
  BY <1>1 DEF Began, Alive

\* The signaling delivers what its contract promises: each step is a step of
\* the contract or leaves everything the contract sees unchanged.
THEOREM RefinesContract == Spec => ImplementsContract
<1>1. Init => Contract!Init
  BY DEF Init, Contract!Init, closed, Began, Alive, Cancelled
<1>2. IInv /\ [Next]_vars => [Contract!Next]_(Contract!vars)
  <2> SUFFICES ASSUME IInv, [Next]_vars PROVE [Contract!Next]_(Contract!vars)
    OBVIOUS
  <2>0. TypeOK /\ ChildInv /\ WatchInv /\ ClosedInv
    BY DEF IInv
  <2> USE DEF registry, record, closed
  <2>1. ASSUME NEW t \in Tasks,
               Spawn(t) \/ LaunchFails(t) \/ LaunchFailed(t) \/ Accept(t)
                 \/ Consume(t) \/ WaitSettles(t)
        PROVE UNCHANGED Contract!vars
    BY <2>1 DEF Spawn, LaunchFails, LaunchFailed, Accept, Consume, WaitSettles,
                Contract!vars, Began, Alive, Cancelled
  <2>2. ASSUME NEW t \in Tasks, CreateChild(t) PROVE Contract!Begin(t)
    <3>1. childState[t] = "none" /\ cleanup[t] = "none" /\ published[t] = "none" /\ ~closed
      BY <2>0, <2>2 DEF CreateChild, MayCreate, ChildInv, WatchInv, ClosedInv, Controlled
    <3>2. \A u \in Tasks : childState'[u] = IF u = t THEN "running" ELSE childState[u]
      BY <2>0, <2>2 DEF CreateChild, TypeOK
    <3>3. Began' = Began \cup {t} /\ Alive' = Alive \cup {t}
      BY <2>2, <3>1, <3>2 DEF CreateChild, Began, Alive
    <3>4. t \notin Began
      BY <3>1 DEF Began
    <3> QED
      BY <2>2, <3>1, <3>3, <3>4 DEF CreateChild, Cancelled, Contract!Begin
  <2>3. ASSUME NEW t \in Tasks, StartFails(t) PROVE UNCHANGED Contract!vars
    <3>1. Began' = Began /\ Alive' = Alive
      BY <2>0, <2>3, StoppingIsInvisible DEF StartFails, ChildInv, HasChild
    <3> QED
      BY <2>3, <3>1 DEF StartFails, Cancelled, Contract!vars
  <2>4. ASSUME NEW t \in Tasks, Abort(t) PROVE Contract!Cancel(t, "abort")
    <3>1. Began' = Began /\ Alive' = Alive
      BY <2>0, <2>4, StoppingIsInvisible DEF Abort, ChildInv
    <3>2. Cancelled' = [Cancelled EXCEPT ![t] = "abort"]
      BY <2>0, <2>4 DEF Abort, Cancelled, TypeOK
    <3>3. published[t] = "none"
      BY <2>0, <2>4 DEF Abort, Controlled, WatchInv
    <3> QED
      BY <2>4, <3>1, <3>2, <3>3 DEF Abort, Contract!Cancel
  <2>5. ASSUME NEW t \in Tasks, StopRequest(t)
        PROVE Contract!Cancel(t, "stop") \/ UNCHANGED Contract!vars
    <3>1. Began' = Began /\ Alive' = Alive
      <4>1. childState[t] # "none"
        BY <2>0, <2>5 DEF StopRequest, Stoppable, Recorded, WatchInv, ChildInv, HasChild
      <4> QED
        BY <2>5, <4>1, StoppingIsInvisible DEF StopRequest
    <3>2. published[t] = "none" /\ ~stopRequested[t]
      BY <2>0, <2>5 DEF StopRequest, Stoppable, WatchInv
    <3>3. CASE aborted[t]
      <4>1. Cancelled' = Cancelled
        BY <2>0, <2>5, <3>3 DEF StopRequest, Cancelled, TypeOK
      <4> QED
        BY <2>5, <3>1, <4>1 DEF StopRequest, Contract!vars
    <3>4. CASE ~aborted[t]
      <4>1. Cancelled' = [Cancelled EXCEPT ![t] = "stop"] /\ Cancelled[t] = "none"
        BY <2>0, <2>5, <3>2, <3>4 DEF StopRequest, Cancelled, TypeOK
      <4> QED
        BY <2>5, <3>1, <3>2, <4>1 DEF StopRequest, Contract!Cancel
    <3> QED
      BY <3>3, <3>4
  <2>6. ASSUME NEW t \in Tasks, WaitAborts(t) \/ Refreshed(t) PROVE UNCHANGED Contract!vars
    <3>1. Began' = Began /\ Alive' = Alive
      <4>1. childState[t] # "none"
        BY <2>0, <2>6 DEF WaitAborts, Refreshed, WatchInv, ChildInv, HasChild
      <4> QED
        BY <2>6, <4>1, StoppingIsInvisible DEF WaitAborts, Refreshed, Retain
    <3> QED
      BY <2>6, <3>1 DEF WaitAborts, Refreshed, Retain, Cancelled, Contract!vars
  <2>7. ASSUME NEW t \in Tasks, Finish(t)
        PROVE \/ \E status \in Contract!Statuses : Contract!Deliver(t, status)
              \/ UNCHANGED Contract!vars
    <3>1. UNCHANGED <<Began, Alive, Cancelled, session>>
      BY <2>7 DEF Finish, Began, Alive, Cancelled
    <3>2. CASE Publishes(t)
      <4>1. t \in Began \ Alive
        BY <2>0, <2>7 DEF Finish, CleanedUp, Began, Alive, ChildInv
      <4>2. published[t] = "none"
        BY <2>0, <2>7 DEF Finish, WatchInv
      <4>3. Contract!Agrees(Cancelled[t], FinalStatus(t))
        BY <2>0, <3>2 DEF Publishes, FinalStatus, Cancellation, Cancelled, WatchInv, TypeOK,
                          Statuses, Contract!Agrees
      <4>4. Contract!Deliver(t, FinalStatus(t))
        BY <2>7, <3>1, <3>2, <4>1, <4>2, <4>3 DEF Finish, Publishes, Contract!Deliver
      <4>5. FinalStatus(t) \in Contract!Statuses
        BY <2>0, <3>2 DEF FinalStatus, Cancellation, Publishes, TypeOK, Statuses,
                          Contract!Statuses
      <4> QED
        BY <4>4, <4>5
    <3>3. CASE ~Publishes(t)
      BY <2>7, <3>1, <3>3 DEF Finish, Contract!vars
    <3> QED
      BY <3>2, <3>3
  <2>8. ASSUME NEW t \in Tasks, ChildChanges(t) \/ ChildFails(t) PROVE UNCHANGED Contract!vars
    <3>1. \A u \in Tasks : /\ childState'[u] = "none" <=> childState[u] = "none"
                           /\ cleanup'[u] = "done" <=> cleanup[u] = "done"
      BY <2>0, <2>8 DEF ChildChanges, ChildFails, ChildInv, TypeOK
    <3> QED
      BY <2>8, <3>1 DEF ChildChanges, ChildFails, ChildFrame, Began, Alive, Cancelled,
                        Contract!vars
  <2>9. ASSUME NEW t \in Tasks, CleanupResolves(t) PROVE Contract!End(t)
    <3>1. Began' = Began /\ Alive' = Alive \ {t} /\ t \in Alive
      BY <2>0, <2>9 DEF CleanupResolves, Began, Alive, ChildInv, TypeOK
    <3> QED
      BY <2>9, <3>1 DEF CleanupResolves, ChildFrame, Cancelled, Contract!End
  <2>10. ASSUME Close PROVE Contract!Close
    <3> DEFINE S == {t \in Tasks : Recorded(t) \/ (t \in ControlledTasks /\ HasChild(t))}
    <3>1. Began' = Began /\ Alive' = Alive
      <4>1. StopChildren(S)
        BY <2>10 DEF Close
      <4>2. \A t \in S : childState[t] # "none"
        BY <2>0 DEF Recorded, WatchInv, ChildInv, HasChild
      <4> QED
        BY <4>1, <4>2, StoppingIsInvisible
    <3>2. \A t \in Tasks : aborted'[t] = (aborted[t] \/ Controlled(t))
      BY <2>10 DEF Close, ControlledTasks
    <3>3. Cancelled' \in [Tasks -> Contract!Cancellations]
      BY DEF Cancelled, Contract!Cancellations
    <3>4. \A t \in Tasks : published[t] # "none" => Cancelled'[t] = Cancelled[t]
      BY <2>0, <2>10, <3>2 DEF Close, Cancelled, Controlled, WatchInv
    <3> QED
      BY <2>10, <3>1, <3>3, <3>4 DEF Close, Contract!Close
  <2>11. ASSUME CloseResolves PROVE UNCHANGED Contract!vars
    BY <2>11 DEF CloseResolves, Began, Alive, Cancelled, Contract!vars
  <2>12. ASSUME UNCHANGED vars PROVE UNCHANGED Contract!vars
    BY <2>12 DEF vars, Began, Alive, Cancelled, Contract!vars
  <2>13. ASSUME NEW t \in Tasks,
                Contract!Begin(t) \/ Contract!End(t) \/ Contract!Cancel(t, "abort")
                  \/ Contract!Cancel(t, "stop")
                  \/ (\E status \in Contract!Statuses : Contract!Deliver(t, status))
         PROVE Contract!Next
    BY <2>13 DEF Contract!Next
  <2>14. Contract!Close => Contract!Next
    BY DEF Contract!Next
  <2> QED
    BY <2>1, <2>2, <2>3, <2>4, <2>5, <2>6, <2>7, <2>8, <2>9, <2>10, <2>11, <2>12, <2>13, <2>14
    DEF Next
<1> QED
  BY <1>1, <1>2, InvInit, InvStep, PTL DEF Spec, ImplementsContract, Contract!Spec

\* What the contract is for: a reported task's process tree is gone, so the
\* fallback a requester starts never overlaps it, and the reported status is
\* that of the strongest cancellation accepted before.
THEOREM ReportedTasksAreOver == Spec => [](Contract!NoOverlap /\ Contract!CancellationDecides)
<1> DEFINE Inv == Contract!TypeOK /\ Contract!NoOverlap /\ Contract!CancellationDecides
<1> USE DEF Contract!TypeOK, Contract!NoOverlap, Contract!CancellationDecides,
            Contract!Statuses, Contract!Cancellations, Contract!Agrees
<1>1. Contract!Init => Inv
  BY DEF Contract!Init
<1>2. Inv /\ [Contract!Next]_(Contract!vars) => Inv'
  <2> SUFFICES ASSUME Inv, [Contract!Next]_(Contract!vars) PROVE Inv'
    OBVIOUS
  <2>1. ASSUME NEW t \in Tasks, Contract!Begin(t) \/ Contract!End(t) PROVE Inv'
    BY <2>1 DEF Contract!Begin, Contract!End
  <2>2. ASSUME NEW t \in Tasks, NEW how \in {"stop", "abort"}, Contract!Cancel(t, how)
        PROVE Inv'
    BY <2>2 DEF Contract!Cancel
  <2>3. ASSUME NEW t \in Tasks, NEW status \in Contract!Statuses, Contract!Deliver(t, status)
        PROVE Inv'
    BY <2>3 DEF Contract!Deliver
  <2>4. CASE Contract!Close
    BY <2>4 DEF Contract!Close
  <2>5. CASE UNCHANGED Contract!vars
    BY <2>5 DEF Contract!vars
  <2> QED
    BY <2>1, <2>2, <2>3, <2>4, <2>5 DEF Contract!Next
<1>3. Inv => Contract!NoOverlap /\ Contract!CancellationDecides
  OBVIOUS
<1> QED
  BY <1>1, <1>2, <1>3, RefinesContract, PTL DEF ImplementsContract, Contract!Spec
=============================================================================
