-------------------- MODULE SecondaryReconciliationProofs --------------------
(* For any number of second opinions, leases and epochs: type correctness,   *)
(* one final outcome per task, no result that supersedes another, no         *)
(* correction that anything newer has overtaken, none in a running task, and *)
(* no usable result left behind by a run that has settled.                   *)
EXTENDS SecondaryReconciliation, TLAPS

\* The tasks whose answer may still count.
Live == {t \in Tasks : stage[t] \in {"running", "settling", "queued"}} \ abandoned

(* What the tasks, the queue and the aborts keep among themselves; at most   *)
(* one task is live, which is why nothing is ever superseded.                *)
TaskInv ==
    /\ ResultTypes
    /\ NothingSuperseded
    /\ \A t \in abandoned : stage[t] \in {"settling", "done"}
    /\ OneFate
    /\ \A t, u \in Live : t = u

\* The boundary of a new task leaves nothing live until its own task starts.
RouteInv == hook \in {"routing", "recording"} => Live = {}

(* Lease objects are numbered as they are made.  What happened since a task  *)
(* was started shows in the lease or the epoch, and keeps showing.           *)
FreshInv ==
    /\ lease \in {0, leases} /\ routed <= leases
    /\ \A t \in Tasks : owner[t] <= leases /\ since[t] <= epoch
    /\ outdated \subseteq Started
    /\ \A t \in outdated : owner[t] < leases \/ since[t] < epoch

IInv == OwnerTypes /\ RunTypes /\ TaskInv /\ RouteInv /\ FreshInv

-----------------------------------------------------------------------------
(* The tasks, under each of the operations on them.                          *)

\* What they all keep: the invariant, no new live task, no task forgotten.
TasksKept == TaskInv' /\ Live' \subseteq Live /\ Started \subseteq Started'

\* The empty queue holds no task.
LEMMA ZeroIsNoTask == 0 \notin Tasks
BY BoundsAssumption DEF Tasks

\* Nothing happens to the tasks.
LEMMA ResultsKept ==
  ASSUME TaskInv, UNCHANGED results PROVE TasksKept /\ Live' = Live
BY DEF TasksKept, TaskInv, ResultTypes, NothingSuperseded, OneFate, Live, Started, results

\* Looking at the queued result rejects it, leaves it, or begins to route it.
LEMMA ReconcileKeeps ==
  ASSUME TaskInv, OwnerTypes, NEW t \in Tasks, NEW forbidden \in BOOLEAN,
         queue = t, Reconcile(t, stage, forbidden), UNCHANGED <<abandoned, deferred, accepted>>
  PROVE  TasksKept
<1>1. stage[t] = "queued" /\ t \notin abandoned /\ fates[t] = 0
  BY DEF TaskInv, ResultTypes, OneFate
<1>2. CASE UNCHANGED <<queue, stage, fates, drains>>
  BY <1>2, ResultsKept DEF results
<1>3. CASE queue' = 0 /\ stage' = [stage EXCEPT ![t] = "done"] /\ Decide({t}) /\ UNCHANGED drains
  BY <1>1, <1>3, ZeroIsNoTask
  DEF TasksKept, Started, TaskInv, ResultTypes, NothingSuperseded, OneFate, Live, Decide, Stages
<1>4. CASE /\ UNCHANGED <<queue, stage, fates>>
           /\ drains' = [drains EXCEPT ![t] =
                [step |-> "routing", lease |-> lease, epoch |-> epoch, forbidden |-> forbidden]]
  BY <1>4 DEF TasksKept, Started, TaskInv, ResultTypes, NothingSuperseded, OneFate, Live, OwnerTypes
<1> QED
  BY <1>2, <1>3, <1>4 DEF Reconcile

\* A boundary that drains does at most that.
LEMMA DrainKeeps ==
  ASSUME TaskInv, OwnerTypes, NEW forbidden \in BOOLEAN, Drain(forbidden)
  PROVE  TasksKept
<1>1. CASE UNCHANGED <<queue, stage, fates, drains>>
  BY <1>1, ResultsKept DEF Drain, results
<1>2. CASE queue # 0 /\ Reconcile(queue, stage, forbidden)
  <2>1. queue \in Tasks
    BY <1>2 DEF TaskInv, ResultTypes
  <2> QED
    BY <1>2, <2>1, ReconcileKeeps DEF Drain
<1> QED
  BY <1>1, <1>2 DEF Drain

\* An abort decides every live task, and no other.
LEMMA AbortKeeps ==
  ASSUME TaskInv, AbortSecondaryWork PROVE TasksKept /\ Live' = {}
<1>1. /\ abandoned' = abandoned \cup InFlight
      /\ stage' = [t \in Tasks |-> IF t \in Queued \/ stage[t] = "running" THEN "done" ELSE stage[t]]
      /\ fates' = [t \in Tasks |-> IF t \in Queued \cup InFlight THEN fates[t] + 1 ELSE fates[t]]
      /\ queue' = 0 /\ UNCHANGED <<deferred, drains, accepted>>
  BY DEF AbortSecondaryWork, Decide
<1>2. \A t \in Tasks : t \in Queued <=> stage[t] = "queued"
  BY ZeroIsNoTask DEF Queued, TaskInv, ResultTypes
<1>3. ResultTypes' /\ NothingSuperseded' /\ \A t \in abandoned' : stage'[t] \in {"settling", "done"}
  BY <1>1, <1>2, ZeroIsNoTask DEF TaskInv, ResultTypes, NothingSuperseded, InFlight, Stages
<1>4. OneFate'
  BY <1>1, <1>2 DEF TaskInv, ResultTypes, NothingSuperseded, OneFate, InFlight, Stages
<1>5. Live' = {}
  BY <1>1, <1>2 DEF TaskInv, ResultTypes, Live, InFlight
<1> QED
  BY <1>1, <1>3, <1>4, <1>5 DEF TasksKept, Started, TaskInv, ResultTypes

\* The first task to start while nothing is live is the only live one.
LEMMA StartKeeps ==
  ASSUME TaskInv, Live = {}, NEW t \in Tasks, StartSecondary(t) PROVE TaskInv' /\ Started' = Started \cup {t} /\ t \notin Started
BY DEF TaskInv, ResultTypes, NothingSuperseded, OneFate, Live, Started, StartSecondary, Stages

\* A classification that ends goes on counting.
LEMMA RunEndsKeeps ==
  ASSUME TaskInv, NEW t \in Tasks, RunEnds(t) PROVE TasksKept
BY DEF TasksKept, TaskInv, ResultTypes, NothingSuperseded, OneFate, Live, Started, RunEnds, Stages

\* A settling task that still counts finds the queue empty.
LEMMA SettlesAlone ==
  ASSUME TaskInv, NEW t \in Tasks, stage[t] = "settling", t \notin abandoned PROVE queue = 0
<1>1. SUFFICES ASSUME queue # 0 PROVE FALSE
  OBVIOUS
<1>2. queue \in Live /\ t \in Live /\ stage[queue] = "queued"
  BY <1>1 DEF TaskInv, ResultTypes, Live
<1> QED
  BY <1>2 DEF TaskInv

\* So it is queued or drained at once.
LEMMA SettleKeeps ==
  ASSUME TaskInv, OwnerTypes, NEW t \in Tasks, Settle(t) PROVE TasksKept
<1>1. stage[t] = "settling" /\ UNCHANGED <<abandoned, deferred, accepted>>
  BY DEF Settle
<1>2. CASE t \in abandoned /\ stage' = [stage EXCEPT ![t] = "done"] /\ UNCHANGED <<queue, fates, drains>>
  BY <1>1, <1>2 DEF TasksKept, Started, TaskInv, ResultTypes, NothingSuperseded, OneFate, Live, Stages
<1>3. CASE t \notin abandoned /\ Finish({t}) /\ UNCHANGED <<queue, drains>>
  BY <1>1, <1>3 DEF TasksKept, Started, TaskInv, ResultTypes, NothingSuperseded, OneFate, Live, Stages, Finish, Decide
<1>4. CASE t \notin abandoned /\ ~Stale(t)
  <2> DEFINE result == [stage EXCEPT ![t] = IF queue = 0 THEN "queued" ELSE "superseding"]
  <2>1. t \in Live
    BY <1>1, <1>4 DEF Live
  <2>2. queue = 0
    BY <1>1, <1>4, SettlesAlone
  <2>3. result = [stage EXCEPT ![t] = "queued"]
    BY <2>2
  <2>4. fates[t] = 0 /\ \A u \in Live : u = t
    BY <1>1, <1>4, <2>1 DEF TaskInv, OneFate
  <2>5. CASE stage' = result /\ queue' = t /\ UNCHANGED <<fates, drains>>
    BY <1>1, <1>4, <2>2, <2>3, <2>5
    DEF TasksKept, Started, TaskInv, ResultTypes, NothingSuperseded, OneFate, Live, Stages
  <2>6. CASE /\ queue' = 0 /\ stage' = [result EXCEPT ![t] = "done"]
             /\ Decide({t}) /\ UNCHANGED drains
    BY <1>1, <1>4, <2>2, <2>3, <2>4, <2>6
    DEF TasksKept, Started, TaskInv, ResultTypes, NothingSuperseded, OneFate, Live, Stages, Decide
  <2>7. CASE /\ stage' = result /\ queue' = t /\ UNCHANGED fates
             /\ drains' = [drains EXCEPT ![t] =
                  [step |-> "routing", lease |-> lease, epoch |-> epoch, forbidden |-> FALSE]]
    BY <1>1, <1>4, <2>2, <2>3, <2>7
    DEF TasksKept, Started, TaskInv, ResultTypes, NothingSuperseded, OneFate, Live, Stages, OwnerTypes
  <2>8. CASE queue = 0 /\ Reconcile(t, result, FALSE)
    BY <2>5, <2>6, <2>7, <2>8 DEF Reconcile
  <2>9. CASE stage' = result /\ queue' = t /\ Decide(Queued) /\ UNCHANGED drains
    <3>1. Queued = {}
      BY <2>2 DEF Queued
    <3>2. UNCHANGED fates
      BY <2>9, <3>1 DEF Decide, TaskInv, ResultTypes
    <3> QED
      BY <2>5, <2>9, <3>2
  <2> QED
    BY <1>4, <2>2, <2>8, <2>9 DEF Settle
<1> QED
  BY <1>2, <1>3, <1>4 DEF Settle

\* A rejection decides the task it takes out of the queue.
LEMMA RejectKeeps ==
  ASSUME TaskInv, NEW t \in Tasks, Reject(t), DrainEnds(t), UNCHANGED <<abandoned, accepted>>
  PROVE  TasksKept
<1>1. CASE queue = t
  <2>1. /\ queue' = 0 /\ stage' = [u \in Tasks |-> IF u = t THEN "done" ELSE stage[u]]
        /\ fates' = [u \in Tasks |-> IF u = t THEN fates[u] + 1 ELSE fates[u]]
    BY <1>1, ZeroIsNoTask DEF Reject, Finish, Decide, Queued
  <2> QED
    BY <1>1, <2>1, ZeroIsNoTask, BoundsAssumption
    DEF TasksKept, Started, TaskInv, ResultTypes, NothingSuperseded, OneFate, Live, Stages, Reject, DrainEnds, NoDrain
<1>2. CASE queue # t
  <2>1. UNCHANGED <<queue, stage, fates, deferred>>
    BY <1>2 DEF Reject, Finish, Decide, Queued, TaskInv, ResultTypes
  <2> QED
    BY <2>1, BoundsAssumption
    DEF TasksKept, Started, TaskInv, ResultTypes, NothingSuperseded, OneFate, Live, DrainEnds, NoDrain
<1> QED
  BY <1>1, <1>2

\* An accepted correction is the queued one, and no longer queued.
LEMMA InstallKeeps ==
  ASSUME TaskInv, NEW t \in Tasks, queue = t, Install(t), DrainEnds(t), UNCHANGED abandoned
  PROVE  TasksKept
<1>1. /\ queue' = 0 /\ stage' = [u \in Tasks |-> IF u = t THEN "done" ELSE stage[u]]
      /\ fates' = [u \in Tasks |-> IF u = t THEN fates[u] + 1 ELSE fates[u]]
      /\ accepted' = accepted \cup {t} /\ UNCHANGED deferred
  BY DEF Install, Finish, Decide
<1> QED
  BY <1>1, ZeroIsNoTask, BoundsAssumption
  DEF TasksKept, Started, TaskInv, ResultTypes, NothingSuperseded, OneFate, Live, Stages,
      DrainEnds, NoDrain

\* After its route a correction is rejected, deferred, applied or installed.
LEMMA RouteEndsKeeps ==
  ASSUME TaskInv, NEW t \in Tasks, RouteEnds(t) PROVE TasksKept
<1>1. CASE Reject(t) /\ DrainEnds(t) /\ Keep
  BY <1>1, RejectKeeps DEF RouteEnds, Keep
<1>2. CASE /\ UNCHANGED <<queue, stage, fates, accepted>>
           /\ deferred' \in {deferred, deferred \cup {t}}
           /\ \E step \in {"deferring", "applying"} : drains' = [drains EXCEPT ![t].step = step]
  <2>1. PICK step \in {"deferring", "applying"} : drains' = [drains EXCEPT ![t].step = step]
    BY <1>2
  <2>2. drains' \in [Tasks -> [step : {"none", "routing", "deferring", "applying"},
                              lease : 0..MaxLeases, epoch : 0..MaxEpoch, forbidden : BOOLEAN]]
    BY <2>1 DEF TaskInv, ResultTypes
  <2> QED
    BY <1>2, <2>2
    DEF TasksKept, Started, TaskInv, ResultTypes, NothingSuperseded, OneFate, Live, RouteEnds
<1>3. CASE ~LateRejection(t) /\ Install(t) /\ DrainEnds(t)
  BY <1>3, InstallKeeps DEF LateRejection, RouteEnds
<1> QED
  BY <1>1, <1>2, <1>3 DEF RouteEnds, Keep

\* A deferred result stays queued.
LEMMA DeferralRecordedKeeps ==
  ASSUME TaskInv, NEW t \in Tasks, DeferralRecorded(t) PROVE TasksKept
BY BoundsAssumption
DEF TasksKept, Started, TaskInv, ResultTypes, NothingSuperseded, OneFate, Live,
    DeferralRecorded, DrainEnds, NoDrain

\* After the model switch a correction is rejected or installed.
LEMMA ApplyEndsKeeps ==
  ASSUME TaskInv, NEW t \in Tasks, ApplyEnds(t) PROVE TasksKept
<1>1. CASE Reject(t) /\ Keep
  BY <1>1, RejectKeeps DEF ApplyEnds, Keep
<1>2. CASE ~LateRejection(t) /\ Install(t)
  BY <1>2, InstallKeeps DEF LateRejection, ApplyEnds
<1> QED
  BY <1>1, <1>2 DEF ApplyEnds

-----------------------------------------------------------------------------
(* The lease and the epoch.                                                  *)

\* Nothing happens to them, the epoch advances, or a lease is installed.
OwnerStep ==
    /\ UNCHANGED <<owner, since, completed>> /\ routed' \in {routed, lease'}
    /\ \/ UNCHANGED <<lease, leases, epoch, outdated>>
       \/ NewEpoch /\ lease' \in {lease, 0} /\ UNCHANGED leases
       \/ NewLease /\ UNCHANGED epoch
    /\ generation' \in {generation, epoch'} /\ mode' \in {mode, "active", "shadow", "off"}

\* Every such step keeps the types of the owner and what time has shown.
LEMMA OwnerKept ==
  ASSUME OwnerTypes, FreshInv, Started \subseteq Started', OwnerStep
  PROVE  OwnerTypes' /\ FreshInv'
<1>1. /\ lease \in 0..MaxLeases /\ leases \in 0..MaxLeases /\ routed \in 0..MaxLeases
      /\ epoch \in 0..MaxEpoch /\ generation \in 0..MaxEpoch
      /\ owner \in [Tasks -> 0..MaxLeases] /\ since \in [Tasks -> 0..MaxEpoch]
      /\ MaxLeases \in Nat /\ MaxEpoch \in Nat
  BY BoundsAssumption DEF OwnerTypes
<1>2. CASE UNCHANGED <<lease, leases, epoch, outdated>>
  BY <1>1, <1>2 DEF OwnerTypes, FreshInv, OwnerStep
<1>3. CASE NewEpoch /\ lease' \in {lease, 0} /\ UNCHANGED leases
  BY <1>1, <1>3 DEF OwnerTypes, FreshInv, OwnerStep, NewEpoch, Started
<1>4. CASE NewLease /\ UNCHANGED epoch
  BY <1>1, <1>4 DEF OwnerTypes, FreshInv, OwnerStep, NewLease, Started
<1> QED
  BY <1>2, <1>3, <1>4 DEF OwnerStep

\* A step that keeps the tasks, moves the lease owner as above and begins no
\* route keeps the invariant.
LEMMA StepKeeps ==
  ASSUME IInv, TasksKept, OwnerStep, RunTypes',
         hook' \in {"routing", "recording"} => Live' = {} \/ hook \in {"routing", "recording"}
  PROVE  IInv'
BY OwnerKept DEF IInv, TasksKept, RouteInv

-----------------------------------------------------------------------------
(* The steps.                                                                *)

\* At first there is no task.
LEMMA Initially == Init => IInv
<1> SUFFICES ASSUME Init PROVE IInv
  OBVIOUS
<1>1. OwnerTypes
  <2>1. 0 \in 0..MaxLeases /\ 0 \in 0..MaxEpoch
    BY BoundsAssumption
  <2> QED
    BY <2>1 DEF Init, OwnerTypes
<1>2. ResultTypes
  BY ZeroIsNoTask, BoundsAssumption DEF Init, ResultTypes, Stages, NoDrain
<1>3. TaskInv /\ RouteInv
  BY <1>2 DEF Init, TaskInv, NothingSuperseded, OneFate, Live, RouteInv
<1>4. FreshInv
  BY DEF Init, FreshInv, Started
<1>5. RunTypes
  BY DEF Init, RunTypes
<1> QED
  BY <1>1, <1>3, <1>4, <1>5 DEF IInv

\* The tasks' own steps leave Pi's run alone.
LEMMA TaskSteps ==
  ASSUME IInv, NEW t \in Tasks,
         RunEnds(t) \/ Settle(t) \/ RouteEnds(t) \/ DeferralRecorded(t) \/ ApplyEnds(t)
  PROVE  IInv'
<1>1. TasksKept
  BY RunEndsKeeps, SettleKeeps, RouteEndsKeeps, DeferralRecordedKeeps, ApplyEndsKeeps DEF IInv
<1>2. UNCHANGED run
  BY DEF RunEnds, Settle, RouteEnds, DeferralRecorded, ApplyEnds
<1>3. OwnerStep
  <2>1. CASE UNCHANGED <<leaseOwner, bindings, outdated, run>>
    BY <2>1 DEF OwnerStep, leaseOwner, bindings, run, runHook
  <2>2. CASE RouteEnds(t)
    BY <2>2 DEF RouteEnds, Keep, Install, OwnerStep, bindings, run, runHook
  <2>3. CASE ApplyEnds(t)
    BY <2>3 DEF ApplyEnds, Keep, Install, OwnerStep, bindings, run, runHook
  <2> QED
    BY <2>1, <2>2, <2>3 DEF RunEnds, Settle, DeferralRecorded
<1>4. RunTypes' /\ hook' = hook
  BY <1>2 DEF IInv, RunTypes, run, runHook
<1> QED
  BY <1>1, <1>3, <1>4, StepKeeps

\* The start of a run drains, aborts, or leaves the tasks alone; a route begins
\* with nothing live, and may start the next task.
LEMMA StartSteps ==
  ASSUME IInv,
         UserStart \/ Classified \/ Routed \/ Recorded \/ CustomStart \/ StartDrained \/ AgentStart
  PROVE  IInv'
<1> USE DEF HookFrame, leaseOwner, bindings, runHook
<1>1. RunTypes'
  BY DEF IInv, RunTypes, TaskInv, ResultTypes, UserStart, Classified, Routed, Recorded, CustomStart,
     StartDrained, DrainAtStart, AgentStart, Draining
<1>2. CASE UserStart
  <2>1. TasksKept
    BY <1>2, ResultsKept DEF IInv, UserStart
  <2>2. OwnerStep /\ hook' \notin {"routing", "recording"}
    BY <1>2 DEF UserStart, OwnerStep
  <2> QED
    BY <1>1, <2>1, <2>2, StepKeeps
<1>3. CASE Classified
  <2>1. OwnerStep
    BY <1>3 DEF Classified, OwnerStep
  <2>2. CASE UNCHANGED results /\ hook' = "ready"
    BY <1>1, <2>1, <2>2, ResultsKept, StepKeeps DEF IInv
  <2>3. CASE DrainAtStart
    BY <1>1, <2>1, <2>3, DrainKeeps, StepKeeps DEF IInv, DrainAtStart
  <2>4. CASE AbortSecondaryWork
    BY <1>1, <2>1, <2>4, AbortKeeps, StepKeeps DEF IInv
  <2> QED
    BY <1>3, <2>2, <2>3, <2>4 DEF Classified
<1>4. CASE Routed
  <2>1. TasksKept
    BY <1>4, ResultsKept DEF IInv, Routed
  <2>2. OwnerStep /\ hook = "routing"
    BY <1>4 DEF Routed, OwnerStep
  <2> QED
    BY <1>1, <2>1, <2>2, StepKeeps
<1>5. CASE Recorded
  <2>1. CASE UNCHANGED <<bindings, results>>
    <3>1. TasksKept
      BY <2>1, ResultsKept DEF IInv
    <3>2. OwnerStep /\ hook' = "ready"
      BY <1>5, <2>1 DEF Recorded, OwnerStep
    <3> QED
      BY <1>1, <3>1, <3>2, StepKeeps
  <2>2. CASE lease = routed /\ \E t \in Tasks : StartSecondary(t)
    <3>1. PICK t \in Tasks : StartSecondary(t)
      BY <2>2
    <3>2. Live = {}
      BY <1>5 DEF IInv, RouteInv, Recorded
    <3>3. TaskInv' /\ Started' = Started \cup {t} /\ t \notin Started
      BY <3>1, <3>2, StartKeeps DEF IInv
    <3>4. UNCHANGED <<mode, lease, epoch, leases, outdated, routed, generation>> /\ hook' = "ready"
      BY <1>5 DEF Recorded
    <3>5. OwnerTypes' /\ FreshInv'
      BY <3>1, <3>3, <3>4, BoundsAssumption DEF IInv, OwnerTypes, FreshInv, StartSecondary
    <3> QED
      BY <1>1, <3>3, <3>4, <3>5 DEF IInv, RouteInv
  <2> QED
    BY <1>5, <2>1, <2>2 DEF Recorded
<1>6. CASE CustomStart \/ StartDrained
  <2>1. OwnerStep
    BY <1>6 DEF CustomStart, StartDrained, OwnerStep
  <2>2. CASE UNCHANGED results /\ hook' = "ready"
    BY <1>1, <2>1, <2>2, ResultsKept, StepKeeps DEF IInv
  <2>3. CASE DrainAtStart
    BY <1>1, <2>1, <2>3, DrainKeeps, StepKeeps DEF IInv, DrainAtStart
  <2> QED
    BY <1>6, <2>2, <2>3 DEF CustomStart, StartDrained
<1>7. CASE AgentStart
  <2>1. TasksKept
    BY <1>7, ResultsKept DEF IInv, AgentStart
  <2>2. OwnerStep /\ hook' = "none"
    BY <1>7 DEF AgentStart, OwnerStep
  <2> QED
    BY <1>1, <2>1, <2>2, StepKeeps
<1> QED
  BY <1>2, <1>3, <1>4, <1>5, <1>6, <1>7

\* The handlers of a run drain, or leave the tasks alone.
LEMMA RunSteps ==
  ASSUME IInv, TurnEnd \/ AgentEnd \/ AgentSettled \/ AgentSettledResumes \/ HandlerEnds
  PROVE  IInv'
<1>1. RunTypes' /\ hook' = hook
  BY DEF IInv, RunTypes, TaskInv, ResultTypes, TurnEnd, AgentEnd, AgentSettled,
     AgentSettledResumes, RunSettles, HandlerEnds, DrainInHandler, runHook
<1>2. TasksKept
  <2>1. CASE UNCHANGED results
    BY <2>1, ResultsKept DEF IInv
  <2>2. CASE \E forbidden \in BOOLEAN : Drain(forbidden)
    BY <2>2, DrainKeeps DEF IInv
  <2> QED
    BY <2>1, <2>2
    DEF TurnEnd, AgentEnd, AgentSettled, AgentSettledResumes, RunSettles, HandlerEnds,
        DrainInHandler, SwapForbidden
<1>3. OwnerStep
  BY DEF TurnEnd, AgentEnd, AgentSettled, AgentSettledResumes, RunSettles, HandlerEnds,
     DrainInHandler, OwnerStep, leaseOwner, bindings, runHook
<1> QED
  BY <1>1, <1>2, <1>3, StepKeeps

\* The operator and the session abort the tasks or leave them alone.
LEMMA OutsideSteps ==
  ASSUME IInv, Invalidate \/ DropSecondary \/ RouterOff \/ Reset \/ LeaseAdvances
  PROVE  IInv'
<1>1. RunTypes' /\ hook' = hook
  BY DEF IInv, RunTypes, Invalidate, DropSecondary, RouterOff, Reset, LeaseAdvances, OutsideFrame, runHook
<1>2. TasksKept
  BY ResultsKept, AbortKeeps DEF IInv, Invalidate, DropSecondary, RouterOff, Reset, LeaseAdvances
<1>3. OwnerStep
  BY DEF Invalidate, DropSecondary, RouterOff, Reset, LeaseAdvances, OutsideFrame, OwnerStep,
     bindings, runHook
<1> QED
  BY <1>1, <1>2, <1>3, StepKeeps

\* Nothing happens.
LEMMA Stutters == ASSUME IInv, UNCHANGED vars PROVE IInv'
<1>1. TasksKept /\ RunTypes' /\ OwnerStep /\ hook' = hook
  BY ResultsKept DEF IInv, RunTypes, OwnerStep, vars, leaseOwner, bindings, run, runHook
<1> QED
  BY <1>1, StepKeeps

\* Every step keeps the invariant.
LEMMA Inductive == IInv /\ [Next]_vars => IInv'
BY TaskSteps, StartSteps, RunSteps, OutsideSteps, Stutters DEF Next

-----------------------------------------------------------------------------
(* The theorems.                                                             *)

\* So it always holds.
LEMMA Invariant == Spec => []IInv
BY Initially, Inductive, PTL DEF Spec

\* Type correctness: the queue is empty or names the one queued task, whatever
\* the order of settlements, drains and aborts.
THEOREM TypeCorrect == Spec => []TypeOK
<1>1. IInv => TypeOK
  BY DEF IInv, TaskInv, TypeOK
<1> QED
  BY <1>1, Invariant, PTL

\* The outcome of each second opinion is decided exactly once, by whichever of
\* the drains, the settlement and the aborts consumes it.
THEOREM OutcomeDecidedOnce == Spec => []OneFate
<1>1. IInv => OneFate
  BY DEF IInv, TaskInv
<1> QED
  BY <1>1, Invariant, PTL

\* The path of settleSecondaryReconciliation() that records a superseded result
\* across an await is never taken.
THEOREM QueueNeverContested == Spec => []NothingSuperseded
<1>1. IInv => NothingSuperseded
  BY DEF IInv, TaskInv
<1> QED
  BY <1>1, Invariant, PTL

\* A correction is installed only if nothing newer has happened since its task
\* was started, however long its drain took.
THEOREM CorrectionsAreCurrent == Spec => CorrectionIsCurrent
<1>1. ASSUME IInv, Next, accepted' # accepted
      PROVE  (accepted' \ accepted) \cap outdated = {}
  <2>1. PICK t \in Tasks : ~LateRejection(t) /\ accepted' = accepted \cup {t}
    BY <1>1 DEF Next, RunEnds, Settle, RouteEnds, DeferralRecorded, ApplyEnds, Install, Keep,
       UserStart, Classified, Routed, Recorded, CustomStart, StartDrained, AgentStart,
       DrainAtStart, Drain, StartSecondary, AbortSecondaryWork, TurnEnd, AgentEnd, AgentSettled,
       AgentSettledResumes, RunSettles, HandlerEnds, DrainInHandler, Invalidate, DropSecondary,
       RouterOff, Reset, LeaseAdvances, results
  <2>2. lease # 0 /\ epoch = since[t] /\ lease = owner[t]
    BY <2>1 DEF LateRejection, Stale
  <2>3. t \notin outdated
    BY <1>1, <2>2, BoundsAssumption DEF IInv, FreshInv, OwnerTypes
  <2> QED
    BY <2>1, <2>3
<1>2. IInv /\ [Next]_vars => [(accepted' \ accepted) \cap outdated = {}]_vars
  BY <1>1
<1> QED
  BY <1>2, Invariant, PTL DEF Spec, CorrectionIsCurrent

-----------------------------------------------------------------------------
(* The boundaries of Pi's runs.                                              *)

\* Pi starts no run under a handler, and awaits a run's handlers in turn.
RunInv ==
    /\ hook # "none" => phase = "before_start" /\ handler = "none"
    /\ handler \in {"turn", "ended", "settling"} => phase = "active"

\* Only a result that was queued is drained.
DrainInv == \A t \in Tasks : drains[t].step # "none" => stage[t] \in {"queued", "done"}

\* A drain that must not change the selection is awaited by the handler that
\* began it.
ForbiddenInv ==
    \A t \in Tasks :
        /\ drains[t].step # "none" /\ drains[t].forbidden
              => handler \in {"turn", "settling"} /\ handlerOn = t
        /\ drains[t].step = "deferring" => drains[t].forbidden
        /\ drains[t].step = "applying" => ~drains[t].forbidden

\* Once a run is over, an attempt is pending only for work newer than any task.
AttemptInv ==
    /\ mode = "off" => attempt = "over"
    /\ attempt = "pending" /\ (phase = "settled" \/ handler \in {"ended", "settling", "last"})
          => \A t \in Started : Stale(t)

\* After a run has settled what is queued is stale, or has its drain.
StrandInv == phase = "settled" /\ mode # "off" /\ queue # 0 => Stale(queue) \/ Draining

(* A drain that may still install its correction; the start of a run in     *)
(* active mode is the one place that waits for it.                          *)
MayInstall(t) ==
    drains[t].step \in {"routing", "applying"} /\ ~drains[t].forbidden /\ ~LateRejection(t)

TupleInv ==
    \A t \in Tasks : MayInstall(t) /\ mode = "active" =>
        /\ phase # "active"
        /\ hook # "none" => hook = "draining" /\ hookOn = t

BInv == RunInv /\ DrainInv /\ ForbiddenInv /\ AttemptInv /\ StrandInv /\ TupleInv

\* What is out of date stays so; what is not shows that nothing newer happened.
LEMMA FreshKept ==
  ASSUME IInv, OwnerStep, NEW t \in Tasks, ~Stale(t)'
  PROVE  ~Stale(t) /\ lease' = lease /\ epoch' = epoch
<1>1. /\ lease \in {0, leases} /\ leases \in Nat /\ epoch \in Nat
      /\ owner[t] \in Nat /\ since[t] \in Nat /\ owner[t] <= leases /\ since[t] <= epoch
      /\ owner'[t] = owner[t] /\ since'[t] = since[t]
  BY BoundsAssumption DEF IInv, OwnerTypes, FreshInv, OwnerStep
<1>2. lease' # 0 /\ epoch' = since[t] /\ lease' = owner[t]
  BY <1>1 DEF Stale
<1> QED
  BY <1>1, <1>2 DEF Stale, OwnerStep, NewEpoch, NewLease

\* A drain that was under way and may still install its correction could before.
LEMMA InstallableKept ==
  ASSUME IInv, OwnerStep, NEW t \in Tasks, MayInstall(t)', queue' \in {queue, 0},
         drains[t].step \in {"routing", "applying"}, drains'[t].forbidden = drains[t].forbidden,
         drains'[t].lease = drains[t].lease, drains'[t].epoch = drains[t].epoch
  PROVE  MayInstall(t) /\ epoch' = epoch
<1>1. ~Stale(t)' /\ queue' = t /\ lease' = drains[t].lease /\ epoch' = drains[t].epoch
      /\ ~drains[t].forbidden
  BY DEF MayInstall, LateRejection
<1>2. ~Stale(t) /\ lease' = lease /\ epoch' = epoch /\ queue = t
  BY <1>1, FreshKept, ZeroIsNoTask
<1> QED
  BY <1>1, <1>2 DEF MayInstall, LateRejection

\* What looking at the queue makes of the drains: none ends, and outside mode
\* "off" one that may change the selection leaves no result unattended.
LEMMA DrainMakes ==
  ASSUME IInv, NEW forbidden \in BOOLEAN, Drain(forbidden)
  PROVE  /\ queue' \in {queue, 0} /\ Started' = Started
         /\ \A t \in Tasks : stage[t] \in {"queued", "done"} => stage'[t] \in {"queued", "done"}
         /\ \A t \in Tasks :
               \/ drains'[t] = drains[t]
               \/ /\ t = queue /\ queue' = queue /\ drains[t].step = "none" /\ stage'[t] = "queued"
                  /\ drains'[t].step = "routing" /\ drains'[t].forbidden = forbidden
         /\ mode # "off" /\ ~forbidden => queue' = 0 \/ Draining'
<1>1. queue \in Tasks \cup {0} /\ stage \in [Tasks -> Stages] /\ (queue # 0 => stage[queue] = "queued")
  BY DEF IInv, TaskInv, ResultTypes
<1>2. DOMAIN drains = Tasks
  BY DEF IInv, TaskInv, ResultTypes
<1>3. CASE (queue = 0 \/ Draining) /\ UNCHANGED <<queue, stage, fates, drains>>
  BY <1>3 DEF Started, Draining
<1>4. CASE queue # 0 /\ ~Draining /\ Reconcile(queue, stage, forbidden)
  <2>1. queue \in Tasks /\ drains[queue].step = "none"
    BY <1>1, <1>4 DEF Draining
  <2>2. CASE queue' = queue /\ stage' = stage /\ UNCHANGED drains /\ (mode = "off" \/ forbidden)
    BY <2>2 DEF Started
  <2>3. CASE queue' = 0 /\ stage' = [stage EXCEPT ![queue] = "done"] /\ UNCHANGED drains
    BY <1>1, <1>4, <2>1, <2>3 DEF Started, Stages
  <2>4. CASE /\ queue' = queue /\ stage' = stage
             /\ drains' = [drains EXCEPT ![queue] =
                  [step |-> "routing", lease |-> lease, epoch |-> epoch, forbidden |-> forbidden]]
    BY <1>1, <1>2, <1>4, <2>1, <2>4 DEF Started, Draining
  <2> QED
    BY <1>4, <2>2, <2>3, <2>4 DEF Reconcile
<1> QED
  BY <1>3, <1>4 DEF Drain

\* The steps that leave the runs alone: the queue is left or emptied, drains
\* end or go on, and a result is left only by a drain that had to leave it.
BoundaryFrame ==
    /\ OwnerStep /\ UNCHANGED <<phase, hook, hookOn, handler, handlerOn>>
    /\ attempt' \in {attempt, "over"} /\ (mode' = "off" => attempt' = "over")
    /\ mode' = mode \/ epoch' # epoch
    /\ Started' = Started /\ queue' \in {queue, 0}
    /\ \A t \in Tasks : stage[t] \in {"queued", "done"} => stage'[t] \in {"queued", "done"}
    /\ \A t \in Tasks :
          \/ drains'[t] = drains[t]
          \/ drains'[t].step = "none" /\ (queue' = t => drains[t].forbidden)
          \/ /\ drains[t].step = "routing"
             /\ drains'[t].step = IF drains[t].forbidden THEN "deferring" ELSE "applying"
             /\ drains'[t].forbidden = drains[t].forbidden
             /\ drains'[t].lease = drains[t].lease /\ drains'[t].epoch = drains[t].epoch

\* Whatever they do, a drain that may install goes on from one that might.
LEMMA FrameKeeps == ASSUME IInv, BInv, BoundaryFrame PROVE BInv'
<1> USE DEF BoundaryFrame
<1>1. RunInv'
  BY DEF BInv, RunInv
<1>2. ForbiddenInv' /\ DrainInv'
  BY DEF BInv, ForbiddenInv, DrainInv
<1>3. \A t \in Tasks : Stale(t) => Stale(t)'
  BY FreshKept
<1>4. AttemptInv'
  BY <1>3 DEF BInv, AttemptInv, Started
<1>5. StrandInv'
  <2>1. SUFFICES ASSUME phase = "settled", mode' # "off", queue' # 0, ~Stale(queue)' PROVE Draining'
    BY DEF StrandInv
  <2>2. PICK t \in Tasks : queue = t /\ queue' = t
    BY <2>1 DEF IInv, TaskInv, ResultTypes
  <2>3. ~Stale(t)'
    BY <2>1, <2>2 DEF Stale
  <2>4. ~Stale(t) /\ mode' = mode
    BY <2>3, FreshKept
  <2>5. drains[t].step # "none"
    BY <2>1, <2>2, <2>4, ZeroIsNoTask DEF BInv, StrandInv, Draining
  <2>6. ~drains[t].forbidden
    BY <2>1, <2>5 DEF BInv, ForbiddenInv, RunInv
  <2> QED
    BY <2>2, <2>5, <2>6 DEF Draining
<1>6. TupleInv'
  <2> SUFFICES ASSUME NEW t \in Tasks, MayInstall(t)', mode' = "active"
               PROVE  phase # "active" /\ (hook # "none" => hook = "draining" /\ hookOn = t)
    BY DEF TupleInv
  <2>1. drains[t].step \in {"routing", "applying"} /\ drains'[t].forbidden = drains[t].forbidden
        /\ drains'[t].lease = drains[t].lease /\ drains'[t].epoch = drains[t].epoch
    BY DEF MayInstall
  <2>2. MayInstall(t) /\ mode = "active"
    BY <2>1, InstallableKept
  <2> QED
    BY <2>2 DEF BInv, TupleInv
<1> QED
  BY <1>1, <1>2, <1>4, <1>5, <1>6 DEF BInv

-----------------------------------------------------------------------------
(* The tasks, the operator and the session leave the runs alone.             *)

\* At first nothing waits.
LEMMA BoundariesInitially == Init => BInv
BY DEF Init, BInv, RunInv, ForbiddenInv, AttemptInv, StrandInv, TupleInv, MayInstall, Started,
       DrainInv, NoDrain

\* The ends of classifications and of drains are such steps.
LEMMA TasksKeepBoundaries ==
  ASSUME IInv, BInv, NEW t \in Tasks,
         RunEnds(t) \/ RouteEnds(t) \/ DeferralRecorded(t) \/ ApplyEnds(t)
  PROVE  BInv'
<1>1. UNCHANGED <<mode, epoch, bindings, run>>
  BY DEF RunEnds, RouteEnds, DeferralRecorded, ApplyEnds, leaseOwner
<1>2. OwnerStep
  BY DEF RunEnds, RouteEnds, DeferralRecorded, ApplyEnds, Keep, Install, OwnerStep, leaseOwner,
     bindings, run, runHook
<1>3. mode' = "off" => attempt' = "over"
  BY <1>1 DEF BInv, AttemptInv, run
<1>4. stage \in [Tasks -> Stages] /\ DOMAIN drains = Tasks
      /\ (\A u \in Tasks : u = queue => stage[u] = "queued")
      /\ \A u \in Tasks : DOMAIN drains[u] = {"step", "lease", "epoch", "forbidden"}
  BY DEF IInv, TaskInv, ResultTypes
<1> DEFINE Results ==
      /\ Started' = Started /\ queue' \in {queue, 0}
      /\ \A u \in Tasks : stage[u] \in {"queued", "done"} => stage'[u] \in {"queued", "done"}
      /\ \A u \in Tasks :
            \/ drains'[u] = drains[u]
            \/ drains'[u].step = "none" /\ (queue' = u => drains[u].forbidden)
            \/ /\ drains[u].step = "routing"
               /\ drains'[u].step = IF drains[u].forbidden THEN "deferring" ELSE "applying"
               /\ drains'[u].forbidden = drains[u].forbidden
               /\ drains'[u].lease = drains[u].lease /\ drains'[u].epoch = drains[u].epoch
<1>5. ASSUME RunEnds(t) PROVE Results
  BY <1>4, <1>5 DEF RunEnds, Started, Stages
<1>6. ASSUME Reject(t), DrainEnds(t) PROVE Results
  <2>1. queue' \in {queue, 0} /\ queue' # t /\ drains' = [drains EXCEPT ![t] = NoDrain]
    BY <1>6, ZeroIsNoTask DEF Reject, DrainEnds
  <2>2. /\ Started' = Started
        /\ \A u \in Tasks : stage[u] \in {"queued", "done"} => stage'[u] \in {"queued", "done"}
    BY <1>4, <1>6 DEF Reject, Finish, Queued, Started
  <2> QED
    BY <1>4, <2>1, <2>2 DEF NoDrain
<1>7. ASSUME ~LateRejection(t), Install(t), DrainEnds(t) PROVE Results
  <2>1. queue = t /\ queue' = 0 /\ drains' = [drains EXCEPT ![t] = NoDrain]
    BY <1>7 DEF Install, DrainEnds, LateRejection
  <2>2. /\ Started' = Started
        /\ \A u \in Tasks : stage[u] \in {"queued", "done"} => stage'[u] \in {"queued", "done"}
    BY <1>4, <1>7, <2>1 DEF Install, Finish, Started
  <2> QED
    BY <1>4, <2>1, <2>2, ZeroIsNoTask DEF NoDrain
<1>8. ASSUME RouteEnds(t), UNCHANGED <<queue, stage>>,
             \/ drains[t].forbidden /\ drains' = [drains EXCEPT ![t].step = "deferring"]
             \/ ~drains[t].forbidden /\ drains' = [drains EXCEPT ![t].step = "applying"]
      PROVE  Results
  <2>1. drains[t].step = "routing" /\ Started' = Started
    BY <1>8 DEF RouteEnds, Started
  <2>2. \A u \in Tasks \ {t} : drains'[u] = drains[u]
    BY <1>4, <1>8
  <2>3. /\ drains'[t].step = IF drains[t].forbidden THEN "deferring" ELSE "applying"
        /\ drains'[t].forbidden = drains[t].forbidden
        /\ drains'[t].lease = drains[t].lease /\ drains'[t].epoch = drains[t].epoch
    BY <1>4, <1>8
  <2> QED
    BY <1>8, <2>1, <2>2, <2>3
<1>9. ASSUME DeferralRecorded(t) PROVE Results
  <2>1. /\ drains[t].forbidden /\ UNCHANGED <<queue, stage>>
        /\ drains' = [drains EXCEPT ![t] = NoDrain]
    BY <1>9 DEF DeferralRecorded, DrainEnds, BInv, ForbiddenInv
  <2> QED
    BY <1>4, <2>1 DEF NoDrain, Started
<1>10. Results
  BY <1>5, <1>6, <1>7, <1>8, <1>9 DEF RouteEnds, ApplyEnds
<1>11. BoundaryFrame
  BY <1>1, <1>2, <1>3, <1>10 DEF BoundaryFrame, run, runHook
<1> QED
  BY <1>11, FrameKeeps

\* A result that settles when a run has settled is drained; one that settles
\* earlier waits for it.
LEMMA SettleKeepsBoundaries ==
  ASSUME IInv, BInv, NEW t \in Tasks, Settle(t) PROVE BInv'
<1>1. /\ stage[t] = "settling" /\ drains[t].step = "none"
      /\ UNCHANGED <<leaseOwner, bindings, abandoned, run, outdated>>
  BY DEF Settle, BInv, DrainInv
<1>2. /\ stage \in [Tasks -> Stages] /\ DOMAIN drains = Tasks
      /\ \A u \in Tasks : u = queue => stage[u] = "queued"
  BY DEF IInv, TaskInv, ResultTypes
<1>3. CASE UNCHANGED <<queue, drains>> /\ stage' = [stage EXCEPT ![t] = "done"]
  <2>1. /\ Started' = Started
        /\ \A u \in Tasks : stage[u] \in {"queued", "done"} => stage'[u] \in {"queued", "done"}
    BY <1>1, <1>2, <1>3 DEF Started
  <2>2. OwnerStep /\ (mode' = "off" => attempt' = "over")
    BY <1>1 DEF OwnerStep, leaseOwner, bindings, run, runHook, BInv, AttemptInv
  <2> QED
    BY <1>1, <1>3, <2>1, <2>2, FrameKeeps DEF BoundaryFrame, leaseOwner, run, runHook
<1>4. CASE t \notin abandoned /\ ~Stale(t)
  <2> DEFINE result == [stage EXCEPT ![t] = "queued"]
  <2>1. queue = 0
    BY <1>1, <1>4, SettlesAlone DEF IInv
  <2>2. \/ /\ phase = "settled" /\ attempt # "pending" /\ Reconcile(t, result, FALSE)
        \/ /\ phase # "settled" \/ attempt = "pending"
           /\ stage' = result /\ queue' = t /\ UNCHANGED drains
    BY <1>4, <2>1 DEF Settle
  <2>3. \A u \in Tasks : Stale(u)' <=> Stale(u)
    BY <1>1 DEF Stale, leaseOwner, bindings
  <2>4. /\ queue' \in {t, 0}
        /\ stage' \in {result, [result EXCEPT ![t] = "done"]}
        /\ \/ UNCHANGED drains
           \/ /\ phase = "settled"
              /\ drains' = [drains EXCEPT ![t] =
                   [step |-> "routing", lease |-> lease, epoch |-> epoch, forbidden |-> FALSE]]
        /\ phase = "settled" /\ attempt # "pending" /\ mode # "off"
             => queue' = 0 \/ drains'[t].step = "routing"
    BY <1>2, <2>2 DEF Reconcile
  <2>5. /\ Started' = Started
        /\ \A u \in Tasks : stage[u] \in {"queued", "done"} => stage'[u] \in {"queued", "done"}
        /\ stage'[t] \in {"queued", "done"}
    BY <1>1, <1>2, <2>4 DEF Started
  <2>6. \A u \in Tasks : \/ drains'[u] = drains[u]
                         \/ /\ u = t /\ phase = "settled"
                            /\ drains'[u].step = "routing" /\ ~drains'[u].forbidden
    BY <1>2, <2>4
  <2>7. RunInv' /\ DrainInv' /\ ForbiddenInv'
    BY <1>1, <2>5, <2>6 DEF BInv, RunInv, DrainInv, ForbiddenInv, run, runHook
  <2>8. AttemptInv'
    <3>1. Started \subseteq Tasks
      BY DEF Started
    <3> QED
      BY <1>1, <2>3, <2>5, <3>1 DEF BInv, AttemptInv, leaseOwner, run, runHook
  <2>9. StrandInv'
    <3>1. SUFFICES ASSUME phase = "settled", mode # "off", queue' = t PROVE Draining'
      BY <1>1, <2>4 DEF StrandInv, leaseOwner, run
    <3>2. attempt # "pending"
      BY <1>1, <1>4, <3>1 DEF BInv, AttemptInv, Started
    <3> QED
      BY <2>4, <3>1, <3>2, ZeroIsNoTask DEF Draining
  <2>10. TupleInv'
    <3> SUFFICES ASSUME NEW u \in Tasks, MayInstall(u)', mode' = "active"
                 PROVE  phase' # "active" /\ (hook' # "none" => hook' = "draining" /\ hookOn' = u)
      BY DEF TupleInv
    <3>1. u = t /\ drains'[u].step # "none"
      BY <2>4, ZeroIsNoTask DEF MayInstall, LateRejection
    <3> QED
      BY <1>1, <2>6, <3>1 DEF BInv, RunInv, run, runHook
  <2> QED
    BY <2>7, <2>8, <2>9, <2>10 DEF BInv
<1>5. CASE t \notin abandoned /\ Stale(t)
  <2>1. Finish({t}) /\ UNCHANGED <<queue, drains>>
    BY <1>5 DEF Settle
  <2> QED
    BY <1>2, <1>3, <2>1 DEF Finish
<1> QED
  BY <1>3, <1>4, <1>5 DEF Settle

\* The operator and the session.
LEMMA OutsideKeepsBoundaries ==
  ASSUME IInv, BInv, Invalidate \/ DropSecondary \/ RouterOff \/ Reset \/ LeaseAdvances
  PROVE  BInv'
<1>1. OwnerStep /\ UNCHANGED <<phase, hook, hookOn, handler, handlerOn>>
  BY DEF Invalidate, DropSecondary, RouterOff, Reset, LeaseAdvances, OutsideFrame, OwnerStep,
     bindings, runHook
<1>2. attempt' \in {attempt, "over"} /\ (mode' = "off" => attempt' = "over")
  BY DEF BInv, AttemptInv, Invalidate, DropSecondary, RouterOff, Reset, LeaseAdvances
<1>3. mode' = mode \/ epoch' # epoch
  BY DEF IInv, OwnerTypes, NewEpoch, Invalidate, DropSecondary, RouterOff, Reset, LeaseAdvances
<1>4. UNCHANGED <<drains, queue, stage>> \/ AbortSecondaryWork
  BY DEF results, Invalidate, DropSecondary, RouterOff, Reset, LeaseAdvances
<1>5. /\ Started' = Started /\ queue' \in {queue, 0} /\ UNCHANGED drains
      /\ \A t \in Tasks : stage[t] \in {"queued", "done"} => stage'[t] \in {"queued", "done"}
  BY <1>4 DEF AbortSecondaryWork, Started, Queued, IInv, TaskInv, ResultTypes
<1> QED
  BY <1>1, <1>2, <1>3, <1>5, FrameKeeps DEF BoundaryFrame

-----------------------------------------------------------------------------
(* A run begins.                                                             *)

\* The steps of before_agent_start: any drain they begin may change the
\* selection.
StartFrame ==
    /\ handler = "none" /\ UNCHANGED <<mode, attempt, handler, handlerOn>>
    /\ phase' = "before_start"
    /\ \A t \in Tasks : stage[t] \in {"queued", "done"} => stage'[t] \in {"queued", "done"}
    /\ \A t \in Tasks :
          \/ drains'[t] = drains[t]
          \/ drains'[t].step = "routing" /\ ~drains'[t].forbidden /\ stage'[t] = "queued"

\* They leave no drain that the hook does not wait for.
LEMMA StartsKeep == ASSUME BInv, StartFrame, TupleInv' PROVE BInv'
BY DEF StartFrame, BInv, RunInv, DrainInv, ForbiddenInv, AttemptInv, StrandInv

\* A correction that may be installed after a start has looked at the queue is
\* one the start waits for.
LEMMA StartWaits ==
  ASSUME IInv, DrainAtStart
  PROVE  /\ TupleInv' \/ phase' = "active"
         /\ \A t \in Tasks : stage[t] \in {"queued", "done"} => stage'[t] \in {"queued", "done"}
         /\ \A t \in Tasks :
               \/ drains'[t] = drains[t]
               \/ drains'[t].step = "routing" /\ ~drains'[t].forbidden /\ stage'[t] = "queued"
<1>1. Drain(FALSE) /\ hookOn' = queue /\ hook' = IF queue = 0 THEN "ready" ELSE "draining"
  BY DEF DrainAtStart
<1>2. queue' \in {queue, 0}
  BY <1>1, DrainMakes
<1>3. \A t \in Tasks : MayInstall(t)' => hook' = "draining" /\ hookOn' = t
  BY <1>1, <1>2, ZeroIsNoTask DEF MayInstall, LateRejection
<1> QED
  BY <1>1, <1>3, DrainMakes DEF TupleInv

\* No correction can be installed in active mode while a start does anything
\* but wait for a drain, and none becomes installable when results are left.
LEMMA NoneInstallable ==
  ASSUME IInv, BInv, OwnerStep, mode = "active", hook \notin {"none", "draining"} \/ phase = "active",
         queue' \in {queue, 0}, UNCHANGED drains
  PROVE  \A t \in Tasks : ~MayInstall(t)'
BY InstallableKept DEF BInv, TupleInv, MayInstall

\* The start of a run waits for whatever drain could change its selection.
LEMMA StartsKeepBoundaries ==
  ASSUME IInv, BInv,
         UserStart \/ Classified \/ Routed \/ Recorded \/ CustomStart \/ StartDrained \/ AgentStart
  PROVE  BInv'
<1> USE DEF HookFrame, leaseOwner, bindings, runHook
<1>1. CASE UserStart
  <2>1. StartFrame
    BY <1>1 DEF UserStart, Resting, StartFrame, results
  <2>2. TupleInv'
    <3>1. SUFFICES ASSUME mode = "active", NEW t \in Tasks, MayInstall(t)' PROVE FALSE
      BY <1>1 DEF TupleInv, UserStart
    <3>2. OwnerStep /\ epoch' # epoch /\ UNCHANGED <<queue, drains>>
      BY <1>1, <3>1 DEF UserStart, NewEpoch, OwnerStep, results, IInv, OwnerTypes
    <3> QED
      BY <3>1, <3>2, InstallableKept DEF MayInstall
  <2> QED
    BY <2>1, <2>2, StartsKeep
<1>2. CASE Classified \/ Routed
  <2>1. OwnerStep
    BY <1>2 DEF Classified, Routed, OwnerStep
  <2>2. /\ hook \in {"classifying", "routing"} /\ phase = "before_start" /\ handler = "none"
        /\ UNCHANGED <<mode, attempt, handler, handlerOn, phase>>
    BY <1>2 DEF Classified, Routed, BInv, RunInv
  <2>3. CASE UNCHANGED results \/ AbortSecondaryWork
    <3>1. queue' \in {queue, 0} /\ UNCHANGED drains
      BY <2>3 DEF results, AbortSecondaryWork
    <3>2. \A t \in Tasks : stage[t] \in {"queued", "done"} => stage'[t] \in {"queued", "done"}
      BY <2>3 DEF results, AbortSecondaryWork, IInv, TaskInv, ResultTypes
    <3>3. TupleInv'
      BY <2>1, <2>2, <3>1, NoneInstallable DEF TupleInv
    <3> QED
      BY <2>2, <3>1, <3>2, <3>3, StartsKeep DEF StartFrame
  <2>4. CASE DrainAtStart
    BY <2>2, <2>4, StartWaits, StartsKeep DEF StartFrame
  <2> QED
    BY <1>2, <2>3, <2>4 DEF Classified, Routed
<1>3. CASE Recorded
  <2>1. /\ hook = "recording" /\ phase = "before_start" /\ handler = "none"
        /\ UNCHANGED <<leaseOwner, attempt, handler, handlerOn, phase, queue, drains>>
    BY <1>3 DEF Recorded, BInv, RunInv, StartSecondary, results
  <2>2. \A t \in Tasks : stage[t] # "none" =>
            stage'[t] = stage[t] /\ owner'[t] = owner[t] /\ since'[t] = since[t]
    BY <1>3 DEF Recorded, StartSecondary, results, IInv, TaskInv, ResultTypes, OwnerTypes
  <2>3. TupleInv'
    <3>1. SUFFICES ASSUME mode = "active", NEW t \in Tasks, MayInstall(t)' PROVE FALSE
      BY <2>1 DEF TupleInv
    <3>2. queue = t /\ stage[t] # "none"
      BY <2>1, <3>1 DEF MayInstall, LateRejection, IInv, TaskInv, ResultTypes
    <3>3. MayInstall(t)
      BY <2>1, <2>2, <3>1, <3>2 DEF MayInstall, LateRejection, Stale
    <3> QED
      BY <2>1, <3>1, <3>3 DEF BInv, TupleInv
  <2>4. StartFrame
    BY <2>1, <2>2 DEF StartFrame
  <2> QED
    BY <2>3, <2>4, StartsKeep
<1>4. CASE CustomStart
  <2>1. /\ handler = "none" /\ phase' = "before_start"
        /\ UNCHANGED <<leaseOwner, bindings, attempt, handler, handlerOn>>
    BY <1>4 DEF CustomStart, Resting
  <2>2. CASE DrainAtStart
    BY <2>1, <2>2, StartWaits, StartsKeep DEF StartFrame
  <2>3. CASE UNCHANGED results /\ (mode # "active" \/ \A t \in Queued : Stale(t))
    <3>1. TupleInv'
      BY <2>1, <2>3, ZeroIsNoTask DEF TupleInv, MayInstall, LateRejection, Stale, Queued, results
    <3> QED
      BY <2>1, <2>3, <3>1, StartsKeep DEF StartFrame, results
  <2> QED
    BY <1>4, <2>2, <2>3 DEF CustomStart
<1>5. CASE StartDrained
  <2>1. /\ hook = "draining" /\ drains[hookOn].step = "none"
        /\ phase = "before_start" /\ handler = "none"
        /\ UNCHANGED <<leaseOwner, bindings, attempt, handler, handlerOn, phase>>
    BY <1>5 DEF StartDrained, BInv, RunInv
  <2>2. CASE DrainAtStart
    BY <2>1, <2>2, StartWaits, StartsKeep DEF StartFrame
  <2>3. CASE UNCHANGED results
    <3>1. TupleInv'
      BY <2>1, <2>3 DEF BInv, TupleInv, MayInstall, LateRejection, Stale, results
    <3> QED
      BY <2>1, <2>3, <3>1, StartsKeep DEF StartFrame, results
  <2> QED
    BY <1>5, <2>2, <2>3 DEF StartDrained
<1>6. CASE AgentStart
  <2>1. /\ hook = "ready" /\ hook' = "none" /\ phase' = "active" /\ handler = "none"
        /\ attempt' = IF mode = "off" THEN attempt ELSE "pending"
        /\ UNCHANGED <<leaseOwner, bindings, results, handler, handlerOn>>
    BY <1>6 DEF AgentStart, BInv, RunInv
  <2>2. OwnerStep /\ UNCHANGED <<queue, drains, stage>>
    BY <1>6 DEF AgentStart, OwnerStep, results
  <2>3. TupleInv'
    BY <2>1, <2>2, NoneInstallable DEF TupleInv
  <2> QED
    BY <2>1, <2>2, <2>3 DEF BInv, RunInv, DrainInv, ForbiddenInv, AttemptInv, StrandInv
<1> QED
  BY <1>1, <1>2, <1>3, <1>4, <1>5, <1>6

-----------------------------------------------------------------------------
(* A run goes on and ends.                                                   *)

\* Between two handlers of a run, or when the one that waited resumes, no
\* drain is left that must not change the selection.
NoneForbidden == \A t \in Tasks : drains[t].step # "none" => ~drains[t].forbidden

\* The handler that waited for such a drain resumes only when it is over.
LEMMA HandlersEndDrains ==
  ASSUME BInv, handler \notin {"turn", "settling"} \/ HandlerResumes
  PROVE  NoneForbidden
BY DEF BInv, ForbiddenInv, HandlerResumes, NoneForbidden

\* Inside a run a boundary begins no drain that may change the selection.
LEMMA RunsKeepTuple ==
  ASSUME IInv, BInv, NoneForbidden, phase = "active", hook = "none",
         Drain(TRUE), UNCHANGED <<leaseOwner, bindings, phase, attempt, hook, hookOn>>,
         handler' \in {"turn", "settling"}, handlerOn' = queue,
         handler' = "settling" => handler \in {"ended", "settling"}
  PROVE  BInv'
<1>1. RunInv' /\ DrainInv' /\ ForbiddenInv'
  BY DrainMakes DEF BInv, RunInv, DrainInv, ForbiddenInv, NoneForbidden
<1>2. Started' = Started /\ Started \subseteq Tasks /\ \A t \in Tasks : Stale(t)' <=> Stale(t)
  BY DrainMakes DEF Started, Stale, leaseOwner, bindings
<1>3. AttemptInv'
  BY <1>2 DEF BInv, AttemptInv, leaseOwner
<1>4. StrandInv'
  BY DEF StrandInv
<1>5. TupleInv'
  <2>1. SUFFICES ASSUME mode = "active", NEW t \in Tasks, MayInstall(t)' PROVE FALSE
    BY DEF TupleInv, leaseOwner
  <2>2. drains'[t] = drains[t]
    BY <2>1, DrainMakes DEF MayInstall
  <2>3. queue = t
    BY <2>1, DrainMakes, ZeroIsNoTask DEF MayInstall, LateRejection
  <2>4. MayInstall(t)
    BY <2>1, <2>2, <2>3 DEF MayInstall, LateRejection, Stale, leaseOwner, bindings
  <2> QED
    BY <2>1, <2>4 DEF BInv, TupleInv
<1> QED
  BY <1>1, <1>3, <1>4, <1>5 DEF BInv

\* The handlers of a run drain without changing its selection; the last one
\* drains what is left.
LEMMA RunsKeepBoundaries ==
  ASSUME IInv, BInv, TurnEnd \/ AgentEnd \/ AgentSettled \/ AgentSettledResumes \/ HandlerEnds
  PROVE  BInv'
<1> USE DEF leaseOwner, bindings, runHook
<1>1. CASE TurnEnd
  <2>1. /\ phase = "active" /\ handler = "none" /\ handler' = "turn" /\ hook = "none"
        /\ UNCHANGED <<leaseOwner, bindings, phase, attempt, hook, hookOn>>
    BY <1>1 DEF TurnEnd, DrainInHandler, BInv, RunInv
  <2>2. NoneForbidden
    BY <2>1, HandlersEndDrains
  <2>3. CASE DrainInHandler("turn", "turn_end", phase)
    BY <2>1, <2>2, <2>3, RunsKeepTuple DEF DrainInHandler, SwapForbidden
  <2>4. CASE UNCHANGED results
    BY <2>1, <2>2, <2>4
    DEF results, BInv, RunInv, DrainInv, ForbiddenInv, AttemptInv, StrandInv, TupleInv,
        MayInstall, LateRejection, Stale, NoneForbidden
  <2> QED
    BY <1>1, <2>3, <2>4 DEF TurnEnd
<1>2. CASE AgentEnd
  <2>1. /\ phase = "active" /\ handler = "none" /\ handler' = "ended" /\ hook = "none"
        /\ UNCHANGED <<mode, epoch, bindings, results, runHook, phase, handlerOn>>
    BY <1>2 DEF AgentEnd, BInv, RunInv
  <2>2. NoneForbidden /\ OwnerStep
    BY <1>2, <2>1, HandlersEndDrains DEF AgentEnd, OwnerStep
  <2>3. RunInv' /\ DrainInv' /\ ForbiddenInv' /\ StrandInv'
    BY <2>1, <2>2
    DEF results, BInv, RunInv, DrainInv, ForbiddenInv, StrandInv, NoneForbidden
  <2>4. AttemptInv'
    <3>1. CASE attempt' = "over"
      BY <3>1 DEF AttemptInv
    <3>2. CASE UNCHANGED <<lease, attempt>> /\ (mode = "off" \/ \A t \in Started : Stale(t))
      BY <2>1, <3>2 DEF BInv, AttemptInv, Started, Stale, results
    <3>3. CASE mode = "active" /\ NewLease
      BY <2>1, <3>3, BoundsAssumption
      DEF AttemptInv, NewLease, IInv, FreshInv, OwnerTypes, Started, Stale
    <3> QED
      BY <1>2, <3>1, <3>2, <3>3 DEF AgentEnd
  <2>5. TupleInv'
    BY <2>1, <2>2, NoneInstallable DEF TupleInv, results
  <2> QED
    BY <2>3, <2>4, <2>5 DEF BInv
<1>3. CASE AgentSettled
  <2>1. /\ handler \in {"ended", "settling"} /\ phase = "active" /\ hook = "none"
        /\ UNCHANGED <<leaseOwner, bindings, phase, attempt, hook, hookOn>>
        /\ handler' = "settling" /\ handlerOn' = queue
        /\ Drain(TRUE)
    BY <1>3 DEF AgentSettled, DrainInHandler, SwapForbidden, BInv, RunInv
  <2>2. NoneForbidden
    BY <1>3, HandlersEndDrains DEF AgentSettled
  <2> QED
    BY <2>1, <2>2, RunsKeepTuple
<1>4. CASE AgentSettledResumes
  <2>1. /\ handler = "settling" /\ hook = "none" /\ phase' = "settled" /\ handler' = "last"
        /\ UNCHANGED <<leaseOwner, bindings, attempt, hook, hookOn>>
        /\ Drain(FALSE)
    BY <1>4 DEF AgentSettledResumes, RunSettles, DrainInHandler, SwapForbidden, BInv, RunInv
  <2>2. NoneForbidden
    BY <1>4, HandlersEndDrains DEF AgentSettledResumes
  <2>3. RunInv' /\ DrainInv' /\ ForbiddenInv'
    BY <2>1, <2>2, DrainMakes DEF BInv, RunInv, DrainInv, ForbiddenInv, NoneForbidden
  <2>4. Started' = Started /\ Started \subseteq Tasks /\ \A t \in Tasks : Stale(t)' <=> Stale(t)
    BY <2>1, DrainMakes DEF Started, Stale
  <2>5. AttemptInv'
    BY <2>1, <2>4 DEF BInv, AttemptInv
  <2>6. StrandInv'
    BY <2>1, DrainMakes DEF StrandInv
  <2>7. TupleInv'
    BY <2>1 DEF TupleInv
  <2> QED
    BY <2>3, <2>5, <2>6, <2>7 DEF BInv
<1>5. CASE HandlerEnds
  <2>1. /\ handler \in {"turn", "last"} /\ handler' = "none"
        /\ UNCHANGED <<leaseOwner, bindings, results, phase, attempt, hook, hookOn>>
    BY <1>5 DEF HandlerEnds
  <2>2. NoneForbidden
    BY <1>5, HandlersEndDrains DEF HandlerEnds
  <2> QED
    BY <2>1, <2>2
    DEF results, BInv, RunInv, DrainInv, ForbiddenInv, AttemptInv, StrandInv, TupleInv,
        MayInstall, LateRejection, Stale, NoneForbidden, Draining, Started
<1> QED
  BY <1>1, <1>2, <1>3, <1>4, <1>5

\* Nothing happens.
LEMMA StuttersKeepBoundaries == ASSUME BInv, UNCHANGED vars PROVE BInv'
BY DEF BInv, RunInv, DrainInv, ForbiddenInv, AttemptInv, StrandInv, TupleInv, MayInstall,
   LateRejection, Stale, Draining, Started, vars, leaseOwner, bindings, results, run, runHook

\* Every step keeps what is said of the boundaries.
LEMMA BoundariesInductive == IInv /\ BInv /\ [Next]_vars => BInv'
BY SettleKeepsBoundaries, TasksKeepBoundaries, OutsideKeepsBoundaries, StartsKeepBoundaries,
   RunsKeepBoundaries, StuttersKeepBoundaries DEF Next

\* So both always hold.
LEMMA BoundariesHold == Spec => []BInv
BY Invariant, BoundariesInitially, BoundariesInductive, PTL DEF Spec

\* When a run has settled and its handlers have ended, a usable result is
\* installed or being drained: it never waits for another run.
THEOREM AppliesWhileIdle == Spec => []NothingStranded
<1>1. BInv => NothingStranded
  BY DEF BInv, StrandInv, NothingStranded
<1> QED
  BY <1>1, BoundariesHold, PTL

\* In the mode that applies corrections, none is installed while a run is
\* active: a running task keeps its tuple through every await of a drain.
THEOREM RunningTupleStands == Spec => TupleKeptMidRun
<1>1. ASSUME IInv, BInv, Next, accepted' # accepted, mode = "active"
      PROVE  phase # "active"
  <2>1. PICK t \in Tasks : /\ drains[t].step \in {"routing", "applying"} /\ ~LateRejection(t)
                           /\ drains[t].step = "routing" => ~drains[t].forbidden
    BY <1>1 DEF Next, RunEnds, Settle, RouteEnds, DeferralRecorded, ApplyEnds, Install, Keep,
       UserStart, Classified, Routed, Recorded, CustomStart, StartDrained, AgentStart,
       DrainAtStart, Drain, StartSecondary, AbortSecondaryWork, TurnEnd, AgentEnd, AgentSettled,
       AgentSettledResumes, RunSettles, HandlerEnds, DrainInHandler, Invalidate, DropSecondary,
       RouterOff, Reset, LeaseAdvances, results
  <2>2. ~drains[t].forbidden
    BY <1>1, <2>1 DEF BInv, ForbiddenInv
  <2> QED
    BY <1>1, <2>1, <2>2 DEF BInv, TupleInv, MayInstall
<1>2. IInv /\ BInv /\ [Next]_vars => [accepted' # accepted /\ mode = "active" => phase # "active"]_vars
  BY <1>1
<1> QED
  BY <1>2, Invariant, BoundariesHold, PTL DEF Spec, TupleKeptMidRun
=============================================================================
