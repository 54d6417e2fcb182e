----------------------- MODULE SecondaryReconciliation -----------------------
(***************************************************************************)
(* The router's second opinion (extensions/router/index.ts): a routed turn *)
(* starts a background classification; its result is queued, and drained   *)
(* at a boundary of the agent's runs into a corrected lease, unless newer  *)
(* input, an override, a boundary, a mode change or any other advance of   *)
(* the lease has made it out of date.                                      *)
(*                                                                         *)
(* Each action is the code between two awaits.  The lease owner is reduced *)
(* to what module LeaseMachine shows of it: the identity of the installed  *)
(* lease, the epoch and the mode.  An override always makes a new lease    *)
(* object in a new epoch, so its flag adds nothing to staleness.  Pi       *)
(* awaits the handlers of a run in turn, and starts no other run meanwhile. *)
(***************************************************************************)
EXTENDS Naturals, FiniteSets

CONSTANTS
    MaxTasks,   \* secondary classifications started
    MaxLeases,  \* lease objects installed
    MaxEpoch    \* events that advance the epoch

ASSUME BoundsAssumption == {MaxTasks, MaxLeases, MaxEpoch} \subseteq Nat

Tasks == 1..MaxTasks

VARIABLES
    \* the lease owner; lease 0 is none
    mode, lease, epoch, leases,
    \* the secondary tasks
    stage,      \* task -> where it is
    owner, since,   \* task -> the lease and the epoch it was started for
    completed,  \* task -> did its classification succeed?
    abandoned,  \* tasks an abort consumed
    \* the result waiting for a boundary, 0 for none
    queue,
    deferred,   \* tasks whose deferral was recorded
    drains,     \* task -> the drain reconciling it
    \* Pi's runs: the phase, the before_agent_start hook and the run's handler
    phase, attempt,
    hook, generation, routed, hookOn, hookJoined,
    handler, handlerOn,
    \* history
    fates,      \* task -> how often its final outcome was decided
    accepted,   \* tasks whose correction was installed
    outdated    \* tasks for which anything newer has happened

leaseOwner == <<mode, lease, epoch, leases>>
bindings == <<owner, since, completed>>
results == <<stage, abandoned, queue, deferred, drains, fates, accepted>>
runHook == <<hook, generation, routed, hookOn, hookJoined>>
run == <<phase, attempt, runHook, handler, handlerOn>>
vars == <<leaseOwner, bindings, results, run, outdated>>

Stages == {"none", "running", "settling", "queued", "superseding", "done"}
NoDrain == [step |-> "none", lease |-> 0, epoch |-> 0, forbidden |-> FALSE]

Started == {t \in Tasks : stage[t] # "none"}

Init ==
    /\ mode \in {"active", "shadow"} /\ lease = 0 /\ epoch = 0 /\ leases = 0
    /\ stage = [t \in Tasks |-> "none"]
    /\ owner = [t \in Tasks |-> 0] /\ since = [t \in Tasks |-> 0]
    /\ completed \in [Tasks -> BOOLEAN]
    /\ abandoned = {} /\ queue = 0 /\ deferred = {}
    /\ drains = [t \in Tasks |-> NoDrain]
    /\ phase = "before_start" /\ attempt = "over"
    /\ hook = "none" /\ generation = 0 /\ routed = 0 /\ hookOn = 0 /\ hookJoined = FALSE
    /\ handler = "none" /\ handlerOn = 0
    /\ fates = [t \in Tasks |-> 0] /\ accepted = {} /\ outdated = {}

NewEpoch == epoch < MaxEpoch /\ epoch' = epoch + 1 /\ outdated' = Started
NewLease == leases < MaxLeases /\ leases' = leases + 1 /\ lease' = leases' /\ outdated' = Started

\* secondaryStaleReason()
Stale(t) == lease = 0 \/ epoch # since[t] \/ lease # owner[t]

\* One final record per task: accepted, rejected or dropped.  In mode "off" the
\* ledger is closed and the decision leaves no line.
Decide(ts) == fates' = [t \in Tasks |-> IF t \in ts THEN fates[t] + 1 ELSE fates[t]]

Finish(ts) ==
    /\ Decide(ts)
    /\ stage' = [t \in Tasks |-> IF t \in ts THEN "done" ELSE stage[t]]

-----------------------------------------------------------------------------
(* The secondary tasks.                                                    *)

Queued == {queue} \ {0}
InFlight == {t \in Tasks : stage[t] \in {"running", "settling"}} \ abandoned

\* mutant: the queued result is forgotten, and stays
AbortInFlightOnly ==
    /\ abandoned' = abandoned \cup InFlight
    /\ Decide(InFlight)
    /\ stage' = [t \in Tasks |-> IF stage[t] = "running" THEN "done" ELSE stage[t]]
    /\ UNCHANGED <<queue, deferred, drains, accepted>>

(* abortSecondaryWork(): the queued result and every task in flight are     *)
(* consumed before the first ledger wait.  A task that is waiting for its   *)
(* own ledger write finds out afterwards.                                   *)
AbortSecondaryWork ==
    /\ queue' = 0
    /\ abandoned' = abandoned \cup InFlight
    /\ Decide(Queued \cup InFlight)
    /\ stage' = [t \in Tasks |->
          IF t \in Queued \/ stage[t] = "running" THEN "done" ELSE stage[t]]
    /\ UNCHANGED <<deferred, drains, accepted>>

StartSecondary(t) ==
    /\ stage[t] = "none" /\ \A u \in Tasks : u < t => stage[u] # "none"
    /\ stage' = [stage EXCEPT ![t] = "running"]
    /\ owner' = [owner EXCEPT ![t] = routed]
    /\ since' = [since EXCEPT ![t] = epoch]
    /\ UNCHANGED <<completed, abandoned, queue, deferred, drains, fates, accepted>>

\* The classification ends, or its deadline or the lease owner ends it; its
\* invocation is being recorded.
RunEnds(t) ==
    /\ stage[t] = "running"
    /\ stage' = [stage EXCEPT ![t] = "settling"]
    /\ UNCHANGED <<leaseOwner, bindings, abandoned, queue, deferred, drains, fates, accepted,
                   run, outdated>>

-----------------------------------------------------------------------------
(* Draining the queue.                                                     *)

\* drainSecondaryReconciliation() has a drain of the queued result to join.
Draining == \E t \in Tasks : t = queue /\ drains[t].step # "none"

\* The router looks at the queued result: it rejects it, leaves a deferred one
\* alone, or goes to route it anew.
Reconcile(t, result, forbidden) ==
    IF mode = "off" \/ (~Stale(t) /\ completed[t] /\ forbidden /\ t \in deferred)
    THEN /\ queue' = t /\ stage' = result
         /\ UNCHANGED <<fates, drains>>
    ELSE IF Stale(t) \/ ~completed[t]
    THEN /\ queue' = 0
         /\ stage' = [result EXCEPT ![t] = "done"]
         /\ Decide({t}) /\ UNCHANGED drains
    ELSE /\ queue' = t /\ stage' = result
         /\ drains' = [drains EXCEPT ![t] =
               [step |-> "routing", lease |-> lease, epoch |-> epoch, forbidden |-> forbidden]]
         /\ UNCHANGED fates

\* A boundary drains what is queued, unless a drain is already at it.
Drain(forbidden) ==
    /\ IF queue = 0 \/ Draining THEN UNCHANGED <<queue, stage, fates, drains>>
       ELSE Reconcile(queue, stage, forbidden)
    /\ UNCHANGED <<abandoned, deferred, accepted>>

(* settleSecondaryReconciliation() after its ledger write.  Once the run    *)
(* has settled the result is drained at once.  A result that would find     *)
(* another in the queue records that one as superseded and waits: what      *)
(* happens then is not modelled, see NothingSuperseded.                     *)
Settle(t) ==
    /\ stage[t] = "settling"
    /\ \/ /\ t \in abandoned
          /\ stage' = [stage EXCEPT ![t] = "done"]
          /\ UNCHANGED <<queue, fates, drains>>
       \/ /\ t \notin abandoned /\ Stale(t)
          /\ Finish({t})
          /\ UNCHANGED <<queue, drains>>
       \/ /\ t \notin abandoned /\ ~Stale(t)
          /\ LET result == [stage EXCEPT ![t] = IF queue = 0 THEN "queued" ELSE "superseding"]
             IN IF queue = 0 /\ phase = "settled" /\ attempt # "pending"
                THEN Reconcile(t, result, FALSE)
                ELSE /\ stage' = result
                     /\ queue' = IF queue = 0 THEN t ELSE queue
                     /\ Decide(Queued)
                     /\ UNCHANGED drains
    /\ UNCHANGED <<leaseOwner, bindings, abandoned, deferred, accepted, run, outdated>>

\* lateRejection(): validated again after every await
LateRejection(t) ==
    queue # t \/ lease # drains[t].lease \/ epoch # drains[t].epoch \/ Stale(t)

DrainEnds(t) == drains' = [drains EXCEPT ![t] = NoDrain]

\* mutant: the drain records a rejection whoever took its result
RejectAnyway(t) ==
    /\ queue' = IF queue = t THEN 0 ELSE queue
    /\ Finish({t})
    /\ UNCHANGED deferred

\* Whoever took the queue has recorded the rejection already.
Reject(t) ==
    /\ queue' = IF queue = t THEN 0 ELSE queue
    /\ Finish({t} \cap Queued)
    /\ UNCHANGED deferred

Keep == UNCHANGED <<lease, leases, outdated, accepted>>

\* The advance RECONCILE: the whole tuple in one step.
Install(t) ==
    /\ NewLease
    /\ queue' = 0
    /\ Finish({t})
    /\ accepted' = accepted \cup {t}
    /\ UNCHANGED deferred

\* reconcileSecondary() after its route: the correction may be unroutable or
\* not worth it, must wait while a run is active, and in shadow mode changes
\* no selection.
RouteEnds(t) ==
    /\ drains[t].step = "routing"
    /\ \/ Reject(t) /\ DrainEnds(t) /\ Keep
       \/ /\ ~LateRejection(t) /\ drains[t].forbidden
          /\ deferred' = deferred \cup {t}
          /\ drains' = [drains EXCEPT ![t].step = "deferring"]
          /\ Keep /\ UNCHANGED <<queue, stage, fates>>
       \/ /\ ~LateRejection(t) /\ ~drains[t].forbidden /\ mode = "active"
          /\ drains' = [drains EXCEPT ![t].step = "applying"]
          /\ Keep /\ UNCHANGED <<queue, stage, fates, deferred>>
       \/ /\ ~LateRejection(t) /\ ~drains[t].forbidden /\ mode # "active"
          /\ Install(t) /\ DrainEnds(t)
    /\ UNCHANGED <<mode, epoch, bindings, abandoned, run>>

\* The deferral is in the ledger: this drain is over, the result stays.
DeferralRecorded(t) ==
    /\ drains[t].step = "deferring"
    /\ DrainEnds(t)
    /\ UNCHANGED <<leaseOwner, bindings, stage, abandoned, queue, deferred, fates, accepted,
                   run, outdated>>

\* reconcileSecondary() after applyChoice(), which may have failed
ApplyEnds(t) ==
    /\ drains[t].step = "applying"
    /\ \/ Reject(t) /\ Keep
       \/ ~LateRejection(t) /\ Install(t)
    /\ DrainEnds(t)
    /\ UNCHANGED <<mode, epoch, bindings, abandoned, run>>

-----------------------------------------------------------------------------
(* The start of a run: before_agent_start.                                 *)

Resting == hook = "none" /\ handler = "none" /\ phase # "active"
Superseded == generation # epoch

\* New input revokes what came before it, and its hook classifies the turn.
UserStart ==
    /\ Resting
    /\ phase' = "before_start"
    /\ IF mode = "off"
       THEN hook' = "ready" /\ UNCHANGED <<epoch, outdated, generation>>
       ELSE NewEpoch /\ hook' = "classifying" /\ generation' = epoch'
    /\ UNCHANGED <<mode, lease, leases, bindings, results, attempt, routed, hookOn, hookJoined,
                   handler, handlerOn>>

HookFrame == UNCHANGED <<bindings, phase, attempt, generation, handler, handlerOn>>

\* mutant: a start does not wait for a drain it did not begin
DrainAtStartAlone ==
    /\ Drain(FALSE)
    /\ hookOn' = 0 /\ hookJoined' = FALSE /\ hook' = "ready"

\* Drain(before_first_request), and wait for it.
DrainAtStart ==
    /\ Drain(FALSE)
    /\ hookOn' = queue /\ hookJoined' = Draining
    /\ hook' = IF queue = 0 THEN "ready" ELSE "draining"

\* The turn continues the task, or it is a new one: the question about the old
\* one is settled even if no route follows.
Classified ==
    /\ hook = "classifying"
    /\ \/ /\ Superseded /\ hook' = "ready"
          /\ UNCHANGED <<results, hookOn, hookJoined>>
       \/ /\ ~Superseded /\ lease # 0 /\ DrainAtStart
       \/ /\ ~Superseded /\ AbortSecondaryWork
          /\ hook' \in {"routing", "ready"}
          /\ UNCHANGED <<hookOn, hookJoined>>
    /\ UNCHANGED <<leaseOwner, outdated, routed>> /\ HookFrame

Routed ==
    /\ hook = "routing"
    /\ \/ hook' = "ready" /\ UNCHANGED <<lease, leases, outdated, routed>>
       \/ ~Superseded /\ NewLease /\ hook' = "recording" /\ routed' = lease'
    /\ UNCHANGED <<mode, epoch, results, hookOn, hookJoined>> /\ HookFrame

\* The ledger has the route; an escalated classification gets its second
\* opinion if the lease is still the routed one.
Recorded ==
    /\ hook = "recording"
    /\ hook' = "ready"
    /\ \/ UNCHANGED <<bindings, results>>
       \/ ~Superseded /\ lease = routed /\ \E t \in Tasks : StartSecondary(t)
    /\ UNCHANGED <<leaseOwner, outdated, routed, hookOn, hookJoined, phase, attempt, generation,
                   handler, handlerOn>>

\* A run Pi or an extension starts: in active mode it drains first, unless an
\* override stands, which has left nothing fresh in the queue.
CustomStart ==
    /\ Resting
    /\ phase' = "before_start"
    /\ \/ mode = "active" /\ DrainAtStart
       \/ /\ mode # "active" \/ \A t \in Queued : Stale(t)
          /\ hook' = "ready" /\ UNCHANGED <<results, hookOn, hookJoined>>
    /\ UNCHANGED <<leaseOwner, bindings, outdated, attempt, generation, routed, handler, handlerOn>>

\* A start that joined another boundary's drain drains what that one left.
StartDrained ==
    /\ hook = "draining" /\ drains[hookOn].step = "none"
    /\ IF hookJoined /\ queue = hookOn THEN DrainAtStart
       ELSE hook' = "ready" /\ UNCHANGED <<results, hookOn, hookJoined>>
    /\ UNCHANGED <<leaseOwner, outdated, routed>> /\ HookFrame

AgentStart ==
    /\ hook = "ready"
    /\ hook' = "none" /\ phase' = "active"
    /\ attempt' = IF mode = "off" THEN attempt ELSE "pending"
    /\ UNCHANGED <<leaseOwner, bindings, results, outdated, generation, routed, hookOn, hookJoined,
                   handler, handlerOn>>

-----------------------------------------------------------------------------
(* The run.                                                                *)

\* mutant: a boundary inside the run may change the selection
NeverForbidden(boundary, at) == FALSE

\* Pi keeps the prompt of a run: the tuple waits for the run to settle.
SwapForbidden(boundary, at) ==
    boundary = "turn_end" \/ (boundary = "agent_settled" /\ at # "settled")

DrainInHandler(next, boundary, at) ==
    /\ Drain(SwapForbidden(boundary, at))
    /\ handler' = next /\ handlerOn' = queue
    /\ UNCHANGED <<leaseOwner, bindings, outdated, runHook>>

HandlerResumes == \A t \in Tasks : t = handlerOn => drains[t].step = "none"

TurnEnd ==
    /\ phase = "active" /\ handler = "none"
    /\ \/ DrainInHandler("turn", "turn_end", phase)
       \/ /\ handler' = "turn"    \* a tool execution is under way
          /\ UNCHANGED <<leaseOwner, bindings, results, outdated, runHook, handlerOn>>
    /\ UNCHANGED <<phase, attempt>>

\* The attempt is over; it is left pending by a lease that failed or was
\* replaced meanwhile, which no task was started for; or a fallback or a repair
\* replaces the lease and will try again.
AgentEnd ==
    /\ phase = "active" /\ handler = "none"
    /\ handler' = "ended"
    /\ \/ /\ mode # "off" /\ lease # 0
          /\ attempt' = "over"
          /\ UNCHANGED <<lease, leases, outdated>>
       \/ /\ mode = "off" \/ \A t \in Started : Stale(t)
          /\ UNCHANGED <<lease, leases, outdated, attempt>>
       \/ /\ mode = "active" /\ lease # 0
          /\ NewLease /\ attempt' = "pending"
    /\ UNCHANGED <<mode, epoch, bindings, results, runHook, phase, handlerOn>>

\* agent_settled: drained before its body and after it, the run still active.
AgentSettled ==
    /\ handler = "ended" \/ (handler = "settling" /\ HandlerResumes)
    /\ DrainInHandler("settling", "agent_settled", phase)
    /\ UNCHANGED <<phase, attempt>>

\* mutant: nothing is drained once the run has settled
SettleQuietly ==
    /\ phase' = "settled" /\ handler' = "last" /\ handlerOn' = 0
    /\ UNCHANGED <<results, leaseOwner, bindings, outdated, runHook>>

\* ... and once more when the run has settled.
RunSettles ==
    /\ phase' = "settled"
    /\ DrainInHandler("last", "agent_settled", "settled")

AgentSettledResumes ==
    /\ handler = "settling" /\ HandlerResumes
    /\ RunSettles
    /\ UNCHANGED attempt

HandlerEnds ==
    /\ handler \in {"turn", "last"} /\ HandlerResumes
    /\ handler' = "none" /\ handlerOn' = 0
    /\ UNCHANGED <<leaseOwner, bindings, results, outdated, phase, attempt, runHook>>

-----------------------------------------------------------------------------
(* The operator and the session, at any moment.                            *)

OutsideFrame == UNCHANGED <<bindings, phase, runHook, handler, handlerOn>>

\* Input into a running agent (INTENT), /route shadow and /route active.
Invalidate ==
    /\ NewEpoch
    /\ mode' \in {mode} \cup {"active", "shadow"}
    /\ UNCHANGED <<lease, leases, results, attempt>> /\ OutsideFrame

\* An override, a compaction or a new session: what is pending is dropped.
DropSecondary ==
    /\ NewEpoch /\ mode # "off"
    /\ \/ UNCHANGED <<lease, attempt>>
       \/ lease' = 0 /\ attempt' = "over"
    /\ AbortSecondaryWork
    /\ UNCHANGED <<mode, leases>> /\ OutsideFrame

RouterOff ==
    /\ mode # "off" /\ NewEpoch
    /\ mode' = "off" /\ attempt' = "over"
    /\ AbortSecondaryWork
    /\ UNCHANGED <<lease, leases>> /\ OutsideFrame

\* /route reset clears the lease and leaves the queue to the next boundary.
Reset ==
    /\ NewEpoch /\ lease' = 0
    /\ UNCHANGED <<mode, leases, results, attempt>> /\ OutsideFrame

\* Evidence, a prepared fallback: the lease advances within its task.
LeaseAdvances ==
    /\ lease # 0 /\ mode # "off" /\ NewLease
    /\ UNCHANGED <<mode, epoch, results, attempt>> /\ OutsideFrame

Next ==
    \/ \E t \in Tasks :
           RunEnds(t) \/ Settle(t) \/ RouteEnds(t) \/ DeferralRecorded(t) \/ ApplyEnds(t)
    \/ UserStart \/ Classified \/ Routed \/ Recorded \/ CustomStart \/ StartDrained \/ AgentStart
    \/ TurnEnd \/ AgentEnd \/ AgentSettled \/ AgentSettledResumes \/ HandlerEnds
    \/ Invalidate \/ DropSecondary \/ RouterOff \/ Reset \/ LeaseAdvances

Spec == Init /\ [][Next]_vars

-----------------------------------------------------------------------------
(* Properties.                                                             *)

\* Type invariant; the queue holds the one task that is queued.
OwnerTypes ==
    /\ mode \in {"active", "shadow", "off"}
    /\ {lease, leases, routed} \subseteq 0..MaxLeases /\ {epoch, generation} \subseteq 0..MaxEpoch
    /\ owner \in [Tasks -> 0..MaxLeases] /\ since \in [Tasks -> 0..MaxEpoch]
    /\ completed \in [Tasks -> BOOLEAN] /\ outdated \subseteq Tasks

ResultTypes ==
    /\ stage \in [Tasks -> Stages]
    /\ queue \in Tasks \cup {0} /\ \A t \in Tasks : stage[t] = "queued" <=> queue = t
    /\ {abandoned, deferred, accepted} \subseteq SUBSET Tasks
    /\ fates \in [Tasks -> Nat]
    /\ drains \in [Tasks -> [step : {"none", "routing", "deferring", "applying"},
                             lease : 0..MaxLeases, epoch : 0..MaxEpoch, forbidden : BOOLEAN]]

RunTypes ==
    /\ phase \in {"before_start", "active", "settled"} /\ attempt \in {"pending", "over"}
    /\ hook \in {"none", "classifying", "routing", "recording", "draining", "ready"}
    /\ handler \in {"none", "turn", "ended", "settling", "last"}
    /\ {hookOn, handlerOn} \subseteq Tasks \cup {0} /\ hookJoined \in BOOLEAN

TypeOK == OwnerTypes /\ ResultTypes /\ RunTypes

\* "so a later promise continuation can observe the latch and return without
\* recording a duplicate reconciliation event" (index.ts:523), and none goes
\* without: whichever of the drain, the settlement and the aborts gets to a
\* task, its outcome is decided exactly once.
OneFate ==
    \A t \in Tasks : fates[t] = IF stage[t] = "done" \/ t \in abandoned THEN 1 ELSE 0

\* A result never finds another one waiting: the path that records a
\* superseded result across an await, with that result still in the queue, is
\* never taken.
NothingSuperseded == \A t \in Tasks : stage[t] # "superseding"

\* "It applies while idle" (extensions/router/README.md:141): when the run has settled and its
\* handlers have ended, no usable result is left waiting for another run.
NothingStranded ==
    (phase = "settled" /\ hook = "none" /\ handler = "none" /\ mode # "off" /\ queue # 0)
        => Stale(queue) \/ Draining

\* "New user intent, fallback, manual override, mode change, or any boundary
\* drops the correction rather than rebinding it to newer work"
\* (specs/routing-layer/decisions.md:50), however long the drain takes.
CorrectionIsCurrent == [][(accepted' \ accepted) \cap outdated = {}]_vars

\* "a running task retains its whole model/effort/profile/features/archetype
\* tuple" (specs/routing-layer/decisions.md:48): no correction is installed while a run is active,
\* in the mode that applies it.
TupleKeptMidRun == [][accepted' # accepted /\ mode = "active" => phase # "active"]_vars
=============================================================================
