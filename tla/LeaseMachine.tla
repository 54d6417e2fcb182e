---------------------------- MODULE LeaseMachine ----------------------------
(***************************************************************************)
(* The router's lease owner (extensions/router/core/lease-machine.ts): the *)
(* one holder of the task lease, which handlers of the extension read,     *)
(* think about across awaits, and then propose to advance; while operator  *)
(* commands, new input, compactions and session starts change it directly. *)
(*                                                                         *)
(* Every event is one atomic step of the machine.  A lease is an immutable *)
(* object: its `id` stands for the object's identity, which `===` compares.*)
(***************************************************************************)
EXTENDS Naturals

CONSTANTS
    Handlers,    \* the handlers that can be between their read and their proposal
    MaxLeases,   \* lease objects created
    MaxEpoch,    \* events that advance the epoch
    MaxWorkers   \* secondary classifications started

ASSUME BoundsAssumption == MaxLeases \in Nat /\ MaxEpoch \in Nat /\ MaxWorkers \in Nat

VARIABLES
    mode, active, pendingHardBoundary, manualOverride,  \* context.state
    epoch,       \* context.epoch
    secondary,   \* context.secondary: the worker last started, or NoWorker
    running,     \* the secondary classifications at work
    seen,        \* handler -> what it read when it last took a decision to think about
    leases, workers,   \* objects and workers created so far
    standing,    \* history: the operator's decisions nothing newer has settled
    accepted     \* history: the advances accepted since the lease was installed

state == <<mode, active, pendingHardBoundary, manualOverride>>
work == <<secondary, running, workers>>
history == <<standing, accepted>>
vars == <<state, epoch, work, seen, leases, history>>

Modes == {"off", "shadow", "active"}
Phases == {"planning", "execution"}
Decisions == {"override", "boundary"}
Continuations == {"PREPARE", "FALLBACK", "RECONCILE", "REPAIR", "EVIDENCE", "SUBMIT_PLAN"}

(* `log` is the part of a lease its continuations add to: evidence, review  *)
(* attempts, fallbacks tried.                                              *)
NoLease == [id |-> 0, task |-> 0, phase |-> "execution", manual |-> FALSE, log |-> {}]
NoWorker == [n |-> 0, task |-> 0]
NothingSeen == [live |-> FALSE, owner |-> NoLease, epoch |-> 0, standing |-> {}]

Init ==
    /\ mode \in Modes /\ active = NoLease
    /\ pendingHardBoundary = FALSE /\ manualOverride = FALSE
    /\ epoch = 0
    /\ secondary = NoWorker /\ running = {} /\ workers = 0
    /\ seen = [h \in Handlers |-> NothingSeen]
    /\ leases = 0
    /\ standing = {} /\ accepted = {}

Installed == active.id # 0
NewLease == leases < MaxLeases /\ leases' = leases + 1
NewEpoch == epoch < MaxEpoch /\ epoch' = epoch + 1

\* the same lease object
Same(a, b) == a.id = b.id

-----------------------------------------------------------------------------
(* The secondary classification, a child of the task.                      *)

\* mutant: the reference is dropped but the child runs on
ForgetSecondary == secondary' = NoWorker /\ UNCHANGED running

DiscardSecondary == secondary' = NoWorker /\ running' = running \ {secondary}

StartSecondary(h) ==
    /\ seen[h].live /\ Installed
    /\ Same(active, seen[h].owner)
    /\ workers < MaxWorkers
    /\ workers' = workers + 1
    /\ LET worker == [n |-> workers', task |-> active.task]
       IN secondary' = worker /\ running' = (running \ {secondary}) \cup {worker}
    /\ UNCHANGED <<state, epoch, seen, leases, history>>

\* It ends by itself, or by ABORT_SECONDARY; the reference stays.
SecondaryEnds ==
    /\ running # {}
    /\ running' = running \ {secondary}
    /\ UNCHANGED <<state, epoch, secondary, workers, seen, leases, history>>

-----------------------------------------------------------------------------
(* Handlers: read, await, propose.                                         *)

Read(h) ==
    /\ seen' = [seen EXCEPT ![h] = [live |-> TRUE, owner |-> active, epoch |-> epoch,
                                    standing |-> standing]]
    /\ UNCHANGED <<state, epoch, work, leases, history>>

\* The proposal is over, accepted or not.
Forget(h) == seen' = [seen EXCEPT ![h] = NothingSeen]

\* mutant: only the lease's identity is compared
OwnsLeaseObject(owner, since) == Same(active, owner)

\* mutant: only the epoch is compared
OwnsEpoch(owner, since) == epoch = since

OwnsLease(owner, since) == Same(active, owner) /\ epoch = since

ValidAdvance(type, owner, lease) ==
    IF type = "SUBMIT_PLAN" THEN owner.phase = "planning" /\ lease.phase = "planning"
                            ELSE owner.task = lease.task

(* A continuation of the task: a new object made from the lease that was    *)
(* read.  It leaves a pending boundary alone, and the secondary running.    *)
Continue(h, type, phase) ==
    /\ seen[h].live /\ seen[h].owner.id # 0
    /\ NewLease
    /\ LET owner == seen[h].owner
           lease == [owner EXCEPT !.id = leases', !.phase = phase, !.log = @ \cup {leases'}]
       IN /\ ValidAdvance(type, owner, lease)
          /\ OwnsLease(owner, seen[h].epoch)
          /\ active' = lease
    /\ manualOverride' = FALSE
    /\ accepted' = accepted \cup {leases'}
    /\ Forget(h)
    /\ UNCHANGED <<mode, pendingHardBoundary, epoch, work, standing>>

(* A routed turn installs the lease of a new task over whatever lease is    *)
(* there, and settles the decisions that stood when it began.              *)
Route(h, phase) ==
    /\ seen[h].live
    /\ NewLease
    /\ OwnsLease(active, seen[h].epoch)
    /\ active' = [id |-> leases', task |-> leases', phase |-> phase, manual |-> FALSE, log |-> {}]
    /\ pendingHardBoundary' = FALSE /\ manualOverride' = FALSE
    /\ DiscardSecondary
    /\ standing' = standing \ seen[h].standing
    /\ accepted' = {}
    /\ Forget(h)
    /\ UNCHANGED <<mode, epoch, workers>>

\* The guard fails: the proposal is dropped.
Rejected(h) ==
    /\ seen[h].live /\ ~OwnsLease(seen[h].owner, seen[h].epoch)
    /\ Forget(h)
    /\ UNCHANGED <<state, epoch, work, leases, history>>

\* session_start restores a persisted state, with or without a lease, of this
\* task or another; what it restores is the new baseline.
Restore(h, restoredMode, boundary, manual, task) ==
    /\ seen[h].live
    /\ OwnsLease(seen[h].owner, seen[h].epoch)
    /\ NewLease /\ NewEpoch
    /\ mode' = restoredMode /\ pendingHardBoundary' = boundary /\ manualOverride' = manual
    /\ active' = IF task = 0 THEN NoLease
                 ELSE [id |-> leases', task |-> task, phase |-> "execution", manual |-> manual,
                       log |-> {}]
    /\ DiscardSecondary
    /\ standing' = standing \ seen[h].standing
    /\ accepted' = {}
    /\ Forget(h)
    /\ UNCHANGED workers

-----------------------------------------------------------------------------
(* Events that are sent at once.                                           *)

\* A redundant command is not an event; entering active mode clears an
\* override, and makes a new lease object only then.
Mode(newMode) ==
    /\ mode # newMode \/ (newMode = "active" /\ (manualOverride \/ active.manual))
    /\ NewEpoch
    /\ mode' = newMode
    /\ manualOverride' = (manualOverride /\ newMode # "active")
    /\ IF newMode = "active" /\ active.manual
       THEN NewLease /\ active' = [active EXCEPT !.id = leases', !.manual = FALSE]
       ELSE UNCHANGED <<active, leases>>
    /\ standing' = IF newMode = "active" THEN standing \ {"override"} ELSE standing
    /\ UNCHANGED <<pendingHardBoundary, work, seen, accepted>>

\* INTENT and INVALIDATE: what was read before is out of date.
Invalidate ==
    /\ NewEpoch
    /\ UNCHANGED <<state, work, seen, leases, history>>

\* mutant: a boundary leaves decisions under way valid
BoundaryKeepsEpoch == UNCHANGED epoch

BoundaryEpoch == NewEpoch

Boundary ==
    /\ BoundaryEpoch
    /\ pendingHardBoundary' = TRUE
    /\ standing' = standing \cup {"boundary"}
    /\ UNCHANGED <<mode, active, manualOverride, work, seen, leases, accepted>>

\* The operator chose a model or an effort: the choice stands over the lease.
Override ==
    /\ NewEpoch
    /\ manualOverride' = TRUE
    /\ IF Installed
       THEN NewLease /\ active' = [active EXCEPT !.id = leases', !.manual = TRUE]
       ELSE UNCHANGED <<active, leases>>
    /\ DiscardSecondary
    /\ standing' = standing \cup {"override"}
    /\ UNCHANGED <<mode, pendingHardBoundary, workers, seen, accepted>>

ResetEpoch == NewEpoch

Reset ==
    /\ ResetEpoch
    /\ active' = NoLease /\ pendingHardBoundary' = TRUE /\ manualOverride' = FALSE
    /\ DiscardSecondary
    /\ standing' = {"boundary"} /\ accepted' = {}
    /\ UNCHANGED <<mode, workers, seen, leases>>

-----------------------------------------------------------------------------
HandlerStep(h) ==
    \/ Read(h) \/ Rejected(h) \/ StartSecondary(h)
    \/ \E type \in Continuations, phase \in Phases : Continue(h, type, phase)
    \/ \E phase \in Phases : Route(h, phase)
    \/ \E restoredMode \in Modes, boundary, manual \in BOOLEAN, task \in 0..leases :
          Restore(h, restoredMode, boundary, manual, task)

Next ==
    \/ \E h \in Handlers : HandlerStep(h)
    \/ \E newMode \in Modes : Mode(newMode)
    \/ Invalidate \/ Boundary \/ Override \/ Reset
    \/ SecondaryEnds

Spec == Init /\ [][Next]_vars

-----------------------------------------------------------------------------
(* Properties.                                                             *)

Lease == [id : Nat, task : Nat, phase : Phases, manual : BOOLEAN, log : SUBSET Nat]
Worker == [n : Nat, task : Nat]
Seen == [live : BOOLEAN, owner : Lease, epoch : Nat, standing : SUBSET Decisions]

\* Type invariant: the epoch, in particular, never falls behind one that a
\* handler has read.
TypeOK ==
    /\ mode \in Modes /\ active \in Lease
    /\ pendingHardBoundary \in BOOLEAN /\ manualOverride \in BOOLEAN
    /\ epoch \in Nat /\ leases \in Nat /\ workers \in Nat
    /\ secondary \in Worker /\ running \subseteq Worker
    /\ seen \in [Handlers -> Seen] /\ \A h \in Handlers : seen[h].epoch <= epoch
    /\ standing \subseteq Decisions /\ accepted \subseteq Nat

\* "/route active" and a route decided afterwards aside, a manual choice stays
\* in force: no proposal based on what was read before it can undo it.
OverrideStands == "override" \in standing => manualOverride \/ active.manual

\* "Only ROUTE, which installs the lease freshly selected for a boundary,
\* consumes it" (lease-machine.ts:117): a route decided before the boundary
\* does not.
BoundaryStands == "boundary" \in standing => pendingHardBoundary

\* Every advance that was reported as accepted is part of the lease that is
\* installed: two handlers that read the same lease do not overwrite each
\* other.
AcceptedKept == Installed => accepted \subseteq active.log

\* "Exiting running or stopping the child aborts its background work"
\* (lease-machine.ts:9): only the installed task's latest classification runs.
OnlyOwnedWorkRuns ==
    \A w \in running : w = secondary /\ Installed /\ w.task = active.task
=============================================================================
