------------------------------- MODULE Selection -------------------------------
(***************************************************************************)
(* How the router changes Pi's model and effort (extensions/router/        *)
(* index.ts, core/fallback.ts): the preparation of a leased turn, a        *)
(* correction, and a fallback each ask for a selection.  Selections are    *)
(* served one at a time; Pi authenticates inside setModel, which nothing   *)
(* can cancel, so the operator may pick a model or an effort, or change    *)
(* the mode, while a switch is pending.  A guarded selection that lost its *)
(* reason puts back what should be in force.                               *)
(*                                                                         *)
(* Pi reports every effort change as an event the router must tell apart   *)
(* from its own: the echo of a switch's default effort may reach the       *)
(* router before the switch resolves or after, and behind other handlers   *)
(* an echo arrives later than the call that caused it.                     *)
(***************************************************************************)
EXTENDS Naturals, FiniteSets, Bags, SequencesExt

CONSTANTS
    Models, Efforts,    \* of Pi; every model supports every effort
    DefaultEffort,      \* model -> the effort a switch to it applies
    Provider,           \* model -> its provider
    Routes,             \* what a routing decision may return: sequences of choices
    Starts,             \* what Pi may have selected when the lease was routed
    Deferral,           \* may other handlers delay the delivery of events?
    MaxCalls, MaxPicks, MaxEpoch, MaxLeases

ASSUME ChoicesAssumption ==
    /\ DefaultEffort \in [Models -> Efforts] /\ Models \cap Efforts = {}
    /\ \A r \in Routes : r # <<>> /\ ToSet(r) \subseteq Models \X Efforts
    /\ Starts \subseteq Models \X Efforts
    /\ Deferral \subseteq BOOLEAN

VARIABLES
    \* the lease owner
    mode, override, epoch, lease, leases,
    prompted,       \* is a prompt being classified and routed that nothing has superseded?
    \* Pi: what is selected, the transcript since the router's switch began,
    \* the events its handlers have not delivered to the router
    model, effort, entries, events,
    deferred,       \* do other handlers delay the delivery of events?
    \* the router's memory of the operator and of its own changes
    operatorSelection, revision, expected,
    \* the calls, the queue of selections (selectionTail), the one being applied
    call, tail, apply,
    calls, picks,
    \* history
    caused,         \* events the operator caused
    wanted,         \* the last choice of the operator or of a guarded call that completed
    excused         \* Pi refused to restore it, or something unguarded went past it

leaseOwner == <<mode, override, epoch, lease, leases, prompted>>
pi == <<model, effort, entries, events>>
operator == <<operatorSelection, revision, expected>>
selections == <<call, tail, apply>>
history == <<caused, wanted, excused>>
vars == <<leaseOwner, pi, deferred, operator, selections, calls, picks, history>>

\* The preparation of a turn, the drain of a second opinion, and /route fail or
\* the end of a failed attempt.
Callers == {"turn", "correction", "fail"}

Tuples == Models \X Efforts
None == <<>>
Current == <<model, effort>>

NoLease == [id |-> 0, sel |-> None, rest |-> <<>>, at |-> 0, failed |-> FALSE, previous |-> None,
            routed |-> 0]
NoCall == [kind |-> "none", step |-> "idle", lease |-> NoLease, owner |-> 0, epoch |-> 0,
           asked |-> 0, applyEpoch |-> 0, result |-> FALSE, queued |-> FALSE]
NoApply == [step |-> "none", purpose |-> "choice", target |-> None, before |-> "none", epoch |-> 0,
            echoed |-> FALSE, result |-> FALSE, previous |-> None, picked |-> 0, seen |-> None]

Init ==
    /\ mode = "active" /\ override = FALSE /\ epoch = 0 /\ leases = 1 /\ prompted = FALSE
    /\ \E s \in Starts, r \in Routes :
        /\ model = s[1] /\ effort = s[2]
        /\ lease = [NoLease EXCEPT !.id = 1, !.sel = Head(r), !.rest = Tail(r), !.previous = s]
    /\ entries = <<>> /\ events = EmptyBag /\ deferred \in Deferral
    /\ operatorSelection = None /\ revision = 0 /\ expected = EmptyBag
    /\ call = [c \in Callers |-> NoCall] /\ tail = <<>> /\ apply = NoApply
    /\ calls = 0 /\ picks = 0
    /\ caused = 0 /\ wanted = Current /\ excused = FALSE

Owns(id, e) == lease.id = id /\ epoch = e
\* What advances the epoch supersedes a prompt, but for the input that begins it.
NewEpoch(begins) == epoch < MaxEpoch /\ epoch' = epoch + 1 /\ prompted' = begins

\* advance() of the lease owner: a new lease object, which clears an override.
Advance(l) ==
    /\ leases < MaxLeases
    /\ leases' = leases + 1 /\ lease' = [l EXCEPT !.id = leases']
    /\ override' = FALSE /\ UNCHANGED <<mode, epoch, prompted>>

\* Without other handlers an event reaches the router before anything else
\* happens, and a finished selection resumes its caller before the next task.
Delivered == deferred \/ events = EmptyBag
Resuming == {c \in Callers : call[c].step \in {"returned", "again"}}
Idle == Delivered /\ apply.step # "applied" /\ Resuming = {}

-----------------------------------------------------------------------------
(* Pi's effort and its events.                                             *)

EffortEvent(level, previous) == SetToBag({[kind |-> "effort", level |-> level, previous |-> previous]})

\* applyEffort(), with the echoes awaited so far: an echo that does not arrive
\* inside the call is expected later.
ApplyEffort(e, awaited) ==
    /\ effort' = e
    /\ UNCHANGED <<model, entries>>
    /\ IF e # effort /\ deferred
       THEN /\ events' = events (+) EffortEvent(e, effort)
            /\ expected' = awaited (+) SetToBag({<<e, effort>>})
       ELSE UNCHANGED events /\ expected' = awaited

\* Pi commits a model: the transcript gets the model and, if it changes, the
\* effort that comes with it.
Commit(m) ==
    /\ model' = m
    /\ effort' = DefaultEffort[m]
    /\ entries' = IF apply.step = "none" THEN <<>>
                  ELSE entries \o <<m>> \o (IF effort' # effort THEN <<effort'>> ELSE <<>>)

DefaultEvent(m) == IF DefaultEffort[m] = effort THEN EmptyBag ELSE EffortEvent(DefaultEffort[m], effort)

\* modelSwitchEffortTransition(): the latest change to the target, the effort
\* before it, and the effort that follows it in the transcript.
SwitchSeen == apply.target # None /\ apply.target[1] \in ToSet(entries)

\* Mutant: the first change to the target, not the latest.
SwitchTransitionFirst ==
    LET target == apply.target[1]
        at == CHOOSE i \in DOMAIN entries : entries[i] = target
        level == IF at < Len(entries) /\ entries[at + 1] \in Efforts THEN entries[at + 1] ELSE effort
    IN  <<level, apply.before>>

SwitchTransition ==
    LET target == apply.target[1]
        at == CHOOSE i \in DOMAIN entries :
                 entries[i] = target /\ \A j \in DOMAIN entries : j > i => entries[j] # target
        earlier == SelectSeq(SubSeq(entries, 1, at - 1), LAMBDA x : x \in Efforts)
        previous == IF earlier = <<>> THEN apply.before ELSE Last(earlier)
        level == IF at < Len(entries) /\ entries[at + 1] \in Efforts THEN entries[at + 1] ELSE previous
    IN  IF DefaultEffort[target] = previous THEN <<previous, previous>> ELSE <<level, previous>>

-----------------------------------------------------------------------------
(* applyChoice(): one selection at a time.                                 *)

Guarded(c) == call[c].kind \in {"prepare", "correct"}
\* Mutant: only a correction is undone.
ReasonLostCorrecting(c) ==
    call[c].kind = "correct" /\ (epoch # call[c].applyEpoch \/ lease.id # call[c].owner)

ReasonLost(c) ==
    /\ Guarded(c)
    /\ \/ epoch # call[c].applyEpoch
       \/ call[c].kind = "correct" /\ lease.id # call[c].owner

\* The call joins the queue; the choice is that of its candidate lease or the
\* one before the task.
Ask(c, k) ==
    /\ call' = [call EXCEPT ![c] = k @@ [step |-> "queued", asked |-> lease.id] @@ @]
    /\ tail' = Append(tail, c)
    /\ UNCHANGED apply

Asked(c) == IF call[c].kind \in {"restore", "undo"} THEN lease.previous ELSE call[c].lease.sel

\* History: the choice in force once the router's change a is complete.  A
\* call that went on under a later epoch than its own is not guarded either.
Completes(c, a) ==
    LET sound == Guarded(c) /\ call[c].epoch = call[c].applyEpoch IN
    IF a.step = "applied" /\ a.result /\ a.purpose = "choice" /\ sound
    THEN wanted' = a.target /\ excused' = FALSE
    ELSE /\ UNCHANGED wanted
         /\ excused' = (excused \/ (~sound /\ Current' # Current))

\* applyChoiceUnqueued(), up to its wait for Pi.
Begin(a) ==
    IF model = a.target[1]
    THEN /\ apply' = [a EXCEPT !.step = "applied", !.result = TRUE]
         /\ ApplyEffort(a.target[2], expected)
    ELSE /\ apply' = [a EXCEPT !.step = "switching", !.before = effort, !.epoch = epoch,
                               !.echoed = FALSE]
         /\ entries' = <<>>
         /\ UNCHANGED <<model, effort, events, expected>>

\* The promise of applyChoice() resolves.
Returns(c, result) ==
    /\ call' = [call EXCEPT ![c].step = "returned", ![c].result = result]
    /\ tail' = Tail(tail) /\ apply' = NoApply

TurnStarts ==
    /\ Delivered /\ apply.step = "none" /\ tail # <<>>
    \* these resume through one more promise
    /\ \A c \in Resuming : call[c].kind \in {"prepare", "undo"} \/ call[c].step = "again"
    /\ LET c == Head(tail) IN
       IF ~Owns(call[c].asked, call[c].applyEpoch) \/ ReasonLost(c)
       THEN Returns(c, FALSE) /\ UNCHANGED <<pi, expected, wanted, excused>>
       ELSE /\ Begin([NoApply EXCEPT !.target = Asked(c), !.previous = Current, !.picked = revision])
            /\ UNCHANGED <<call, tail>> /\ Completes(c, apply')
    /\ UNCHANGED <<leaseOwner, deferred, operatorSelection, revision, calls, picks, caused>>

\* Pi has authenticated and commits the router's switch.
SwitchCommits ==
    /\ Idle /\ apply.step = "switching"
    /\ Commit(apply.target[1])
    /\ events' = events (+) DefaultEvent(apply.target[1])
    /\ apply' = [apply EXCEPT !.step = "committed"]
    /\ Completes(Head(tail), apply')
    /\ UNCHANGED <<leaseOwner, deferred, operator, call, tail, calls, picks, caused>>

\* The model is gone from the registry, or Pi cannot authenticate it.
SwitchFails ==
    /\ Idle /\ apply.step = "switching"
    /\ apply' = [apply EXCEPT !.step = "applied", !.result = FALSE]
    /\ UNCHANGED <<leaseOwner, pi, deferred, operator, call, tail, calls, picks, history>>

\* setModel resolves: its echo is expected if it has not come, and the effort
\* of the choice follows unless the epoch has moved.
SwitchResolves ==
    /\ Idle /\ apply.step = "committed"
    /\ LET t == SwitchTransition
           awaited == IF apply.echoed \/ t[1] = t[2] THEN expected ELSE expected (+) SetToBag({t})
       IN  IF epoch = apply.epoch
           THEN /\ ApplyEffort(apply.target[2], awaited)
                /\ apply' = [apply EXCEPT !.step = "applied", !.result = TRUE]
           ELSE /\ expected' = awaited /\ UNCHANGED pi
                /\ apply' = [apply EXCEPT !.step = "applied", !.result = FALSE]
    /\ Completes(Head(tail), apply')
    /\ UNCHANGED <<leaseOwner, deferred, operatorSelection, revision, call, tail, calls, picks, caused>>

\* The selection of the current lease is in force.
Leased == mode = "active" /\ ~override /\ Current = lease.sel

\* What should be in force after a selection lost its reason.
Winner ==
    IF revision # apply.picked \/ override
    THEN IF operatorSelection = None THEN apply.previous ELSE operatorSelection
    ELSE IF mode = "active" /\ lease.id # 0 THEN lease.sel ELSE apply.previous

Recover ==
    /\ Begin([apply EXCEPT !.purpose = "recovery", !.target = Winner,
                           !.seen = <<revision, mode, lease.id, epoch>>])
    /\ UNCHANGED <<call, tail>>

\* applyChoice() resumes after applyChoiceUnqueued(): it returns, or recovers
\* until nothing changes meanwhile.
TurnContinues ==
    /\ Delivered /\ apply.step = "applied" /\ Resuming = {}
    /\ LET c == Head(tail) IN
       IF apply.purpose = "choice"
       THEN IF ReasonLost(c)
            THEN Recover /\ UNCHANGED <<wanted, excused>>
            ELSE Returns(c, apply.result) /\ UNCHANGED <<pi, expected, wanted, excused>>
       ELSE IF apply.seen # <<revision, mode, lease.id, epoch>>
            THEN Recover /\ UNCHANGED <<wanted, excused>>
            ELSE /\ Returns(c, FALSE) /\ UNCHANGED <<pi, expected>>
                 /\ wanted' = IF Leased THEN Current ELSE wanted
                 /\ excused' = (excused \/ ~apply.result)
    /\ UNCHANGED <<leaseOwner, deferred, operatorSelection, revision, calls, picks, caused>>

-----------------------------------------------------------------------------
(* The callers.                                                            *)

\* resolveFallback(): the next choice, those of a provider out of quota skipped.
\* attemptIndex indexes the fallbacks, so only the untried ones are filtered.
Untried(l, skip) ==
    SubSeq(l.rest, 1, l.at) \o
    SelectSeq(SubSeq(l.rest, l.at + 1, Len(l.rest)), LAMBDA x : Provider[x[1]] # skip)

ResolveFallback(l, skip) ==
    LET rest == Untried(l, skip) IN
    IF l.at < Len(rest)
    THEN [l EXCEPT !.sel = rest[l.at + 1], !.rest = rest, !.at = l.at + 1]
    ELSE [l EXCEPT !.failed = TRUE]

Skips == {"none"} \cup {Provider[m] : m \in Models}

\* transitionFallback(), up to its ledger wait.
BeginFallback(c, skip) ==
    call' = [call EXCEPT ![c] =
        LET next == ResolveFallback(lease, skip) IN
        [@ EXCEPT !.kind = IF next.failed THEN "restore" ELSE "fallback", !.step = "recording",
                  !.lease = next, !.owner = lease.id, !.epoch = epoch, !.applyEpoch = epoch]]

Active == mode = "active" /\ lease.id # 0 /\ ~lease.failed

FallbackStarts(c, skip) ==
    /\ Idle /\ c = "fail" /\ call[c].step = "idle" /\ calls < MaxCalls
    /\ Active
    /\ BeginFallback(c, skip) /\ calls' = calls + 1
    /\ UNCHANGED <<leaseOwner, pi, deferred, operator, tail, apply, picks, history>>

\* The end of a fallback: /route fail is done; the preparation looks at the lease anew.
FallbackEnds(c) ==
    call' = [call EXCEPT ![c] = IF c = "fail" THEN NoCall ELSE [@ EXCEPT !.step = "again"]]

FallbackRecorded(c) ==
    /\ Idle /\ call[c].step = "recording" /\ call[c].kind \in {"fallback", "restore"}
    /\ IF Owns(call[c].owner, call[c].epoch)
       THEN Ask(c, [kind |-> call[c].kind])
       ELSE FallbackEnds(c) /\ UNCHANGED <<tail, apply>>
    /\ UNCHANGED <<leaseOwner, pi, deferred, operator, calls, picks, history>>

\* Mutant: the lease advances even if the choice could not be applied.
FallbackReturnsAnyway(c) ==
    /\ Delivered /\ call[c].step = "returned" /\ call[c].kind \in {"fallback", "restore"}
    /\ IF Owns(call[c].owner, call[c].epoch) THEN Advance(call[c].lease) ELSE UNCHANGED leaseOwner
    /\ FallbackEnds(c)
    /\ UNCHANGED <<pi, deferred, operator, tail, apply, calls, picks, history>>

FallbackReturns(c) ==
    /\ Delivered /\ call[c].step = "returned" /\ call[c].kind \in {"fallback", "restore"}
    /\ IF Owns(call[c].owner, call[c].epoch) /\ (call[c].result \/ call[c].kind = "restore")
       THEN Advance(call[c].lease)
       ELSE UNCHANGED leaseOwner
    /\ FallbackEnds(c)
    /\ UNCHANGED <<pi, deferred, operator, tail, apply, calls, picks, history>>

\* abortSecondaryWork(): the drain of a queued correction goes on without it.
SecondaryAborted == call' = [call EXCEPT !["correction"].queued = FALSE]

\* prepareActiveLeaseForTurn(): an eligible lease is applied, an ineligible
\* one falls back first.  A correction still queued is awaited before.
PrepareStarts ==
    /\ Idle /\ call["turn"].step = "idle" /\ calls < MaxCalls
    /\ ~call["correction"].queued
    /\ Active /\ ~override
    /\ calls' = calls + 1 /\ prompted' = FALSE
    /\ \/ Ask("turn", [kind |-> "prepare", lease |-> lease, owner |-> lease.id, epoch |-> epoch,
                          applyEpoch |-> epoch])
       \/ BeginFallback("turn", "none") /\ UNCHANGED <<tail, apply>>
    /\ UNCHANGED <<mode, override, epoch, lease, leases, pi, deferred, operator, picks, history>>

\* After the fallback of an ineligible lease.
PrepareAgain ==
    /\ Delivered /\ call["turn"].step = "again"
    /\ LET k == call["turn"]
           previousAttempt == IF k.lease.failed THEN k.lease.at ELSE k.lease.at - 1 IN
       IF lease.id = 0 \/ lease.failed \/ lease.at = previousAttempt
       THEN call' = [call EXCEPT !["turn"] = NoCall] /\ UNCHANGED <<tail, apply>>
       ELSE Ask("turn", [kind |-> "prepare", lease |-> lease, owner |-> lease.id,
                            epoch |-> k.epoch, applyEpoch |-> epoch])
    /\ UNCHANGED <<leaseOwner, pi, deferred, operator, calls, picks, history>>

\* applyWithAvailabilityFallback(): the choice is applied, or the next one follows.
PrepareReturns ==
    /\ Delivered /\ call["turn"].step = "returned" /\ call["turn"].kind \in {"prepare", "undo"}
    /\ LET k == call["turn"] IN
       IF k.kind = "undo" \/ epoch # k.applyEpoch \/ k.result
       THEN /\ IF ~Owns(k.owner, k.epoch) THEN UNCHANGED leaseOwner
               ELSE IF k.kind = "undo" THEN Advance([lease EXCEPT !.failed = TRUE])
               ELSE IF k.lease.at # lease.at THEN Advance(k.lease)
               ELSE UNCHANGED leaseOwner
            /\ call' = [call EXCEPT !["turn"] = NoCall]
       ELSE /\ call' = [call EXCEPT !["turn"].step = "recording"]
            /\ UNCHANGED leaseOwner
    /\ UNCHANGED <<pi, deferred, operator, tail, apply, calls, picks, history>>

PrepareRecorded ==
    /\ Idle /\ call["turn"].step = "recording" /\ call["turn"].kind = "prepare"
    /\ LET k == call["turn"]
           next == ResolveFallback(k.lease, "none")
       IN  IF epoch # k.applyEpoch
           THEN call' = [call EXCEPT !["turn"] = NoCall] /\ UNCHANGED <<tail, apply>>
           ELSE Ask("turn", IF next.failed THEN [kind |-> "undo"] ELSE [lease |-> next])
    /\ UNCHANGED <<leaseOwner, pi, deferred, operator, calls, picks, history>>

\* A correction of the lease as it was routed (module SecondaryReconciliation):
\* drained at idle, or by a turn that has not begun its preparation, unless
\* the routing context has changed since the route.
CorrectionStarts(r) ==
    /\ Idle /\ call["turn"].step = "idle" /\ call["correction"].step = "idle" /\ calls < MaxCalls
    /\ Active /\ ~override /\ lease.at = 0 /\ lease.routed = epoch
    /\ Ask("correction", [kind |-> "correct", owner |-> lease.id, epoch |-> epoch,
                          applyEpoch |-> epoch, queued |-> TRUE,
                          lease |-> [lease EXCEPT !.sel = Head(r), !.rest = Tail(r)]])
    /\ calls' = calls + 1
    /\ UNCHANGED <<leaseOwner, pi, deferred, operator, picks, history>>

CorrectionReturns ==
    /\ Delivered /\ call["correction"].step = "returned"
    /\ IF ~ReasonLost("correction") /\ call["correction"].result
       THEN Advance(call["correction"].lease) ELSE UNCHANGED leaseOwner
    /\ call' = [call EXCEPT !["correction"] = NoCall]
    /\ UNCHANGED <<pi, deferred, operator, tail, apply, calls, picks, history>>

-----------------------------------------------------------------------------
(* The operator, and the events Pi delivers of them.                       *)

Picked(n) == picks < MaxPicks /\ picks' = picks + 1 /\ caused' = caused + n

OperatorPicksModel(m) ==
    /\ Idle /\ m # model
    /\ Commit(m)
    /\ events' = events (+) DefaultEvent(m) (+) SetToBag({[kind |-> "model", model |-> m]})
    /\ Picked(IF effort' = effort THEN 1 ELSE 2)
    /\ wanted' = Current' /\ excused' = (excused /\ apply.step # "none")
    /\ UNCHANGED <<leaseOwner, deferred, operator, selections, calls>>

OperatorPicksEffort(e) ==
    /\ Idle /\ e # effort
    /\ effort' = e /\ UNCHANGED model
    /\ entries' = IF apply.step = "none" THEN <<>> ELSE Append(entries, e)
    /\ events' = events (+) EffortEvent(e, effort)
    /\ Picked(1)
    /\ wanted' = Current' /\ excused' = (excused /\ apply.step # "none")
    /\ UNCHANGED <<leaseOwner, deferred, operator, selections, calls>>

\* The operator's choice is remembered even in mode "off"; otherwise it
\* overrides the lease, ends the epoch and takes a second opinion off the queue.
Overrides(choice) ==
    /\ operatorSelection' = choice /\ revision' = revision + 1
    /\ IF mode = "off" THEN UNCHANGED <<leaseOwner, call>>
       ELSE /\ NewEpoch(FALSE) /\ override' = TRUE /\ UNCHANGED <<mode, lease, leases>>
            /\ SecondaryAborted

\* model_select: the model being applied is taken for the echo of its switch.
ModelEvent(e) ==
    /\ BagIn(e, events) /\ e.kind = "model"
    /\ events' = events (-) SetToBag({e})
    /\ IF apply.step \in {"switching", "committed"} /\ e.model = apply.target[1]
       THEN excused' = TRUE /\ UNCHANGED <<leaseOwner, operatorSelection, revision, call>>
       ELSE Overrides(<<e.model, effort>>) /\ UNCHANGED excused
    /\ UNCHANGED <<model, effort, entries, deferred, expected, tail, apply, calls, picks, caused, wanted>>

\* thinking_level_select: an expected echo, that of the switch in flight, or
\* the operator.
EffortEventArrives(e) ==
    /\ BagIn(e, events) /\ e.kind = "effort"
    /\ events' = events (-) SetToBag({e})
    /\ LET t == <<e.level, e.previous>>
           own == /\ apply.step \in {"switching", "committed"} /\ ~apply.echoed
                  /\ SwitchSeen /\ SwitchTransition = t
       IN  IF BagIn(t, expected)
           THEN /\ expected' = expected (-) SetToBag({t})
                /\ UNCHANGED <<leaseOwner, operatorSelection, revision, call, apply>>
           ELSE IF own
           THEN /\ apply' = [apply EXCEPT !.echoed = TRUE]
                /\ UNCHANGED <<leaseOwner, operatorSelection, revision, call, expected>>
           ELSE Overrides(<<model, e.level>>) /\ UNCHANGED <<expected, apply>>
    /\ UNCHANGED <<model, effort, entries, deferred, tail, calls, picks, history>>

\* /route off, /route active
ModeChanges ==
    /\ Idle /\ NewEpoch(FALSE)
    /\ mode' = IF mode = "off" THEN "active" ELSE "off"
    /\ override' = (override /\ mode' = "off")
    /\ IF mode' = "off" THEN SecondaryAborted ELSE UNCHANGED call
    /\ UNCHANGED <<lease, leases, pi, deferred, operator, tail, apply, calls, picks, history>>

\* Input: intent of the operator, with a turn of its own if Pi is idle.
Intent ==
    /\ Idle /\ mode # "off" /\ NewEpoch(call["turn"].step = "idle")
    /\ UNCHANGED <<mode, override, lease, leases>>
    /\ UNCHANGED <<pi, deferred, operator, selections, calls, picks, history>>

\* The prompt is a new task: its route is installed, wherever the selection of
\* a correction to the previous lease is.
NewTask(r) ==
    /\ Idle /\ mode = "active" /\ prompted
    /\ leases < MaxLeases /\ leases' = leases + 1
    /\ LET chain == IF override THEN <<Current>> \o r ELSE r IN
       lease' = [NoLease EXCEPT !.id = leases', !.sel = Head(chain), !.rest = Tail(chain), !.previous = Current,
                                !.routed = epoch]
    /\ override' = FALSE /\ prompted' = FALSE
    /\ SecondaryAborted
    /\ UNCHANGED <<mode, epoch, pi, deferred, operator, tail, apply, calls, picks, history>>

Next ==
    \/ TurnStarts \/ SwitchCommits \/ SwitchFails \/ SwitchResolves \/ TurnContinues
    \/ \E c \in Callers : FallbackRecorded(c) \/ FallbackReturns(c)
    \/ \E c \in Callers, skip \in Skips : FallbackStarts(c, skip)
    \/ PrepareStarts \/ PrepareAgain \/ PrepareReturns \/ PrepareRecorded
    \/ \E r \in Routes : CorrectionStarts(r) \/ NewTask(r)
    \/ CorrectionReturns
    \/ \E m \in Models : OperatorPicksModel(m)
    \/ \E e \in Efforts : OperatorPicksEffort(e)
    \/ \E e \in BagToSet(events) : ModelEvent(e) \/ EffortEventArrives(e)
    \/ ModeChanges \/ Intent

Spec == Init /\ [][Next]_vars

Settled == tail = <<>> /\ events = EmptyBag /\ \A c \in Callers : call[c].step = "idle"

\* The operator's last choice stands, or the lease that is in force does:
\* a preparation or a correction that lost its reason while Pi authenticated
\* undoes its switch in favour of what is newer (index.ts:1717-1747).  Without
\* handlers that delay events; a fallback, which nothing guards, is excused, as
\* is a pick of the very model being switched to.
OperatorChoiceStands ==
    Settled /\ ~deferred /\ ~excused => Current = wanted \/ Leased

\* The router takes none of its own changes for a choice of the operator, and
\* waits for no echo that does not come, which would swallow a later choice
\* (index.ts:1759-1865, 3130-3160).
EchoIsNotAChoice == revision <= caused /\ (Settled => expected = EmptyBag)

\* A lease that an applied choice installs names what Pi has selected, unless
\* the operator's choice is on its way to the router or a later selection waits.
InstalledIsApplied ==
    [][leases' # leases /\ prompted' = prompted /\ ~lease'.failed
         => Current = lease'.sel \/ events # EmptyBag \/ tail # <<>>]_vars
=============================================================================
