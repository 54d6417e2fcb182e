# A verification of pi-buildout's subagents and router

These modules model the parts of this repository that decide things across
awaits, processes and messages: the `subagents` extension, which runs other Pi
processes as children of a session, and the `router` extension, which
classifies a prompt, routes it to a model, leases that choice for the task,
keeps it in force against operator and provider, has the work reviewed and
remembers its mode. TLC checks small instances; TLAPS proves safety results for
every value of the constants. `PROJECT.json` lists the runs, what each
definition stands for in the source (`map`), the hazards and the theorems.

Paths below are relative to `src/`.

## Inventory

| component | source | state it keeps | module |
|---|---|---|---|
| child handle | `extensions/subagents/rpc.ts` | state, final answer, abort recovery, queue claims, outstanding requests | `ManagedSubagent` |
| process-tree termination | `extensions/subagents/rpc.ts` | sampled pids, phase of the termination | `Termination` |
| extension signaling | `extensions/subagents/signaling.ts` | controllers, records, watchers, `closed` | `Signaling`, `SignalingContract` |
| registry of direct children | `extensions/subagents/index.ts` | `children`, `pendingCreates`, `shuttingDown` | `LaunchRegistry` |
| router lease owner | `extensions/router/core/lease-machine.ts`, `lease.ts` | mode, lease, epoch, pending boundary, secondary worker | `LeaseMachine` |
| secondary reconciliation | `extensions/router/index.ts` 1027-1410 | one queued result and its drain, the running classifications, the phase of Pi's run | `SecondaryReconciliation` |
| selection and fallback | `extensions/router/index.ts` 1704-2000, `core/fallback.ts` | `selectionTail`, expected echoes, operator revision | `Selection` |
| independent review | `extensions/router/review-runner.ts`, `index.ts` 544-680, 2002-2410, 3470-3533, `core/safety.ts` | pending review, attempt history, advisory phase | `Review` |
| router persistence | `extensions/router/pi-state.ts`, `core/start-mode.ts`, `index.ts` 2604-2706 | the last-known-mode log on disk, the state entry of a session | `Persistence` |
| routing decision | `extensions/router/core/{routing,policy,evidence,profiles,...}.ts` | none (pure) | `RouteEvidence`, `RoutePolicy`, `Routing` |
| classifier | `extensions/router/{classifier,pi-classifier}.ts`, `core/{features,archetype,lease}.ts` | one invocation's request | `Classifier` |
| user turn | `extensions/router/index.ts` 1424-1570, 2718-2951, `telemetry.ts` 188-266 | pending input, the deadline of a stage | `Turn` |
| planning artifact | `extensions/router/core/planning.ts` | none (validation) | not modelled |
| telemetry and evaluation | `extensions/router/telemetry.ts`, `eval/` | ledgers | not modelled |
| otel | `extensions/otel` | vendored upstream | not modelled |
| effort, clear, markdown-backlinks | `extensions/*` | none | not modelled |
| skill overlay, build, install, release | `pi-overlay`, `scripts`, `patches`, `packages` | files | not modelled |

How they interact. A tool call or an event-bus request of another extension
enters `index.ts` (`launch`) or `signaling.ts` (`spawn`, which calls `launch`).
`launch` constructs a `ManagedSubagent`, which owns a child process: requests
go down its stdin, responses and session events come up its stdout, in order.
Every end of a child (stop, failure, `close`) goes through `terminateProcess`.
At session shutdown `index.ts` closes the signaling, then stops every
registered child and waits for their process trees. In the router, handlers of
Pi events read the lease from its owner, await classifiers, ledgers and model
switches, and then propose a changed lease, which the owner accepts only from
the holder of the current one. A prompt passes a gate, a classifier and the
routing decision; the choice is applied through one serialized tail of
selections, which preparations, corrections and fallbacks share; when the run
settles, a review in a disposable session may advise on its plan or its work.
The mode is written to a log that every session of the user shares.

What is hard in each part:

- *Child handle.* One stdout carries responses and events; a response resumes
  an awaiting call only after the rest of its chunk was handled. An abort can
  succeed, be rejected, or time out and be answered late, while messages are
  queued and answers complete. Correct means: `wait` never shows the answer of
  interrupted or earlier work, never hides a completed one, and no call hangs.
- *Termination.* Descendants leave the group, are reparented, ignore SIGTERM,
  fork late; pids are reused. Correct means: the termination ends, what it
  reports dead is dead, and only processes of the child are killed.
- *Signaling.* Aborts, stops and the shutdown arrive between any two awaits of
  a launch or a watcher. Correct means: one terminal event per task, after its
  child is gone, saying what the strongest accepted cancellation decides.
- *Registry.* Parallel launches, failures and a shutdown meet at the awaits of
  `launch`. Correct means: the limit holds, no slot leaks, no child is lost.
- *Lease.* Every handler is stale after an await. Correct means: no stale
  proposal undoes a decision of the operator or the work of another handler.
- *Second opinion.* A background classification, its ledger writes, the drain of
  its result (a route, then a model switch that cannot be cancelled), the
  aborts and the boundaries of runs overlap. Correct means: one outcome per
  classification, nothing outdated installed, nothing changed under a run,
  nothing left waiting at idle.
- *Selection.* Pi authenticates inside `setModel`, which cannot be cancelled,
  and reports effort changes as events that arrive early, late or behind other
  handlers. Correct means: the newest choice stands, the router takes none of
  its own changes for the operator's, and installs only what is applied.
- *Routing.* Gates and orderings are layered over tables. Correct means: caution
  only narrows a route, no layer undoes what another guarantees, and what is
  chosen is what later checks accept.
- *Turn.* Transports hang and fail over, two stages share one invocation.
  Correct means: the turn ends, and a second opinion comes from a second vendor.
- *Review.* A review outlives prompts, fallbacks, resubmissions and sessions, and
  a reviewer may ignore its abort. Correct means: advice is on current work, a
  plan is reviewed once, finished work is reviewed, and a review ends.
- *Persistence.* Several processes append to and rewrite one file without a lock,
  and a restore awaits while input arrives. Correct means: no mode is lost but in
  the windows that have no lock, and no lease moves to another session.

## Modules

Every action is the code between two awaits (or one macrotask, or one step of
another process), with the code's order of tests and early returns.

**ManagedSubagent** models the class of that name
together with an RPC child. A message is a number; its queued text is that
number or, if the child's input handlers rewrote it, another. `pending` holds
the awaited requests by slot (`start`, `control`), `settled` the continuations
that run after the current chunk. `BeginInterrupt` / `ResumeInterrupt` are the
two halves of `interrupt()`, and so on; `Handle...` are the cases of
`handleLine` and `handleEvent`; `RequestFails` is the timer or a write error.
The `Child...` actions are the Pi process in RPC mode, which is not in `src/`
and is modelled by what `rpc.ts` and its tests rely on: it serves one run at a
time and writes its lines in the order of what happened. `Exposed` is
`waitSnapshot` of `index.ts`; a `BeginRefresh` that finds the child settled
(`atRest`) is that of a settled `wait`, and `WaitReturns` is the step in which
its caller gets the answer. A request may fail by its timer or a write error and
its line still be read by the child, so a request of any kind can be accepted
late. History variables exist for the properties alone: `interrupted`,
`lastUser` and `lastAnswer` say what should be shown; `misclaimed` says that a
claim was given the queue entry of interrupted work, `overtaken` that the run
under way began behind a report of rest that a refresh had still to write. These
two are the windows in which the code shows a wrong answer (divergences 3 and 8
below, the second with a run of its own, `handle_overtaken`); the properties say that
it does nowhere else. Left out: usage counters and the transcript tail, which decide
nothing.

**Termination** models `watchProcessTree`, `terminateProcess` and
`signalProcessTree` on Unix with the operating system around them. A pid is
the process that first had it; `reused` are those naming a stranger. The child
leads a group of its own, or does not (nested children): `Init` allows both.
`signalProcessTree` is synchronous in the parent but not in the system: the signal
to the group (`TerminateProcess`, `ForceKill`), the listing by `ps` (`ListTree`) and
each `process.kill` (`SignalPid`) are steps of their own, between which processes
fork, exit and leave their pids to strangers. `gone` is what was dead at the last
listing.
The Windows branch is left out.

**SignalingContract** says what the signaling promises of each task, with no
mention of watchers, records or launches. **Signaling** is `signaling.ts`:
`spawning` is how far the request is in `spawn`/`launch`, `watcher` how far the
watcher of an accepted task is. The child is seen through its handle (a state
and a cleanup that `stop()` starts). A run that a stopped child announces late
(see the first finding) is not part of that view. `Signaling` implements
`SignalingContract`: a task's child has begun when it was constructed, is alive
until its cleanup is done, and its cancellation is the abort or else the stop
that was accepted.

**LaunchRegistry** is `launch`, pruning, `session_start`, `session_shutdown`
and the `stop` action of `index.ts`. `launch[c]` is where the create is between
its awaits (`preparing`, `starting`, `unwinding`, and its outcomes);
`Reserved` are the places at which it holds a slot of `pendingCreates`.

**LeaseMachine** is the state machine of `lease-machine.ts` with handlers that
`Read` and later propose (`Continue` for the continuations of a task, `Route`
for a new one). A lease object is a record whose `id` is its identity, what
`===` compares; `log` is what continuations add to it. `standing` are the
operator's decisions (an override, a boundary) that nothing newer has settled;
the properties say that they stay in force. The phase is planning or execution
(`completed` counts as the latter, as no guard of the machine tells them apart
in an advance).

**SecondaryReconciliation** is the part of `index.ts` around
`queuedSecondaryReconciliation`: `Settle`, `Drain`/`Reconcile`, `RouteEnds`,
`ApplyEnds` and `AbortSecondaryWork` are the functions of those names or the
parts between their awaits; `UserStart` to `AgentStart` are the input and
`before_agent_start` handlers, `TurnEnd` to `HandlerEnds` those of the run. The
lease owner is reduced to what `LeaseMachine` shows of it: the identity of the
installed lease, the epoch and the mode. `stage[t]` is where a task is,
`drains[t]` the drain of its result, `abandoned` the latch of the aborts.
`fates`, `accepted` and `outdated` are history. Pi is external and taken to do
what the handlers rely on: it awaits the handlers of a run in turn and starts no
other run of the session meanwhile. (Without that a start could overlap the
last drain of `agent_settled`, and `NothingStranded` fails.) Whether a
correction is worth its cost is a free choice of `RouteEnds`. The input handler
and the hook it leads to are one step, as the epoch the input advances is the
one the hook begins with.

**Selection** is `applyChoice` with its queue and recovery loop, `applyEffort`,
`modelSwitchEffortTransition`, `transitionFallback`, `prepareActiveLeaseForTurn`
and the handlers of Pi's model and effort events. `apply` is the selection being
served, `tail` the ones behind it, `events` what Pi has emitted and not yet
delivered. `deferred` says whether other handlers delay events. `OperatorPicksModel`
and `OperatorPicksEffort` act at any time, inside an authentication included. Three
callers ask for selections: the preparation of a turn, a correction and `/route
fail`. `Intent` is an input, with a new epoch, and `prompted` says that its prompt
is being classified; `NewTask` then installs the route it got, also while the
selection of a correction to the lease before is still in `setModel`, and the
preparation of the new lease queues behind it.

**RouteEvidence**, **RoutePolicy** and **Routing** are the pure decision. The
first holds the measured rows, the priors derived from them and the expected cost
to done, in integers: rates in ten-thousandths, costs in thousandths of a dollar.
(The code computes in doubles; compared over every pair of rows and every scoring
context the integer cost is off by at most 14 thousandths of a dollar, and the
order of two rows flips for 15 pairs of near ties.) The second holds the policies
of the twelve archetypes, the reviewer ladders and the prompt profiles; only the
models these policies name have rows here. The third is `evaluateCandidate`,
`orderGroups`, `selectOrdinaryRoute`, `selectReviewRoute`, `route` and
`leasedChoiceEligible`. A registry is a set of endpoints, and a tie the code
breaks by comparing names is broken by the number `place`.

**Classifier** is which models are asked, in which order, and what two answers
are reconciled to: tiers, `reconcileFeatures`, escalation, `deriveArchetype`, the
boundary gate and the continuity decision. **Turn** composes it with `Routing`: a
prompt (`Input`), the hook (`Begin`), an invocation whose transport may answer,
answer invalidly, fail, be cancelled or hang, under a deadline that each stage
restarts, then `KeepLease`, `Superseded` or `RouteTask`, and `ReviewWork`.

**Review** is one review from `startIndependentReview` to the delivery of its
advice, with the runner of `review-runner.ts` inside (`runner` is where its
session and its abort are), for two threads at once, as a cancelled one lives on
until its awaits return. What a thread captured across an await is kept as flags:
is its epoch still the epoch, is its lease still the lease. The rest of the module
is what can happen meanwhile.

**Persistence** is the log of `pi-state.ts` with processes that append to it, read
it and rewrite it through a temporary file, and the handlers of `index.ts` that
start, restore, persist and leave a session. A process may die between any two
steps; the line it was writing is then torn. `newest` and `overtaken` are history.

## Runs

| run | what it checks |
|---|---|
| `handle` | 2 messages, 2 interrupts, 1 refresh, 2 lines written ahead: `HiddenUnlessMisclaimed`, `CompletedAnswerVisible`, `CurrentUnlessOvertaken`, `WorkingChildNotIdle`, `ControlCompletes` |
| `handle_overtaken` | 3 messages, no interrupt, 1 refresh, 2 lines ahead; violation: `ReturnedAnswerIsCurrent` |
| `termination` | root and three descendants (ordinary, ignoring SIGTERM, unkillable): `DoneMeansDead`, `StalePidsSpared`, `TerminationResolves`, `OwnedGroupDies` |
| `signaling` | 2 tasks, 1 retained record: `RunningTaskOnRecord`, `ClosingStopsEveryChild`, `ImplementsContract`, `CancelledTaskReported`, `ClosingResolves` |
| `launch` | 3 launches, limit 2, 1 retained: `LimitHolds`, `ShutdownLeavesNoChild`, `ShutdownCompletes` |
| `lease` | 2 handlers, 3 leases, 2 epochs, 2 workers: `OverrideStands`, `BoundaryStands`, `AcceptedKept`, `OnlyOwnedWorkRuns` |
| `secondary` | 2 second opinions, 5 leases, 4 epochs: `OneFate`, `NothingSuperseded`, `NothingStranded`, `TupleKeptMidRun` |
| `selection` | 2 models of 2 providers, 2 efforts, 2 routes, 2 calls, 1 pick, 3 epochs, 3 leases, events delayed or not: `OperatorChoiceStands`, `EchoIsNotAChoice`, `InstalledIsApplied` |
| `turn` | 4 registries, 3 leases, 72 readings of a new task and 7 of a continued one, 10 situations, with and without mature telemetry: `ConsequenceOnlyNarrows`, `FreshRouteIsLeaseEligible`, `ModelExhaustedFirst`, `LeaderIsNearBest`, `ReviewersAreIndependent`, `SecondOpinionIsIndependent`, `TurnEnds` |
| `review` | 2 threads, 2 plans, 2 versions of the work, 1 fallback or correction, history of 3: `AdviceOnCurrentWork`, `PlanReviewedOnce`, `ReviewEnds` |
| `persistence` | 2 processes, 2 sessions of one repository, log rewritten beyond 2 records, 3 records, 4 commands: `RecordsSurvive`, `LeaseIsTheSessions` |
| `review_settled` | violation: `SettledWorkReviewed` |

Definitions named `mutant:` are plausible bugs of the definition they precede;
each property is violated when one of them takes its place.

### Why the bounds are enough

- *Handle.* Two messages are the kickoff, which an interrupt may cover, and one
  sent after it as a prompt or queued; two interrupts are an attempt and its retry,
  the least at which a rejected attempt finds an older interrupt standing; two lines
  are a report and the start of a run behind it, or an answer and the settlement, in
  one chunk. A wrong answer takes a third message: `handle_overtaken` has it, and the
  theorems about `HiddenUnlessMisclaimed`, `CurrentUnlessOvertaken` and
  `WorkingChildNotIdle` hold for any number. `CompletedAnswerVisible` has no theorem;
  TLC finds no violation of it, nor of the other three invariants, with 3 messages, 2
  interrupts, no refresh and 3 lines, nor with 3 messages, 1 interrupt, 1 refresh and
  2 lines (11 million states each; not among the runs, as these check no liveness).
- *Termination.* One descendant of each kind; further ones behave as one of
  them, and the safety theorems hold for any set. Each pid can go to a stranger.
- *Signaling.* With one retained record two tasks are enough to make pruning
  choose; the safety theorems hold for any set of tasks.
- *Registry.* Three launches are one more than the limit; a fourth adds nothing
  the theorems do not cover.
- *Second opinion.* Two tasks are the one in the queue and the next one's; five
  leases allow a route and an advance for each and a correction; four epochs a
  prompt for each task and two interruptions. The theorems hold for any bounds.
- *Selection.* Two calls are a correction that waits in `setModel` and the
  preparation of the next task behind it, or one of them and a fallback; one pick
  falls into either. Two advances of the epoch are the next prompt and one more input
  or mode change; the third lease is the one installed after the new task's. With two
  providers a fallback that may not stay with the failed one has a choice or none.
- *Turn.* The registries differ in what the gates look at: windows of a million or
  of 272000 tokens, resold endpoints, a model that fails, one vendor only. Every
  archetype is read at three consequences, hard and not. The two tries of a stage
  and its candidates are the code's own numbers.
- *Review.* Two plans and two versions are one that was reviewed and one newer;
  the code's history of 64 attempts is 3, the least at which the pinned plan, a
  dropped attempt and the newest can differ; one reviewer on the ladder suffices
  as every stage of the ladder runs the same code.
- *Persistence.* Two processes are a rewriter and an appender; a rewrite beyond 2
  records (200 in the code) happens within the 3 the log may get.
- *Lease.* Two handlers that read the same lease, with a third lease to be
  replaced by; the theorems hold for any number and any bounds.

`CHECK_DEADLOCK FALSE` is set because all of these systems may really stop: a
child ended, a session closed, a turn done, bounded inputs used up. The type
invariants `TypeOK` are in no run, as the theorems below prove them; the modules
`Selection`, `Turn` and the pure ones under it have none.

### Fairness

Only the program's own event loop and timers are fair, never a caller, an
operator or a child. In `ManagedSubagent`: continuations run, buffered lines
are parsed, every request has a timer, and a dead process has its `close`
reported. In `Termination`: a `signalProcessTree` begun runs to its end (its `ps` has
a timeout), the poll interval, the kill timer and the cleanup
timer fire, and the kernel delivers signals. In `Signaling`: the watchers go
on, a refresh ends (its requests have timers) and a termination resolves (its
deadline, checked of `Termination` as `TerminationResolves`). In
`LaunchRegistry`: a root being terminated exits unless unkillable, its cleanup
resolves, and launch and shutdown go on when what they await is there. A
launch's awaits on credentials and models are not assumed to end. In `Turn`: the
router's timer fires and its own code goes on from a classification; no transport
is assumed to answer. In `Review`: a thread goes on when what it awaits is there,
the timeout and the abort grace fire, and Pi's model selection returns inside a
custom preparation; a reviewer need neither answer nor honour its abort.

## What is proved

Each theorem holds for every value of the constants. The modules are named without
their ending `Proofs`; every one also has `TypeCorrect`, which states `TypeOK`.

| module | theorem | states |
|---|---|---|
| `ManagedSubagent` | `AnswerIsCurrent` | `CurrentUnlessOvertaken` |
| | `WorkIsNotIdle` | `WorkingChildNotIdle` |
| | `AnswerStaysHidden` | `HiddenUnlessMisclaimed` |
| `Termination` | `CleanupBeforeResolution` | `DoneMeansDead` |
| | `DescendantPidsSafe` | `StalePidsSpared` |
| `Signaling` | `RefusalIsClean` | `RefusedLeavesNoChild` |
| | `RunningTaskIsFound` | `RunningTaskOnRecord` |
| | `ClosingIsComplete` | `ClosingStopsEveryChild` |
| | `RefinesContract` | `ImplementsContract` |
| | `ReportedTasksAreOver` | the contract's `NoOverlap` and `CancellationDecides` |
| `LaunchRegistry` | `CapHolds` | `LimitHolds` |
| | `ShutdownIsComplete` | `LiveChildRegistered`, `ShutdownLeavesNoChild` |
| `LeaseMachine` | `OverrideDecisionStands` | `OverrideStands` |
| | `BoundaryDecisionStands` | `BoundaryStands` |
| | `AdvancesAreKept` | `AcceptedKept` |
| | `WorkIsOwned` | `OnlyOwnedWorkRuns` |
| `SecondaryReconciliation` | `OutcomeDecidedOnce` | `OneFate` |
| | `QueueNeverContested` | `NothingSuperseded` |
| | `CorrectionsAreCurrent` | `CorrectionIsCurrent` |
| | `AppliesWhileIdle` | `NothingStranded` |
| | `RunningTupleStands` | `TupleKeptMidRun` |
| `Review` | `AdviceIsOnCurrentWork` | `AdviceOnCurrentWork` |
| | `PlanIsReviewedOnce` | `PlanReviewedOnce` |
| `Persistence` | `LogKeepsRecords` | `RecordsSurvive` |
| | `LeasesStayHome` | `LeaseIsTheSessions` |

All rest on the named assumptions of the constants alone: finite sets of tasks
and launches, descendants other than the root, natural bounds, a history of at
least three attempts (`ReviewAssumption`; the code has 64), and that the files
found at the start were left by this program (`StoredAssumption`: whole or torn
lines of the log, and in each session an entry with that session's lease or none).

- *Child handle.* The answer a caller sees depends on lines the parent has not
  read yet, so the invariants speak of a reader: `Run` says that a reader which
  starts from what the parent knows now can take all of stdout, line by line, by
  steps of a relation. `ControlInv` says that the request of the serialized
  operation is in one place from its line on stdin to its continuation, which
  makes its reply unique. `SpeechInv` is the reader of messages and answers: an
  answer on stdout is to the message before it. `MoodInv` is the reader of rest:
  a message starts only while the child is not taken for idle, and it settles
  only when no older answer is kept. A refresh writes a state it was told earlier over
  what events said since, so `MoodInv` also says what its report, on its way or held
  by its continuation, will make the parent believe: a report of rest is followed by
  the start of no run, or that start sets `overtaken`, which lasts until the child
  settles. For `HiddenUnlessMisclaimed`, `FlowInv` says that messages covered by an
  interrupt start before later ones, in stdout, queue and stdin, so once a later one
  has started no covered one follows; `GuardInv` says that, unless `misclaimed`, no
  claim holds the text of a covered message, so that an answer counts again only once
  the message being answered is covered by no standing interrupt, also for the state
  the attempt keeps to restore after a rejection.
- *Termination.* `DoneMeansDead` is inductive with the type invariant and the
  fact that the root is tracked once a termination began: what is dead stays
  dead, because a dead process does not fork. `StalePidsSpared`: what is still to be
  signalled was listed, hence alive when the tree was listed, or is the root; so a
  stranger that is hit got its pid since.
- *Signaling.* `ChildInv` ties the place of a request to its child and cleanup,
  `WatchInv` ties watcher, record and terminal event, `ClosedInv` says that a
  closed session has aborted what it controls. The refinement maps each step to
  a contract step or a stutter: only constructing a child, finishing its
  cleanup, accepting a cancellation, publishing and closing are visible.
- *Registry.* `SlotsCounted` says that `pendingCreates` is the number of
  launches at a place that holds a slot; `LimitHolds` follows because `Room`
  counts every live registered child and every holder, and `LiveChildRegistered`
  says that no live child is unregistered. `ChildInv` carries the shutdown.
- *Lease.* `IdentityInv`: a handler whose lease has the identity of the
  installed one read exactly that lease. `FreshInv`: a handler whose epoch is
  current knew every decision that stands. `ManualInv`: a standing override is
  part of the installed lease.
- *Second opinion.* `TaskInv` says that at most one task is live (running,
  settling or queued, and not abandoned); a new-task boundary aborts the live
  one before the next can start (`RouteInv`), so a settling task that counts
  finds the queue empty, and whoever decides a task ends its life. `FreshInv`
  says that leases are numbered as they are made and that anything newer than a
  task shows in the lease or the epoch for good; `lateRejection` looks at both.
  `BInv` ties the drains to the phase of the run: one that must not change the
  selection is awaited by the handler that began it (`ForbiddenInv`), one that
  may still install its correction runs outside the run or under the hook that
  awaits it (`TupleInv`), and what is queued after a run settled is stale or has
  its drain (`StrandInv`).
- *Review.* `PendingInv`: the thread of the pending review is at work and not
  cancelled. `PlanInv`: while the lease's attempt and choice are those it
  captured, the plan is the one it is about. `HistoryInv`: the history of a lease
  still planning holds the attempt of its present plan if that was ever sent,
  which is what pinning the plan's key when the history is cut is for.
- *Persistence.* `LogInv`: the rewrite about to replace the file says of every
  repository what the log says, but for those whose records came in between. It
  rests on lemmas about the log (what an append, a torn line and a rewrite do to
  the last record of a repository). `LeaseInv`: what a handler keeps across the
  awaits of `session_start`, and every entry, is a lease of the session's lineage.

Model-checked only: every liveness property (fairness is beyond the prover);
`CompletedAnswerVisible` of `ManagedSubagent`, the other half of hiding an answer; the
properties of `Selection`, whose events are bags; and those of `Turn` with `Routing` and
`Classifier` under it, which are about sequences filtered, flattened and sorted by recursion,
and scored from tables of measured rows.

## Where code and documentation disagree

Under `extensions/`. The runs `review_settled` and `handle_overtaken` show the first
and the eighth; the others were seen while modelling, with the counterexample
described, and have no run of their own. TLC finds those of the third and the fourth
when asked for `InterruptedAnswerHidden` (3 messages, 2 interrupts, 3 lines) and for
`strangersKilled \subseteq {Root}`.

1. `router/index.ts:2300`: when a plan review ends without advice after
   `agent_settled` decided not to start the completion review and before it marks
   the run as settled (3526-3527), neither of the two starts it, though the comment
   at 2286-2289 says that the settled work is reviewed then.
2. `subagents/rpc.ts:770`: `agent_start` sets `running` whatever the state was, so a
   failed or stopped handle comes back, though `README.md:30` says failures remain
   visible: a child fails, and a line it had written before starts a run.
3. `subagents/rpc.ts:568`: a new queue entry goes to the first open claim, not to the
   request it belongs to: a `follow_up` sent before an interrupt times out and is
   accepted late, its entry is taken by the claim of a later request, and the answer
   of interrupted work becomes the final one, though `README.md:29-30` says that it does
   not count. `HiddenUnlessMisclaimed` says that this is the only way.
4. `subagents/rpc.ts:962`: the pids of the fresh listing are signalled after the `ps`
   that listed them ended, and the group SIGKILL just before it has doomed many of
   them: a listed descendant exits, a stranger gets its pid and is killed, though the
   comment at 959-961 says that a stale pid can never receive SIGKILL. The root's pid
   is always part of that listing, so after the root has gone the same holds of it;
   the properties except the root. What the listing does ensure is `StalePidsSpared`:
   a pid whose process was dead by then is not signalled.
5. `subagents/index.ts:578`: a child that is starting counts as active and as pending,
   so launches are refused below the limit that `README.md:90` gives.
6. `router/index.ts:1960`: the fallback's selection is not guarded by the mode, so
   one that waits in `setModel` while the operator turns the router off still
   applies its effort, though the router's `README.md:44` says its result is discarded.
7. `router/classifier.ts:294`: a primary stage whose transport fails is not escalated,
   so no secondary is asked, though the router's `README.md:403` and
   `specs/routing-layer/SPEC.md:143` describe the provider-diverse secondary as its failover.
8. `subagents/rpc.ts:414`: `refresh` writes the state it was told after an await. When a
   prompt that timed out starts its run behind that report, in the same chunk, the child
   is taken for idle while it works; if a message was queued while the prompt was being
   checked, the run goes on to it and the settled wait, which refreshes before it looks
   (`index.ts:746-749`), returns the answer to the prompt, though `README.md:29-30` says
   that an earlier operation's answer does not count. `CurrentUnlessOvertaken` and
   `WorkingChildNotIdle` say that this is the only way.

## Not modelled

- `core/planning.ts`: a pure validator called once per submission; `Review` takes
  its verdict as given.
- `telemetry.ts` (but for the deadline of an invocation), `eval/`, `core/synopsis.ts`,
  `core/compiler.ts`, `core/scope-diagnostics.ts`: files appended to, texts put
  together, offline scoring. No later step of the router reads them.
- The tables of evidence for models no policy names, configured provider weights
  and the parsing of settings: data without control.
- `otel` follows an upstream project and wraps a third-party SDK. It does have control
  worth a module: the SDK handle that start, shutdown and the dashboard replace
  across awaits, and the span tracker. See the plan.
- `effort`, `clear` and `markdown-backlinks` act once per command and keep no state between calls.
- The skill overlay, installers, build and release scripts, tests and mocks.

## Plan

1. `EchoIsNotAChoice` and `OperatorChoiceStands` of `Selection` as theorems.
2. `Otel`: `session_start`, `session_shutdown` and `pi-otel:dashboard-ready` around
   the awaits of `otel/sdk.ts`, with the tracker of `spans.ts`: every span started is
   ended once, and a shutdown discards no SDK but the one it has shut down.
3. `Planning`: acyclicity of a plan against its reference definition.
