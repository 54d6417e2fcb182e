-------------------------------- MODULE Review --------------------------------
(***************************************************************************)
(* The router's independent reviews (extensions/router/index.ts, its       *)
(* review-runner.ts and core/safety.ts).  When a run settles, the router   *)
(* has the submitted plan, or the finished work, reviewed by a model of    *)
(* another vendor in a disposable session, and delivers the advice if the  *)
(* lease, the input and the evidence it was asked about still stand.       *)
(*                                                                         *)
(* Each action is the code between two awaits.  An epoch is only ever      *)
(* compared with the present one and a lease object with the present one,  *)
(* so what waits across an await keeps two flags: is the epoch it read     *)
(* still the epoch, is the lease it read still the lease.  A new task      *)
(* always follows an input, which ends every review: the comparisons of    *)
(* task identities add nothing to those of epochs and are left out, as are *)
(* manual overrides, which stop a review the way a mode change does.  The  *)
(* attempt and the selected route are one number, choice: a fallback       *)
(* changes both, a correction the route, and neither ever comes back.      *)
(***************************************************************************)
EXTENDS Naturals, Sequences, FiniteSets

CONSTANTS
    Slots,       \* review threads alive at once: a set of numbers
    Plans,       \* fingerprints of submitted plans; 0 is none
    MaxVersion,  \* changes of a task's evidence
    MaxMoves,    \* fallbacks and corrections of a task
    MaxReviewers,\* length of the ladder of reviewers
    MaxHistory   \* attempted reviews a lease remembers (64 in the code)

ASSUME ReviewAssumption ==
    /\ Slots \subseteq Nat \ {0} /\ Plans \subseteq Nat \ {0}
    /\ {MaxVersion, MaxMoves, MaxHistory} \subseteq Nat /\ MaxReviewers \in Nat \ {0}
    /\ MaxHistory >= 3

VARIABLES
    mode,            \* the router's mode
    lease,           \* the task lease, as far as reviews read it
    pending,         \* pendingReview: its slot, 0 for none
    reviews,         \* slot -> a review's thread, its runner and its captured values
    at,              \* where Pi and the handlers it awaits are
    held,            \* what those handlers read before their await
    reviewed         \* history: attempts whose present plan was sent to review

vars == <<mode, lease, pending, reviews, at, held, reviewed>>

Positions == {"idle", "prompted", "custom", "fitting", "refitting", "running", "ending", "falling",
              "ended", "noting", "collecting", "closing"}
Steps == {"action_plan", "completion_evidence"}
Policies == {"ordinary", "completion_review", "plan_review_then_completion_review"}

\* initialLifecycle()
InitialPhase(policy) ==
    CASE policy = "completion_review" -> "building"
      [] policy = "plan_review_then_completion_review" -> "planning"
      [] OTHER -> "ordinary"

\* createTaskLease() of a routed task
NewLease(policy) ==
    [phase |-> InitialPhase(policy), policy |-> policy, plan |-> 0,
     choice |-> 0, version |-> 0, mutated |-> FALSE,
     keys |-> <<>>, noted |-> {}, over |-> FALSE]
NoLease == [NewLease("ordinary") EXCEPT !.phase = "none"]
\* executionFailed: what else the lease holds is not looked at again.
Over == [NewLease("ordinary") EXCEPT !.over = TRUE]

Free == [stage |-> "free", kind |-> "plan", scope |-> 0, choice |-> 0,
         cancelled |-> FALSE, current |-> FALSE, left |-> 0,
         runner |-> "none", answer |-> "none"]
Abandoned == [Free EXCEPT !.stage = "abandoned", !.cancelled = TRUE]

Nothing == [current |-> FALSE, owns |-> FALSE]

Init ==
    /\ mode \in {"active", "shadow"} /\ lease = NoLease /\ pending = 0
    /\ reviews = [s \in Slots |-> Free]
    /\ at = "idle" /\ held = Nothing
    /\ reviewed = {}

-----------------------------------------------------------------------------
(* The review of a lease.                                                  *)

\* resumeCompletedLifecycle()
Resumed(l) ==
    IF l.phase # "completed" THEN l
    ELSE IF l.policy = "completion_review"
    THEN [l EXCEPT !.phase = "building", !.plan = 0]
    ELSE [l EXCEPT !.phase = "executing"]

\* correctedLifecycle(), in the lease a reconciliation installs
Corrected(l, policy) ==
    IF l.policy = policy /\ l.phase # "completed" THEN [l EXCEPT !.choice = @ + 1]
    ELSE [l EXCEPT !.choice = @ + 1, !.policy = policy, !.phase = InitialPhase(policy), !.plan = 0]

\* reviewAttemptKey()
Key(l, kind, scope) == <<kind, scope, l.choice>>
PlanKey(l) == Key(l, "plan", l.plan)

\* reviewAlreadyAttempted()
Attempted(l, kind, scope) == \E i \in 1..Len(l.keys) : l.keys[i] = Key(l, kind, scope)

Last(keys, n) == SubSeq(keys, IF Len(keys) > n THEN Len(keys) - n + 1 ELSE 1, Len(keys))

\* mutant: the plan's own attempt is forgotten with the oldest
HistoryUnpinned(l, key) == Append(Last(l.keys, MaxHistory - 2), key)

\* The history without the attempt k, which it holds once: an attempt is recorded
\* only if it is not on record.
Others(keys, k) ==
    LET i == CHOOSE i \in 1..Len(keys) : keys[i] = k
    IN SubSeq(keys, 1, i - 1) \o SubSeq(keys, i + 1, Len(keys))

\* reviewAttemptHistory(): the plan's own attempt is never pushed out
History(l, key) ==
    LET pinned == l.phase = "planning" /\ l.plan # 0 /\ Attempted(l, "plan", l.plan)
    IN IF pinned
       THEN <<PlanKey(l)>> \o Last(Others(l.keys, PlanKey(l)), MaxHistory - 2) \o <<key>>
       ELSE Append(Last(l.keys, MaxHistory - 1), key)

\* reviewCurrent(), once the lease is l and the mode m; rs are the threads
Current(rs, p, s, l, m) ==
    /\ p = s /\ ~rs[s].cancelled /\ rs[s].current /\ m = "active"
    /\ l.phase # "none" /\ ~l.over
    /\ l.choice = rs[s].choice
    /\ rs[s].kind = "completion" => l.version = rs[s].scope

\* finish(): without a session the result settles at once, with one after the
\* abort or the grace period.  Only the first call counts.
Finished(r, status) ==
    CASE r.runner = "creating" ->
            [r EXCEPT !.stage = "recording", !.runner = "none", !.answer = status]
      [] r.runner = "live" -> [r EXCEPT !.runner = "aborting", !.answer = status]
      [] OTHER -> r

\* cancelReview(): the threads rs when the pending one, p, is given up.  Whatever
\* that waits for, an abort apart, it then ends.
Cancelled(rs, p) ==
    IF p = 0 THEN rs
    ELSE [rs EXCEPT ![p] =
             IF Finished(@, "none").runner = "aborting"
             THEN [Abandoned EXCEPT !.stage = "running", !.runner = "aborting"]
             ELSE Abandoned]

\* What an advance of the epoch, or of the lease, makes of what was read before it.
\* Work collected for a review then comes to nothing.
Disowned(rs) == [s \in Slots |-> IF rs[s].stage = "collecting" THEN Abandoned ELSE rs[s]]
Outdated(rs) == [s \in Slots |-> [Disowned(rs)[s] EXCEPT !.current = FALSE]]

\* syncRouterTools(): a pending review that is no longer current is cancelled.
Synced(rs, p, l, m) ==
    IF p # 0 /\ ~Current(rs, p, p, l, m)
    THEN pending' = 0 /\ reviews' = Cancelled(rs, p)
    ELSE pending' = p /\ reviews' = rs

\* The lease advances to l, persistState() follows.
Advance(rs, p, l) == lease' = l /\ Synced(Disowned(rs), p, l, mode)

\* The lease advances in a handler of Pi's run, which goes on to position q.
Replace(rs, p, l, q) ==
    /\ Advance(rs, p, l) /\ at' = q /\ held' = [held EXCEPT !.owns = FALSE]

\* cancelReview() and an advance of the epoch
Supersede ==
    /\ pending' = 0 /\ reviews' = Outdated(Cancelled(reviews, pending))
    /\ held' = [held EXCEPT !.current = FALSE]

NoteStep(l, step) == [l EXCEPT !.noted = @ \cup {step}]

-----------------------------------------------------------------------------
(* The thread of a review.                                                 *)

FirstFree(rs, s) ==
    rs[s].stage = "free" /\ \A u \in Slots : u < s => rs[u].stage # "free"

\* May startIndependentReview() start?  Its caller has just read the lease.
MayStart(p, kind, scope) == p = 0 /\ mode = "active" /\ ~Attempted(lease, kind, scope)

\* The attempt is on record before the first await.  A builder that has left the
\* registry, or an unroutable review, throws at once.
Start(rs, s, kind, scope) ==
    LET marked == [lease EXCEPT !.keys = History(lease, Key(lease, kind, scope))]
    IN \E stage \in {"evidence", "failing"} :
       /\ lease' = marked /\ pending' = s
       /\ reviews' = [Disowned(rs) EXCEPT ![s] =
             [Free EXCEPT !.stage = stage, !.kind = kind, !.scope = scope,
                          !.choice = lease.choice, !.current = TRUE, !.left = MaxReviewers]]
       /\ reviewed' = IF kind = "plan" THEN reviewed \cup {lease.choice} ELSE reviewed

\* reviewSettledWorkAfterPlanReview()
SettledWork(rs, p, s, m) ==
    /\ rs[s].kind = "plan" /\ ~rs[s].cancelled /\ rs[s].current
    /\ at = "idle" /\ p = 0 /\ m = "active"
    /\ lease.phase = "planning" /\ lease.plan # 0 /\ lease.mutated /\ ~lease.over
    /\ Attempted(lease, "plan", lease.plan)

\* The thread ends without advice.
End(rs, p, s, m) ==
    LET q == IF p = s THEN 0 ELSE p
    IN /\ pending' = q
       /\ reviews' = [rs EXCEPT ![s] = IF SettledWork(rs, q, s, m)
             THEN [Free EXCEPT !.stage = "collecting", !.current = TRUE]
             ELSE Free]

\* The next of the ladder: its model is gone, or its session starts.  The
\* deadline and the budget of the whole ladder may end it before.
Climb(s) ==
    LET r == reviews[s]
    IN \/ /\ r.left > 0 /\ Current(reviews, pending, s, lease, mode)
          /\ \E next \in {[r EXCEPT !.stage = "skipping"],
                          [r EXCEPT !.stage = "running", !.runner = "creating"]} :
               reviews' = [reviews EXCEPT ![s] = [next EXCEPT !.left = @ - 1]]
          /\ UNCHANGED pending
       \/ /\ r.left < MaxReviewers \/ ~Current(reviews, pending, s, lease, mode)
          /\ End(reviews, pending, s, mode)

\* The work tree's difference, collected with three awaits, is in.
EvidenceReady(s) ==
    /\ reviews[s].stage = "evidence"
    /\ Climb(s)
    /\ UNCHANGED <<mode, lease, at, held, reviewed>>

StageRecorded(s) ==
    /\ \/ reviews[s].stage = "skipping" /\ Climb(s)
       \/ reviews[s].stage \in {"failing", "abandoned"} /\ End(reviews, pending, s, mode)
    /\ UNCHANGED <<mode, lease, at, held, reviewed>>

\* A step of the runner's own: r is what it makes of the review.
Runner(s, r) ==
    /\ reviews[s].stage = "running"
    /\ reviews' = [reviews EXCEPT ![s] = r]
    /\ UNCHANGED <<mode, lease, pending, at, held, reviewed>>

SessionCreated(s) ==
    /\ reviews[s].runner = "creating"
    /\ \/ Runner(s, [reviews[s] EXCEPT !.runner = "live"])
       \/ \E status \in {"none", "unavailable"} : Runner(s, Finished(reviews[s], status))

\* submit_safety_review, or a failed message: an answer given before does not count then.
ReviewerActs(s) ==
    /\ reviews[s].runner = "live"
    /\ \/ reviews[s].answer = "none" /\ Runner(s, [reviews[s] EXCEPT !.answer = "given"])
       \/ reviews[s].answer # "spoilt" /\ Runner(s, [reviews[s] EXCEPT !.answer = "spoilt"])

PromptReturns(s) ==
    /\ reviews[s].runner = "live"
    /\ Runner(s, Finished(reviews[s], IF reviews[s].answer = "given" THEN "completed" ELSE "none"))

TimerFires(s) ==
    /\ reviews[s].runner \in {"creating", "live"}
    /\ Runner(s, Finished(reviews[s], "none"))

\* The abort or the grace period is over; the thread records the outcome.
Settles(s) ==
    /\ reviews[s].runner = "aborting"
    /\ Runner(s, IF reviews[s].cancelled THEN Abandoned
                 ELSE [reviews[s] EXCEPT !.stage = "recording", !.runner = "none"])
AbortReturns(s) == Settles(s)

\* mutant: the result waits for the abort, however long that takes
NoGrace(s) == FALSE /\ Settles(s)

GraceEnds(s) == Settles(s)

\* What advice makes of the lease; an approved plan may be carried out.
Advised(l, kind, approved) ==
    IF kind = "completion"
    THEN [l EXCEPT !.phase = "completed",
                   !.policy = IF @ = "ordinary" THEN "completion_review" ELSE @,
                   !.plan = IF l.phase \in {"planning", "executing"} THEN @ ELSE 0]
    ELSE [l EXCEPT !.policy = "plan_review_then_completion_review",
                   !.phase = IF approved THEN "executing" ELSE "planning",
                   !.plan = IF approved /\ l.phase = "planning" THEN @ ELSE 0]

\* Advice replaces the lease, never under a custom run's preparation.
Preparing == at \in {"custom", "fitting", "refitting"}

Deliver(s) ==
    /\ \E approved \in BOOLEAN : lease' = Advised(lease, reviews[s].kind, approved)
    /\ pending' = 0
    /\ reviews' = [Disowned(reviews) EXCEPT ![s] = Free]
    /\ held' = [held EXCEPT !.owns = FALSE]
    /\ UNCHANGED <<mode, at, reviewed>>

\* The outcome is on record; adviceMayApply() waits for a preparation to end.
OutcomeRecorded(s) ==
    /\ reviews[s].stage = "recording"
    /\ LET current == Current(reviews, pending, s, lease, mode)
           answer == reviews[s].answer
       IN \/ /\ current /\ answer = "completed" /\ Preparing
             /\ reviews' = [reviews EXCEPT ![s].stage = "applying"]
             /\ UNCHANGED <<mode, lease, pending, at, held, reviewed>>
          \/ current /\ answer = "completed" /\ ~Preparing /\ Deliver(s)
          \/ /\ ~current \/ answer # "completed"
             /\ IF ~current \/ answer = "unavailable" THEN End(reviews, pending, s, mode) ELSE Climb(s)
             /\ UNCHANGED <<mode, lease, at, held, reviewed>>

PreparationAwaited(s) ==
    /\ reviews[s].stage = "applying" /\ ~Preparing
    /\ IF Current(reviews, pending, s, lease, mode) THEN Deliver(s)
       ELSE End(reviews, pending, s, mode) /\ UNCHANGED <<mode, lease, at, held, reviewed>>

(* reviewCompletion() with the evidence collected, among the threads rs:    *)
(* the work is reviewed, or its missing evidence noted once.  Evidence      *)
(* needs a mutation; it may be missing all the same, for a failed check or  *)
(* for want of a difference in the repository.                              *)
ReviewCompletion(rs) ==
    \/ /\ lease.mutated /\ MayStart(pending, "completion", lease.version)
       /\ \E s \in Slots : FirstFree(rs, s) /\ Start(rs, s, "completion", lease.version)
    \/ /\ lease.mutated /\ ~MayStart(pending, "completion", lease.version)
       /\ reviews' = rs /\ UNCHANGED <<lease, pending, reviewed>>
    \/ /\ "completion_evidence" \in lease.noted
       /\ reviews' = rs /\ UNCHANGED <<lease, pending, reviewed>>
    \/ /\ "completion_evidence" \notin lease.noted
       /\ Advance(rs, pending, NoteStep(lease, "completion_evidence")) /\ UNCHANGED reviewed

\* The evidence for work that had settled before its plan's review ended.
SettledWorkCollected(s) ==
    /\ reviews[s].stage = "collecting"
    /\ ReviewCompletion([reviews EXCEPT ![s] = Free])
    /\ held' = [held EXCEPT !.owns = @ /\ lease' = lease]
    /\ UNCHANGED <<mode, at>>

-----------------------------------------------------------------------------
(* Input, modes and sessions.                                              *)

\* Input to an idle Pi; in mode "off" the router only tidies its tools.
Input ==
    /\ at = "idle" /\ at' = "prompted"
    /\ IF mode = "off" THEN Synced(reviews, pending, lease, mode)
       ELSE pending' = 0 /\ reviews' = Outdated(Cancelled(reviews, pending))
    /\ held' = [current |-> TRUE, owns |-> FALSE]
    /\ UNCHANGED <<mode, lease, reviewed>>

\* Input to a busy Pi; a compaction does the same.
BusyInput ==
    /\ at # "idle" /\ mode # "off" /\ Supersede
    /\ UNCHANGED <<mode, lease, at, reviewed>>

Compacted == Supersede /\ UNCHANGED <<mode, lease, at, reviewed>>

\* /route active, shadow or off.  A telemetry failure enters shadow the same way;
\* that it also closes the way back to active is left out.
ModeSet(m) ==
    /\ mode # m \/ (m = "off" /\ lease.phase # "none")
    /\ mode' = m
    /\ Supersede
    /\ UNCHANGED <<lease, at, reviewed>>

\* A reload keeps the lease last persisted, any other session starts without one.
SessionReplaced ==
    /\ at = "idle" /\ Supersede
    /\ \/ UNCHANGED <<lease, reviewed>>
       \/ lease' = NoLease /\ reviewed' = {}
    /\ UNCHANGED <<mode, at>>

\* RECONCILE, between runs: the second opinion corrects the task's route.
Correct ==
    /\ at \in {"idle", "prompted", "custom"} /\ mode # "off"
    /\ lease.phase # "none" /\ ~lease.over /\ lease.choice < MaxMoves
    /\ \E policy \in Policies : Replace(reviews, pending, Corrected(lease, policy), at)
    /\ UNCHANGED <<mode, reviewed>>

-----------------------------------------------------------------------------
(* Pi's runs.                                                              *)

\* A fallback's lease, or one whose fallbacks are exhausted.
Moved(l) ==
    {Over} \cup
    IF l.choice < MaxMoves THEN {[l EXCEPT !.choice = @ + 1]} ELSE {}

\* The leases a user's turn may be prepared with: a new task's, or the present
\* one, its finished review reopened.
TurnLeases ==
    LET resumed == IF mode = "active" THEN Resumed(lease) ELSE lease
        turn == {NewLease(p) : p \in Policies} \cup
                IF lease.phase = "none" THEN {} ELSE {resumed}
    IN turn \cup IF mode = "active" THEN UNION {Moved(l) : l \in {u \in turn : ~u.over}} ELSE {}

RunStarts == at' = "running" /\ held' = Nothing

\* handleUserPrompt(): no review is pending, so what it awaits is left out.
TurnRouted ==
    /\ at = "prompted" /\ RunStarts
    /\ \/ UNCHANGED <<lease, pending, reviews, reviewed>>
       \/ /\ held.current /\ mode # "off"
          /\ \E l \in TurnLeases :
                /\ Advance(reviews, pending, l)
                /\ reviewed' = IF l.keys = <<>> THEN {} ELSE reviewed
    /\ UNCHANGED mode

\* A custom message starts a run, or continues one that has ended.  Advice that
\* waited for a preparation goes on in the microtask of its end, before the next.
CustomStarts ==
    /\ at \in {"idle", "ended"} /\ \A s \in Slots : reviews[s].stage # "applying"
    /\ IF mode = "active"
       THEN /\ at' = "custom" /\ held' = [current |-> TRUE, owns |-> TRUE]
       ELSE RunStarts
    /\ UNCHANGED <<mode, lease, pending, reviews, reviewed>>

CustomDrained ==
    /\ at = "custom"
    /\ IF held.current /\ lease.phase # "none" /\ ~lease.over
       THEN at' = "fitting" /\ held' = [held EXCEPT !.owns = TRUE]
       ELSE RunStarts
    /\ UNCHANGED <<mode, lease, pending, reviews, reviewed>>

\* The leased choice is applied, as it is or after its endpoint failed.
CustomFitted ==
    /\ at = "fitting" /\ RunStarts
    /\ \/ UNCHANGED <<lease, pending, reviews>>
       \/ /\ held.owns /\ held.current
          /\ \E l \in Moved(lease) : Advance(reviews, pending, l)
    /\ UNCHANGED <<mode, reviewed>>

\* transitionFallback(): the failed attempt's review ends before anything is awaited.
Fallback(from, to) ==
    /\ at = from /\ at' = to
    /\ mode = "active" /\ lease.phase # "none" /\ ~lease.over
    /\ pending' = 0 /\ reviews' = Cancelled(reviews, pending)
    /\ held' = [current |-> TRUE, owns |-> TRUE]
    /\ UNCHANGED <<mode, lease, reviewed>>

CustomRefits == Fallback("fitting", "refitting")

FallbackInstalled ==
    /\ \/ held.owns /\ held.current /\ \E l \in Moved(lease) : Advance(reviews, pending, l)
       \/ UNCHANGED <<lease, pending, reviews>>
    /\ UNCHANGED <<mode, reviewed>>

CustomRefitted == at = "refitting" /\ RunStarts /\ FallbackInstalled
RunFellBack == at = "falling" /\ at' = "ended" /\ held' = Nothing /\ FallbackInstalled

\* tool_execution_end: a mutation, or a check that passed or failed
ToolEnds ==
    /\ at = "running" /\ mode = "active" /\ lease.phase # "none" /\ ~lease.over
    /\ lease.version < MaxVersion
    /\ \E mutation, reopens \in BOOLEAN :
          Replace(reviews, pending,
                  [(IF mutation \/ reopens THEN Resumed(lease) ELSE lease)
                      EXCEPT !.version = @ + 1, !.mutated = @ \/ mutation], at)
    /\ UNCHANGED <<mode, reviewed>>

\* mutant: the review of the plan before goes on
SubmitKeepsReview(plan) ==
    /\ at = "running" /\ mode = "active" /\ lease.phase = "planning"
    /\ Replace(reviews, pending,
               [lease EXCEPT !.policy = "plan_review_then_completion_review",
                             !.plan = plan, !.keys = <<>>], at)
    /\ reviewed' = {}
    /\ UNCHANGED mode

\* submit_action_plan
SubmitPlan(plan) ==
    /\ at = "running" /\ mode = "active" /\ lease.phase = "planning"
    /\ Replace(Cancelled(reviews, pending), 0,
               [lease EXCEPT !.policy = "plan_review_then_completion_review",
                             !.plan = plan, !.keys = <<>>], at)
    /\ reviewed' = {}
    /\ UNCHANGED mode

\* agent_end: the run's metrics are recorded, unless the router has no part in it.
RunEnds ==
    /\ at = "running"
    /\ at' = IF mode = "off" \/ lease.phase = "none" \/ lease.over THEN "ended" ELSE "ending"
    /\ held' = [current |-> TRUE, owns |-> FALSE]
    /\ UNCHANGED <<mode, lease, pending, reviews, reviewed>>

\* attemptDisposition: only a run that stopped of itself is reviewed.
RunRecorded ==
    /\ at = "ending" /\ at' = "ended"
    /\ \E success \in BOOLEAN : held' = [held EXCEPT !.current = @ /\ success]
    /\ UNCHANGED <<mode, lease, pending, reviews, reviewed>>

RunFails == Fallback("ending", "falling")

-----------------------------------------------------------------------------
(* agent_settled.                                                          *)

Settling(from, to) == at = from /\ at' = to /\ UNCHANGED mode

\* Nothing newer than the run's end may have happened to the lease's work.
Reviewable ==
    /\ lease.phase # "none" /\ ~lease.over /\ mode = "active" /\ held.current

PlanTried == lease.plan # 0 /\ pending = 0 /\ Attempted(lease, "plan", lease.plan)
NeedsCompletion ==
    \/ lease.phase \in {"building", "executing"}
    \/ lease.phase = "planning" /\ PlanTried /\ lease.mutated
NeedsPlanReview == lease.phase = "planning" /\ lease.plan # 0 /\ ~PlanTried
SkippedPlan == lease.phase = "planning" /\ lease.plan = 0 /\ lease.mutated

RunSettles ==
    \/ /\ Reviewable /\ NeedsCompletion
       /\ Settling("ended", "collecting")
       /\ held' = [held EXCEPT !.owns = TRUE]
       /\ UNCHANGED <<lease, pending, reviews, reviewed>>
    \/ /\ Reviewable /\ SkippedPlan
       /\ IF "action_plan" \in lease.noted
          THEN /\ Settling("ended", "collecting")
               /\ held' = [held EXCEPT !.owns = TRUE]
               /\ UNCHANGED <<lease, pending, reviews>>
          ELSE /\ Settling("ended", "noting")
               /\ Advance(reviews, pending, NoteStep(lease, "action_plan"))
               /\ UNCHANGED held
       /\ UNCHANGED reviewed
    \/ /\ Reviewable /\ NeedsPlanReview /\ MayStart(pending, "plan", lease.plan)
       /\ Settling("ended", "closing")
       /\ \E s \in Slots : FirstFree(reviews, s) /\ Start(reviews, s, "plan", lease.plan)
       /\ UNCHANGED held
    \/ /\ ~(Reviewable /\ (NeedsCompletion \/ SkippedPlan))
       /\ ~(Reviewable /\ NeedsPlanReview /\ MayStart(pending, "plan", lease.plan))
       /\ Settling("ended", "closing")
       /\ UNCHANGED <<lease, pending, reviews, held, reviewed>>

\* The skipped step is on record; the same task is still being planned, or not.
Noted ==
    /\ at = "noting" /\ at' = IF lease.phase = "planning" /\ held.current THEN "collecting" ELSE "closing"
    /\ held' = [held EXCEPT !.owns = TRUE]
    /\ UNCHANGED <<mode, lease, pending, reviews, reviewed>>

Collected ==
    /\ Settling("collecting", "closing")
    /\ IF held.owns /\ held.current THEN ReviewCompletion(reviews)
       ELSE UNCHANGED <<lease, pending, reviews, reviewed>>
    /\ held' = [held EXCEPT !.owns = FALSE]

\* The last drain of the queued correction, and agentRunPhase is "settled".
RunClosed ==
    /\ Settling("closing", "idle")
    /\ Synced(reviews, pending, lease, mode)
    /\ UNCHANGED <<lease, held, reviewed>>

-----------------------------------------------------------------------------
Thread(s) ==
    \/ EvidenceReady(s) \/ StageRecorded(s) \/ OutcomeRecorded(s)
    \/ PreparationAwaited(s) \/ SettledWorkCollected(s)

RunnerStep(s) ==
    \/ SessionCreated(s) \/ ReviewerActs(s) \/ PromptReturns(s) \/ TimerFires(s)
    \/ AbortReturns(s) \/ GraceEnds(s)

Preparation == CustomDrained \/ CustomFitted \/ CustomRefits \/ CustomRefitted

Outside ==
    \/ Input \/ BusyInput \/ Compacted \/ SessionReplaced \/ Correct
    \/ \E m \in {"off", "shadow", "active"} : ModeSet(m)

Run ==
    \/ TurnRouted \/ CustomStarts \/ ToolEnds \/ (\E plan \in Plans : SubmitPlan(plan))
    \/ RunEnds \/ RunRecorded \/ RunFails \/ RunFellBack

Settlement == RunSettles \/ Noted \/ Collected \/ RunClosed

Next ==
    \/ \E s \in Slots : Thread(s) \/ RunnerStep(s)
    \/ Preparation \/ Outside \/ Run \/ Settlement

(* The router's own steps are taken, and its two timers fire.  Nothing is   *)
(* asked of the reviewer, of its session, of an abort or of the user.  Pi's *)
(* selection of a model, which a preparation awaits, is assumed to return.  *)
Fairness ==
    /\ \A s \in Slots : WF_vars(Thread(s)) /\ WF_vars(TimerFires(s)) /\ WF_vars(GraceEnds(s))
    /\ WF_vars(Preparation)

Spec == Init /\ [][Next]_vars
FairSpec == Spec /\ Fairness

-----------------------------------------------------------------------------
(* Properties.                                                             *)

\* Type invariant.
Attempts == {"plan", "completion"} \X Nat \X Nat
Leases ==
    [phase : {"none", "ordinary", "planning", "executing", "building", "completed"},
     policy : Policies, plan : Plans \cup {0}, choice : Nat, version : Nat,
     mutated : BOOLEAN, keys : Seq(Attempts), noted : SUBSET Steps, over : BOOLEAN]
Reviews ==
    [stage : {"free", "evidence", "skipping", "failing", "running", "recording", "applying",
              "collecting", "abandoned"},
     kind : {"plan", "completion"}, scope : Nat, choice : Nat,
     cancelled : BOOLEAN, current : BOOLEAN, left : Nat,
     runner : {"none", "creating", "live", "aborting"},
     answer : {"none", "given", "spoilt", "completed", "unavailable"}]

TypeOK ==
    /\ mode \in {"off", "shadow", "active"} /\ lease \in Leases
    /\ pending \in Slots \cup {0} /\ reviews \in [Slots -> Reviews]
    /\ at \in Positions /\ held \in [current : BOOLEAN, owns : BOOLEAN]
    /\ reviewed \subseteq Nat

Delivered(s) ==
    /\ pending = s /\ reviews'[s] = Free
    /\ lease' \in {Advised(lease, reviews[s].kind, approved) : approved \in BOOLEAN}
    /\ lease' # lease

(* Advice is only ever given on what the lease still holds: the plan, or    *)
(* the evidence, of the builder attempt the reviewer was shown, never on    *)
(* one that was resubmitted, extended or moved to another model meanwhile   *)
(* (startIndependentReview and reviewCurrent).                              *)
AdviceOnCurrentWork ==
    [][\A s \in Slots : Delivered(s) =>
          /\ mode = "active" /\ ~lease.over
          /\ reviews[s].scope = IF reviews[s].kind = "plan" THEN lease.plan ELSE lease.version
          /\ reviews[s].choice = lease.choice]_vars

(* A submitted plan is sent to review at most once per builder attempt and  *)
(* route, whatever reviews of later evidence, reloads and reopened work     *)
(* come in between (reviewAttemptHistory).                                  *)
PlanReviewedOnce ==
    [][\A s \in Slots :
          reviews[s].stage = "free" /\ reviews'[s].stage # "free" /\ reviews'[s].kind = "plan"
             => lease.choice \notin reviewed]_vars

(* Every review's thread comes to an end, whatever its session, its abort   *)
(* or the user does: the timer and the grace period see to it               *)
(* (inProcessReviewRunner).                                                 *)
ReviewEnds == \A s \in Slots : reviews[s].stage # "free" ~> reviews[s].stage = "free"

(* "Once that ladder ends without advice, review the already-settled work": *)
(* when a run has settled successfully, its plan's review is over and       *)
(* nothing newer has happened, the work done has been sent to review or its *)
(* missing evidence noted (reviewSettledWorkAfterPlanReview).               *)
SettledWorkReviewed ==
    at = "idle" /\ Reviewable /\ NeedsCompletion /\ lease.phase = "planning"
    /\ (\A s \in Slots : reviews[s].stage = "free")
       => \/ Attempted(lease, "completion", lease.version)
          \/ "completion_evidence" \in lease.noted
=============================================================================
