-------------------------------- MODULE Turn --------------------------------
(***************************************************************************)
(* One user turn of the router, from the prompt to the route: the gate that*)
(* may settle it without a model, the classification that may hang, fail or*)
(* answer late, what continuity makes of it, the routing decision and the  *)
(* later choice of reviewers (handleUserPrompt, classifyTurn and the input *)
(* handler of router/index.ts, runClassifierInvocation of telemetry.ts,    *)
(* runStage of classifier.ts, transportFromCandidates of pi-classifier.ts).*)
(*                                                                         *)
(* A fresh task is classified by the primary stage alone, its secondary    *)
(* running later (SecondaryReconciliation); a continuity question runs both*)
(* stages in one invocation.                                               *)
(***************************************************************************)
EXTENDS Classifier

LOCAL INSTANCE SequencesExt

CONSTANTS Registries,   \* the registries a session may see, sets of endpoints
          Sampled,      \* the telemetry the store may hold when it routes
          Leases,       \* the leases that may be in force, NoLease for none
          FreshAnswers, \* the features a classifier may report of a new task,
          SameAnswers,  \* and of a prompt that may continue the leased one
          Caches,       \* what the provider's cache may hold
          Situations    \* [languages, currentTokens, planValidatorActive]

VARIABLES registry, samples,  \* read once by the turn
          lease,              \* in force
          phase,              \* of the hook
          pending,            \* [gate, cache, images] of the prompt
          call,               \* the classifier invocation's request in flight
          classification, task, decision, review

world == <<registry, samples>>
vars == <<registry, samples, lease, phase, pending, call, classification, task,
          decision, review>>

NoInput == [gate |-> None, cache |-> <<0, 0>>, images |-> FALSE]
NotRouted == <<"not routed">>
NoTask == [features |-> NoFeatures, archetype |-> None, blocked |-> FALSE,
           hasImages |-> FALSE, languages |-> {}, currentTokens |-> 0,
           planValidatorActive |-> FALSE]
NoCall == [stage |-> None, try |-> 0, candidate |-> 0, primary |-> NoClassification]

(* The patterns a prompt can match together.                               *)
Prompts == {{}, {"implements"}, {"discontinuity"}, {"discontinuity", "implements"},
            {"continuation"}, {"operation"}, {"operation", "implements"}}

Init ==
    /\ registry \in Registries /\ samples \in Sampled /\ lease \in Leases
    /\ phase = "idle" /\ pending = NoInput
    /\ call = NoCall /\ classification = NoClassification /\ task = NoTask
    /\ decision = NotRouted /\ review = NotRouted

-----------------------------------------------------------------------------
(***************************************************************************)
(* The prompt.                                                             *)
(***************************************************************************)
(* A prompt is submitted.  Images the leased endpoint cannot read make it a*)
(* new task whatever the gate says.                                        *)
Input ==
    /\ phase = "idle" /\ phase' = "received"
    /\ \E hardBoundary, images \in BOOLEAN, prompt \in Prompts, cache \in Caches :
          pending' = [gate |-> IF images /\ lease # NoLease /\ ~lease.images
                               THEN "new_task"
                               ELSE deterministicBoundaryGate(lease, hardBoundary, prompt),
                      cache |-> cache, images |-> images]
    /\ UNCHANGED <<world, lease, call, classification, task, decision, review>>

(* The candidates of a stage, in the order they are asked.                 *)
candidatesOf(stage, primary) ==
    IF stage = "primary" THEN primaryClassifierModels(registry)
    ELSE secondOpinion(registry, primary.primaryVendor)

(* A stage has ended: with features, or without when both its tries failed,*)
(* and with the vendor that answered, or else the one selected.            *)
StageResult(stage, primary, features, vendor) ==
    LET of == IF vendor # None THEN vendor ELSE firstVendor(candidatesOf(stage, primary))
    IN  IF stage = "primary" THEN classifyTaskPrimary(features, of)
        ELSE classifyTaskSecondary(primary, features, of)

Classified(result) ==
    /\ phase' = "classified" /\ classification' = result /\ call' = NoCall

(* A stage opens, restarting the deadline, and asks its first candidate;   *)
(* one without candidates fails its tries at once.                         *)
OpenStage(stage, primary) ==
    IF candidatesOf(stage, primary) = << >>
    THEN Classified(StageResult(stage, primary, NoFeatures, None))
    ELSE /\ phase' = "classifying"
         /\ call' = [stage |-> stage, try |-> 1, candidate |-> 1, primary |-> primary]
         /\ UNCHANGED classification

(* The turn's hook starts.  A push since the last prompt is a hard boundary*)
(* of its own; without a staged input nothing is decided.                  *)
Begin ==
    /\ phase \in {"idle", "received"}
    /\ \E pushed \in BOOLEAN :
          LET gate == IF pushed /\ phase = "received" THEN "new_task" ELSE pending.gate
          IN  /\ pending' = [pending EXCEPT !.gate = gate,
                                !.cache = IF gate = "classify_continuity"
                                          THEN @ ELSE NoInput.cache]
              /\ \/ /\ gate \in {None, "continue"} /\ phase' = "kept"
                    /\ UNCHANGED <<call, classification>>
                 \/ /\ gate \in {"new_task", "classify_continuity"}
                    /\ OpenStage("primary", NoClassification)
    /\ UNCHANGED <<world, lease, task, decision, review>>

-----------------------------------------------------------------------------
(***************************************************************************)
(* The classifier invocation.  Its transport may answer, fail, be cancelled*)
(* by the provider, or hang; the deadline of the open stage is the router's*)
(* own.  An answer after the deadline finds nobody waiting.                *)
(***************************************************************************)
Waiting == phase = "classifying"

Candidates == candidatesOf(call.stage, call.primary)

(* Only a continuity question goes on to the second opinion.               *)
StageEnds(features, vendor) ==
    LET result == StageResult(call.stage, call.primary, features, vendor)
    IN  IF /\ call.stage = "primary" /\ pending.gate = "classify_continuity"
           /\ result.escalated
        THEN OpenStage("secondary", result) ELSE Classified(result)

(* The second and last try of a stage asks its first candidate again.      *)
NextTry ==
    IF call.try = 1
    THEN /\ call' = [call EXCEPT !.try = 2, !.candidate = 1]
         /\ UNCHANGED <<phase, classification>>
    ELSE StageEnds(NoFeatures, None)

Unrouted == UNCHANGED <<world, lease, pending, task, decision, review>>

Answers ==
    /\ Waiting /\ Unrouted
    /\ \E features \in IF pending.gate = "new_task" THEN FreshAnswers ELSE SameAnswers :
          StageEnds(features, canonicalVendor(Candidates[call.candidate].model))

AnswersInvalidly == Waiting /\ Unrouted /\ NextTry

TransportFails ==
    /\ Waiting /\ Unrouted
    /\ IF call.candidate < Len(Candidates)
       THEN /\ call' = [call EXCEPT !.candidate = @ + 1]
            /\ UNCHANGED <<phase, classification>>
       ELSE NextTry

(* An invocation that did not complete keeps the lease, whichever question *)
(* it asked.                                                               *)
Abandons ==
    /\ Waiting /\ phase' = "kept" /\ call' = NoCall
    /\ UNCHANGED <<classification>> /\ Unrouted

ProviderCancels == Abandons

(* (Mutant: the clock is stopped for the second stage and not restarted.)  *)
DeadlineOnce == Waiting /\ call.stage = "primary" /\ Abandons

Deadline == Abandons

-----------------------------------------------------------------------------
(***************************************************************************)
(* What the turn makes of it.                                              *)
(***************************************************************************)
Continuity == resolveContinuity(lease, classification.features, pending.cache)

RequiresNewLease == pending.gate = "new_task" \/ Continuity = "new_task"

(* The prompt continues the leased task.                                   *)
KeepLease ==
    /\ phase = "classified" /\ ~RequiresNewLease /\ phase' = "kept"
    /\ classification' = NoClassification
    /\ UNCHANGED <<world, lease, pending, call, task, decision, review>>

(* A newer intent or /route off arrived while the hook waited: it stops at *)
(* its next check and installs nothing.                                    *)
Superseded ==
    /\ phase = "classified" /\ phase' = "dropped" /\ classification' = NoClassification
    /\ UNCHANGED <<world, lease, pending, call, task, decision, review>>

taskOf(situation) ==
    LET f == classification.features
    IN  [features |-> f, archetype |-> deriveArchetype(f),
         blocked |-> automaticRoutingBlocked(classification),
         hasImages |-> pending.images, languages |-> situation.languages,
         currentTokens |-> situation.currentTokens,
         planValidatorActive |-> situation.planValidatorActive]

takesImages(choice) ==
    \E e \in registry : /\ e.provider = choice.provider
                        /\ e.modelId = choice.modelId /\ e.images

(* A new task is routed, on the continuity question's classification where *)
(* there is one, and leased; one that cannot be leaves the lease in force. *)
(* The holdout is a hash of the prompt.                                    *)
RouteTask ==
    /\ phase = "classified" /\ RequiresNewLease
    /\ \E t \in {taskOf(situation) : situation \in Situations}, holdout \in BOOLEAN :
          task' = t /\ decision' = routeDecision(registry, t, samples, holdout)
    /\ phase' = IF decision' = Unroutable THEN "unroutable" ELSE "routed"
    /\ lease' = IF decision' = Unroutable THEN lease
                ELSE LeaseOf(task'.features, takesImages(decision'[1]))
    /\ pending' = NoInput /\ classification' = NoClassification
    /\ UNCHANGED <<world, call, review>>

(* The finished work is reviewed against the route that built it.          *)
ReviewWork ==
    /\ phase = "routed" /\ review = NotRouted
    /\ review' = selectReviewRoute(registry, routeRequirements(task),
                                   decision[1].vendor, decision[1].ability)
    /\ UNCHANGED <<world, lease, phase, pending, call, classification, task, decision>>

Transport == Answers \/ AnswersInvalidly \/ TransportFails \/ ProviderCancels
Next ==
    \/ Input \/ Begin \/ Transport \/ Deadline
    \/ KeepLease \/ Superseded \/ RouteTask \/ ReviewWork

(* The router's own timer fires, and its own code goes on from a           *)
(* classification, by whichever action; nothing is asked of a transport.   *)
Ended == {"kept", "routed", "unroutable", "dropped"}
Concludes == phase = "classified" /\ phase' \in Ended

Spec == Init /\ [][Next]_vars /\ WF_vars(Deadline) /\ WF_phase(Concludes)

-----------------------------------------------------------------------------
(***************************************************************************)
(* Properties.                                                             *)
(***************************************************************************)
Routed == decision \notin {NotRouted, Unroutable}

(* The features of a task whose wrong result would cost more: what a more  *)
(* suspicious reading of the same prompt may say.                          *)
Graver(features) ==
    {[features EXCEPT !.actionMode = "reversible_mutation"],
     [features EXCEPT !.actionMode = "destructive"],
     [features EXCEPT !.risk = "critical"]}

(* Raising what a wrong result costs only narrows the route: whatever may  *)
(* serve the graver reading of a prompt may serve the prompt, so that      *)
(* under-reading a task can lose candidates to nothing but caution.        *)
(* (Four gates read the consequence, each in its own direction.)           *)
ConsequenceOnlyNarrows ==
    decision # NotRouted =>
        \A graver \in Graver(task.features) :
            consequenceRank(consequenceOf(graver))
                    >= consequenceRank(consequenceOf(task.features))
              => ToSet(routeDecision(registry, [task EXCEPT !.features = graver],
                                     samples, FALSE)) \subseteq ToSet(decision)

(* What the router has just chosen, its own revalidation of a lease accepts*)
(* on the same registry: the two checks are written apart, and a choice    *)
(* only one of them admits would be leased and dropped on the next turn.   *)
FreshRouteIsLeaseEligible ==
    Routed => \A i \in DOMAIN decision :
                 leasedChoiceEligible(decision[i], task, registry)

(* The chain exhausts the endpoints of one model at one effort before it   *)
(* changes either, and never attempts an escalation-only configuration     *)
(* while an ordinary one is left: not even mature telemetry reorders that. *)
ModelExhaustedFirst ==
    Routed => \A i, j \in DOMAIN decision : i < j =>
        /\ groupKey(decision[i]) = groupKey(decision[j])
             => \A k \in i..j : groupKey(decision[k]) = groupKey(decision[i])
        /\ "escalationOnly" \in decision[i].flags
             => "escalationOnly" \in decision[j].flags

(* Before telemetry has matured, the configuration tried first costs no    *)
(* more to done, by the evidence, than the near-tie of the best ordinary   *)
(* one, unless it is the deliberate pin of the archetype: a language's     *)
(* tendency breaks a tie and never more.                                   *)
LeaderIsNearBest ==
    LET context == deriveRoutingContext(task.features, task.languages)
        Cost(c) == scoreEvidencePrior(findEvidencePrior(c.model, c.effort),
                                      evidenceScoreContext(task.archetype, context))
        nearTie == IF context.language = None THEN 0
                   ELSE LANGUAGE_EVIDENCE[context.language].nearTie
        policy == BOOTSTRAP_ROUTE_POLICIES[task.archetype]
    IN  Routed /\ policy.evidenceRanked /\ DOMAIN samples = {} =>
          LET first == decision[1]
              ordinary == {c \in ToSet(decision) : /\ "escalationOnly" \notin c.flags
                                                   /\ hasPrior(c.model, c.effort)}
          IN  \/ groupKey(first) = <<policy.pin.model, policy.pin.effort>>
              \/ \A c \in ordinary : /\ hasPrior(first.model, first.effort)
                                     /\ Cost(first) * 100 <= Cost(c) * (100 + nearTie)

(* The work of one manufacturer is reviewed by at least two others, each   *)
(* once and the nearest in ability first, whichever provider sold it.      *)
ReviewersAreIndependent ==
    review \notin {NotRouted, Unroutable} =>
        /\ Cardinality({review[i].vendor : i \in DOMAIN review}) = Len(review)
        /\ Len(review) >= 2
        /\ \A i \in DOMAIN review :
              /\ review[i].vendor # decision[1].vendor
              /\ review[i].effort # "off"
              /\ leasedChoiceEligible(review[i], [task EXCEPT !.archetype = "code_review"],
                                      registry)
(* A second opinion is never the first one's: whoever answered the primary *)
(* stage after however many failed, the features that are reconciled come  *)
(* from two manufacturers, and a classification fails closed for want of an*)
(* answer only, never because both stages reached the same one.            *)
SecondOpinionIsIndependent ==
    classification # NoClassification =>
        /\ classification.secondaryVendor # None
             => classification.secondaryVendor # classification.primaryVendor
        /\ classification.failedClosed => ~classification.escalated

(* A turn whose prompt went to a classifier ends, although no transport    *)
(* need ever answer, in either stage: it keeps its lease or is routed.     *)
TurnEnds ==
    phase \in {"classifying", "classified"} ~> phase \in Ended
=============================================================================
