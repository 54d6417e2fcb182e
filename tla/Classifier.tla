----------------------------- MODULE Classifier -----------------------------
(***************************************************************************)
(* Semantic classification: what a prompt is, by the endpoints that may say*)
(* so, and what the router concludes from it (classifier.ts,               *)
(* pi-classifier.ts, core/features.ts, core/archetype.ts, core/lease.ts,   *)
(* deriveSafetyPolicy of core/safety.ts).                                  *)
(*                                                                         *)
(* Features are the record the classifier reports, confidence in hundredths*)
(* and without the fields nothing here reads.  A cache is <<tokens, expected*)
(* reuse in hundredths>>.  A prompt is the set of the patterns it matches, *)
(* of "implements", "discontinuity", "continuation" and "operation".       *)
(***************************************************************************)
EXTENDS Routing

LOCAL INSTANCE SequencesExt

-----------------------------------------------------------------------------
(***************************************************************************)
(* Who classifies.                                                         *)
(***************************************************************************)
PRIMARY_CLASSIFIER_TIERS ==
    <<"gpt-6-luna", "gpt-5.6-luna", "mai-code-1.1-flash", "claude-haiku-4-5",
      "gemini-3.5-flash-lite">>

MICROSOFT_SECONDARY_CLASSIFIER_TIERS == <<"mai-code-1.1-flash">>
OPENAI_SECONDARY_CLASSIFIER_TIERS ==
    <<"gpt-5.6-terra", "gpt-6-luna", "gpt-5.6-luna">>
GOOGLE_SECONDARY_CLASSIFIER_TIERS ==
    <<"gemini-3.8-flash", "gemini-3.7-flash", "gemini-3.6-flash",
      "gemini-3.5-flash", "gemini-2.5-pro", "gemini-3.5-flash-lite">>

SECONDARY_CLASSIFIER_TIERS_BY_PRIMARY_VENDOR ==
  [ openai    |-> <<"claude-sonnet-5">> \o GOOGLE_SECONDARY_CLASSIFIER_TIERS
                    \o MICROSOFT_SECONDARY_CLASSIFIER_TIERS,
    anthropic |-> OPENAI_SECONDARY_CLASSIFIER_TIERS
                    \o GOOGLE_SECONDARY_CLASSIFIER_TIERS
                    \o MICROSOFT_SECONDARY_CLASSIFIER_TIERS,
    google    |-> OPENAI_SECONDARY_CLASSIFIER_TIERS \o <<"claude-sonnet-5">>
                    \o MICROSOFT_SECONDARY_CLASSIFIER_TIERS ]

DEFAULT_SECONDARY_CLASSIFIER_TIERS ==
    <<"claude-sonnet-5">> \o OPENAI_SECONDARY_CLASSIFIER_TIERS
        \o GOOGLE_SECONDARY_CLASSIFIER_TIERS
        \o MICROSOFT_SECONDARY_CLASSIFIER_TIERS

secondaryClassifierTiers(primaryVendor) ==
    IF primaryVendor \in DOMAIN SECONDARY_CLASSIFIER_TIERS_BY_PRIMARY_VENDOR
    THEN SECONDARY_CLASSIFIER_TIERS_BY_PRIMARY_VENDOR[primaryVendor]
    ELSE DEFAULT_SECONDARY_CLASSIFIER_TIERS

(* The manufacturer of a logical model, whoever serves it.                 *)
canonicalVendor(model) ==
    CASE model = "mai-code-1.1-flash" -> "microsoft"
      [] model = "gpt-5.6-luna" -> "openai"
      [] model \in ToSet(GOOGLE_SECONDARY_CLASSIFIER_TIERS) -> "google"
      [] OTHER -> MODEL_VENDOR[model]

resolveClassifierTier(reg, logicalModel) ==
    orderEndpoints({e \in reg : /\ e.available /\ e.model = logicalModel
                                /\ e.toolCapable /\ healthUsable(e)
                                /\ PricingValid(e)})

resolveClassifierTiers(reg, logicalModels) ==
    FlattenSeq([i \in DOMAIN logicalModels |->
                    resolveClassifierTier(reg, logicalModels[i])])

selectSecondaryClassifierModels(reg, primaryVendor) ==
    SelectSeq(resolveClassifierTiers(reg, secondaryClassifierTiers(primaryVendor)),
              LAMBDA e : canonicalVendor(e.model) # primaryVendor)

primaryClassifierModels(reg) == resolveClassifierTiers(reg, PRIMARY_CLASSIFIER_TIERS)

firstVendor(models) == IF models = << >> THEN None
                       ELSE canonicalVendor(models[1].model)

(* The second opinion is sought from the vendor that answered.  (Mutant:   *)
(* from the vendor that was asked first.)                                  *)
SecondOpinionOfFirst(reg, answeredBy) ==
    selectSecondaryClassifierModels(reg, firstVendor(primaryClassifierModels(reg)))

secondOpinion(reg, answeredBy) == selectSecondaryClassifierModels(reg, answeredBy)

-----------------------------------------------------------------------------
(***************************************************************************)
(* What a classification is.                                               *)
(***************************************************************************)
RISK_RANK == <<"low", "medium", "high", "critical">>
HORIZON_RANK == <<"one_response", "single_pr", "two_to_ten_prs",
                  "eleven_to_hundred_prs", "program_unknown_size">>
ACTION_MODE_RANK == <<"information_only", "local_read", "reversible_mutation",
                      "external_side_effect", "destructive">>
VERIFICATION_RANK == <<"none", "self_check", "unit_tests", "integration_tests",
                       "security_and_policy">>
SAFETY_POLICY_RANK == <<"ordinary", "completion_review",
                        "plan_review_then_completion_review">>

RankIn(order, x) == CHOOSE i \in DOMAIN order : order[i] = x
maximum(left, right, order) ==
    IF RankIn(order, left) >= RankIn(order, right) THEN left ELSE right
Larger(m, n) == IF m >= n THEN m ELSE n

CLASSIFIER_CONFIDENCE_THRESHOLD == 80

conservativeFeatures ==
    [ intent |-> "diagnose", workflowType |-> "research_or_analysis",
      actionMode |-> "information_only", horizon |-> "program_unknown_size",
      toolDependence |-> "repository_agent", contextShape |-> "long_repository",
      outputRigidity |-> "structured", taskContinuity |-> "new_task",
      risk |-> "high", ambiguity |-> "high", confidence |-> 0,
      reviewIntent |-> FALSE, interactivity |-> "human_checkpointed",
      expectedAgentTurns |-> 20, expectedFilesChanged |-> 0,
      expectedToolOutputTokens |-> 50000,
      verificationStrength |-> "security_and_policy" ]

NoFeatures == [conservativeFeatures EXCEPT !.intent = None]

(* The graver of two readings field by field, on the base of the secondary *)
(* when the primary was unsure or saw less risk.                           *)
reconcileFeatures(primary, secondary) ==
    LET preferSecondary ==
            \/ primary.confidence < CLASSIFIER_CONFIDENCE_THRESHOLD
            \/ RankIn(RISK_RANK, secondary.risk) > RankIn(RISK_RANK, primary.risk)
    IN  [ (IF preferSecondary THEN secondary ELSE primary) EXCEPT
            !.risk = maximum(primary.risk, secondary.risk, RISK_RANK),
            !.horizon = maximum(primary.horizon, secondary.horizon, HORIZON_RANK),
            !.actionMode = maximum(primary.actionMode, secondary.actionMode,
                                   ACTION_MODE_RANK),
            !.verificationStrength = maximum(primary.verificationStrength,
                secondary.verificationStrength, VERIFICATION_RANK),
            !.reviewIntent = primary.reviewIntent \/ secondary.reviewIntent,
            !.expectedAgentTurns = Larger(primary.expectedAgentTurns,
                                          secondary.expectedAgentTurns),
            !.expectedFilesChanged = Larger(primary.expectedFilesChanged,
                                            secondary.expectedFilesChanged),
            !.expectedToolOutputTokens = Larger(primary.expectedToolOutputTokens,
                                                secondary.expectedToolOutputTokens),
            !.confidence = -Larger(-primary.confidence, -secondary.confidence) ]

shouldEscalateClassification(features) ==
    \/ features.confidence < CLASSIFIER_CONFIDENCE_THRESHOLD
    \/ features.risk \in {"high", "critical"}

(* features is NoFeatures where no attempt of the stage produced valid    *)
(* ones, and vendor then the one that was selected.                        *)
classifyTaskPrimary(features, vendor) ==
    IF features = NoFeatures
    THEN [features |-> conservativeFeatures, escalated |-> FALSE,
          failedClosed |-> TRUE, primaryVendor |-> vendor, secondaryVendor |-> None]
    ELSE [features |-> features, escalated |-> shouldEscalateClassification(features),
          failedClosed |-> FALSE, primaryVendor |-> vendor, secondaryVendor |-> None]

classifyTaskSecondary(primary, features, vendor) ==
    LET sameVendor == /\ None \notin {primary.primaryVendor, vendor}
                      /\ primary.primaryVendor = vendor
    IN  [primary EXCEPT
            !.secondaryVendor = vendor,
            !.failedClosed = sameVendor,
            !.features = CASE sameVendor -> conservativeFeatures
                           [] ~sameVendor /\ features # NoFeatures ->
                                reconcileFeatures(primary.features, features)
                           [] OTHER -> @]

NoClassification ==
    [features |-> NoFeatures, escalated |-> FALSE, failedClosed |-> FALSE,
     primaryVendor |-> None, secondaryVendor |-> None]

(* A classification that failed closed is never routed on.                 *)
automaticRoutingBlocked(classification) == classification.failedClosed

-----------------------------------------------------------------------------
(***************************************************************************)
(* What the features mean.                                                 *)
(***************************************************************************)
isCodeBuilder(f) == f.workflowType = "coding_implementation" \/ f.intent = "implement"

isStandaloneReviewWork(f) == f.workflowType = "code_review" \/ f.intent = "review"

(* The outcome of the first rule <<condition, outcome>> that applies.       *)
FirstRule(rules) ==
    rules[CHOOSE i \in DOMAIN rules :
            rules[i][1] /\ \A j \in 1..(i - 1) : ~rules[j][1]][2]

deriveArchetype(f) ==
    LET stack == {"two_to_ten_prs", "eleven_to_hundred_prs"}
        large == {"eleven_to_hundred_prs", "program_unknown_size"}
    IN  FirstRule(<<
          <<isStandaloneReviewWork(f), "code_review">>,
          << \/ f.risk = "critical"
             \/ f.risk = "high" /\ f.ambiguity = "high", "highest_risk_advisory">>,
          <<f.reviewIntent, "code_review">>,
          <<f.workflowType = "coding_implementation" /\ f.horizon \in stack,
                "stacked_pr_implementation">>,
          << \/ f.workflowType = "implementation_planning" \/ f.intent = "plan"
             \/ f.horizon \in stack \cup large,
                IF f.horizon \in large THEN "large_program_planning"
                                       ELSE "implementation_planning">>,
          <<f.outputRigidity = "exact_schema" \/ f.intent = "transform",
                "exact_extraction">>,
          << \/ f.contextShape \in {"large_documents", "long_repository"}
             \/ f.expectedToolOutputTokens >= 50000, "long_context_synthesis">>,
          <<f.workflowType = "noncoding_tool_workflow" \/ f.intent = "operate",
                "deliberate_tool_workflow">>,
          << \/ f.workflowType = "incident_or_operations"
             \/ f.toolDependence = "terminal_heavy"
             \/ f.intent = "diagnose", "terminal_heavy_implementation">>,
          << /\ isCodeBuilder(f) \/ f.horizon = "single_pr"
             /\ f.contextShape = "single_file"
             /\ f.expectedFilesChanged <= 2 /\ f.expectedAgentTurns <= 4,
                "algorithmic_iterative_coding">>,
          <<isCodeBuilder(f) \/ f.horizon = "single_pr",
                "median_repository_implementation">>,
          <<TRUE, "fast_classification">> >>)

deriveSafetyPolicy(f) ==
    LET highRisk == f.risk \in {"high", "critical"}
        irreversible == f.actionMode \in {"external_side_effect", "destructive"}
        broadAutonomousExternalLoop ==
            /\ f.actionMode = "external_side_effect"
            /\ f.interactivity = "autonomous"
            /\ f.horizon = "program_unknown_size"
        mutating == f.actionMode = "reversible_mutation"
    IN  FirstRule(<<
          <<isStandaloneReviewWork(f), "ordinary">>,
          <<(highRisk \/ broadAutonomousExternalLoop) /\ irreversible,
                "plan_review_then_completion_review">>,
          <<highRisk /\ mutating /\ isCodeBuilder(f), "completion_review">>,
          <<highRisk /\ mutating, "plan_review_then_completion_review">>,
          <<TRUE, "ordinary">> >>)

(* What a lease keeps of the task it was installed for, and whether its    *)
(* selected endpoint takes images.                                         *)
LeaseOf(f, images) ==
    [archetype |-> deriveArchetype(f), features |-> f,
     policy |-> deriveSafetyPolicy(f), images |-> images]
NoLease == [archetype |-> None, features |-> NoFeatures, policy |-> "ordinary",
            images |-> FALSE]

-----------------------------------------------------------------------------
(***************************************************************************)
(* Whether a prompt continues the leased task.                             *)
(***************************************************************************)
hasSignificantReusableCache(cache) == cache[1] >= 20000 /\ cache[2] >= 50

hasCompatibleMutatingImplementationLease(lease) ==
    /\ BOOTSTRAP_ROUTE_POLICIES[lease.archetype].mutatesRepository
    /\ isCodeBuilder(lease.features)
    /\ lease.features.actionMode \in
            {"reversible_mutation", "external_side_effect", "destructive"}

(* Without a model; the handler has already set aside what is no idle user *)
(* input.                                                                  *)
deterministicBoundaryGate(lease, hardBoundary, prompt) ==
    FirstRule(<<
      <<hardBoundary \/ lease = NoLease, "new_task">>,
      <<lease # NoLease /\ lease.archetype \in PLANNING_ARCHETYPES
            /\ "implements" \in prompt, "new_task">>,
      <<"discontinuity" \in prompt, "new_task">>,
      <<"continuation" \in prompt, "continue">>,
      <<"operation" \in prompt /\ lease # NoLease
            /\ hasCompatibleMutatingImplementationLease(lease), "continue">>,
      <<TRUE, "classify_continuity">> >>)

resolveContinuity(lease, f, cache) ==
    LET isPlanning(archetype) == archetype \in PLANNING_ARCHETYPES
        otherRequirements ==
            \/ isPlanning(deriveArchetype(f)) # isPlanning(lease.archetype)
            \/ RankIn(ACTION_MODE_RANK, f.actionMode)
                    > RankIn(ACTION_MODE_RANK, lease.features.actionMode)
            \/ RankIn(SAFETY_POLICY_RANK, deriveSafetyPolicy(f))
                    > RankIn(SAFETY_POLICY_RANK, lease.policy)
        resisted == /\ hasSignificantReusableCache(cache)
                    /\ f.confidence < 90 \/ f.ambiguity # "low"
        continues == \/ f.taskContinuity = "clear_continuation"
                     \/ f.taskContinuity = "new_task" /\ resisted
                     \/ /\ f.taskContinuity = "possible_continuation"
                        /\ hasSignificantReusableCache(cache)
    IN  IF ~otherRequirements /\ continues THEN "continue" ELSE "new_task"
=============================================================================
