------------------------------ MODULE Routing ------------------------------
(***************************************************************************)
(* The routing decision: from what a task is and which endpoints this      *)
(* machine has scoped in, to a primary route and the ordered chain of      *)
(* fallbacks, or to nothing (core/routing.ts, core/endpoint-cost.ts,       *)
(* core/health.ts, route() of router/index.ts).                            *)
(*                                                                         *)
(* An endpoint is a record [provider, modelId, model, contextWindow,       *)
(* available, health, images, toolCapable, efforts, input, output,         *)
(* specificity, place].  model is the canonical model its modelId spells,  *)
(* input and output are list rates in cents per million tokens, and place  *)
(* is its rank in code-point order of provider/modelId.  health is "none"  *)
(* for an endpoint that was never probed.  A task is a record [features,   *)
(* archetype, blocked, languages, currentTokens, hasImages,                *)
(* planValidatorActive] of a turn that Turn has classified.                *)
(***************************************************************************)
EXTENDS RoutePolicy

LOCAL INSTANCE SequencesExt
LOCAL INSTANCE FiniteSetsExt

-----------------------------------------------------------------------------
(***************************************************************************)
(* The context a task is scored in.                                        *)
(***************************************************************************)
consequenceOf(features) ==
    IF \/ features.actionMode \in {"external_side_effect", "destructive"}
       \/ features.risk = "critical"
    THEN "irreversible"
    ELSE IF features.actionMode = "reversible_mutation" THEN "reversible"
                                                         ELSE "read_only"

verificationDiscountOf(features) ==
    CASE features.verificationStrength \in
            {"security_and_policy", "integration_tests"} -> 25
      [] features.verificationStrength = "unit_tests" -> 50
      [] features.verificationStrength = "self_check" -> 85
      [] OTHER -> 100

deriveRoutingContext(features, languageBuckets) ==
    [ language |-> resolveEvidenceLanguage(languageBuckets),
      hardTask |-> features.ambiguity = "high",
      unattended |-> features.interactivity = "autonomous",
      foreground |-> features.interactivity = "developer_loop",
      consequence |-> consequenceOf(features),
      discount |-> verificationDiscountOf(features) ]

(* Review produces findings, so a tracked review is read-only work.        *)
REVIEW_CONTEXT ==
    [ language |-> None, hardTask |-> FALSE, unattended |-> FALSE,
      foreground |-> FALSE, consequence |-> "read_only", discount |-> 100 ]

effectiveConsequence(archetype, context) ==
    LET floor == IF BOOTSTRAP_ROUTE_POLICIES[archetype].mutatesRepository
                 THEN "reversible" ELSE "read_only"
    IN  IF consequenceRank(context.consequence) >= consequenceRank(floor)
        THEN context.consequence ELSE floor

FOREGROUND_WAIT_MULTIPLIER == 8

evidenceScoreContext(archetype, context) ==
    [ language |-> context.language,
      consequence |-> effectiveConsequence(archetype, context),
      discount |-> context.discount, unattended |-> context.unattended,
      waitMultiplier |-> IF context.foreground
                         THEN FOREGROUND_WAIT_MULTIPLIER ELSE 1,
      hardTask |-> context.hardTask ]

-----------------------------------------------------------------------------
(***************************************************************************)
(* Endpoints: what disqualifies one, and how those of one model compare.   *)
(***************************************************************************)
healthUsable(endpoint) == endpoint.health \notin {"client_error", "failed"}

endpointTierFor(provider) ==
    CASE provider \in {"anthropic", "openai", "openai-codex", "google",
                       "google-vertex"} -> 0
      [] provider = "bifrost" -> 1
      [] OTHER -> 2

isFlatRateProvider(provider) == provider = "github-copilot"

(* In hundred-thousandths.                                                 *)
BUILT_IN_PROVIDER_WEIGHTS ==
    ("amazon-bedrock" :> 100001) @@ ("openai" :> 100100)
    @@ [p \in {"openai-codex", "anthropic", "google", "google-vertex", "bifrost"} |-> 100000]

providerWeightFor(provider) ==
    IF provider \in DOMAIN BUILT_IN_PROVIDER_WEIGHTS
    THEN BUILT_IN_PROVIDER_WEIGHTS[provider] ELSE 101000

PricingValid(endpoint) ==
    \/ isFlatRateProvider(endpoint.provider)
    \/ endpoint.input >= 0 /\ endpoint.output >= 0

(* The weighted blend, a quarter input and three quarters output, in       *)
(* quarters of a cent times hundred-thousandths: nothing is rounded.       *)
EffectiveCost(endpoint) ==
    (endpoint.input + 3 * endpoint.output) * providerWeightFor(endpoint.provider)

compareEndpointEffectiveCost(left, right) ==
    LET lf == isFlatRateProvider(left.provider)
        rf == isFlatRateProvider(right.provider)
        tie == \/ lf /\ rf
               \/ ~lf /\ ~rf /\ EffectiveCost(left) = EffectiveCost(right)
        lt == endpointTierFor(left.provider)
        rt == endpointTierFor(right.provider)
    IN  \/ ~lf /\ rf
        \/ ~lf /\ ~rf /\ EffectiveCost(left) < EffectiveCost(right)
        \/ tie /\ lt < rt
        \/ tie /\ lt = rt /\ left.specificity < right.specificity
        \/ /\ tie /\ lt = rt /\ left.specificity = right.specificity
           /\ left.place < right.place

(* The elements of a set in the order of a total relation.                 *)
Ordered(S, Before(_, _)) ==
    [k \in 1..Cardinality(S) |->
        CHOOSE x \in S : Cardinality({y \in S : Before(y, x)}) = k - 1]

orderEndpoints(endpoints) == Ordered(endpoints, compareEndpointEffectiveCost)

BEDROCK_GPT_SHORT_CONTEXT_LIMIT == 272000
BEDROCK_GPT_MODELS == {"gpt-6.1-sol", "gpt-6-sol", "gpt-5.6-terra", "gpt-6-luna"}

bedrockLongContextPricingUnavailable(endpoint, tokens) ==
    /\ endpoint.provider = "amazon-bedrock"
    /\ endpoint.model \in BEDROCK_GPT_MODELS
    /\ tokens > BEDROCK_GPT_SHORT_CONTEXT_LIMIT

frugalityWarranted(endpoint, requirements) ==
    requirements.tokens > endpoint.contextWindow \div 2

(* What the measured context of the configuration demands of the window.   *)
PriorFits(ref, endpoint, archetype) ==
    hasPrior(ref.model, ref.effort) =>
        LET prior == findEvidencePrior(ref.model, ref.effort)
        IN  /\ prior.p90Peak <= (endpoint.contextWindow * 7) \div 10
            /\ prior.overflow <= 200
            /\ archetype = "long_context_synthesis"
                 => prior.p90Peak <= endpoint.contextWindow \div 2

(* (Mutant: only the reversible tier is refused.)                          *)
ConfinedByName(ref, archetype, context) ==
    "singleAttemptEvidence" \in ref.flags
        => effectiveConsequence(archetype, context) # "reversible"

singleAttemptConfined(ref, archetype, context) ==
    "singleAttemptEvidence" \in ref.flags
        => effectiveConsequence(archetype, context) = "read_only"

(* Whether the endpoint may serve the candidate: the exclusions of the code*)
(* are the negations of these conjuncts.                                   *)
evaluateEndpoint(ref, endpoint, archetype, requirements, context) ==
    /\ endpoint.available
    /\ endpoint.provider = "google" => archetype = "code_review"
    /\ healthUsable(endpoint)
    /\ "scopedFrugal" \in ref.flags => frugalityWarranted(endpoint, requirements)
    /\ singleAttemptConfined(ref, archetype, context)
    /\ authorizeEffort(ref.model, ref.effort,
                       BOOTSTRAP_ROUTE_POLICIES[archetype].allowSuperSaturation,
                       effectiveConsequence(archetype, context), context.language)
    /\ requirements.tokens <= (endpoint.contextWindow * 7) \div 10
    /\ PriorFits(ref, endpoint, archetype)
    /\ requirements.images => endpoint.images
    /\ requirements.tools => endpoint.toolCapable
    /\ ref.effort \in endpoint.efforts
    /\ findPromptProfile(endpoint.model, archetype, ref.effort) # None
    /\ PricingValid(endpoint)

Choice(ref, endpoint, archetype) ==
    [ provider |-> endpoint.provider, modelId |-> endpoint.modelId,
      model |-> ref.model, vendor |-> MODEL_VENDOR[ref.model],
      effort |-> ref.effort, ability |-> abilityFor(ref), flags |-> ref.flags,
      profile |-> findPromptProfile(endpoint.model, archetype, ref.effort) ]

(* Every endpoint that serves the candidate, in preference order; one that *)
(* has no registered price for the request is never compared.              *)
(* (Mutant: it is compared at its short-context rate.)                     *)
UnpricedCompared(ref, reg, requirements) == {e \in reg : e.model = ref.model}

priceableEndpoints(ref, reg, requirements) ==
    {e \in reg : /\ e.model = ref.model
                 /\ ~bedrockLongContextPricingUnavailable(e, requirements.tokens)}

ChoicesOf(ref, archetype, ordered) ==
    [i \in DOMAIN ordered |-> Choice(ref, ordered[i], archetype)]

evaluateCandidate(ref, reg, archetype, requirements, context) ==
    LET eligible == {e \in priceableEndpoints(ref, reg, requirements) :
            evaluateEndpoint(ref, e, archetype, requirements, context)}
    IN  ChoicesOf(ref, archetype, orderEndpoints(eligible))

-----------------------------------------------------------------------------
(***************************************************************************)
(* Ordering.  A group is one (model, effort) with the endpoints that serve *)
(* it; groups are ordered, and never interleaved.                          *)
(***************************************************************************)
FirstIndex(s, Test(_)) ==
    IF \E i \in DOMAIN s : Test(s[i])
    THEN Min({i \in DOMAIN s : Test(s[i])}) ELSE 0

Promote(s, i) == IF i > 1 THEN <<s[i]>> \o RemoveAt(s, i) ELSE s

(* A stable sort of a sequence by a measure of its elements.               *)
SortedBy(s, Measure(_)) ==
    LET order == Ordered(DOMAIN s, LAMBDA i, j :
                    \/ Measure(s[i]) < Measure(s[j])
                    \/ Measure(s[i]) = Measure(s[j]) /\ i < j)
    IN  [k \in DOMAIN order |-> s[order[k]]]

groupKey(choice) == <<choice.model, choice.effort>>

deduplicateChoices(choices) ==
    LET First(i) == ~\E j \in 1..(i - 1) : choices[j] = choices[i]
        kept == Ordered({i \in DOMAIN choices : First(i)}, LAMBDA i, j : i < j)
    IN  [k \in DOMAIN kept |-> choices[kept[k]]]

(* (Mutant: every endpoint is ranked on its own.)                          *)
EndpointGroups(choices) == [i \in DOMAIN choices |-> <<choices[i]>>]

groupCandidates(choices) ==
    LET Leads(i) == ~\E j \in 1..(i - 1) : groupKey(choices[j]) = groupKey(choices[i])
        leaders == Ordered({i \in DOMAIN choices : Leads(i)}, LAMBDA i, j : i < j)
    IN  [k \in DOMAIN leaders |->
            SelectSeq(choices, LAMBDA c : groupKey(c) = groupKey(choices[leaders[k]]))]

(* Telemetry outranks the priors only when every group's first endpoint has*)
(* enough accepted samples; sampled maps an endpoint to                    *)
(* [samples, accepted, cost], accepted in hundredths.                      *)
sampleMature(choice, sampled, floor) ==
    LET key == <<choice.provider, choice.modelId>>
    IN  /\ key \in DOMAIN sampled
        /\ sampled[key].samples >= 30 /\ sampled[key].accepted >= floor

GroupScore(group, scoreContext) ==
    scoreEvidencePrior(findEvidencePrior(group[1].model, group[1].effort),
                       scoreContext)

(* The evidence order: scored groups by expected cost to done, a language's*)
(* tendency settling a near-tie, and the groups without evidence behind.   *)
(* (Mutant: every score is within it.)                                      *)
AnyTie(cost, best, language) == TRUE

withinNearTie(cost, best, language) ==
    cost * 100 <= best * (100 + LANGUAGE_EVIDENCE[language].nearTie)

tendencyIndex(ranked, language, Score(_)) ==
    IF language = None \/ ranked = << >> THEN 0
    ELSE FirstIndex(ranked, LAMBDA g :
            /\ g[1].vendor = LANGUAGE_EVIDENCE[language].tendency
            /\ withinNearTie(Score(g), Score(ranked[1]), language))

evidenceOrder(groups, scoreContext, language) ==
    LET Scored(g) == hasPrior(g[1].model, g[1].effort)
        Score(g) == GroupScore(g, scoreContext)
        ranked == SortedBy(SelectSeq(groups, Scored), Score)
    IN  Promote(ranked, tendencyIndex(ranked, language, Score))
            \o SelectSeq(groups, LAMBDA g : ~Scored(g))

(* The pinned primary of the archetype, unless it defers to a language that*)
(* has evidence.                                                           *)
pinFor(archetype, language) ==
    LET pin == BOOTSTRAP_ROUTE_POLICIES[archetype].pin
    IN  IF /\ pin.defers /\ language # None
           /\ LANGUAGE_EVIDENCE[language].confidence # "none"
        THEN NoPin ELSE pin

orderGroups(groups, archetype, sampled, holdout, context) ==
    LET policy == BOOTSTRAP_ROUTE_POLICIES[archetype]
        mature == /\ groups # << >>
                  /\ \A i \in DOMAIN groups :
                        sampleMature(groups[i][1], sampled, policy.qualityFloor)
        robustCostToDone(g) == sampled[<<g[1].provider, g[1].modelId>>].cost
        evidence == evidenceOrder(groups, evidenceScoreContext(archetype, context),
                                  context.language)
        pin == pinFor(archetype, context.language)
    IN  CASE mature -> IF holdout THEN groups ELSE SortedBy(groups, robustCostToDone)
          [] ~mature /\ ~policy.evidenceRanked -> groups
          [] OTHER -> Promote(evidence,
                FirstIndex(evidence, LAMBDA g :
                    groupKey(g[1]) = <<pin.model, pin.effort>>))

demoteEscalationOnly(choices) ==
    LET Escalates(c) == "escalationOnly" \in c.flags
        ordinary == SelectSeq(choices, LAMBDA c : ~Escalates(c))
    IN  IF ordinary = << >> THEN << >>
        ELSE ordinary \o SelectSeq(choices, Escalates)

Unroutable == << >>

AtLeast(n, chain) == IF Len(chain) < n THEN Unroutable ELSE chain

(* The chain, primary first; a primary alone is not a route.               *)
selectOrdinaryRoute(archetype, reg, requirements, sampled, holdout, context) ==
    LET policy == BOOTSTRAP_ROUTE_POLICIES[archetype]
        pool == policy.pool \o (IF context.hardTask
                                THEN HARD_TASK_ESCALATION_REFS ELSE << >>)
        evaluated == FlattenSeq([i \in DOMAIN pool |->
            evaluateCandidate(pool[i], reg, archetype, requirements, context)])
        ordered == orderGroups(groupCandidates(deduplicateChoices(evaluated)),
                               archetype, sampled, holdout, context)
    IN  AtLeast(2, demoteEscalationOnly(FlattenSeq(ordered)))

(* One reviewer of every other vendor, closest to the builder first.       *)
MINIMUM_INDEPENDENT_REVIEWERS == 2

reviewerOf(vendor, reg, requirements, builderAbility) ==
    LET refs == reviewerRefs(vendor, builderAbility)
    IN  FlattenSeq([i \in DOMAIN refs |->
            evaluateCandidate(refs[i], reg, "code_review", requirements,
                              REVIEW_CONTEXT)])

(* (Mutant: the builder's vendor stays, behind the others.)                *)
BuilderLast(builderVendor) ==
    SelectSeq(reviewerVendors, LAMBDA v : v # builderVendor) \o <<builderVendor>>

otherVendors(builderVendor) == SelectSeq(reviewerVendors, LAMBDA v : v # builderVendor)

FirstOf(s) == SubSeq(s, 1, IF s = << >> THEN 0 ELSE 1)

selectReviewRoute(reg, requirements, builderVendor, builderAbility) ==
    LET vendors == otherVendors(builderVendor)
        choices == FlattenSeq([i \in DOMAIN vendors |->
            FirstOf(reviewerOf(vendors[i], reg, requirements, builderAbility))])
        Distance(c) == IF c.ability >= builderAbility
                       THEN c.ability - builderAbility
                       ELSE builderAbility - c.ability
    IN  AtLeast(MINIMUM_INDEPENDENT_REVIEWERS, SortedBy(choices, Distance))

-----------------------------------------------------------------------------
(***************************************************************************)
(* route() and the lease that keeps its outcome.                           *)
(***************************************************************************)
PLANNING_ARCHETYPES == {"implementation_planning", "large_program_planning"}

estimateFinishedTokens(t) ==
    t.currentTokens + t.features.expectedToolOutputTokens
        + t.features.expectedAgentTurns * 1500
        + t.features.expectedFilesChanged * 1000 + 16384

routeRequirements(t) ==
    [tokens |-> estimateFinishedTokens(t), images |-> t.hasImages,
     tools |-> t.features.toolDependence # "none"]

(* The classifier's refusal and a planning task without its validator tool *)
(* leave the model alone.                                                  *)
routeDecision(reg, t, sampled, holdout) ==
    IF \/ t.blocked
       \/ t.archetype \in PLANNING_ARCHETYPES /\ ~t.planValidatorActive
    THEN Unroutable
    ELSE selectOrdinaryRoute(t.archetype, reg, routeRequirements(t), sampled,
                             holdout, deriveRoutingContext(t.features, t.languages))

leasedChoiceEligible(choice, t, reg) ==
    \E e \in reg :
        /\ e.provider = choice.provider /\ e.modelId = choice.modelId
        /\ e.available
        /\ ~bedrockLongContextPricingUnavailable(e, routeRequirements(t).tokens)
        /\ routeRequirements(t).tokens <= (e.contextWindow * 7) \div 10
        /\ routeRequirements(t).images => e.images
        /\ routeRequirements(t).tools => e.toolCapable
        /\ choice.effort \in e.efforts
        /\ findPromptProfile(e.model, t.archetype, choice.effort) = choice.profile
=============================================================================
