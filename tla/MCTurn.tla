-------------------------------- MODULE MCTurn --------------------------------
\* What this machine may have scoped in: every model at its manufacturer, most
\* of them resold, in windows of a million or of 272000 tokens.
EXTENDS Turn, FiniteSetsExt

Rates(m) ==
    CASE m \in {"gpt-6-luna", "gpt-oss-120b"} -> <<10, 50>>
      [] m \in {"gpt-6.1-sol", "gpt-6-sol"} -> <<200, 1000>>
      [] m \in {"claude-opus-5-5", "claude-opus-4-6"} -> <<400, 2000>>
      [] m \in {"claude-fable-5", "gpt-6-astra"} -> <<1000, 5000>>
      [] OTHER -> <<100, 400>>

Efforts(m) ==
    IF m = "gemini-2.5-flash" THEN {"off", "low", "medium", "high"} ELSE DOMAIN EFFORT_RANK

Endpoint(provider, m, window, place) ==
    [provider |-> provider, modelId |-> IF provider = "amazon-bedrock"
                                        THEN <<canonicalVendor(m), m>> ELSE <<m>>,
     model |-> m, contextWindow |-> window, available |-> TRUE, health |-> None,
     images |-> m # "gpt-oss-120b", toolCapable |-> TRUE, efforts |-> Efforts(m),
     input |-> Rates(m)[1], output |-> Rates(m)[2],
     specificity |-> IF provider = "amazon-bedrock" THEN 1 ELSE 0, place |-> place]

HomeProvider(m) ==
    CASE canonicalVendor(m) = "openai" -> "openai-codex"
      [] canonicalVendor(m) = "anthropic" -> "anthropic"
      [] canonicalVendor(m) = "google" -> "google-vertex"
      [] OTHER -> "amazon-bedrock"

Direct(window) ==
    {Endpoint(HomeProvider(m), m, window, 3) : m \in DOMAIN MODEL_VENDOR}
Resold == {Endpoint("amazon-bedrock", m, 1000000, 1) :
              m \in {"gpt-6.1-sol", "gpt-5.6-terra", "claude-opus-5-5", "gpt-6-luna"}}
          \cup {Endpoint("github-copilot", m, 1000000, 2) :
              m \in {"gpt-6.1-sol", "claude-opus-5-5"}}
Gemini == {Endpoint("google", m, 1000000, 4) : m \in {"gemini-3.8-flash", "gemini-3.6-flash"}}
Failing(reg, m) == {IF e.model = m THEN [e EXCEPT !.health = "client_error"] ELSE e : e \in reg}

\* Endpoints that only classify.
Fast == {Endpoint("openai", "gpt-5.6-luna", 272000, 5),
         Endpoint("github-copilot", "mai-code-1.1-flash", 272000, 6),
         Endpoint("google", "gemini-3.5-flash-lite", 1000000, 7)}

MCRegistries ==
    {Direct(1000000) \cup Resold, Direct(272000) \cup Gemini \cup Fast,
     Failing(Direct(1000000), "claude-opus-5-5"),
     {e \in Direct(1000000) : canonicalVendor(e.model) = "openai"} \cup Resold}

\* A reading of a prompt that asks for the archetype.
Reading(archetype, mode, hard, foreground) ==
    LET research ==
          [intent |-> "answer", workflowType |-> "research_or_analysis",
           actionMode |-> mode, horizon |-> "one_response",
           toolDependence |-> "repository_agent", contextShape |-> "short",
           outputRigidity |-> "freeform", taskContinuity |-> "new_task",
           risk |-> "medium", ambiguity |-> IF hard THEN "high" ELSE "low",
           confidence |-> 95, reviewIntent |-> FALSE,
           interactivity |-> IF foreground THEN "developer_loop" ELSE "autonomous",
           expectedAgentTurns |-> 8, expectedFilesChanged |-> 3,
           expectedToolOutputTokens |-> 20000, verificationStrength |-> "unit_tests"]
        coding == [research EXCEPT !.intent = "implement",
                      !.workflowType = "coding_implementation",
                      !.horizon = "single_pr", !.contextShape = "multi_file_repository"]
        planning == [research EXCEPT !.intent = "plan",
                        !.workflowType = "implementation_planning",
                        !.horizon = "single_pr"]
    IN  CASE archetype = "fast_classification" -> [research EXCEPT !.toolDependence = "none"]
          [] archetype = "exact_extraction" -> [research EXCEPT !.outputRigidity = "exact_schema"]
          [] archetype = "deliberate_tool_workflow" ->
                [research EXCEPT !.workflowType = "noncoding_tool_workflow"]
          [] archetype = "median_repository_implementation" -> coding
          [] archetype = "stacked_pr_implementation" -> [coding EXCEPT !.horizon = "two_to_ten_prs"]
          [] archetype = "terminal_heavy_implementation" ->
                [coding EXCEPT !.toolDependence = "terminal_heavy"]
          [] archetype = "algorithmic_iterative_coding" ->
                [coding EXCEPT !.contextShape = "single_file", !.expectedFilesChanged = 1,
                               !.expectedAgentTurns = 4]
          [] archetype = "code_review" -> [research EXCEPT !.workflowType = "code_review"]
          [] archetype = "implementation_planning" -> planning
          [] archetype = "large_program_planning" ->
                [planning EXCEPT !.horizon = "program_unknown_size"]
          [] archetype = "long_context_synthesis" ->
                [research EXCEPT !.contextShape = "long_repository"]
          [] archetype = "highest_risk_advisory" -> [coding EXCEPT !.risk = "critical"]

MCFreshAnswers ==
    {Reading(a, mode, hard, ~hard) :
        a \in ARCHETYPES, mode \in {"local_read", "reversible_mutation", "destructive"},
        hard \in BOOLEAN}

\* Sure, unsure, marginal and graver readings of a prompt under a lease.
Coding(mode) == Reading("median_repository_implementation", mode, FALSE, TRUE)
Same(f, continuity, confidence) ==
    [f EXCEPT !.taskContinuity = continuity, !.confidence = confidence]
MCSameAnswers ==
    {Same(Coding("reversible_mutation"), "clear_continuation", 95),
     Same(Coding("reversible_mutation"), "possible_continuation", 60),
     Same(Coding("reversible_mutation"), "new_task", 85),
     Same(Coding("destructive"), "strong_discontinuity", 95),
     [Same(Coding("reversible_mutation"), "clear_continuation", 90) EXCEPT !.risk = "high"],
     Same(Reading("implementation_planning", "local_read", FALSE, TRUE), "new_task", 70),
     Same(Reading("code_review", "local_read", TRUE, TRUE), "possible_continuation", 95)}

MCLeases ==
    {NoLease, LeaseOf([Coding("reversible_mutation") EXCEPT !.risk = "high"], FALSE),
     LeaseOf(Reading("large_program_planning", "local_read", FALSE, TRUE), TRUE)}

MCCaches == {<<30000, 80>>, <<30000, 20>>}

Situation(languages, tokens, planValidatorActive) ==
    [languages |-> languages, currentTokens |-> tokens,
     planValidatorActive |-> planValidatorActive]
MCSituations ==
    {Situation({l}, tokens, TRUE) :
        l \in {"go", "typescript", "ruby", "css"}, tokens \in {20000, 300000}}
    \cup {Situation({"go"}, 150000, TRUE), Situation({"go", "python"}, 150000, FALSE)}

Keys(reg) == {<<e.provider, e.modelId>> : e \in reg}
Mature ==
    LET keys == UNION {Keys(reg) : reg \in MCRegistries}
    IN  [k \in keys |-> [samples |-> 40, accepted |-> 99,
                         cost |-> IF k[1] = "amazon-bedrock" THEN 1 ELSE 2]]
MCSampled == {<< >>, Mature}
=============================================================================
