---------------------------- MODULE RoutePolicy ----------------------------
(***************************************************************************)
(* The router's policy: which (model, effort) pairs each archetype of work *)
(* may run on and in which declared order, the reviewer ladders, the       *)
(* hard-task escalation, and the prompt profiles that say which model is   *)
(* validated for which archetype (core/policy.ts, core/profiles.ts).       *)
(* Policy names logical models only; Routing expands them to endpoints.    *)
(***************************************************************************)
EXTENDS RouteEvidence

LOCAL INSTANCE SequencesExt

MODEL_VENDOR ==
    [m \in {"gpt-6-luna", "gpt-6-astra", "gpt-5.6-terra", "gpt-6-sol",
            "gpt-6.1-sol", "gpt-oss-120b"} |-> "openai"]
 @@ [m \in {"claude-opus-5-5", "claude-opus-4-6", "claude-fable-5",
            "claude-sonnet-5", "claude-haiku-4-5"} |-> "anthropic"]
 @@ [m \in {"gemini-3.8-flash", "gemini-3.6-flash", "gemini-2.5-pro",
            "gemini-2.5-flash"} |-> "google"]
 @@ "minimax-m2.5" :> "minimax"
 @@ [m \in {"kimi-k2.5", "kimi-k2-thinking"} |-> "moonshot"]

(* A candidate reference with the flags that narrow when it may be used;   *)
(* its vendor is MODEL_VENDOR's and its ability abilityFor's.              *)
abilityFor(ref) == evidenceAbility(ref.model, ref.effort)
candidates(m, e) ==
    <<[model |-> m, effort |-> e, flags |-> {}]>>
Flagged(refs, flag) ==
    [i \in DOMAIN refs |-> [refs[i] EXCEPT !.flags = @ \cup {flag}]]

LUNA(e)       == candidates("gpt-6-luna", e)
TERRA(e)      == candidates("gpt-5.6-terra", e)
GPT_OSS_HIGH  == candidates("gpt-oss-120b", "high")
SOL(e)        == candidates("gpt-6.1-sol", e) \o candidates("gpt-6-sol", e)
ASTRA_HIGH    == candidates("gpt-6-astra", "high")
HAIKU_LOW     == candidates("claude-haiku-4-5", "low")
OPUS(e)       == candidates("claude-opus-5-5", e)
FABLE_XHIGH   == candidates("claude-fable-5", "xhigh")
MINIMAX_LOW   == Flagged(candidates("minimax-m2.5", "low"), "singleAttemptEvidence")
KIMI_25_LOW   == Flagged(candidates("kimi-k2.5", "low"), "singleAttemptEvidence")
KIMI_THINKING_LOW ==
    Flagged(candidates("kimi-k2-thinking", "low"), "singleAttemptEvidence")
OPUS_46_HIGH  == Flagged(candidates("claude-opus-4-6", "high"), "scopedFrugal")
GEMINI_GENERAL_HIGH ==
    candidates("gemini-3.6-flash", "high") \o candidates("gemini-2.5-pro", "high")
        \o candidates("gemini-2.5-flash", "high")
GEMINI_REVIEW_HIGH == candidates("gemini-3.8-flash", "high") \o GEMINI_GENERAL_HIGH

-----------------------------------------------------------------------------
(***************************************************************************)
(* The bootstrap policies.  pool is primary followed by fallback; a floor  *)
(* is in hundredths; a pin names the deliberate first choice and whether it*)
(* gives way to a measured language.                                       *)
(***************************************************************************)
NoPin == [model |-> None, effort |-> None, defers |-> FALSE]
Ranked(pool, floor) ==
    [pool |-> pool, qualityFloor |-> floor, allowSuperSaturation |-> FALSE,
     mutatesRepository |-> FALSE, evidenceRanked |-> TRUE, pin |-> NoPin]
Declared(pool, floor) == [Ranked(pool, floor) EXCEPT !.evidenceRanked = FALSE]
Mutating(policy) == [policy EXCEPT !.mutatesRepository = TRUE]
SuperSaturating(policy) == [policy EXCEPT !.allowSuperSaturation = TRUE]
PinnedTo(policy, e, defers) ==
    [policy EXCEPT !.pin = [model |-> "claude-opus-5-5", effort |-> e,
                            defers |-> defers]]

fast_classification ==
    Declared(LUNA("medium") \o LUNA("high") \o MINIMAX_LOW \o KIMI_25_LOW
               \o KIMI_THINKING_LOW \o GPT_OSS_HIGH \o HAIKU_LOW
               \o TERRA("medium") \o OPUS("medium") \o OPUS("high"), 96)
exact_extraction ==
    Declared(TERRA("medium") \o MINIMAX_LOW \o KIMI_25_LOW \o KIMI_THINKING_LOW
               \o HAIKU_LOW \o SOL("low") \o GPT_OSS_HIGH \o SOL("medium")
               \o OPUS("medium"), 98)
deliberate_tool_workflow ==
    Ranked(SOL("medium") \o SOL("high") \o SOL("low") \o TERRA("high")
               \o OPUS("medium"), 80)
median_repository_implementation ==
    PinnedTo(Mutating(Ranked(OPUS("medium") \o SOL("high") \o OPUS("high")
               \o TERRA("high") \o OPUS_46_HIGH, 70)), "medium", TRUE)
stacked_pr_implementation ==
    Mutating(Ranked(OPUS("high") \o SOL("high") \o SOL("max"), 70))
terminal_heavy_implementation ==
    Mutating(Ranked(SOL("high") \o OPUS("high") \o TERRA("max")
               \o TERRA("high"), 70))
algorithmic_iterative_coding ==
    Mutating(Ranked(SOL("medium") \o OPUS("medium") \o GEMINI_GENERAL_HIGH
               \o TERRA("high") \o LUNA("high"), 70))
code_review == Ranked(OPUS("high") \o SOL("high"), 75)
implementation_planning ==
    PinnedTo(Ranked(OPUS("high") \o SOL("high") \o ASTRA_HIGH \o FABLE_XHIGH, 70),
             "high", FALSE)
large_program_planning ==
    PinnedTo(SuperSaturating(Ranked(OPUS("xhigh") \o ASTRA_HIGH \o SOL("max")
               \o FABLE_XHIGH, 70)), "xhigh", FALSE)
long_context_synthesis ==
    Ranked(OPUS("medium") \o SOL("high") \o OPUS_46_HIGH \o TERRA("max"), 72)
highest_risk_advisory ==
    PinnedTo(SuperSaturating(Ranked(OPUS("max") \o ASTRA_HIGH \o SOL("max")
               \o OPUS("high"), 80)), "max", FALSE)

BOOTSTRAP_ROUTE_POLICIES ==
  [ fast_classification |-> fast_classification,
    exact_extraction |-> exact_extraction,
    deliberate_tool_workflow |-> deliberate_tool_workflow,
    median_repository_implementation |-> median_repository_implementation,
    stacked_pr_implementation |-> stacked_pr_implementation,
    terminal_heavy_implementation |-> terminal_heavy_implementation,
    algorithmic_iterative_coding |-> algorithmic_iterative_coding,
    code_review |-> code_review,
    implementation_planning |-> implementation_planning,
    large_program_planning |-> large_program_planning,
    long_context_synthesis |-> long_context_synthesis,
    highest_risk_advisory |-> highest_risk_advisory ]

ARCHETYPES ==
    {"fast_classification", "exact_extraction", "deliberate_tool_workflow",
     "median_repository_implementation", "stacked_pr_implementation",
     "terminal_heavy_implementation", "algorithmic_iterative_coding",
     "code_review", "implementation_planning", "large_program_planning",
     "long_context_synthesis", "highest_risk_advisory"}

HARD_TASK_ESCALATION_REFS == Flagged(LUNA("max"), "escalationOnly")

-----------------------------------------------------------------------------
(* The reviewer ladders, and the tiers of a vendor that reach an ability:  *)
(* its last tier when none does.                                           *)
REVIEWER_TIERS ==
  [ openai    |-> <<ASTRA_HIGH, SOL("medium"), SOL("high"), SOL("max")>>,
    anthropic |-> <<OPUS("low"), OPUS("medium"), OPUS("high"), FABLE_XHIGH>>,
    google    |-> <<GEMINI_REVIEW_HIGH>> ]

reviewerVendors == <<"openai", "anthropic", "google">>

reviewerRefs(vendor, minimumAbility) ==
    LET tiers == REVIEWER_TIERS[vendor]
        Reaches(tier) == abilityFor(tier[1]) >= minimumAbility
        eligible == SelectSeq(tiers, Reaches)
    IN  IF eligible # << >> THEN FlattenSeq(eligible) ELSE tiers[Len(tiers)]

ALL_CANDIDATE_REFS ==
    UNION {ToSet(BOOTSTRAP_ROUTE_POLICIES[a].pool) : a \in ARCHETYPES}
      \cup UNION {ToSet(FlattenSeq(REVIEWER_TIERS[v])) : v \in DOMAIN REVIEWER_TIERS}
      \cup ToSet(HARD_TASK_ESCALATION_REFS)

-----------------------------------------------------------------------------
(***************************************************************************)
(* Prompt profiles.  The vendor a profile also names follows from its      *)
(* models; its text is left out.                                           *)
(***************************************************************************)
Profile(id, models, archetypes, efforts) ==
    [id |-> id, models |-> models, archetypes |-> archetypes, efforts |-> efforts]

Bounded == {"fast_classification", "exact_extraction"}
Planning == {"implementation_planning", "large_program_planning",
             "highest_risk_advisory", "code_review"}
Iterative == {"algorithmic_iterative_coding", "median_repository_implementation",
              "code_review", "long_context_synthesis"}
UpToHigh == {"low", "medium", "high"}
UpToMax == {"low", "medium", "high", "xhigh", "max"}

OPEN_AND_OPENAI_PROFILES ==
  { Profile("openai-gpt-6-agent-v1",
            {"gpt-6-luna", "gpt-6-astra", "gpt-5.6-terra", "gpt-6.1-sol",
             "gpt-6-sol"}, ARCHETYPES, UpToMax),
    Profile("openai-gpt-oss-bounded-v1", {"gpt-oss-120b"}, Bounded, UpToHigh),
    Profile("anthropic-claude-opus-4-6-frugal-v1", {"claude-opus-4-6"},
            {"median_repository_implementation", "long_context_synthesis"},
            {"medium", "high"}),
    Profile("moonshot-kimi-bounded-v1", {"kimi-k2.5", "kimi-k2-thinking"},
            Bounded, UpToHigh),
    Profile("minimax-m2.5-bounded-v1", {"minimax-m2.5"}, Bounded, UpToHigh) }

CLAUDE_PROFILES ==
  { Profile("anthropic-claude-fast-agent-v1",
            {"claude-haiku-4-5", "claude-sonnet-5"},
            ARCHETYPES \ {"large_program_planning"}, UpToMax \ {"max"}),
    Profile("anthropic-claude-opus-5-5-agent-v1", {"claude-opus-5-5"},
            ARCHETYPES \ ({"stacked_pr_implementation"} \cup Planning), UpToMax),
    Profile("anthropic-claude-stacked-pr-v1", {"claude-opus-5-5"},
            {"stacked_pr_implementation"}, {"high", "xhigh", "max"}),
    Profile("anthropic-claude-planning-v1",
            {"claude-opus-5-5", "claude-fable-5"}, Planning, UpToMax) }

GEMINI_PROFILES ==
  { Profile("google-gemini-2.5-iterative-v1",
            {"gemini-2.5-flash", "gemini-2.5-pro"}, Iterative, UpToHigh),
    Profile("google-gemini-3.8-review-v1", {"gemini-3.8-flash"},
            {"code_review"}, {"high"}),
    Profile("google-gemini-3.6-iterative-v1", {"gemini-3.6-flash"},
            Iterative, UpToHigh) }

PROMPT_PROFILES == OPEN_AND_OPENAI_PROFILES \cup CLAUDE_PROFILES \cup GEMINI_PROFILES

(* At most one profile covers a model, an archetype and an effort, so the  *)
(* first match of the code is the match.                                   *)
findPromptProfile(m, archetype, e) ==
    LET matching == {p \in PROMPT_PROFILES : /\ m \in p.models
                                             /\ archetype \in p.archetypes
                                             /\ e \in p.efforts}
    IN  IF matching = {} THEN None ELSE (CHOOSE p \in matching : TRUE).id
=============================================================================
