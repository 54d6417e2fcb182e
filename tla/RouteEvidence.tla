--------------------------- MODULE RouteEvidence ---------------------------
(***************************************************************************)
(* What the router believes about a model at an effort, before it has seen *)
(* any work of its own: core/evidence.ts over the generated rows of        *)
(* core/evidence-data.ts and core/single-attempt-data.ts.                  *)
(*                                                                         *)
(* The code computes with doubles and this module with integers: a rate is *)
(* in ten-thousandths, a consensus percentile in hundredths, a cost in     *)
(* thousandths of a dollar, a time in seconds.  Only the model families    *)
(* that a route policy can name are kept, and of a row only the fields that*)
(* some gate or score reads.                                               *)
(***************************************************************************)
EXTENDS Integers, Sequences, FiniteSets, TLC

LOCAL INSTANCE FiniteSetsExt

None == "none"

(* The record of one rollout row; go, python and typescript are the        *)
(* triples <<pass rate, hard-task pass rate, regression rate>>.            *)
Row(pass, hard, regression, repeatAll, flaky, overflow, p90Wall, p90Peak, cost, consensus, go, python, typescript) ==
    [ pass |-> pass, hard |-> hard, regression |-> regression,
      repeatAll |-> repeatAll, flaky |-> flaky, overflow |-> overflow,
      p90Wall |-> p90Wall, p90Peak |-> p90Peak, cost |-> cost,
      consensus |-> consensus,
      byLanguage |-> "go" :> go @@ "python" :> python
                       @@ "typescript" :> typescript ]

FableRows ==
     "low" :> Row(5708, 2500, 487, 2478, 5664, 0, 929, 78470, 6249, 6301, <<6838, 4688, 294>>, <<5588, 3438, 1029>>, <<5214, 2222, 214>>)
  @@ "medium" :> Row(6305, 2857, 376, 3451, 4867, 0, 1415, 116987, 9356, 7474, <<6985, 3750, 441>>, <<6397, 3750, 662>>, <<5714, 3056, 143>>)
  @@ "high" :> Row(6527, 2679, 465, 3717, 4956, 0, 1769, 157736, 13253, 7883, <<7647, 4375, 515>>, <<6838, 3125, 809>>, <<5286, 1944, 214>>)
  @@ "xhigh" :> Row(6991, 3036, 487, 5133, 3717, 0, 2371, 206553, 19018, 9158, <<7132, 3125, 441>>, <<7426, 2812, 956>>, <<6357, 3889, 214>>)
  @@ "max" :> Row(6726, 2946, 664, 4956, 3451, 0, 3111, 269878, 30744, 9082, <<7132, 3438, 735>>, <<6985, 2500, 956>>, <<5714, 3056, 500>>)

Opus5Rows ==
     "low" :> Row(5774, 2768, 668, 3097, 5398, 0, 933, 80867, 2899, 6594, <<6838, 5000, 441>>, <<5441, 3125, 1250>>, <<5357, 2222, 511>>)
  @@ "medium" :> Row(6814, 3304, 446, 4867, 4071, 0, 1464, 136395, 4856, 7895, <<7794, 5312, 221>>, <<6838, 5312, 815>>, <<5929, 2500, 438>>)
  @@ "high" :> Row(7235, 3839, 489, 5044, 3717, 0, 1833, 195478, 8421, 9222, <<8162, 7188, 294>>, <<7059, 4688, 1176>>, <<6429, 3056, 145>>)
  @@ "xhigh" :> Row(7251, 3839, 470, 5133, 3451, 0, 2395, 251671, 12544, 9707, <<8593, 6250, 222>>, <<7059, 4375, 1119>>, <<6071, 2500, 217>>)
  @@ "max" :> Row(7283, 3839, 517, 5487, 3363, 0, 2716, 292421, 16263, 9911, <<8060, 6250, 224>>, <<7426, 3750, 1194>>, <<6331, 3611, 292>>)

Gemini36Rows ==
     "high" :> Row(4845, 1786, 1131, 2212, 5398, 88, 1923, 278035, 7307, 3572, <<5809, 5000, 956>>, <<4118, 938, 1691>>, <<4857, 1389, 719>>)

LunaRows ==
     "low" :> Row(155, 0, 2765, 0, 442, 0, 130, 22783, 4675, 0, <<147, 0, 1985>>, <<0, 0, 3676>>, <<357, 0, 2714>>)
  @@ "medium" :> Row(1128, 179, 2345, 177, 2566, 0, 308, 50487, 1917, 517, <<1544, 625, 2059>>, <<588, 312, 3162>>, <<1571, 0, 2000>>)
  @@ "high" :> Row(4425, 1875, 907, 1593, 5929, 0, 765, 141595, 1758, 3393, <<5147, 1875, 662>>, <<4265, 1562, 1618>>, <<4357, 1944, 500>>)
  @@ "xhigh" :> Row(5686, 2589, 619, 2832, 5044, 0, 1197, 220033, 2701, 5293, <<6471, 1875, 368>>, <<6176, 3125, 956>>, <<4857, 3056, 429>>)
  @@ "max" :> Row(6719, 4464, 513, 3750, 5268, 0, 1823, 323620, 4507, 7056, <<7868, 5312, 294>>, <<6544, 2500, 956>>, <<5956, 4444, 294>>)

SolRows ==
     "low" :> Row(4535, 893, 951, 1947, 5221, 0, 458, 65054, 2369, 2793, <<5515, 625, 588>>, <<3824, 1250, 1544>>, <<4929, 556, 786>>)
  @@ "medium" :> Row(6106, 2143, 619, 3628, 4425, 0, 732, 104459, 3049, 6378, <<6544, 1875, 294>>, <<6103, 1250, 1176>>, <<5857, 1667, 357>>)
  @@ "high" :> Row(6925, 3393, 466, 4867, 3805, 0, 932, 150938, 5007, 7991, <<7500, 3750, 368>>, <<6912, 1875, 1037>>, <<6571, 2222, 143>>)
  @@ "xhigh" :> Row(7058, 3393, 599, 5221, 3363, 0, 1295, 201252, 6670, 8559, <<7721, 4062, 368>>, <<7500, 2500, 1176>>, <<6214, 1944, 288>>)
  @@ "max" :> Row(7235, 3839, 667, 5398, 3186, 0, 1739, 267865, 11570, 9408, <<7868, 3125, 515>>, <<7426, 2812, 1119>>, <<6571, 3056, 286>>)

TerraRows ==
     "low" :> Row(2405, 804, 1537, 619, 3805, 0, 286, 49031, 1778, 523, <<2794, 0, 1544>>, <<2444, 1935, 1926>>, <<2302, 278, 1295>>)
  @@ "medium" :> Row(3511, 991, 1467, 1239, 4779, 0, 374, 63942, 1661, 1633, <<3235, 312, 1397>>, <<3481, 312, 1778>>, <<4214, 1389, 1286>>)
  @@ "high" :> Row(5376, 2143, 929, 2212, 5841, 0, 591, 104217, 2110, 4298, <<6471, 2812, 441>>, <<4632, 938, 1765>>, <<5571, 2500, 643>>)
  @@ "xhigh" :> Row(6018, 2321, 863, 3628, 4425, 0, 880, 168148, 3535, 6084, <<6471, 1875, 588>>, <<5588, 1250, 1544>>, <<6214, 2778, 429>>)
  @@ "max" :> Row(6962, 3750, 687, 4956, 3894, 0, 1484, 266934, 7104, 8465, <<7721, 4062, 368>>, <<6838, 2500, 1176>>, <<6547, 3333, 360>>)

EVIDENCE_PRIOR_ROWS ==
     "claude-fable-5"   :> FableRows    @@ "claude-opus-5" :> Opus5Rows
  @@ "gemini-3.6-flash" :> Gemini36Rows @@ "gpt-5.6-luna"  :> LunaRows
  @@ "gpt-5.6-sol"      :> SolRows      @@ "gpt-5.6-terra" :> TerraRows

(* A current release that inherits the rows of an older one: the list      *)
(* rates, in cents per million tokens <<input, cache read, output>>, of the*)
(* source and of the release, and the tokens the source was measured to    *)
(* spend, in hundreds of thousands, in the same order.                     *)
SolMix ==
     "low"   :> <<411, 2712, 48>>    @@ "medium" :> <<555, 6251, 83>>
  @@ "high"  :> <<1257, 10991, 129>> @@ "xhigh"  :> <<1320, 17956, 184>>
  @@ "max"   :> <<2202, 33444, 271>>

GENERATION_PROXIES ==
  "gpt-6-luna" :>
      [ source |-> "gpt-5.6-luna", sourceRates |-> <<20, 2, 120>>,
        rates |-> <<10, 1, 50>>,
        mix |->    "low"  :> <<194, 484, 14>> @@ "medium" :> <<530, 2263, 37>>
                @@ "high" :> <<1432, 13811, 117>>
                @@ "xhigh" :> <<2325, 32075, 202>>
                @@ "max"  :> <<3480, 65708, 329>> ]
  @@ "gpt-6-sol" :>
      [ source |-> "gpt-5.6-sol", sourceRates |-> <<400, 40, 2000>>,
        rates |-> <<200, 20, 1000>>, mix |-> SolMix ]
  @@ "gpt-6.1-sol" :>
      [ source |-> "gpt-5.6-sol", sourceRates |-> <<400, 40, 2000>>,
        rates |-> <<200, 10, 1000>>, mix |-> SolMix ]
  @@ "claude-opus-5-5" :>
      [ source |-> "claude-opus-5", sourceRates |-> <<500, 50, 2500>>,
        rates |-> <<400, 20, 2000>>,
        mix |->    "low"  :> <<303, 6825, 90>> @@ "medium" :> <<455, 15841, 168>>
                @@ "high" :> <<675, 32131, 291>>
                @@ "xhigh" :> <<893, 50181, 414>>
                @@ "max"  :> <<1085, 66370, 529>> ]

priceTokenMix(mix, rates) ==
    (mix[1] * rates[1] + mix[2] * rates[2] + mix[3] * rates[3]) \div 10

(* In thousandths.                                                         *)
generationProxyCostRatio(proxy, effort) ==
    (1000 * priceTokenMix(proxy.mix[effort], proxy.rates))
        \div priceTokenMix(proxy.mix[effort], proxy.sourceRates)

generationProxyPrior(proxy, effort) ==
    LET source == EVIDENCE_PRIOR_ROWS[proxy.source][effort]
    IN  [source EXCEPT !.cost =
            (@ * generationProxyCostRatio(proxy, effort)) \div 1000]

(* Astra keeps Sol's regression and peak context, which its own source does*)
(* not measure.                                                            *)
ASTRA_HIGH_PRIOR ==
    LET proxy == SolRows["high"]
        Of(l, pass, hard) == <<pass, hard, proxy.byLanguage[l][3]>>
    IN  [proxy EXCEPT !.pass = 7323, !.hard = 3036, !.repeatAll = 6018,
                      !.flaky = 2212, !.overflow = 0, !.p90Wall = 1464,
                      !.cost = 5358, !.consensus = 9528,
                      !.byLanguage =
                             "go" :> Of("go", 7647, 3438)
                          @@ "python" :> Of("python", 7794, 3438)
                          @@ "typescript" :> Of("typescript", 6357, 1750)]

(* A table of one model's rows; the effort is looked up in its domain.     *)
priorsOf(m) ==
    CASE m = "gpt-6-astra" -> "high" :> ASTRA_HIGH_PRIOR
      [] m \in DOMAIN GENERATION_PROXIES ->
            LET proxy == GENERATION_PROXIES[m]
            IN  [e \in DOMAIN proxy.mix |-> generationProxyPrior(proxy, e)]
      [] m \in DOMAIN EVIDENCE_PRIOR_ROWS -> EVIDENCE_PRIOR_ROWS[m]
      [] OTHER -> << >>

EVIDENCE_MODELS ==
    {"gpt-6-astra"} \cup DOMAIN GENERATION_PROXIES
        \cup {"claude-fable-5", "gemini-3.6-flash", "gpt-5.6-terra"}

Priors == [m \in EVIDENCE_MODELS |-> priorsOf(m)]

hasPrior(m, e) == m \in EVIDENCE_MODELS /\ e \in DOMAIN Priors[m]
findEvidencePrior(m, e) == Priors[m][e]

-----------------------------------------------------------------------------
(***************************************************************************)
(* Ability bands.  A band is read from the strongest source that knows the *)
(* model: a rollout row, a fresh consensus figure, a consensus-only band,  *)
(* and last a single-attempt submission, which is banded by the strongest  *)
(* anchor it matches and never above the cap.                              *)
(***************************************************************************)
abilityFromConsensus(c) ==
    1 + Cardinality({threshold \in {4500, 7500, 9000} : c >= threshold})

FRESH_CONSENSUS_BEST ==
    <<"gemini-3.8-flash", "medium">> :> 8103
      @@ <<"gemini-3.8-flash", "high">> :> 9355

CONSENSUS_ONLY_ABILITY ==
       "claude-haiku-4-5" :> 1 @@ "claude-opus-4-6" :> 2
    @@ "gemini-2.5-pro" :> 1   @@ "gemini-2.5-flash" :> 1
    @@ "gpt-oss-120b" :> 1

(* Verified resolve rates, in thousandths: the anchors the router bands    *)
(* from another source, and the scoped candidates that have no other.      *)
SINGLE_ATTEMPT_ANCHORS ==
    "claude-haiku-4-5" :> 666 @@ "claude-opus-4-6" :> 756
      @@ "gpt-oss-120b" :> 260
SINGLE_ATTEMPT_SCOPED ==
    "kimi-k2-thinking" :> 634 @@ "kimi-k2.5" :> 708 @@ "minimax-m2.5" :> 758
SINGLE_ATTEMPT_ABILITY_CAP == 2

abilityFromSingleAttempt(rate) ==
    LET matched == {a \in DOMAIN SINGLE_ATTEMPT_ANCHORS :
                        rate >= SINGLE_ATTEMPT_ANCHORS[a]}
        band == Max({1} \cup {CONSENSUS_ONLY_ABILITY[a] : a \in matched})
    IN  Min({band, SINGLE_ATTEMPT_ABILITY_CAP})

(* 0 stands for undefined: nothing bands the configuration.                *)
evidenceAbility(m, e) ==
    CASE hasPrior(m, e) -> abilityFromConsensus(findEvidencePrior(m, e).consensus)
      [] <<m, e>> \in DOMAIN FRESH_CONSENSUS_BEST ->
            abilityFromConsensus(FRESH_CONSENSUS_BEST[<<m, e>>])
      [] m \in DOMAIN CONSENSUS_ONLY_ABILITY -> CONSENSUS_ONLY_ABILITY[m]
      [] m \in DOMAIN SINGLE_ATTEMPT_SCOPED ->
            abilityFromSingleAttempt(SINGLE_ATTEMPT_SCOPED[m])
      [] OTHER -> 0

-----------------------------------------------------------------------------
(***************************************************************************)
(* What each recognised language is allowed to change (LANGUAGE_EVIDENCE): *)
(* whether its own pass rates replace the corpus's, which vendor it leans  *)
(* to in a near-tie and how near, in hundredths, a tie is.                 *)
(***************************************************************************)
LANGUAGE_EVIDENCE ==
       "go"         :> [substitutes |-> TRUE, tendency |-> "anthropic",
                        nearTie |-> 5, confidence |-> "measured"]
    @@ "python"     :> [substitutes |-> TRUE, tendency |-> None,
                        nearTie |-> 5, confidence |-> "measured"]
    @@ "typescript" :> [substitutes |-> FALSE, tendency |-> None,
                        nearTie |-> 5, confidence |-> "measured"]
    @@ "ruby"       :> [substitutes |-> FALSE, tendency |-> "anthropic",
                        nearTie |-> 8, confidence |-> "low_power"]
    @@ "kotlin"     :> [substitutes |-> FALSE, tendency |-> None,
                        nearTie |-> 5, confidence |-> "none"]

(* A repository in exactly one recognised language has one; any other has  *)
(* none.                                                                   *)
resolveEvidenceLanguage(buckets) ==
    LET recognised == buckets \cap DOMAIN LANGUAGE_EVIDENCE
    IN  IF Cardinality(recognised) = 1 THEN CHOOSE l \in recognised : TRUE
                                       ELSE None

EFFORT_RANK ==
    "off" :> 0 @@ "minimal" :> 1 @@ "low" :> 2 @@ "medium" :> 3
      @@ "high" :> 4 @@ "xhigh" :> 5 @@ "max" :> 6
effortRank(e) == EFFORT_RANK[e]

(* Per model: the effort above which quality is flat, the efforts measured *)
(* worse than a cheaper one, the least effort that may change state, and   *)
(* the ceilings of a language.                                             *)
EFFORT_POLICIES ==
    LET Saturates(e) == [saturation |-> e, excluded |-> {}, minimum |-> "off",
                         ceilings |-> << >>]
    IN     "gpt-6-astra" :> Saturates("high")
        @@ "claude-opus-5-5" :> [Saturates("high") EXCEPT
                                    !.ceilings = "typescript" :> "high"]
        @@ "gpt-6.1-sol" :> Saturates("high")
        @@ "gpt-6-sol" :> Saturates("high")
        @@ "gpt-5.6-terra" :> [Saturates("max") EXCEPT !.minimum = "high"]
        @@ "gpt-6-luna" :> [Saturates("max") EXCEPT !.minimum = "high"]
        @@ "claude-fable-5" :> [Saturates("xhigh") EXCEPT !.excluded = {"max"}]
        @@ "claude-sonnet-5" :> [Saturates("high") EXCEPT
                                    !.excluded = {"xhigh", "max"}]

DISQUALIFIED_MODELS ==
    {"gemini-3.1-pro-preview", "gemini-3.5-flash", "claude-opus-4-8",
     "gpt-5.5", "gpt-5.4"}

CONSEQUENCE_TIERS == <<"read_only", "reversible", "irreversible">>
consequenceRank(tier) ==
    CHOOSE i \in 1..3 : CONSEQUENCE_TIERS[i] = tier
CONSEQUENCE_ABILITY_FLOOR ==
    "read_only" :> 1 @@ "reversible" :> 1 @@ "irreversible" :> 2

(* Whether the evidence lets the model run at the effort: every refusal of *)
(* the code is a conjunct, and which one is reported is left out.          *)
authorizeEffort(m, e, allowSuperSaturation, consequence, language) ==
    LET ability == evidenceAbility(m, e)
    IN  /\ m \notin DISQUALIFIED_MODELS
        /\ ability # 0 => ability >= CONSEQUENCE_ABILITY_FLOOR[consequence]
        /\ m \in DOMAIN EFFORT_POLICIES =>
             LET policy == EFFORT_POLICIES[m]
             IN  /\ e \notin policy.excluded
                 /\ consequenceRank(consequence) >= consequenceRank("reversible")
                       => effortRank(e) >= effortRank(policy.minimum)
                 /\ language \in DOMAIN policy.ceilings
                       => effortRank(e) <= effortRank(policy.ceilings[language])
                 /\ \/ allowSuperSaturation
                    \/ effortRank(e) <= effortRank(policy.saturation)

(* What a row measured of one language: pass, hard pass, regression.        *)
evidenceLanguagePrior(row, language) ==
    IF language \in DOMAIN row.byLanguage THEN row.byLanguage[language] ELSE << >>

(* Expected cost to done of one row, in thousandths of a dollar, under the *)
(* default evidence weights.  context.discount is in hundredths.           *)
scoreEvidencePrior(row, context) ==
    LET own == evidenceLanguagePrior(row, context.language)
        measured == own # << >>
        substitutes == measured /\ LANGUAGE_EVIDENCE[context.language].substitutes
        pass == IF context.hardTask THEN IF substitutes THEN own[2] ELSE row.hard
                                    ELSE IF substitutes THEN own[1] ELSE row.pass
        regression == IF measured THEN own[3] ELSE row.regression
        attemptCost == (row.cost * row.pass) \div 10000
        developerWaitCost == context.waitMultiplier * row.p90Wall
        humanInterventionCost == (25 * (10000 - pass)) \div 10
        retryCost == row.flaky
        regressionBreakCost ==
            IF consequenceRank(context.consequence) >= consequenceRank("reversible")
            THEN (4 * regression * context.discount) \div 100 ELSE 0
        nondeterminismCost ==
            IF context.unattended THEN (3 * (10000 - row.repeatAll)) \div 2 ELSE 0
    IN  attemptCost + developerWaitCost + humanInterventionCost + retryCost
            + regressionBreakCost + nondeterminismCost
=============================================================================
