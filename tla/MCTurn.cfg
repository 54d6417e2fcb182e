CONSTANTS
    Registries <- MCRegistries
    Sampled <- MCSampled
    Leases <- MCLeases
    FreshAnswers <- MCFreshAnswers
    SameAnswers <- MCSameAnswers
    Caches <- MCCaches
    Situations <- MCSituations
SPECIFICATION Spec
CHECK_DEADLOCK FALSE
INVARIANTS
    ConsequenceOnlyNarrows
    FreshRouteIsLeaseEligible
    ModelExhaustedFirst
    LeaderIsNearBest
    ReviewersAreIndependent
    SecondOpinionIsIndependent
PROPERTY TurnEnds
