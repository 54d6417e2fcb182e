SPECIFICATION Spec
CONSTANTS
    Root = root
    ordinary = ordinary
    immune = immune
    stuck = stuck
    Descendants <- ThreeDescendants
    Immune <- TwoImmune
    Stuck <- OneStuck
INVARIANTS
    DoneMeansDead
    StalePidsSpared
PROPERTIES
    TerminationResolves
    OwnedGroupDies
CHECK_DEADLOCK FALSE
