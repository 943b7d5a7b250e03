SPECIFICATION FairSpec
CONSTANTS
    Keys <- MCKeys
    MaxStep <- MCMaxStep
    Paths <- MCPaths
    Roots = {"r1", "r2"}
    MaxLifts = 2
    SharedKeys <- MCSharedKeys
    PlanOutcomes <- MCPlanOutcomes
    RecoveryOutcomes <- MCRecoveryOutcomes
INVARIANTS
    RefusalsNamed
    DemotionsFollowRanking
    NoParentOfAdapterLeaf
    BudgetKeepsEvidence
PROPERTIES
    CachedVerdictPreserved
    LiftEnds
    SelectionSpec
CHECK_DEADLOCK FALSE
