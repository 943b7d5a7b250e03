SPECIFICATION Spec
CONSTANTS
    Inputs <- MCInputs
INVARIANTS
    PlanRuns
    PlanIsExact
    SuccessIsDeployable
