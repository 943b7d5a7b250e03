SPECIFICATION Spec
CONSTANTS
    Inputs <- MCInputs
    MaxVisited = 4
INVARIANTS
    SeedsAreComplete
    StopsAreEarned
    SkipsAreExplained
    FlowIsExact
