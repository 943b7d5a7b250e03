CONSTANTS
    Functions <- Program
    Entrypoints <- Mains
    PossibleCalls <- Calls
    PossibleDispatch <- Dispatch
    PossibleFlows <- Flows
    Targets = {"t"}
    Modes = {"all", "predicates", "rta"}
    MaxIterations = 2
SPECIFICATION Spec
INVARIANTS
    ConvergedIsComplete
    PathIsShortest
PROPERTIES
    AnalysisEnds
CHECK_DEADLOCK FALSE
