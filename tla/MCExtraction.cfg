SPECIFICATION Spec
CONSTANTS
    NoBody = NoBody
    MethodThreshold = 2
    Inputs <- TheInputs
INVARIANTS
    ClosureIsExact
    SeamsAreExact
    AssignedIsNeverReplicated
    ActorIsBacked
