SPECIFICATION FlowSpec
CONSTANTS
    Inputs <- MCInputs
    MaxRounds = 2
INVARIANTS
    CallbacksAreFound
    MapStoresAreExact
CHECK_DEADLOCK FALSE
