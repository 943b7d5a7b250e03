SPECIFICATION Spec
CONSTANTS
    Calls = {c1}
    HistoryLimit = 1
    MaxCrashes = 1
INVARIANTS
    FallbackSeesInput
CHECK_DEADLOCK FALSE
