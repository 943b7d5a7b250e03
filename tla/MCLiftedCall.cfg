SPECIFICATION FairSpec
CONSTANTS
    Calls = {c1, c2}
    HistoryLimit = 1
    MaxCrashes = 1
INVARIANTS
    AtMostOnceClosed
    AnswersAreEarned
PROPERTIES
    CallsReturn
CHECK_DEADLOCK FALSE
