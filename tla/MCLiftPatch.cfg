SPECIFICATION PatchSpec
CONSTANTS
    Symbols = {s1, s2, s3}
    Packages = {p1, p2}
    s1 = s1
    s2 = s2
    s3 = s3
    p1 = p1
    p2 = p2
    MaxCalls = 3
INVARIANTS
    RegionSuccessIsComplete
    RecordIsBacked
CHECK_DEADLOCK FALSE
