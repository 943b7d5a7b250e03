SPECIFICATION CutSpec
CONSTANTS
    Artifacts = {server, deployment}
    server = server
    deployment = deployment
    MaxAttempts = 3
INVARIANTS
    SuccessRoutesCallers
    FailedPatchRestores
    BreaksOnlyInKnownWays
    ManifestMatchesTree
CHECK_DEADLOCK FALSE
