CONSTANTS
    Callers = {"c1", "c2"}
    Workers = {"w1", "w2"}
    Users = {"ann", "bob", "cy"}
    Posts = {1, 2}
    Scenarios <- MCScenarios
    Friends <- MCFriends
    Clients = {"dapr", "redis"}
    BufferSize = 1
    MaxRetries = 2
    MaxTimelineSize = 2
    MaxFollows = 2
    MaxFaults = 1
    Missing = Missing
SPECIFICATION Spec
INVARIANTS
    AcceptedSurvives
    FollowsMatch
    DeletedLeavesTimeline
    DeletedIsNotServed
PROPERTY
    RequestsReturn
CHECK_DEADLOCK FALSE
