SPECIFICATION FairChatSpec
CONSTANTS
    c1 = c1
    c2 = c2
    c3 = c3
    Callers <- ThreeCallers
    FailureThreshold = 2
    RecoveryTimeout = 2
    HalfOpenMaxCalls = 1
    MaxFailures = 3
    MaxAttempts = 2
INVARIANTS
    ChatTypeOK
    ClosedIffBelowThreshold
    ProbesBounded
    HalfOpenHasCallOut
    OpenTraffic
PROPERTIES
    ProbeOnlyAfterQuiet
    HalfOpenResolves
    ChatEnds
    ImplementsBreaker
