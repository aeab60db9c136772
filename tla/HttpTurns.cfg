SPECIFICATION FairSpec
CONSTANTS
    BadPayload = BadPayload
    Hosts = {granted, other}
    BadUrl = BadUrl
    AllowedHosts = {granted}
    Null = Null
    k1 = k1
    s1 = s1
    granted = granted
    other = other
    States = {s1}
    Keys = {k1}
    Sizes = {2}
    ClockModes = {"deny", "record"}
    Responses <- MCResponses
    EffectLists <- MCEffectLists
    MaxEffectSteps = 3
    MaxEffectResultsBytes = 3
    Modes = {"canary", "listen"}
    MaxLines = 2
INVARIANTS
    TraceChained
    KvJustified
    NondeterminismHonest
    FailureReported
PROPERTIES
    ImplementsContract
    ReportedUnlessPeerStalls
