SPECIFICATION LCSpec
CONSTANTS
    s1 = s1
    s2 = s2
    domain = domain
    route = route
    a = a
    b = b
    NoSpec = NoSpec
    Unreachable = Unreachable
    Listeners = {1, 2}
    Streams = {s1, s2}
    MaxReloads = 2
    Configs <- MCConfigs
    Documents <- MCDocuments
INVARIANTS
    EnginesServeStreams
    RefreshersOwned
    
PROPERTIES
    Exits
CHECK_DEADLOCK FALSE
